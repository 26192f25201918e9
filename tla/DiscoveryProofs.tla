-------------------------- MODULE DiscoveryProofs --------------------------
(* Proofs that a lookup adopts only fresh records of the other peer, for      *)
(* epochs, clock skews, endpoints and histories of any size, and that the     *)
(* slots of the two sides overlap whenever their clocks are close enough.     *)
EXTENDS Discovery, SequenceTheorems, TLAPS

\* What the proofs need of the constants.
LEMMA Lengths == Epoch \in Nat \ {0} /\ MaxSkew \in Nat /\ Start \in Nat
BY DiscoveryConstants

USE Lengths

\* What a publisher writes and a reader asks for share a slot as long as the
\* reader's clock is at most an epoch behind the publisher's and less than two
\* ahead: publish_slots covers the current and the next epoch, lookup_slots one
\* on either side of its own.
THEOREM SlotsMeet ==
  ASSUME NEW d, NEW t \in Nat, NEW u \in Nat, t <= u + Epoch, u < t + 2 * Epoch
  PROVE  \E i \in 1..2, j \in 1..3 : publish_slots(d, t)[i] = lookup_slots(d, u)[j]
<1> DEFINE et == epoch_at(t)
           eu == epoch_at(u)
<1>1. /\ et \in Nat /\ eu \in Nat
      /\ et * Epoch <= t /\ t < (et + 1) * Epoch
      /\ eu * Epoch <= u /\ u < (eu + 1) * Epoch
  BY DEF epoch_at
<1> HIDE DEF et, eu
<1>2. et * Epoch < (eu + 2) * Epoch /\ eu * Epoch < (et + 3) * Epoch
  BY <1>1
<1>3. et < eu + 2 /\ eu < et + 3
  BY <1>1, <1>2
<1>4. et \in {eu + 1, eu, eu - 1, eu - 2}
  BY <1>1, <1>3
<1> QED
  BY <1>1, <1>4 DEF publish_slots, lookup_slots, et, eu

-----------------------------------------------------------------------------
(* The inductive invariant.                                                 *)

\* A record as Record makes it: its sequence number is its maker's clock, at most
\* MaxSkew ahead of the real time, and its expiry follows from the number.
Genuine ==
    {r \in [seq : Int, notAfter : Int, at : Int, by : Peers] :
        /\ r.notAfter = r.seq + DefaultTTL
        /\ r.seq <= r.at + MaxSkew}

Dirs == {"LowToHigh", "HighToLow"}
Slot == [dir : Dirs, epoch : Int]

\* A sealed record lies in a slot of its maker's direction.
Sealed == {e \in [slot : Slot, rec : Genuine] : e.slot.dir = Publishing(e.rec.by)}

PubFields == {"rec", "slots", "sub", "next"}
LkFields == {"time", "began", "slots", "sub", "left", "next", "best", "due"}

PubInv(p, w) ==
    /\ DOMAIN w = PubFields
    /\ w.rec \in Genuine /\ w.rec.by = p
    /\ Len(w.slots) = 2 /\ w.next \in 1..2
    /\ \A i \in 1..2 : w.slots[i] \in Slot /\ w.slots[i].dir = Publishing(p)

\* The best record so far is the other peer's and had not expired at the time the
\* lookup began with.
BestInv(p, best, time) ==
    best # None => best \in Genuine /\ best.by = Other(p) /\ time < best.notAfter

LkInv(p, q, t) ==
    /\ DOMAIN q = LkFields
    /\ q.time \in Int /\ q.began \in Int
    /\ q.began <= q.time + MaxSkew
    /\ t <= q.began + 1
    /\ Len(q.slots) = 3 /\ q.next \in 1..3
    /\ q.sub \in Substrates /\ q.left \subseteq Substrates
    /\ \A i \in 1..3 : q.slots[i].dir = Publishing(Other(p))
    /\ BestInv(p, q.best, q.time)

ClockInv ==
    /\ now \in Int
    /\ skew \in [Peers -> Int]
    /\ \A p \in Peers : -MaxSkew <= skew[p] /\ skew[p] <= MaxSkew

\* The parts of the invariant a step can disturb, of the value each variable has.
PubsInv(pp) == DOMAIN pp = Peers /\ \A p \in Peers : pp[p] # None => PubInv(p, pp[p])
LksInv(ll, t) == DOMAIN ll = Peers /\ \A p \in Peers : ll[p] # None => LkInv(p, ll[p], t)
KnownInv(kk) == DOMAIN kk = Peers /\ \A p \in Peers : kk[p] # None => kk[p].by = Other(p)

IInv ==
    /\ ClockInv
    /\ store \in [Substrates -> Seq(Sealed)]
    /\ PubsInv(pub)
    /\ LksInv(lk, now)
    /\ KnownInv(lastKnown)

\* A record made by a peer now is genuine.
LEMMA RecordGenuine ==
  ASSUME ClockInv, NEW p \in Peers
  PROVE  /\ Clock(p) \in Int
         /\ now <= Clock(p) + MaxSkew
         /\ Record(p, Clock(p)) \in Genuine
         /\ Record(p, Clock(p)).by = p
<1>1. /\ Clock(p) \in Int
      /\ Clock(p) <= now + MaxSkew
      /\ now <= Clock(p) + MaxSkew
  BY DEF ClockInv, Clock
<1>2. DefaultTTL \in Int
  BY DEF DefaultTTL
<1> QED
  BY <1>1, <1>2 DEF Record, Genuine, ClockInv

\* The slots a peer publishes in and looks in are those of one direction.
LEMMA SlotsOfDirection ==
  ASSUME NEW d \in Dirs, NEW t \in Int
  PROVE  /\ Len(publish_slots(d, t)) = 2
         /\ publish_slots(d, t) \in Seq(Slot)
         /\ \A i \in 1..2 : publish_slots(d, t)[i] \in Slot /\ publish_slots(d, t)[i].dir = d
         /\ Len(lookup_slots(d, t)) = 3
         /\ lookup_slots(d, t) \in Seq(Slot)
         /\ \A i \in 1..3 : lookup_slots(d, t)[i].dir = d
<1>1. epoch_at(t) \in Int
  BY DEF epoch_at
<1>2. \A e \in Int : slot(d, e) \in Slot /\ slot(d, e).dir = d
  BY DEF slot, Slot
<1> QED
  BY <1>1, <1>2 DEF publish_slots, lookup_slots

LEMMA PublishingDir ==
  ASSUME NEW p \in Peers
  PROVE  /\ Publishing(p) \in Dirs
         /\ Other(p) \in Peers
         /\ Flip(Publishing(p)) = Publishing(Other(p))
         /\ \A q \in Peers : Publishing(q) = Publishing(Other(p)) => q = Other(p)
BY DEF Publishing, Flip, Other, Peers, Dirs

\* A genuine record of a slot, sealed, is a sealed record.
LEMMA SealType ==
  ASSUME NEW r \in Genuine, NEW sl \in Slot, sl.dir = Publishing(r.by)
  PROVE  seal(sl, r) \in Sealed
BY DEF seal, Sealed

\* Moving a lookup on changes neither its time nor its slots.
LEMMA QueryMoved ==
  ASSUME NEW p \in Peers, NEW t \in Int, NEW q, LkInv(p, q, t), NEW r,
         DOMAIN r = LkFields, r.next \in 1..3,
         r.sub \in Substrates, r.left \subseteq Substrates,
         r.time = q.time, r.began = q.began, r.slots = q.slots,
         BestInv(p, r.best, q.time)
  PROVE  LkInv(p, r, t)
BY DEF LkInv

\* A genuine record that had not expired at the reader's clock is at most its
\* lifetime and twice the skew old a tick later.
LEMMA FreshEnough ==
  ASSUME NEW r \in Genuine, NEW time \in Int, NEW began \in Int, NEW t \in Int,
         began <= time + MaxSkew, t <= began + 1, time < r.notAfter
  PROVE  t - r.at <= DefaultTTL + 2 * MaxSkew
<1>1. /\ r.at \in Int /\ r.seq \in Int /\ r.notAfter \in Int
      /\ r.notAfter = r.seq + DefaultTTL /\ r.seq <= r.at + MaxSkew
  BY DEF Genuine
<1>2. DefaultTTL \in Int
  BY DEF DefaultTTL
<1> QED
  BY <1>1, <1>2

\* A lookup that goes on after a slot keeps the invariant, and what it adopts is the
\* other peer's and no older than its lifetime and twice the skew.
LEMMA ProceedStep ==
  ASSUME IInv, NEW p \in Peers, lk[p] # None,
         NEW best, NEW due,
         Proceed(p, best, due), BestInv(p, best, lk[p].time)
  PROVE  /\ LksInv(lk', now)
         /\ KnownInv(lastKnown')
         /\ \A q \in Peers : lastKnown'[q] # lastKnown[q] =>
               now - lastKnown'[q].at <= DefaultTTL + 2 * MaxSkew
<1> DEFINE q0 == [lk[p] EXCEPT !.best = best, !.due = due, !.next = @ + 1]
<1>1. LkInv(p, lk[p], now)
  BY DEF IInv, LksInv
<1>9. /\ Len(lk[p].slots) = 3 /\ lk[p].next \in 1..3 /\ now \in Int
      /\ lk[p].sub \in Substrates /\ lk[p].left \subseteq Substrates
      /\ DOMAIN lk[p] = LkFields
  BY <1>1 DEF LkInv, IInv, ClockInv
<1>10. /\ DOMAIN q0 = LkFields
       /\ q0.time = lk[p].time /\ q0.began = lk[p].began /\ q0.slots = lk[p].slots
       /\ q0.best = best /\ q0.left = lk[p].left /\ q0.next = lk[p].next + 1
       /\ q0.sub = lk[p].sub
  BY <1>9 DEF LkFields
<1>2. LksInv([lk EXCEPT ![p] = None], now)
  BY DEF IInv, LksInv
<1>3. ASSUME NEW q, LkInv(p, q, now)
      PROVE  LksInv([lk EXCEPT ![p] = q], now)
  BY <1>3 DEF IInv, LksInv
<1>4. KnownInv(lastKnown)
  BY DEF IInv
<1>5. CASE q0.next <= Len(q0.slots)
  <2>1. q0.next \in 1..3
    <3>1. q0.next = lk[p].next + 1 /\ q0.next <= 3 /\ lk[p].next \in 1..3
      <4> HIDE DEF q0
      <4> QED
        BY <1>5, <1>9, <1>10, Zenon
    <3> HIDE DEF q0
    <3> QED
      BY <3>1
  <2>3. LkInv(p, q0, now)
    <3> HIDE DEF q0
    <3> QED
      BY <2>1, <1>1, <1>9, <1>10, QueryMoved
  <2>2. lk' = [lk EXCEPT ![p] = q0] /\ lastKnown' = lastKnown
    BY <1>5 DEF Proceed
  <2> QED
    BY <2>2, <2>3, <1>3, <1>4, Zenon
<1>6. CASE ~(q0.next <= Len(q0.slots)) /\ best # None
  <2>1. lk' = [lk EXCEPT ![p] = None] /\ lastKnown' = [lastKnown EXCEPT ![p] = best]
    BY <1>6 DEF Proceed, absorb
  <2>2. best.by = Other(p)
    BY <1>6 DEF BestInv
  <2>3. KnownInv(lastKnown')
    BY <2>1, <2>2, <1>4 DEF KnownInv
  <2>4. now - best.at <= DefaultTTL + 2 * MaxSkew
    <3>1. /\ lk[p].time \in Int /\ lk[p].began \in Int
          /\ lk[p].began <= lk[p].time + MaxSkew /\ now <= lk[p].began + 1
      BY <1>1 DEF LkInv
    <3>2. best \in Genuine /\ lk[p].time < best.notAfter
      BY <1>6 DEF BestInv
    <3> QED
      BY <3>1, <3>2, <1>9, FreshEnough
  <2>5. \A q \in Peers : lastKnown'[q] # lastKnown[q] => lastKnown'[q] = best
    BY <2>1, <1>4 DEF KnownInv
  <2> QED
    BY <2>1, <2>3, <2>4, <2>5, <1>2
<1>7. CASE ~(q0.next <= Len(q0.slots)) /\ best = None /\ q0.left # {}
  <2>1. PICK s \in q0.left :
            lk' = [lk EXCEPT ![p] = [q0 EXCEPT !.sub = s, !.left = @ \ {s}, !.next = 1]]
    BY <1>7, Zenon DEF Proceed
  <2> DEFINE q1 == [q0 EXCEPT !.sub = s, !.left = @ \ {s}, !.next = 1]
  <2>4. /\ DOMAIN q1 = LkFields /\ q1.best = best /\ q1.next = 1
        /\ q1.sub = s /\ q1.left = q0.left \ {s}
        /\ q1.time = lk[p].time /\ q1.began = lk[p].began /\ q1.slots = lk[p].slots
    <3> HIDE DEF q0
    <3> QED
      BY <1>10 DEF LkFields
  <2>2. LkInv(p, q1, now)
    <3>1. q1.sub \in Substrates /\ q1.left \subseteq Substrates /\ q1.next \in 1..3
      BY <2>4, <1>9, <1>10
    <3> HIDE DEF q0, q1
    <3> QED
      BY <2>4, <3>1, <1>1, <1>9, QueryMoved
  <2>3. lastKnown' = lastKnown
    BY <1>7, Zenon DEF Proceed
  <2> QED
    BY <2>1, <2>2, <2>3, <1>3, <1>4, Zenon
<1>8. CASE ~(q0.next <= Len(q0.slots)) /\ best = None /\ q0.left = {}
  BY <1>8, <1>2, <1>4, Zenon DEF Proceed
<1> QED
  BY <1>5, <1>6, <1>7, <1>8

\* What a lookup takes from an endpoint is its best record or an entry that opened
\* under the slot it asked for, which only the other peer writes.
LEMMA BetterInv ==
  ASSUME IInv, NEW p \in Peers, lk[p] # None, NEW e \in Sealed
  PROVE  BestInv(p, Better(p, e), lk[p].time)
<1>1. LkInv(p, lk[p], now)
  BY DEF IInv, LksInv
<1>2. BestInv(p, lk[p].best, lk[p].time)
  BY <1>1 DEF LkInv
<1>3. ASSUME opens(e, lk[p].slots[lk[p].next], lk[p].time)
      PROVE  BestInv(p, e.rec, lk[p].time)
  <2>1. e.slot.dir = Publishing(Other(p))
    BY <1>1, <1>3 DEF LkInv, opens
  <2>2. e.rec \in Genuine /\ e.slot.dir = Publishing(e.rec.by)
    BY DEF Sealed
  <2>3. e.rec.by \in Peers /\ e.rec.notAfter \in Int /\ lk[p].time \in Int
    BY <2>2, <1>1 DEF Genuine, LkInv
  <2>4. e.rec.by = Other(p)
    BY <2>1, <2>2, <2>3, PublishingDir, Zenon
  <2>5. lk[p].time < e.rec.notAfter
    BY <1>3, <2>3 DEF opens, is_expired_at
  <2> QED
    BY <2>2, <2>4, <2>5 DEF BestInv
<1>4. Better(p, e) = lk[p].best \/ (/\ Better(p, e) = e.rec
                                    /\ opens(e, lk[p].slots[lk[p].next], lk[p].time))
  BY Zenon DEF Better
<1> QED
  BY <1>2, <1>3, <1>4, Zenon

\* Everything an endpoint can serve is a sealed record it received.
LEMMA ServedSealed ==
  ASSUME store \in [Substrates -> Seq(Sealed)], NEW s \in Substrates, NEW sl,
         NEW i \in Serves(s, sl)
  PROVE  store[s][i] \in Sealed
<1>1. i \in DOMAIN store[s]
  BY DEF Serves, Held
<1> QED
  BY <1>1

LEMMA InitInv == Init => IInv
<1> SUFFICES ASSUME Init PROVE IInv
  OBVIOUS
<1>1. ClockInv
  BY DEF Init, ClockInv, Peers
<1>2. store \in [Substrates -> Seq(Sealed)]
  <2> DEFINE t == Clock("high")
             sl == publish_slots(Publishing("high"), t)
             st == [i \in DOMAIN sl |-> seal(sl[i], Record("high", t))]
  <2>1. "high" \in Peers
    BY DEF Peers
  <2>2. /\ Record("high", t) \in Genuine /\ Record("high", t).by = "high"
        /\ Len(sl) = 2 /\ sl \in Seq(Slot)
        /\ \A i \in 1..2 : sl[i] \in Slot /\ sl[i].dir = Publishing("high")
    <3>1. t \in Int /\ Record("high", t) \in Genuine /\ Record("high", t).by = "high"
      BY <2>1, <1>1, RecordGenuine
    <3>2. Publishing("high") \in Dirs
      BY <2>1, PublishingDir
    <3> HIDE DEF t
    <3> QED
      BY <3>1, <3>2, SlotsOfDirection
  <2>3. \A i \in 1..2 : seal(sl[i], Record("high", t)) \in Sealed
    BY <2>2, SealType
  <2>4. DOMAIN sl = 1..2
    BY <2>2
  <2>5. st \in Seq(Sealed)
    <3> HIDE DEF sl, t
    <3> QED
      BY <2>3, <2>4
  <2>6. store = [s \in Substrates |-> st]
    BY DEF Init
  <2> QED
    BY <2>5, <2>6
<1>3. PubsInv(pub) /\ LksInv(lk, now)
  BY DEF Init, PubsInv, LksInv
<1>4. KnownInv(lastKnown)
  <2>1. PICK seen \in {None, Record("low", Clock("low"))} :
            lastKnown = [p \in Peers |-> IF p = "high" THEN seen ELSE None]
    BY DEF Init
  <2>2. seen # None => seen.by = "low"
    BY <2>1 DEF Record
  <2> QED
    BY <2>1, <2>2 DEF KnownInv, Other
<1> QED
  BY <1>1, <1>2, <1>3, <1>4 DEF IInv

\* A PUT appends a sealed record of its maker to one endpoint's list.
LEMMA PutSealed ==
  ASSUME IInv, NEW p \in Peers, pub[p] # None,
         store' = [store EXCEPT ![pub[p].sub] =
                      Append(@, seal(pub[p].slots[pub[p].next], pub[p].rec))]
  PROVE  store' \in [Substrates -> Seq(Sealed)]
<1>1. PubInv(p, pub[p])
  BY DEF IInv, PubsInv
<1> DEFINE e == seal(pub[p].slots[pub[p].next], pub[p].rec)
<1>2. e \in Sealed
  BY <1>1, SealType DEF PubInv
<1>3. store \in [Substrates -> Seq(Sealed)]
  BY DEF IInv
<1> DEFINE Q == Seq(Sealed)
           i == pub[p].sub
           v == Append(store[i], e)
<1> HIDE DEF e
<1>4. i \in Substrates => v \in Q
  <2> SUFFICES ASSUME i \in Substrates PROVE v \in Q
    OBVIOUS
  <2>1. store[i] \in Q
    BY <1>3
  <2> HIDE DEF i
  <2> QED
    BY <1>2, <2>1
<1>5. store' = [store EXCEPT ![i] = v] /\ store \in [Substrates -> Q]
  BY <1>3 DEF e
<1> HIDE DEF Q, i, v
<1>6. store' \in [Substrates -> Q]
  BY <1>4, <1>5, Zenon
<1> QED
  BY <1>6 DEF Q

\* Moving on to the next endpoint keeps the announcement what it is.
LEMMA AdvanceInv ==
  ASSUME IInv, NEW p \in Peers, pub[p] # None, NEW s, Advance(p, s)
  PROVE  PubsInv(pub')
<1> DEFINE w == [pub[p] EXCEPT !.sub = s, !.next = 1]
<1>1. PubsInv(pub) /\ PubInv(p, pub[p])
  BY DEF IInv, PubsInv
<1>2. PubInv(p, w)
  <2>1. DOMAIN pub[p] = PubFields
    BY <1>1 DEF PubInv
  <2>2. DOMAIN w = PubFields /\ w.rec = pub[p].rec /\ w.slots = pub[p].slots /\ w.next = 1
    BY <2>1 DEF PubFields
  <2>3. w.next \in 1..2
    BY <2>2
  <2> HIDE DEF w
  <2> QED
    BY <1>1, <2>2, <2>3, Zenon DEF PubInv
<1>3. pub' = [pub EXCEPT ![p] = IF s \in Substrates THEN w ELSE None]
  BY DEF Advance
<1> HIDE DEF w
<1> QED
  BY <1>1, <1>2, <1>3, Zenon DEF PubsInv

\* A new announcement and a new lookup start in the invariant.
LEMMA AnnounceInv ==
  ASSUME IInv, NEW p \in Peers, Announce(p)
  PROVE  PubsInv(pub')
<1> DEFINE r == Record(p, Clock(p))
           sl == publish_slots(Publishing(p), Clock(p))
           w == [rec |-> r, slots |-> sl, sub |-> 1, next |-> 1]
<1>1. Clock(p) \in Int /\ r \in Genuine /\ r.by = p
  BY RecordGenuine DEF IInv
<1>2. /\ Len(sl) = 2
      /\ \A i \in 1..2 : sl[i] \in Slot /\ sl[i].dir = Publishing(p)
  BY <1>1, PublishingDir, SlotsOfDirection, Zenon
<1>3. pub' = [pub EXCEPT ![p] = w]
  BY DEF Announce
<1> HIDE DEF r, sl
<1>4. PubInv(p, w)
  BY <1>1, <1>2 DEF PubInv, PubFields
<1>5. PubsInv(pub)
  BY DEF IInv
<1> HIDE DEF w
<1> QED
  BY <1>3, <1>4, <1>5, Zenon DEF PubsInv

LEMMA LookupInv ==
  ASSUME IInv, NEW p \in Peers, Lookup(p)
  PROVE  LksInv(lk', now)
<1> DEFINE sl == lookup_slots(Flip(Publishing(p)), Clock(p))
           q(s) == [time |-> Clock(p), began |-> now, slots |-> sl, sub |-> s,
                    left |-> Substrates \ {s}, next |-> 1, best |-> None,
                    due |-> Announced(p)]
<1>1. Clock(p) \in Int /\ now <= Clock(p) + MaxSkew /\ now \in Int
  BY RecordGenuine DEF IInv, ClockInv
<1>2. /\ Len(sl) = 3
      /\ \A i \in 1..3 : sl[i].dir = Publishing(Other(p))
  <2>1. Flip(Publishing(p)) \in Dirs /\ Flip(Publishing(p)) = Publishing(Other(p))
    BY PublishingDir DEF Flip, Dirs
  <2> QED
    BY <1>1, <2>1, SlotsOfDirection
<1>3. PICK s \in Substrates : lk' = [lk EXCEPT ![p] = q(s)]
  BY Zenon DEF Lookup
<1>4. LkInv(p, q(s), now)
  <2> HIDE DEF sl
  <2> DEFINE c == Clock(p)
             d == Announced(p)
  <2> HIDE DEF c, d
  <2>1. q(s) = [time |-> c, began |-> now, slots |-> sl, sub |-> s,
                left |-> Substrates \ {s}, next |-> 1, best |-> None, due |-> d]
    BY DEF c, d
  <2>2. c \in Int /\ now <= c + MaxSkew
    BY <1>1 DEF c
  <2> QED
    BY <1>1, <1>2, <2>1, <2>2 DEF LkInv, LkFields, BestInv
<1>5. LksInv(lk, now)
  BY DEF IInv
<1> HIDE DEF q
<1> QED
  BY <1>3, <1>4, <1>5, Zenon DEF LksInv

\* What a step may add to PeerState.last_known.
Fresh(t, kk, old) ==
    \A p \in Peers : kk[p] # old[p] => t - kk[p].at <= DefaultTTL + 2 * MaxSkew

\* Time moves on only while every lookup is at its first tick, so a lookup sees the
\* clock advance at most once.
LEMMA TickStep == ASSUME IInv, Tick PROVE IInv'
<1>1. now \in Int /\ now' = now + 1
  BY DEF IInv, ClockInv, Tick
<1>2. ClockInv'
  BY <1>1 DEF IInv, ClockInv, Tick
<1>3. LksInv(lk, now')
  <2> SUFFICES ASSUME NEW p \in Peers, lk[p] # None PROVE LkInv(p, lk[p], now')
    BY DEF IInv, LksInv
  <2>1. LkInv(p, lk[p], now) /\ lk[p].began = now
    BY DEF IInv, LksInv, Tick
  <2>2. now' <= lk[p].began + 1
    BY <1>1, <2>1
  <2> QED
    BY <2>1, <2>2, Zenon DEF LkInv
<1> QED
  BY <1>2, <1>3 DEF IInv, Tick

\* Every step keeps the invariant and adopts only fresh records.
LEMMA StepInv ==
  ASSUME IInv, [Next]_vars
  PROVE  IInv' /\ Fresh(now, lastKnown', lastKnown)
<1>1. CASE Tick
  BY <1>1, TickStep DEF Tick, Fresh
<1>2. ASSUME NEW p \in Peers, Adjust(p) PROVE IInv' /\ Fresh(now, lastKnown', lastKnown)
  <2>1. ClockInv'
    BY <1>2 DEF IInv, ClockInv, Adjust
  <2> QED
    BY <1>2, <2>1 DEF IInv, Adjust, Fresh
<1>3. ASSUME NEW p \in Peers, Announce(p) PROVE IInv' /\ Fresh(now, lastKnown', lastKnown)
  <2>1. ClockInv'
    BY <1>3 DEF IInv, ClockInv, Announce, world
  <2> QED
    BY <1>3, <2>1, AnnounceInv, Zenon DEF IInv, Announce, world, Fresh
<1>4. ASSUME NEW p \in Peers, Put(p) PROVE IInv' /\ Fresh(now, lastKnown', lastKnown)
  <2>1. ClockInv'
    BY <1>4 DEF IInv, ClockInv, Put, world
  <2>2. store' \in [Substrates -> Seq(Sealed)]
    BY <1>4, PutSealed, Zenon DEF Put
  <2>3. PubsInv(pub')
    <3>1. CASE pub[p].next < Len(pub[p].slots)
      <4> DEFINE w == [pub[p] EXCEPT !.next = @ + 1]
      <4>1. PubsInv(pub) /\ PubInv(p, pub[p])
        BY <1>4 DEF IInv, PubsInv, Put
      <4>2. pub' = [pub EXCEPT ![p] = w]
        BY <1>4, <3>1 DEF Put
      <4>3. DOMAIN w = PubFields /\ w.rec = pub[p].rec /\ w.slots = pub[p].slots
            /\ w.next = pub[p].next + 1
        BY <4>1 DEF PubInv, PubFields
      <4>4. pub[p].next \in 1..2 /\ pub[p].next < 2
        BY <3>1, <4>1 DEF PubInv
      <4> HIDE DEF w
      <4>5. w.next \in 1..2
        BY <4>3, <4>4
      <4>6. PubInv(p, w)
        BY <4>1, <4>3, <4>5, Zenon DEF PubInv
      <4> QED
        BY <4>1, <4>2, <4>6, Zenon DEF PubsInv
    <3>2. CASE ~(pub[p].next < Len(pub[p].slots))
      <4>1. Advance(p, pub[p].sub + 1) /\ pub[p] # None
        BY <1>4, <3>2 DEF Put
      <4> QED
        BY <4>1, AdvanceInv
    <3> QED
      BY <3>1, <3>2
  <2> QED
    BY <1>4, <2>1, <2>2, <2>3 DEF IInv, Put, world, Fresh
<1>5. ASSUME NEW p \in Peers, PutFails(p) PROVE IInv' /\ Fresh(now, lastKnown', lastKnown)
  <2>1. ClockInv'
    BY <1>5 DEF IInv, ClockInv, PutFails, world
  <2>2. store' \in [Substrates -> Seq(Sealed)]
    BY <1>5, PutSealed DEF PutFails, IInv
  <2>3. PubsInv(pub')
    BY <1>5, AdvanceInv DEF PutFails
  <2> QED
    BY <1>5, <2>1, <2>2, <2>3 DEF IInv, PutFails, world, Fresh
<1>6. ASSUME NEW p \in Peers, Lookup(p) PROVE IInv' /\ Fresh(now, lastKnown', lastKnown)
  <2>1. ClockInv'
    BY <1>6 DEF IInv, ClockInv, Lookup, world
  <2> QED
    BY <1>6, <2>1, LookupInv, Zenon DEF IInv, Lookup, world, Fresh
<1>7. ASSUME NEW p \in Peers, Get(p) PROVE IInv' /\ Fresh(now, lastKnown', lastKnown)
  <2>1. PICK best, due : /\ Proceed(p, best, due)
                         /\ BestInv(p, best, lk[p].time)
    <3>1. LkInv(p, lk[p], now) /\ lk[p] # None
      BY <1>7 DEF IInv, LksInv, Get
    <3>2. BestInv(p, lk[p].best, lk[p].time) /\ lk[p].sub \in Substrates
      BY <3>1 DEF LkInv
    <3>3. \A i \in Serves(lk[p].sub, lk[p].slots[lk[p].next]) :
             BestInv(p, Better(p, store[lk[p].sub][i]), lk[p].time)
      BY <3>1, <3>2, ServedSealed, BetterInv DEF IInv
    <3> QED
      BY <1>7, <3>2, <3>3 DEF Get
  <2>2. /\ LksInv(lk', now) /\ KnownInv(lastKnown')
        /\ Fresh(now, lastKnown', lastKnown)
    BY <1>7, <2>1, ProceedStep DEF Get, Fresh
  <2>3. ClockInv'
    BY <1>7 DEF IInv, ClockInv, Get, world
  <2> QED
    BY <1>7, <2>2, <2>3 DEF IInv, Get, world
<1>8. ASSUME NEW p \in Peers, GetFails(p) PROVE IInv' /\ Fresh(now, lastKnown', lastKnown)
  <2>1. BestInv(p, lk[p].best, lk[p].time) /\ lk[p] # None
    BY <1>8 DEF IInv, LksInv, LkInv, GetFails
  <2>2. /\ LksInv(lk', now) /\ KnownInv(lastKnown')
        /\ Fresh(now, lastKnown', lastKnown)
    BY <1>8, <2>1, ProceedStep DEF GetFails, Fresh
  <2>3. ClockInv'
    BY <1>8 DEF IInv, ClockInv, GetFails, world
  <2> QED
    BY <1>8, <2>2, <2>3 DEF IInv, GetFails, world
<1>9. CASE UNCHANGED vars
  BY <1>9 DEF vars, IInv, ClockInv, Fresh
<1> QED
  BY <1>1, <1>2, <1>3, <1>4, <1>5, <1>6, <1>7, <1>8, <1>9 DEF Next

\* Both ends publish under one secret; a lookup still never takes a record of the
\* peer's own for the other's, because slots carry a direction.
THEOREM OtherPeerOnly == Spec => []NeverOurOwn
<1>1. IInv => NeverOurOwn
  BY DEF IInv, KnownInv, NeverOurOwn
<1> QED
  BY <1>1, InitInv, StepInv, PTL DEF Spec

\* The record resolve hands to PeerState::absorb is at most DEFAULT_TTL and twice the
\* clock skew old, for any endpoint that replays and any setting of the clocks.
THEOREM OnlyFreshAdopted == Spec => AdoptsFresh
<1>1. IInv /\ [Next]_vars => [\A p \in Peers : lastKnown'[p] # lastKnown[p] =>
          now - lastKnown'[p].at <= DefaultTTL + 2 * MaxSkew]_vars
  BY StepInv DEF Fresh
<1> QED
  BY <1>1, InitInv, StepInv, PTL DEF Spec, AdoptsFresh

=============================================================================
