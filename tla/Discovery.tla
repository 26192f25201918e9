----------------------------- MODULE Discovery -----------------------------
(***************************************************************************)
(* Finding a paired peer again after its address changed: the slots of a    *)
(* rendezvous secret, the sealed address records, Discovery::publish and    *)
(* Discovery::resolve over the configured substrates, and reach::announce   *)
(* and PeerState::absorb at their two ends.                                 *)
(*                                                                         *)
(* Time is counted in ticks, Epoch of them to an epoch.  Every peer has a   *)
(* clock of its own that is off by at most MaxSkew and may be set while the *)
(* program runs.  Requests are separate steps, each of which may fail, and  *)
(* a failed PUT may have been applied.                                      *)
(***************************************************************************)
EXTENDS Integers, Sequences, FiniteSets

CONSTANTS
    Epoch,          \* ticks in EPOCH_SECS
    Substrates,     \* the configured endpoints, 1..n in the order of the list
    Replaying,      \* the endpoints that may serve anything they ever received
    Readers,        \* the peers that look the other one up
    Start,          \* the first tick
    MaxTime,        \* bound on the clock
    MaxSkew,        \* bound on how far a clock is off
    MaxAnnounces,   \* bound on the announcements in one behaviour
    MaxLookups,     \* bound on the lookups in one behaviour
    MaxMishaps      \* bound on failed requests and clock adjustments together

ASSUME DiscoveryConstants ==
    /\ Epoch \in Nat \ {0}
    /\ Substrates = 1..Cardinality(Substrates) /\ Substrates # {}
    /\ Replaying \subseteq Substrates
    /\ Start \in Nat /\ MaxTime \in Nat /\ MaxSkew \in 0..Start

Peers == {"low", "high"}
Other(p) == IF p = "low" THEN "high" ELSE "low"
None == [none |-> TRUE]

VARIABLES
    now,        \* real time
    skew,       \* how far each peer's clock is off
    store,      \* per endpoint the sealed records it received, oldest first
    pub,        \* the announcement a peer is making, or None
    report,     \* observation: per peer and endpoint the last announcement it acknowledged
    lk,         \* the lookup a peer is making, or None
    lastKnown,  \* the record PeerState.last_known comes from, or None
    newestSeen, \* PeerState.newest_seen of the other peer, -1 for None
    setBack,    \* observation: peers whose clock was set back
    missed,     \* observation: peers whose lookup failed though it should not
    budget      \* announcements, lookups and mishaps left

vars == <<now, skew, store, pub, report, lk, lastKnown, newestSeen, setBack,
          missed, budget>>
world == <<now, skew, setBack>>

Clock(p) == now + skew[p]

-----------------------------------------------------------------------------
(* secret.rs: epochs, directions and slots.                                 *)

epoch_at(t) == t \div Epoch
Publishing(p) == IF p = "low" THEN "LowToHigh" ELSE "HighToLow"
Unflipped(d) == d
Flip(d) == IF d = "LowToHigh" THEN "HighToLow" ELSE "LowToHigh"
slot(d, e) == [dir |-> d, epoch |-> e]

PublishNow(d, t) == <<slot(d, epoch_at(t))>>
publish_slots(d, t) == <<slot(d, epoch_at(t)), slot(d, epoch_at(t) + 1)>>

LookupForward(d, t) == <<slot(d, epoch_at(t)), slot(d, epoch_at(t)), slot(d, epoch_at(t) + 1)>>
lookup_slots(d, t) ==
    <<slot(d, IF epoch_at(t) = 0 THEN 0 ELSE epoch_at(t) - 1),
      slot(d, epoch_at(t)), slot(d, epoch_at(t) + 1)>>

-----------------------------------------------------------------------------
(* record.rs.  The sequence number is the publisher's clock.  The ghosts    *)
(* `at` and `by` say when and by whom the record was really made, and stand  *)
(* for the addresses in it.                                                 *)

DefaultTTL == 2 * Epoch
MaxTTL == 6 * Epoch
StoreTTL == 2 * Epoch

Record(p, t) == [seq |-> t, notAfter |-> t + DefaultTTL, at |-> now, by |-> p]

supersedes(r, seen) == seen = -1 \/ r.seq > seen
is_expired_at(r, t) == t >= r.notAfter

\* A sealed record is bound to its slot and opens only under it.
seal(sl, r) == [slot |-> sl, rec |-> r]
OpensUnexamined(entry, s, t) == entry.slot = s
opens(entry, s, t) ==
    /\ entry.slot = s
    /\ ~is_expired_at(entry.rec, t)
    /\ entry.rec.notAfter <= t + MaxTTL

-----------------------------------------------------------------------------
Init ==
    /\ now = Start
    /\ \E d \in {-MaxSkew, 0, MaxSkew} : skew = [p \in Peers |-> IF p = "low" THEN 0 ELSE d]
    /\ store = [s \in Substrates |->      \* the reader has announced itself before
          LET t == Clock("high")
              sl == publish_slots(Publishing("high"), t) IN
          [i \in DOMAIN sl |-> seal(sl[i], Record("high", t))]]
    /\ pub = [p \in Peers |-> None]
    /\ report = [p \in Peers |-> [s \in Substrates |-> None]]
    /\ lk = [p \in Peers |-> None]
    /\ \E seen \in {None, Record("low", Clock("low"))} :     \* and may have met the other
          /\ lastKnown = [p \in Peers |-> IF p = "high" THEN seen ELSE None]
          /\ newestSeen = [p \in Peers |-> IF lastKnown[p] = None THEN -1 ELSE lastKnown[p].seq]
    /\ setBack = {}
    /\ missed = {}
    /\ budget = [announces |-> MaxAnnounces, lookups |-> MaxLookups, mishaps |-> MaxMishaps]

Spend(k) == budget[k] > 0 /\ budget' = [budget EXCEPT ![k] = @ - 1]

\* Time passes.  A request is bounded by REQUEST_TIMEOUT, which is far below a
\* tick: an announcement or a lookup sees the clock advance at most once.
Tick ==
    /\ now < MaxTime
    /\ \A p \in Peers : /\ pub[p] # None => pub[p].rec.at = now
                        /\ lk[p] # None => lk[p].began = now
    /\ now' = now + 1
    /\ UNCHANGED <<skew, store, pub, report, lk, lastKnown, newestSeen, setBack,
                   missed, budget>>

\* The system clock of a peer is set.
Adjust(p) ==
    /\ Spend("mishaps")
    /\ \E d \in {-MaxSkew, 0, MaxSkew} :
          /\ d # skew[p]
          /\ skew' = [skew EXCEPT ![p] = d]
          /\ setBack' = IF d < skew[p] THEN setBack \cup {p} ELSE setBack
    /\ UNCHANGED <<now, store, pub, report, lk, lastKnown, newestSeen, missed>>

-----------------------------------------------------------------------------
(* reach::announce and Discovery::publish: every substrate, every slot.     *)

Announce(p) ==
    /\ p \notin Readers
    /\ pub[p] = None
    /\ Spend("announces")
    /\ pub' = [pub EXCEPT ![p] =
          [rec |-> Record(p, Clock(p)), slots |-> publish_slots(Publishing(p), Clock(p)),
           sub |-> 1, next |-> 1]]
    /\ UNCHANGED <<world, store, report, lk, lastKnown, newestSeen, missed>>

Advance(p, s) ==
    pub' = [pub EXCEPT ![p] = IF s \in Substrates THEN [@ EXCEPT !.sub = s, !.next = 1] ELSE None]

\* One PUT is acknowledged; after the last slot the endpoint has succeeded.
Put(p) ==
    LET w == pub[p] IN
    /\ w # None
    /\ store' = [store EXCEPT ![w.sub] =
                    Append(@, seal(w.slots[w.next], w.rec))]
    /\ IF w.next < Len(w.slots)
       THEN /\ pub' = [pub EXCEPT ![p].next = @ + 1]
            /\ UNCHANGED report
       ELSE /\ report' = [report EXCEPT ![p][w.sub] = w.rec]
            /\ Advance(p, w.sub + 1)
    /\ UNCHANGED <<world, lk, lastKnown, newestSeen, missed, budget>>

\* One PUT is refused, lost or times out, maybe after the endpoint applied it: the
\* remaining slots of that endpoint are skipped and the next one is tried.
PutFails(p) ==
    LET w == pub[p] IN
    /\ w # None
    /\ Spend("mishaps")
    /\ \/ UNCHANGED store
       \/ store' = [store EXCEPT ![w.sub] =
                       Append(@, seal(w.slots[w.next], w.rec))]
    /\ Advance(p, w.sub + 1)
    /\ UNCHANGED <<world, report, lk, lastKnown, newestSeen, missed>>

-----------------------------------------------------------------------------
(* The endpoint: a dumb store that replaces what a tag held and expires it.  *)

Held(s, sl) == {i \in DOMAIN store[s] : store[s][i].slot = sl}
Serves(s, sl) ==
    IF s \in Replaying THEN DOMAIN store[s]
    ELSE {i \in Held(s, sl) : /\ \A j \in Held(s, sl) : j <= i
                              /\ now < store[s][i].rec.at + StoreTTL}

\* What p was told can be found: the last announcement an honest endpoint
\* acknowledged, still held there, and within an epoch of the reader's clock.
Announced(p) ==
    {s \in Substrates \ Replaying :
        LET r == report[Other(p)][s] IN
        /\ r # None
        /\ now < r.at + StoreTTL - 1
        /\ ~is_expired_at(r, Clock(p))
        /\ r.seq - Epoch <= Clock(p)
        /\ supersedes(r, newestSeen[p])}

-----------------------------------------------------------------------------
(* Discovery::resolve: substrates in random order, three slots each.        *)

Lookup(p) ==
    /\ p \in Readers
    /\ lk[p] = None
    /\ Spend("lookups")
    /\ \E s \in Substrates :
          lk' = [lk EXCEPT ![p] =
             [time |-> Clock(p), began |-> now, slots |-> lookup_slots(Flip(Publishing(p)), Clock(p)),
              sub |-> s, left |-> Substrates \ {s}, next |-> 1, best |-> None,
              due |-> Announced(p)]]
    /\ UNCHANGED <<world, store, pub, report, lastKnown, newestSeen, missed>>

absorb(p, r) ==
    /\ lastKnown' = [lastKnown EXCEPT ![p] = r]
    /\ newestSeen' = [newestSeen EXCEPT ![p] = r.seq]

\* After a slot: the next one, the next endpoint, or the end of the lookup.
Proceed(p, best, due) ==
    LET q == [lk[p] EXCEPT !.best = best, !.due = due, !.next = @ + 1] IN
    IF q.next <= Len(q.slots)
    THEN /\ lk' = [lk EXCEPT ![p] = q]
         /\ UNCHANGED <<lastKnown, newestSeen, missed>>
    ELSE IF best # None
    THEN /\ lk' = [lk EXCEPT ![p] = None]               \* found
         /\ absorb(p, best)
         /\ UNCHANGED missed
    ELSE IF q.left # {}
    THEN /\ \E s \in q.left :
               lk' = [lk EXCEPT ![p] = [q EXCEPT !.sub = s, !.left = @ \ {s}, !.next = 1]]
         /\ UNCHANGED <<lastKnown, newestSeen, missed>>
    ELSE /\ lk' = [lk EXCEPT ![p] = None]               \* nothing anywhere
         /\ missed' = IF due # {} THEN missed \cup {p} ELSE missed
         /\ UNCHANGED <<lastKnown, newestSeen>>

\* The newest record that opens and supersedes what was seen wins.
Better(p, entry) ==
    LET q == lk[p] IN
    IF /\ opens(entry, q.slots[q.next], q.time)
       /\ supersedes(entry.rec, newestSeen[p])
       /\ q.best # None => entry.rec.seq > q.best.seq
    THEN entry.rec ELSE q.best

Get(p) ==
    LET q == lk[p] IN
    /\ q # None
    /\ \/ \E i \in Serves(q.sub, q.slots[q.next]) :
             Proceed(p, Better(p, store[q.sub][i]), q.due)
       \/ /\ Serves(q.sub, q.slots[q.next]) = {} \/ q.sub \in Replaying
          /\ Proceed(p, q.best, q.due)
    /\ UNCHANGED <<world, store, pub, report, budget>>

\* One GET fails: the slot is skipped, the lookup goes on.
GetFails(p) ==
    /\ lk[p] # None
    /\ Spend("mishaps")
    /\ Proceed(p, lk[p].best, lk[p].due \ {lk[p].sub})
    /\ UNCHANGED <<world, store, pub, report>>

-----------------------------------------------------------------------------
Next ==
    \/ Tick
    \/ \E p \in Peers : \/ Adjust(p) \/ Announce(p) \/ Put(p) \/ PutFails(p)
                        \/ Lookup(p) \/ Get(p) \/ GetFails(p)

Spec == Init /\ [][Next]_vars

-----------------------------------------------------------------------------
(* Properties.                                                              *)

\* Type correctness: what each variable ranges over.
TypeOK ==
    /\ now \in Start..MaxTime
    /\ skew \in [Peers -> (-MaxSkew)..MaxSkew]
    /\ \A p \in Peers : pub[p] # None => /\ pub[p].sub \in Substrates
                                         /\ pub[p].next \in DOMAIN pub[p].slots
    /\ \A p \in Peers : lk[p] # None => /\ lk[p].sub \in Substrates \ lk[p].left
                                        /\ lk[p].next \in DOMAIN lk[p].slots
    /\ \A p \in Peers : newestSeen[p] = IF lastKnown[p] = None THEN -1 ELSE lastKnown[p].seq
    /\ missed \subseteq Readers

\* Nothing announced is missed: a lookup fails only when no honest endpoint that
\* answered every request held an acknowledged, unexpired record within an epoch of
\* the reader's clock, unless the publisher's clock was set back meanwhile.
NothingMissed == \A p \in missed : Other(p) \in setBack

\* What PeerState.last_known remembers is an address of the other peer, never our
\* own, though both publish under one secret.
NeverOurOwn ==
    \A p \in Peers : lastKnown[p] # None => lastKnown[p].by = Other(p)

\* However an endpoint replays and whatever the clocks do, the record a lookup
\* adopts was made at most DEFAULT_TTL and twice the skew ago.
AdoptsFresh ==
    [][\A p \in Peers : lastKnown'[p] # lastKnown[p] =>
          now - lastKnown'[p].at <= DefaultTTL + 2 * MaxSkew]_vars

=============================================================================
