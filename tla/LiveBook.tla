------------------------------ MODULE LiveBook ------------------------------
(***************************************************************************)
(* What `atom live` keeps in ~/.atom_vault: the identity file              *)
(* (live_identity.key) and the address book (live_peers.json), and the     *)
(* commands that read and rewrite them: address, stun, pair, rendezvous    *)
(* add / remove, send / receive.  Several processes (two terminals, or a   *)
(* terminal beside the desktop application) work on the same two files     *)
(* with no lock between them; a file is rewritten by truncating it and     *)
(* writing it again.                                                       *)
(*                                                                         *)
(* A command is a job: a sequence of file accesses and network steps, each *)
(* an action.  A command that fails ends and changes nothing further.      *)
(***************************************************************************)
EXTENDS Naturals, Sequences, FiniteSets, TLC

CONSTANTS
    Procs,          \* processes of this machine
    Ids,            \* identities of other people
    Nicks,          \* nicknames in the book
    Names,          \* names of rendezvous endpoints
    Configs,        \* the endpoints, link and proxy, a user may enter
    Addresses,      \* direct addresses
    Onion,          \* an onion address
    None,           \* no file, no value
    Torn,           \* a file that does not decrypt
    Kinds,          \* the commands the user issues
    MaxCommands,    \* commands issued
    MaxCrashes,     \* commands killed
    MaxPairings,    \* pairing exchanges
    MaxMoves        \* changes of our own address and announcements of a peer's

VARIABLES
    identity,       \* live_identity.key: None, Torn or an identity number
    book,           \* live_peers.json: None, Torn or a LiveState
    job,            \* [Procs -> the command being run, or None]
    port,           \* the process that has our UDP port bound
    outside,        \* our address as others see it
    replies,        \* STUN replies in flight
    records,        \* address records people have published for us
    pairings,       \* with whom each exchange was completed
    made,           \* identities generated
    budget,
    reported,       \* ghost: [Nicks -> the ticket last reported as saved]
    overlap,        \* ghost: two load-to-save windows have overlapped
    carried,        \* ghost: <<identity, address>> a transfer ended well with
    given           \* ghost: our identities that went out in a ticket

world == <<outside, replies, records>>
files == <<identity, book>>
counts == <<pairings, made, budget>>
ghosts == <<reported, overlap, carried, given>>
vars == <<files, job, port, world, counts, ghosts>>

-----------------------------------------------------------------------------
(* The stored records.                                                     *)

Reachable == Addresses \cup {Onion}

Default == [mine |-> None, peers |-> [n \in Nicks |-> None],
            rendezvous |-> [n \in Names |-> None]]

LivePeer(t, secret) ==
    [ticket |-> t, secret |-> secret, last |-> None, seen |-> 0, tried |-> FALSE]

Builds(cfg) ==
    /\ cfg.socks # "malformed"
    /\ cfg.kind = "rendezvous"
    /\ cfg.onionOnly => cfg.socks = "proxy"

Configured(st) == {n \in Names : st.rendezvous[n] # None}
discovery_from(st) == \A n \in Configured(st) : Builds(st.rendezvous[n])

\* What the reach layer works with: the last address reached, else the ticket's.
peer_state(e) == [id |-> e.ticket.id, secret |-> e.secret, seen |-> e.seen,
                  last |-> IF e.last # None THEN e.last ELSE e.ticket.addr]

-----------------------------------------------------------------------------
(* Jobs, reading and writing.                                              *)

Spend(k) == budget[k] > 0 /\ budget' = [budget EXCEPT ![k] = @ - 1]
At(p, step) == job[p] # None /\ job[p].step = step
Goes(p, j) == job' = [job EXCEPT ![p] = j]
Step(p, step) == Goes(p, [job[p] EXCEPT !.step = step])
Ends(p) == Goes(p, None)
Release(p) == port' = IF port = p THEN None ELSE port

Command(p, k) == k \in Kinds /\ job[p] = None /\ Spend("commands")

\* The state on file, the default when there is none; Torn is an error.
TornIsDefault == IF book \in {None, Torn} THEN Default ELSE book
load_state == IF book = None THEN Default ELSE book

\* The state that was just loaded, changed to st, is about to be written back.
InWindow(q) == At(q, "open") \/ At(q, "write")
Saves(p, st, claim) ==
    /\ Goes(p, [step |-> "open", st |-> st, claim |-> claim])
    /\ overlap' = (overlap \/ \E q \in Procs \ {p} : InWindow(q))

\* save_state: open with truncation, then one write.
OpenBook(p) ==
    /\ At(p, "open")
    /\ book' = Torn
    /\ Step(p, "write")
    /\ UNCHANGED <<identity, port, world, counts, ghosts>>

WriteBook(p) ==
    /\ At(p, "write")
    /\ book' = job[p].st
    /\ reported' = [n \in Nicks |-> IF n = job[p].claim THEN job[p].st.peers[n].ticket
                                                        ELSE reported[n]]
    /\ Ends(p)
    /\ UNCHANGED <<identity, port, world, counts, overlap, carried, given>>

\* A command that finds the book damaged reports the error and ends.
LoadFails(p) ==
    /\ \E s \in {"paired", "bind", "answered", "remember"} : At(p, s)
    /\ load_state = Torn
    /\ Ends(p)
    /\ UNCHANGED <<files, port, world, counts, ghosts>>

-----------------------------------------------------------------------------
(* load_or_create_identity; the job then goes on with job[p].then.         *)

NeedsIdentity(p, n, st, then) ==
    Goes(p, [nick |-> n, st |-> st, step |-> "identity", then |-> then, me |-> 0])

UseIdentity(p) ==
    /\ At(p, "identity")
    /\ identity # None
    /\ IF identity = Torn THEN Ends(p)
       ELSE Goes(p, [job[p] EXCEPT !.step = job[p].then, !.me = identity])
    /\ UNCHANGED <<files, port, world, counts, ghosts>>

\* The file was absent when looked for: a new identity replaces what is there.
GenerateIdentity(p) ==
    /\ At(p, "identity")
    /\ identity = None
    /\ made' = made + 1
    /\ Goes(p, [job[p] EXCEPT !.step = "openIdentity", !.me = made + 1])
    /\ UNCHANGED <<files, port, world, pairings, budget, ghosts>>

OpenIdentity(p) ==
    /\ At(p, "openIdentity")
    /\ identity' = Torn
    /\ Step(p, "writeIdentity")
    /\ UNCHANGED <<book, port, world, counts, ghosts>>

WriteIdentity(p) ==
    /\ At(p, "writeIdentity")
    /\ identity' = job[p].me
    /\ Step(p, job[p].then)
    /\ UNCHANGED <<book, port, world, counts, ghosts>>

-----------------------------------------------------------------------------
(* address and stun.                                                       *)

set_endpoints(p, e) == Saves(p, [load_state EXCEPT !.mine = e], None)

SetEndpoints(p) ==
    /\ Command(p, "address")
    /\ load_state # Torn
    /\ \E e \in Reachable : set_endpoints(p, e)
    /\ UNCHANGED <<files, port, world, pairings, made, reported, carried, given>>

\* One query, under a fresh transaction id, from the port transfers will use.
Discover(p) ==
    /\ Command(p, "stun")
    /\ port = None
    /\ port' = p
    /\ Goes(p, [step |-> "query", txid |-> budget.commands, asked |-> outside])
    /\ replies' = replies \cup {[txid |-> budget.commands, addr |-> outside]}
    /\ UNCHANGED <<files, outside, records, pairings, made, ghosts>>

AnyReply(p, r) == TRUE
Answers(p, r) == r.txid = job[p].txid

\* Replies to anything else are skipped; no answer in time is an error.
Discovered(p) ==
    /\ At(p, "query")
    /\ \/ \E r \in replies :
             /\ Answers(p, r)
             /\ Goes(p, [job[p] EXCEPT !.step = "answered"] @@ [found |-> r.addr])
       \/ Ends(p)
    /\ Release(p)
    /\ UNCHANGED <<files, world, counts, ghosts>>

StoreDiscovered(p) ==
    /\ At(p, "answered")
    /\ load_state # Torn
    /\ set_endpoints(p, job[p].found)
    /\ UNCHANGED <<files, port, world, counts, reported, carried, given>>
-----------------------------------------------------------------------------
(* pair: my_ticket, the exchange with the person, pair_complete.           *)

Pair(p) ==
    /\ Command(p, "pair")
    /\ \E n \in Nicks : NeedsIdentity(p, n, None, "ticket")
    /\ UNCHANGED <<files, port, world, pairings, made, ghosts>>

\* Without an address there is no ticket to offer, and no pairing.
my_ticket(p) ==
    /\ At(p, "ticket")
    /\ IF load_state # Torn /\ load_state.mine # None THEN Step(p, "exchange") ELSE Ends(p)
    /\ UNCHANGED <<files, port, world, counts, ghosts>>

Ticket(i, a, n) == [id |-> i, addr |-> a, pairing |-> n]

\* The exchange ends with the other side's ticket and a secret of its own.
Exchange(p) ==
    /\ At(p, "exchange")
    /\ Len(pairings) < MaxPairings
    /\ \E i \in Ids, a \in Reachable :
          /\ pairings' = Append(pairings, i)
          /\ Goes(p, [job[p] EXCEPT !.step = "paired"] @@ [ticket |-> Ticket(i, a, Len(pairings'))])
    /\ given' = given \cup {job[p].me}
    /\ UNCHANGED <<files, port, world, made, budget, reported, overlap, carried>>

\* The entry after pairing; None when the nickname belongs to another identity.
Paired(e, t) ==
    IF e = None THEN LivePeer(t, t.pairing)
    ELSE IF e.ticket.id # t.id THEN None
    ELSE [e EXCEPT !.ticket = t, !.secret = t.pairing, !.tried = FALSE]

pair_complete(p) ==
    LET n == job[p].nick
        entry == Paired(load_state.peers[n], job[p].ticket) IN
    /\ At(p, "paired")
    /\ load_state # Torn
    /\ IF entry = None THEN Ends(p) /\ UNCHANGED overlap
       ELSE Saves(p, [load_state EXCEPT !.peers[n] = entry], n)
    /\ UNCHANGED <<files, port, world, counts, reported, carried, given>>

-----------------------------------------------------------------------------
(* rendezvous add, rendezvous remove.                                      *)

RendezvousAdd(p) ==
    /\ Command(p, "add")
    /\ load_state # Torn
    /\ \E n \in Names, cfg \in Configs :
          /\ Builds(cfg)
          /\ Saves(p, [load_state EXCEPT !.rendezvous[n] = cfg], None)
    /\ UNCHANGED <<files, port, world, pairings, made, reported, carried, given>>

RendezvousRemove(p) ==
    /\ Command(p, "remove")
    /\ load_state # Torn
    /\ \E n \in Configured(load_state) :
          Saves(p, [load_state EXCEPT !.rendezvous[n] = None], None)
    /\ UNCHANGED <<files, port, world, pairings, made, reported, carried, given>>

-----------------------------------------------------------------------------
(* send and receive: run_transfer and reach::connect.                      *)

\* The state and the peer are read, then the identity, then the port to bind.
Transfer(p) ==
    /\ Command(p, "transfer")
    /\ load_state # Torn
    /\ \E n \in Nicks :
          /\ load_state.peers[n] # None
          /\ NeedsIdentity(p, n, load_state, "bind")
    /\ UNCHANGED <<files, port, world, pairings, made, ghosts>>

\* The first rung is tried with whatever direct address is remembered.
bind_address(p) ==
    LET st == job[p].st
        n == job[p].nick
        ps == peer_state(st.peers[n]) IN
    /\ At(p, "bind")
    /\ load_state # Torn
    /\ IF load_state.mine \in Addresses /\ discovery_from(st) /\ port = None
       THEN /\ port' = p
            /\ Goes(p, [step |-> IF ps.last \in Addresses THEN "cached" ELSE "lookup",
                        nick |-> n, st |-> st, ps |-> ps])
       ELSE Ends(p) /\ UNCHANGED port
    /\ UNCHANGED <<files, world, counts, ghosts>>

\* A rendezvous succeeds when the address is right or the peer calls us.
Cached(p) ==
    /\ At(p, "cached")
    /\ Step(p, "session") \/ Step(p, "lookup")
    /\ UNCHANGED <<files, port, world, counts, ghosts>>

\* A record that supersedes what was seen is absorbed before it is tried.
absorb(ps, r) == [ps EXCEPT !.last = r.addr, !.seen = r.seq]
Lookup(p) ==
    LET ps == job[p].ps IN
    /\ At(p, "lookup")
    /\ \/ /\ Configured(job[p].st) # {}
          /\ \E r \in records :
                /\ r.secret = ps.secret /\ r.seq > ps.seen
                /\ Goes(p, [job[p] EXCEPT !.step = "discovered", !.ps = absorb(ps, r)])
          /\ UNCHANGED port
       \/ Ends(p) /\ Release(p)
    /\ UNCHANGED <<files, world, counts, ghosts>>

Found(p) ==
    /\ At(p, "discovered")
    /\ \/ job[p].ps.last \in Addresses /\ Step(p, "session") /\ UNCHANGED port
       \/ Ends(p) /\ Release(p)
    /\ UNCHANGED <<files, world, counts, ghosts>>

\* The transfer ends; only one that ended well is remembered.
TransferEnds(p) ==
    /\ At(p, "session")
    /\ \/ /\ Step(p, "remember")
          /\ carried' = carried \cup {<<job[p].ps.id, job[p].ps.last>>}
       \/ Ends(p) /\ UNCHANGED carried
    /\ Release(p)
    /\ UNCHANGED <<files, world, counts, reported, overlap, given>>

LearnsFloorOnly(e, ps) == [e EXCEPT !.seen = ps.seen, !.tried = TRUE]
Learned(e, ps) == [e EXCEPT !.last = ps.last, !.seen = ps.seen, !.tried = TRUE]

\* A slip: the state read when the transfer began is the one written back.
RememberSnapshot(p) ==
    LET n == job[p].nick
        st == job[p].st IN
    /\ At(p, "remember")
    /\ load_state # Torn
    /\ Saves(p, [st EXCEPT !.peers[n] = Learned(@, job[p].ps)], None)
    /\ UNCHANGED <<files, port, world, counts, reported, carried, given>>
remember(p) ==
    LET n == job[p].nick IN
    /\ At(p, "remember")
    /\ load_state # Torn
    /\ IF load_state.peers[n] = None THEN Ends(p) /\ UNCHANGED overlap
       ELSE Saves(p, [load_state EXCEPT !.peers[n] = Learned(@, job[p].ps)], None)
    /\ UNCHANGED <<files, port, world, counts, reported, carried, given>>

-----------------------------------------------------------------------------
(* The machine and the other people.                                       *)

Crash(p) ==
    /\ job[p] # None
    /\ Spend("crashes")
    /\ Ends(p)
    /\ Release(p)
    /\ UNCHANGED <<files, world, pairings, made, ghosts>>

Remap == /\ Spend("moves")
         /\ \E a \in Addresses \ {outside} : outside' = a
         /\ UNCHANGED <<files, job, port, replies, records, pairings, made, ghosts>>

Publish(i) ==
    /\ Spend("moves")
    /\ \E n \in DOMAIN pairings, a \in Reachable :
          /\ pairings[n] = i
          /\ records' = records \cup
                {[secret |-> n, addr |-> a, seq |-> Cardinality(records) + 1]}
    /\ UNCHANGED <<files, job, port, outside, replies, pairings, made, ghosts>>

\* A machine that was never used, one with an address, one that is paired already.
Fresh == identity = None /\ book = None /\ pairings = <<>> /\ made = 0
Addressed == [Default EXCEPT !.mine = outside]
InUse ==
    /\ identity = 1 /\ made = 1
    /\ \/ pairings = <<>> /\ book = Addressed
       \/ \E i \in Ids, n \in Nicks, a \in Addresses :
             /\ pairings = <<i>>
             /\ book = [Addressed EXCEPT !.peers[n] = LivePeer(Ticket(i, a, 1), 1)]

Init ==
    /\ outside = CHOOSE a \in Addresses : TRUE
    /\ Fresh \/ InUse
    /\ job = [p \in Procs |-> None]
    /\ port = None
    /\ replies = {} /\ records = {}
    /\ budget = [commands |-> MaxCommands, crashes |-> MaxCrashes, moves |-> MaxMoves]
    /\ reported = [n \in Nicks |-> IF book = None \/ book.peers[n] = None THEN None
                                   ELSE book.peers[n].ticket]
    /\ overlap = FALSE /\ carried = {} /\ given = {identity} \ {None}

Next ==
    \/ \E p \in Procs :
          \/ OpenBook(p) \/ WriteBook(p) \/ LoadFails(p) \/ UseIdentity(p)
          \/ GenerateIdentity(p) \/ OpenIdentity(p) \/ WriteIdentity(p)
          \/ SetEndpoints(p) \/ Discover(p) \/ Discovered(p) \/ StoreDiscovered(p)
          \/ Pair(p) \/ my_ticket(p) \/ Exchange(p) \/ pair_complete(p)
          \/ RendezvousAdd(p) \/ RendezvousRemove(p)
          \/ Transfer(p) \/ bind_address(p) \/ Cached(p) \/ Lookup(p) \/ Found(p)
          \/ TransferEnds(p) \/ remember(p) \/ Crash(p)
    \/ Remap
    \/ \E i \in Ids : Publish(i)

Spec == Init /\ [][Next]_vars
-----------------------------------------------------------------------------
(* Properties.                                                             *)

Intact == book \notin {None, Torn}
Entries == IF Intact THEN {book.peers[n] : n \in Nicks} \ {None} ELSE {}

\* The files hold what some command wrote, or nothing, or a torn write.
TypeOK ==
    /\ identity \in {None, Torn} \cup 1..made
    /\ port \in Procs \cup {None}
    /\ port # None => \E s \in {"query", "cached", "lookup", "discovered", "session"} : At(port, s)
    /\ Intact => /\ book.mine \in Addresses \cup {Onion, None}
                 /\ \A n \in Names : book.rendezvous[n] \in Configs \cup {None}
    /\ \A e \in Entries : /\ e.ticket.pairing \in DOMAIN pairings
                          /\ e.ticket.id = pairings[e.ticket.pairing]
                          /\ e.seen \in 0..Cardinality(records)

\* An endpoint is built before it is saved (handle_rendezvous_add), so that no
\* stored endpoint makes discovery_from refuse a transfer later: whatever the
\* processes interleave, every endpoint in the book builds.
EndpointsBuild == Intact => discovery_from(book)

\* Re-pairing stores a fresh secret with the fresh ticket (pair_complete), and
\* remember leaves both alone: however commands overlap, the secret of an entry
\* is the one the exchange that brought its ticket agreed on.  With any other the
\* two peers address different slots and never find each other.
SecretFollowsTicket == \A e \in Entries : e.secret = e.ticket.pairing

\* A pairing reported as saved stays: a transfer that began before it and ends
\* after it, a refused pairing under the same nickname, a damaged file, none of
\* them undoes it or binds the nickname to another identity.  Only commands whose
\* load-to-save windows overlap may undo one another.
PairingsKept ==
    Intact /\ ~overlap =>
        \A n \in Nicks : reported[n] # None =>
            /\ book.peers[n] # None
            /\ book.peers[n].ticket.id = reported[n].id
            /\ book.peers[n].ticket.pairing >= reported[n].pairing

\* "A failed attempt must not overwrite an address that still works"
\* (run_transfer): an address is remembered only when a transfer with that
\* identity ended well with it as the newest one known.
LearnedByTransfer ==
    ~overlap => \A e \in Entries : e.last # None => <<e.ticket.id, e.last>> \in carried

\* The replay floor and the address are remembered together: however transfers,
\* re-pairings and kills overlap, an entry's floor is that of the record its address
\* came from (remember, live.rs:459-463), so a floor that is set back takes the
\* address with it and the newer record can be found again.
FloorMatchesAddress ==
    \A e \in Entries : e.seen # 0 => \E r \in records : r.seq = e.seen /\ r.addr = e.last

\* stun::discover takes the address from the answer to its own request, so a
\* late answer to an earlier query from the same port is never what is stored.
StunOwnAnswer ==
    \A p \in Procs : At(p, "answered") => job[p].found = job[p].asked

\* live.rs:113, "The replay floor: an endpoint that re-serves a record we have
\* already used cannot pass it off as current": the stored floor never falls.
FloorKept ==
    [][Intact /\ book' \notin {None, Torn} =>
        \A n \in Nicks : book.peers[n] # None /\ book'.peers[n] # None =>
            book'.peers[n].seen >= book.peers[n].seen]_vars

\* reach.rs:88, "the first connection after pairing touches no third party": the
\* address in a ticket is the first thing tried after the pairing that brought it.
FreshTicketTried ==
    \A p \in Procs : At(p, "cached") =>
        LET e == job[p].st.peers[job[p].nick] IN ~e.tried => job[p].ps.last = e.ticket.addr

\* live.rs:238, "a new identity is a new peer ... Hence the file is only ever
\* created when absent": the identity that went out in a ticket is the one on file.
IdentityKept == identity \notin {None, Torn} => given \subseteq {identity}
=============================================================================
