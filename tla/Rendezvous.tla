----------------------------- MODULE Rendezvous -----------------------------
(***************************************************************************)
(* Two paired peers meeting over QUIC: the ladder of reach::connect, the    *)
(* dial and accept loops of rendezvous_on, the hello round trip of          *)
(* client_session and server_session, the post-quantum proof of             *)
(* pq_auth::authenticate and the two-way drain of QuicSession::close.       *)
(*                                                                         *)
(* Timers are untimed: an attempt may time out, a budget may run out and an *)
(* idle timeout may fire whenever the code could observe it.  A connection  *)
(* is a record with the state of its two ends and one stream of frames per  *)
(* direction; its index stands for the exporter value of the channel.       *)
(***************************************************************************)
EXTENDS Naturals, Sequences, FiniteSets

CONSTANTS
    Scenarios,   \* who holds which identity, who has pinned which
    MaxConns,    \* bound on connection attempts in one behaviour
    MaxMsgs,     \* bound on the messages one peer sends in one behaviour
    MaxCrashes   \* bound on killed processes

Peers == {"ann", "bo"}
Other(p) == IF p = "ann" THEN "bo" ELSE "ann"

ASSUME ScenarioShape ==
    \A s \in Scenarios : /\ s.id \in [Peers -> Nat]
                         /\ s.pin \in [Peers -> Nat]
                         /\ \A p \in Peers : s.id[p] # s.pin[p]

VARIABLES
    setup,     \* [id, pin, hybrid, twins]: the bundles held and pinned, which of
               \* them are hybrid, and which share their classical key
    pc,        \* where each peer's process is
    rung,      \* which rung of the ladder it is on
    expired,   \* whether the budget of the current rung has run out
    bound,     \* whether its UDP endpoint is bound
    nat,       \* whether it has transmitted, so that its NAT lets packets in
    cur,       \* the connection it is working on, 0 for none
    conns,     \* every connection attempted so far
    sent,      \* messages the application has sent
    crashes,
    cutOff,    \* observation: peers whose unread message a clean close threw away
    misread    \* observation: peers whose application was handed a proof

vars == <<setup, pc, rung, expired, bound, nat, cur, conns, sent, crashes,
          cutOff, misread>>
ladder == <<setup, rung, expired, bound, nat>>
observed == <<sent, crashes, cutOff, misread>>

Establishing == {"dial", "attempt", "hello", "accept", "incoming", "srvhello",
                 "pq", "pqread"}
Established == {"session", "draining", "stopping"}
States == {"idle", "lookup", "failed", "ended"} \cup Establishing \cup Established

Hello == [kind |-> "hello"]
Msg == [kind |-> "msg"]
Fin == [kind |-> "fin"]

\* rendezvous::role_for: the smaller identity dials.
Role(p) == IF setup.id[p] < setup.pin[p] THEN "dialer" ELSE "accepter"

\* The pinned verifiers: the presented classical key has to be the pinned one.
PinHolds(p) == \/ setup.pin[p] = setup.id[Other(p)]
               \/ {setup.pin[p], setup.id[Other(p)]} \subseteq setup.twins

Server(c) == Other(conns[c].cli)
Dials(c, p) == conns[c].cli = p
EndOf(c, p) == IF Dials(c, p) THEN conns[c].cend ELSE conns[c].send
In(c, p) == IF Dials(c, p) THEN conns[c].down ELSE conns[c].up
PeerGone(p) == EndOf(cur[p], Other(p)) = "gone"
Waiting(p) == In(cur[p], p) # <<>>
Next1(p) == Head(In(cur[p], p))

\* The record of connection c after p's end of it becomes v.
WithEnd(c, p, v) ==
    IF Dials(c, p) THEN [conns[c] EXCEPT !.cend = v]
                   ELSE [conns[c] EXCEPT !.send = v]

\* Streams: p consumes the first frame of what it receives and sends fs.
Exchange(r, p, drop, fs) ==
    LET rest(s) == IF drop THEN Tail(s) ELSE s IN
    IF r.cli = p THEN [r EXCEPT !.down = rest(@), !.up = @ \o fs]
                 ELSE [r EXCEPT !.up = rest(@), !.down = @ \o fs]

\* Every end p still holds is gone: the process died or closed its endpoint.
DropAll(p) == [c \in DOMAIN conns |-> WithEnd(c, p, "gone")]

Init ==
    /\ setup \in Scenarios
    /\ pc = [p \in Peers |-> "idle"]
    /\ rung = [p \in Peers |-> 1]
    /\ expired = [p \in Peers |-> FALSE]
    /\ bound = [p \in Peers |-> FALSE]
    /\ nat = [p \in Peers |-> FALSE]
    /\ cur = [p \in Peers |-> 0]
    /\ conns = <<>>
    /\ sent = [p \in Peers |-> 0]
    /\ crashes = 0
    /\ cutOff = {}
    /\ misread = {}

-----------------------------------------------------------------------------
(* The ladder: reach::connect.                                              *)

\* rendezvous_on is entered: the deadline is set and the role decides the loop.
EnterRung(p, n) ==
    /\ rung' = [rung EXCEPT ![p] = n]
    /\ expired' = [expired EXCEPT ![p] = FALSE]
    /\ pc' = [pc EXCEPT ![p] = IF Role(p) = "dialer" THEN "dial" ELSE "accept"]

\* connect: bind one endpoint, then the cached address if there is one.
Connect(p) ==
    /\ pc[p] = "idle"
    /\ \/ /\ bound' = [bound EXCEPT ![p] = TRUE]
          /\ \/ EnterRung(p, 1)
             \/ /\ pc' = [pc EXCEPT ![p] = "lookup"]
                /\ UNCHANGED <<rung, expired>>
       \/ /\ pc' = [pc EXCEPT ![p] = "failed"]          \* the bind fails
          /\ UNCHANGED <<bound, rung, expired>>
    /\ UNCHANGED <<setup, nat, cur, conns, observed>>

\* The second rung: a record was found, and the loops run again on the same
\* endpoint; nobody accepts while the lookup is under way.
Lookup(p) ==
    /\ pc[p] = "lookup"
    /\ EnterRung(p, 2)
    /\ UNCHANGED <<setup, bound, nat, cur, conns, observed>>

\* No address was found: the endpoint is closed and connect fails.
LookupFails(p) ==
    /\ pc[p] = "lookup"
    /\ pc' = [pc EXCEPT ![p] = "failed"]
    /\ bound' = [bound EXCEPT ![p] = FALSE]
    /\ conns' = DropAll(p)
    /\ UNCHANGED <<setup, rung, expired, nat, cur, observed>>

\* rendezvous_on returns an error: the session in progress is dropped, and the
\* ladder goes to the lookup or, past the second rung, closes the endpoint.
RungFails(p) ==
    /\ cur' = [cur EXCEPT ![p] = 0]
    /\ IF rung[p] = 1
       THEN /\ pc' = [pc EXCEPT ![p] = "lookup"]
            /\ bound' = bound
            /\ conns' = IF cur[p] = 0 THEN conns
                        ELSE [conns EXCEPT ![cur[p]] = WithEnd(cur[p], p, "gone")]
       ELSE /\ pc' = [pc EXCEPT ![p] = "failed"]
            /\ bound' = [bound EXCEPT ![p] = FALSE]
            /\ conns' = DropAll(p)
    /\ UNCHANGED <<setup, rung, expired, nat, observed>>

\* The deadline of a loop passes.
Expire(p) ==
    /\ pc[p] \in {"dial", "attempt", "accept", "incoming"}
    /\ ~expired[p]
    /\ expired' = [expired EXCEPT ![p] = TRUE]
    /\ UNCHANGED <<setup, pc, rung, bound, nat, cur, conns, observed>>

-----------------------------------------------------------------------------
(* The dialler: dial_loop and attempt_connect.                              *)

Attempt(p) ==
    /\ pc[p] = "dial"
    /\ ~expired[p]
    /\ Len(conns) < MaxConns
    /\ conns' = Append(conns, [cli |-> p, cend |-> "hs", send |-> "net",
                               fin |-> FALSE, clean |-> FALSE,
                               up |-> <<>>, down |-> <<>>])
    /\ cur' = [cur EXCEPT ![p] = Len(conns) + 1]
    /\ nat' = [nat EXCEPT ![p] = TRUE]
    /\ pc' = [pc EXCEPT ![p] = "attempt"]
    /\ UNCHANGED <<setup, rung, expired, bound, observed>>

DialExpires(p) ==
    /\ pc[p] = "dial"
    /\ expired[p]
    /\ RungFails(p)

\* The first packet gets through the accepter's NAT and queues at its endpoint,
\* whether or not anybody is accepting and whether or not the attempt still runs.
Deliver(c) ==
    /\ conns[c].send = "net"
    /\ nat[Server(c)]
    /\ bound[Server(c)]
    /\ conns' = [conns EXCEPT ![c].send = "queued"]
    /\ UNCHANGED <<setup, pc, rung, expired, bound, nat, cur, observed>>

\* The handshake completes at the client, before the server has looked at the
\* client's key; client_session opens the stream and writes the hello.
Connected(p) ==
    LET c == cur[p] IN
    /\ pc[p] = "attempt"
    /\ conns[c].send = "hs"
    /\ IF PinHolds(p)
       THEN /\ conns' = [conns EXCEPT ![c] = [@ EXCEPT !.cend = "up", !.fin = TRUE,
                                                       !.up = <<Hello>>]]
            /\ pc' = [pc EXCEPT ![p] = "hello"]
            /\ cur' = cur
       ELSE /\ conns' = [conns EXCEPT ![c].cend = "gone"]
            /\ pc' = [pc EXCEPT ![p] = "dial"]
            /\ cur' = [cur EXCEPT ![p] = 0]
    /\ UNCHANGED <<ladder, observed>>

\* ATTEMPT_TIMEOUT: the attempt is dropped.  Its last handshake packet may
\* already have left, in which case the server still completes the handshake.
AttemptTimesOut(p) ==
    LET c == cur[p] IN
    /\ pc[p] = "attempt"
    /\ \E late \in {FALSE} \cup {conns[c].send = "hs" /\ PinHolds(p)} :
          conns' = [conns EXCEPT ![c] = [@ EXCEPT !.cend = "gone", !.fin = late]]
    /\ pc' = [pc EXCEPT ![p] = "dial"]
    /\ cur' = [cur EXCEPT ![p] = 0]
    /\ UNCHANGED <<ladder, observed>>

-----------------------------------------------------------------------------
(* The accepter: accept_loop and punch.                                     *)

\* Punching never connects: the peer is not accepting, or, when stale pins make
\* both peers accept, it is refused.  It opens our NAT.
Punch(p) ==
    /\ pc[p] = "accept"
    /\ ~nat[p]
    /\ nat' = [nat EXCEPT ![p] = TRUE]
    /\ UNCHANGED <<setup, pc, rung, expired, bound, cur, conns, observed>>

Queued(p) == {c \in DOMAIN conns : Server(c) = p /\ conns[c].send = "queued"}

AcceptIncoming(p) ==
    /\ pc[p] = "accept"
    /\ \E c \in Queued(p) :
          /\ \A d \in Queued(p) : c <= d
          /\ conns' = [conns EXCEPT ![c].send = "hs"]
          /\ cur' = [cur EXCEPT ![p] = c]
    /\ pc' = [pc EXCEPT ![p] = "incoming"]
    /\ UNCHANGED <<ladder, observed>>

AcceptExpires(p) ==
    /\ pc[p] = "accept"
    /\ expired[p]
    /\ RungFails(p)

IncomingKeepsWaiting(p) ==
    LET c == cur[p] IN
    /\ pc[p] = "incoming"
    /\ conns[c].fin
    /\ conns' = [conns EXCEPT ![c].send = IF PinHolds(p) THEN "up" ELSE "gone"]
    /\ pc' = [pc EXCEPT ![p] = IF PinHolds(p) THEN "srvhello" ELSE "accept"]
    /\ cur' = [cur EXCEPT ![p] = IF PinHolds(p) THEN c ELSE 0]
    /\ UNCHANGED <<ladder, observed>>

\* incoming.await: the client's last packet arrived and its key is the pinned
\* one, or the handshake failed and the loop goes on waiting.
Incoming(p) ==
    LET c == cur[p] IN
    /\ pc[p] = "incoming"
    /\ conns[c].fin \/ conns[c].cend = "gone"
    /\ IF conns[c].fin /\ PinHolds(p)
       THEN /\ conns' = [conns EXCEPT ![c].send = "up"]
            /\ pc' = [pc EXCEPT ![p] = "srvhello"]
            /\ cur' = cur
       ELSE /\ conns' = [conns EXCEPT ![c].send = "gone"]
            /\ pc' = [pc EXCEPT ![p] = "accept"]
            /\ cur' = [cur EXCEPT ![p] = 0]
    /\ UNCHANGED <<ladder, observed>>

-----------------------------------------------------------------------------
(* The hello round trip and the post-quantum proof.                         *)

\* server_session: the client's hello is read and answered.
ServerHello(p) ==
    LET c == cur[p] IN
    /\ pc[p] = "srvhello"
    /\ Waiting(p)
    /\ Next1(p) = Hello
    /\ conns' = [conns EXCEPT ![c] = Exchange(@, p, TRUE, <<Hello>>)]
    /\ pc' = [pc EXCEPT ![p] = "pq"]
    /\ UNCHANGED <<ladder, cur, observed>>

ClientHelloUnanswered(p) ==
    /\ pc[p] = "hello"
    /\ pc' = [pc EXCEPT ![p] = "pq"]
    /\ UNCHANGED <<ladder, cur, conns, observed>>

\* client_session: the answer arrives.
ClientHello(p) ==
    LET c == cur[p] IN
    /\ pc[p] = "hello"
    /\ Waiting(p)
    /\ Next1(p) = Hello
    /\ conns' = [conns EXCEPT ![c] = Exchange(@, p, TRUE, <<>>)]
    /\ pc' = [pc EXCEPT ![p] = "pq"]
    /\ UNCHANGED <<ladder, cur, observed>>

Side(p) == IF Role(p) = "dialer" THEN "initiator" ELSE "responder"
Transcript(c, side, signer, peer) ==
    [kind |-> "proof", exporter |-> c, side |-> side, signer |-> signer, peer |-> peer]
ProofRequired(p) == setup.pin[p] \in setup.hybrid
OffersProof(p) == setup.id[p] \in setup.hybrid

\* authenticate: write our proof first; whether to read one is decided by what
\* is pinned, never by what the peer sends.
SendProof(p) ==
    LET c == cur[p]
        proof == Transcript(c, Side(p), setup.id[p], setup.pin[p]) IN
    /\ pc[p] = "pq"
    /\ conns' = [conns EXCEPT ![c] = Exchange(@, p, FALSE,
                                      IF OffersProof(p) THEN <<proof>> ELSE <<>>)]
    /\ pc' = [pc EXCEPT ![p] = IF ProofRequired(p) THEN "pqread" ELSE "session"]
    /\ UNCHANGED <<ladder, cur, observed>>

ReadProofInPlace(p) ==
    /\ pc[p] = "pqread"
    /\ Waiting(p)
    /\ pc' = [pc EXCEPT ![p] = "session"]
    /\ UNCHANGED <<ladder, cur, conns, observed>>

ReadProof(p) ==
    LET c == cur[p] IN
    /\ pc[p] = "pqread"
    /\ Waiting(p)
    /\ Next1(p) = Transcript(c, Side(Other(p)), setup.pin[p], setup.id[p])
    /\ conns' = [conns EXCEPT ![c] = Exchange(@, p, TRUE, <<>>)]
    /\ pc' = [pc EXCEPT ![p] = "session"]
    /\ UNCHANGED <<ladder, cur, observed>>

\* Something else than the proof arrived, and the session is refused.
ProofRefused(p) ==
    /\ pc[p] = "pqread"
    /\ Waiting(p)
    /\ Next1(p) # Transcript(cur[p], Side(Other(p)), setup.pin[p], setup.id[p])
    /\ RungFails(p)

\* The connection is lost while the session is being set up.  No loop runs any
\* more, so the whole rendezvous ends with it.
SetupLost(p) ==
    /\ pc[p] \in {"hello", "srvhello", "pqread"}
    /\ PeerGone(p)
    /\ RungFails(p)

-----------------------------------------------------------------------------
(* The session: the application above it, and QuicSession::close.           *)

AppSend(p) ==
    /\ pc[p] = "session"
    /\ sent[p] < MaxMsgs
    /\ conns' = [conns EXCEPT ![cur[p]] = Exchange(@, p, FALSE, <<Msg>>)]
    /\ sent' = [sent EXCEPT ![p] = @ + 1]
    /\ UNCHANGED <<ladder, pc, cur, crashes, cutOff, misread>>

AppRecv(p) ==
    /\ pc[p] = "session"
    /\ Waiting(p)
    /\ Next1(p) # Fin
    /\ conns' = [conns EXCEPT ![cur[p]] = Exchange(@, p, TRUE, <<>>)]
    /\ misread' = IF Next1(p) = Msg THEN misread ELSE misread \cup {p}
    /\ UNCHANGED <<ladder, pc, cur, sent, crashes, cutOff>>

\* close, first step: finish our stream.  The application closes when it is
\* done, and when recv reports that the peer finished.
Finish(p) ==
    /\ pc[p] = "session"
    /\ conns' = [conns EXCEPT ![cur[p]] = Exchange(@, p, FALSE, <<Fin>>)]
    /\ pc' = [pc EXCEPT ![p] = "draining"]
    /\ UNCHANGED <<ladder, cur, observed>>

SeesFin(p) == pc[p] = "session" /\ Waiting(p) /\ Next1(p) = Fin

\* recv fails because the connection is gone; what was unread is lost.
AppLost(p) ==
    /\ pc[p] = "session"
    /\ PeerGone(p)
    /\ cutOff' = IF conns[cur[p]].clean /\ Waiting(p) /\ Next1(p) = Msg
                 THEN cutOff \cup {p} ELSE cutOff
    /\ pc' = [pc EXCEPT ![p] = "draining"]
    /\ UNCHANGED <<ladder, cur, conns, sent, crashes, misread>>

\* close, second step: trailing frames are discarded until the peer's FIN.
Discard(p) ==
    /\ pc[p] = "draining"
    /\ Waiting(p)
    /\ Next1(p) # Fin
    /\ conns' = [conns EXCEPT ![cur[p]] = Exchange(@, p, TRUE, <<>>)]
    /\ UNCHANGED <<ladder, pc, cur, observed>>

DrainedAtOnce(p) ==
    /\ pc[p] = "draining"
    /\ pc' = [pc EXCEPT ![p] = "stopping"]
    /\ UNCHANGED <<ladder, cur, conns, observed>>

DrainedByFinOnly(p) ==
    /\ pc[p] = "draining"
    /\ Waiting(p) /\ Next1(p) = Fin
    /\ pc' = [pc EXCEPT ![p] = "stopping"]
    /\ UNCHANGED <<ladder, cur, conns, observed>>

Drained(p) ==
    /\ pc[p] = "draining"
    /\ \/ Waiting(p) /\ Next1(p) = Fin
       \/ PeerGone(p)
    /\ pc' = [pc EXCEPT ![p] = "stopping"]
    /\ UNCHANGED <<ladder, cur, conns, observed>>

\* close, last step: stopped() has returned, the connection is closed hard.
HardClose(p) ==
    LET c == cur[p] IN
    /\ pc[p] = "stopping"
    /\ conns' = [conns EXCEPT ![c] = [WithEnd(c, p, "gone") EXCEPT
                                         !.clean = @ \/ ~PeerGone(p)]]
    /\ pc' = [pc EXCEPT ![p] = "ended"]
    /\ bound' = [bound EXCEPT ![p] = FALSE]
    /\ cur' = [cur EXCEPT ![p] = 0]
    /\ UNCHANGED <<setup, rung, expired, nat, observed>>

\* The process is killed: the peer learns of it only from the idle timeout.  The
\* user may run the command again.
Crash(p) ==
    /\ crashes < MaxCrashes
    /\ pc[p] \notin {"idle", "failed", "ended"}
    /\ crashes' = crashes + 1
    /\ conns' = DropAll(p)
    /\ bound' = [bound EXCEPT ![p] = FALSE]
    /\ cur' = [cur EXCEPT ![p] = 0]
    /\ pc' = [pc EXCEPT ![p] = "idle"]
    /\ UNCHANGED <<setup, rung, expired, nat, sent, cutOff, misread>>

-----------------------------------------------------------------------------
Step(p) ==
    \/ Lookup(p) \/ LookupFails(p)
    \/ Attempt(p) \/ DialExpires(p) \/ Connected(p) \/ AttemptTimesOut(p)
    \/ Punch(p) \/ AcceptIncoming(p) \/ AcceptExpires(p) \/ Incoming(p)
    \/ ServerHello(p) \/ ClientHello(p)
    \/ SendProof(p) \/ ReadProof(p) \/ ProofRefused(p) \/ SetupLost(p)
    \/ AppRecv(p) \/ AppLost(p) \/ (SeesFin(p) /\ Finish(p))
    \/ Discard(p) \/ Drained(p) \/ HardClose(p)

Next ==
    \/ \E p \in Peers : \/ Step(p) \/ Connect(p) \/ Expire(p)
                        \/ AppSend(p) \/ Finish(p) \/ Crash(p)
    \/ \E c \in DOMAIN conns : Deliver(c)

\* Each process is scheduled and the clock runs; packets may be lost, the user
\* need not start, and the application need not close before its peer does.
Fairness == \A p \in Peers : WF_vars(Step(p)) /\ WF_vars(Expire(p))

Spec == Init /\ [][Next]_vars /\ Fairness

-----------------------------------------------------------------------------
(* Properties.                                                              *)

\* Type correctness: what each variable ranges over, and that a peer that is past
\* the attempt holds an end of its connection (QuicSession.conn).
TypeOK ==
    /\ setup \in Scenarios
    /\ pc \in [Peers -> States]
    /\ rung \in [Peers -> 1..2]
    /\ expired \in [Peers -> BOOLEAN]
    /\ bound \in [Peers -> BOOLEAN]
    /\ nat \in [Peers -> BOOLEAN]
    /\ cur \in [Peers -> 0..Len(conns)]
    /\ \A c \in DOMAIN conns : /\ conns[c].cli \in Peers
                              /\ conns[c].cend \in {"hs", "up", "gone"}
                              /\ conns[c].send \in {"net", "queued", "hs", "up", "gone"}
    /\ sent \in [Peers -> 0..MaxMsgs]
    /\ crashes \in 0..MaxCrashes
    /\ \A p \in Peers :
          pc[p] \in Established \cup {"hello", "srvhello", "pq", "pqread"}
             => cur[p] # 0 /\ EndOf(cur[p], p) = "up"

\* A session is one where both sides completed authentication: a peer past the
\* hello round trip has pinned the other, and the other has pinned it.
MutualPins ==
    \A p \in Peers : pc[p] \in Established \cup {"pq", "pqread"}
                       => PinHolds("ann") /\ PinHolds("bo")

\* Post-quantum proof cannot be downgraded: a peer holds a session with a bundle it
\* pinned as hybrid only when the other side really holds that bundle, whatever
\* identity the other side runs with now (authenticate decides from the pin).
ProvenWhenPinned ==
    \A p \in Peers : pc[p] \in Established /\ setup.pin[p] \in setup.hybrid
                       => setup.id[Other(p)] = setup.pin[p]

\* One side of authenticate decides whether a proof is written, the other whether it
\* is read.  They agree whenever the pinned bundle is the one the peer runs with, be
\* one peer hybrid, both or none: an application is handed a proof as its first
\* message only when its pin holds the classical half of a bundle that is hybrid now.
ProofsConsumed ==
    \A p \in misread : setup.pin[p] # setup.id[Other(p)] /\ ~ProofRequired(p) /\ OffersProof(Other(p))

\* close throws nothing away that the peer still wanted: a peer that is reading
\* never loses an unread message to the other's clean close.
NoFinalMessageLost == cutOff = {}

\* Every rendezvous comes to an end: it yields a session, fails, or is killed.
RendezvousEnds ==
    \A p \in Peers : pc[p] \in Establishing \cup {"lookup"}
                       ~> pc[p] \in Established \cup {"failed", "ended", "idle"}

\* Two closes converge: a peer that has begun to close finishes closing.
CloseEnds ==
    \A p \in Peers : pc[p] \in {"draining", "stopping"} ~> pc[p] \in {"ended", "idle"}

\* The doc comment of rendezvous: it returns a session "or Error::Connect when the
\* budget expires", so it never gives up while budget is left.
GivesUpOnlyAtDeadline ==
    [][\A p \in Peers : pc[p] \in Establishing /\ pc'[p] \in {"lookup", "failed"}
                          => expired[p]]_vars

=============================================================================
