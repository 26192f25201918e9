------------------------------ MODULE Pairing ------------------------------
(***************************************************************************)
(* Pairing by a short code (p2p-live/src/pairing.rs) as people run it from *)
(* the command line (commands/live.rs, handle_pair) or in the window       *)
(* (gui/live.rs, live_pairing_card): a code is read aloud, two rounds of   *)
(* text travel through whatever chat there is, and each side stores the    *)
(* other's identity and the secret both derived.                           *)
(*                                                                         *)
(* A session is one terminal or one window of one person, meant for one    *)
(* other person.  The chat is what people make of it: every text ever sent *)
(* can be pasted into any box, any number of times, whole or damaged, and  *)
(* a code can be misheard or used again.                                   *)
(*                                                                         *)
(* SPAKE2 is taken for what it promises: two sides hold the same key when  *)
(* they used the same code and each other's messages, and never otherwise. *)
(***************************************************************************)
EXTENDS Naturals, FiniteSets

CONSTANTS
    People,
    Sessions,
    Owner,          \* [Sessions -> People]
    With,           \* [Sessions -> People], the person meant by the nickname
    Windows,        \* the sessions run in the graphical application
    None,
    MaxCodes,       \* codes generated
    MaxStarts,      \* sessions begun
    MaxMistakes     \* damaged pastes, misheard codes

VARIABLES
    ui,             \* [Sessions -> what the terminal or the window holds]
    codes,          \* codes generated so far
    heard,          \* [People -> the codes they generated or were told, and by whom]
    chat,           \* texts sent
    starts,         \* rounds begun so far, the name of the next SPAKE2 message
    mistakes,
    book,           \* [People -> [People -> None or the entry of that nickname]]
    derived         \* ghost: [People -> keys their sessions derived]

vars == <<ui, codes, heard, chat, starts, mistakes, book, derived>>

Stages == {"Code", "Exchange", "Paired"}
WrongCode == 0
Garbled == 0

-----------------------------------------------------------------------------
(* pairing.rs                                                              *)

\* Both messages, in either order, and the code go into the key and the AAD.
KeyWithoutCode(own, peer, code) == [msgs |-> {own, peer}, code |-> 1]
finish(own, peer, code) == [msgs |-> {own, peer}, code |-> code]

start(m) == [kind |-> "message", msg |-> m]
decode_message(text) == text.kind = "message"
seal_ticket(key, id) == [kind |-> "sealed", key |-> key, id |-> id]

OpensByCode(key, text) == text.kind = "sealed" /\ text.key.code = key.code
opens(key, text) == text.kind = "sealed" /\ text.key = key

-----------------------------------------------------------------------------
(* The window's and the terminal's state.                                  *)

\* reset_pairing; the terminal ends and is started again.
reset_pairing(s) ==
    ui' = [ui EXCEPT ![s] = [stage |-> "Code", code |-> None, pairing |-> None, channel |-> None]]

\* An error: the window shows it and stays as it is, the terminal's command ends.
Failed(s, shown) == IF s \in Windows THEN ui' = [ui EXCEPT ![s] = shown] ELSE reset_pairing(s)

Slip == mistakes < MaxMistakes /\ mistakes' = mistakes + 1

\* Codes are read aloud to the person they are for, and to nobody else.
Generate(s) ==
    LET told == [code |-> codes + 1, between |-> {Owner[s], With[s]}] IN
    /\ ui[s].stage = "Code"
    /\ codes < MaxCodes
    /\ codes' = codes + 1
    /\ ui' = [ui EXCEPT ![s].code = codes + 1]
    /\ heard' = [p \in People |-> heard[p] \cup (IF p \in told.between THEN {told} ELSE {})]
    /\ UNCHANGED <<chat, starts, mistakes, book, derived>>

\* Typing a code starts the pairing afresh.
TypeCode(s) ==
    /\ ui[s].stage = "Code"
    /\ \/ /\ \E c \in heard[Owner[s]] :
                /\ c.between = {Owner[s], With[s]} /\ c.code # ui[s].code
                /\ ui' = [ui EXCEPT ![s] = [stage |-> "Code", code |-> c.code,
                                            pairing |-> None, channel |-> None]]
          /\ UNCHANGED mistakes
       \/ /\ ui[s].code # WrongCode
          /\ ui' = [ui EXCEPT ![s] = [stage |-> "Code", code |-> WrongCode,
                                      pairing |-> None, channel |-> None]]
          /\ Slip
    /\ UNCHANGED <<codes, heard, chat, starts, book, derived>>

pair_begin(s) ==
    /\ ui[s].stage = "Code" /\ ui[s].code # None
    /\ starts < MaxStarts
    /\ starts' = starts + 1
    /\ ui' = [ui EXCEPT ![s].stage = "Exchange", ![s].pairing = starts + 1]
    /\ chat' = chat \cup {start(starts + 1)}
    /\ UNCHANGED <<codes, heard, mistakes, book, derived>>

\* Round 1: the SPAKE2 state is consumed, whether the paste was any good or not.
\* It also fails after a good paste, when my_ticket does (no address is set).
pair_exchange(s) ==
    LET taken == [ui[s] EXCEPT !.pairing = None]
        Derive(peer) ==
            LET key == finish(ui[s].pairing, peer, ui[s].code) IN
            /\ ui' = [ui EXCEPT ![s] = [taken EXCEPT !.channel = key]]
            /\ chat' = chat \cup {seal_ticket(key, Owner[s])}
            /\ derived' = [derived EXCEPT ![Owner[s]] = @ \cup {key}] IN
    /\ ui[s].stage = "Exchange" /\ ui[s].pairing # None
    /\ \E text \in chat :
          \/ decode_message(text) /\ Derive(text.msg) /\ UNCHANGED mistakes
          \/ decode_message(text) /\ Derive(Garbled) /\ Slip
          \/ Failed(s, taken) /\ UNCHANGED <<chat, derived, mistakes>>
    /\ UNCHANGED <<codes, heard, starts, book>>

\* Our own identity is refused, and a nickname is never bound to a second one.
AcceptsOwn(p, nick, id) == book[p][nick] # None => book[p][nick].id = id
Accepts(p, nick, id) ==
    /\ id # p
    /\ book[p][nick] # None => book[p][nick].id = id

\* Round 2: the sealed ticket is opened and its owner saved under the nickname.
pair_complete(s) ==
    LET p == Owner[s]
        key == ui[s].channel IN
    /\ ui[s].stage = "Exchange" /\ ui[s].pairing = None /\ key # None
    /\ \E text \in chat :
          IF opens(key, text) /\ Accepts(p, With[s], text.id)
          THEN /\ book' = [book EXCEPT ![p][With[s]] = [id |-> text.id, secret |-> key]]
               /\ ui' = [ui EXCEPT ![s].stage = "Paired"]
          ELSE Failed(s, ui[s]) /\ UNCHANGED book
    /\ UNCHANGED <<codes, heard, chat, starts, mistakes, derived>>

\* "Pair another peer".
PairAnother(s) ==
    /\ ui[s].stage = "Paired"
    /\ reset_pairing(s)
    /\ UNCHANGED <<codes, heard, chat, starts, mistakes, book, derived>>

\* The application is closed, or the command interrupted.
Quit(s) ==
    /\ ui[s].stage = "Exchange"
    /\ reset_pairing(s)
    /\ UNCHANGED <<codes, heard, chat, starts, mistakes, book, derived>>

Init ==
    /\ ui = [s \in Sessions |-> [stage |-> "Code", code |-> None, pairing |-> None, channel |-> None]]
    /\ codes = 0 /\ starts = 0 /\ mistakes = 0
    /\ heard = [p \in People |-> {}]
    /\ chat = {}
    /\ book = [p \in People |-> [q \in People |-> None]]
    /\ derived = [p \in People |-> {}]

Next == \E s \in Sessions :
    \/ Generate(s) \/ TypeCode(s) \/ pair_begin(s) \/ pair_exchange(s)
    \/ pair_complete(s) \/ PairAnother(s) \/ Quit(s)

Spec == Init /\ [][Next]_vars

-----------------------------------------------------------------------------
(* Properties.                                                             *)

Paired(p, q) == book[p][q] # None

\* A session holds a SPAKE2 state or a channel, never both, and before round 1
\* neither: reset_pairing leaves nothing of an earlier pairing behind.
TypeOK ==
    \A s \in Sessions :
        /\ ui[s].stage \in Stages
        /\ ui[s].code \in 0..codes \cup {None}
        /\ ui[s].pairing \in 1..starts \cup {None}
        /\ ui[s].pairing # None => ui[s].channel = None
        /\ ui[s].stage = "Code" => ui[s].pairing = None /\ ui[s].channel = None

\* However texts are mixed up between conversations, attempts and boxes, a
\* nickname is bound to the person the code was read to (pairing::finish puts the
\* code and both messages into the key; pair_complete refuses our own ticket).
RightPerson == \A p, q \in People : Paired(p, q) => book[p][q].id = q

\* The secret stored with a peer is one that peer derived too (open_ticket binds
\* a sealed ticket to its exchange): whoever is stored can publish and look up
\* under the same slots, if they finish the pairing.
SecretDerivedByBoth == \A p, q \in People : Paired(p, q) => book[p][q].secret \in derived[q]

\* gui/live.rs:204, "if pairing fails, start again with a new code": the window
\* can go on or start again from every stage short of closing the application.
NeverStuck ==
    \A s \in Windows : ui[s].stage = "Exchange" => ui[s].pairing # None \/ ui[s].channel # None

\* live.rs:401, "a fresh exchange, so it yields a fresh secret on both sides":
\* two people who have each other in their books hold the same secret.
SecretsMatch ==
    \A p, q \in People : Paired(p, q) /\ Paired(q, p) => book[p][q].secret = book[q][p].secret
=============================================================================
