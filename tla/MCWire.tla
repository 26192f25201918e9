------------------------------- MODULE MCWire -------------------------------
(* Wire on small instances: digits of base 4, short keys and addresses.     *)
EXTENDS Wire

V4 == [tag |-> TAG_V4, addr |-> <<0>>, port |-> <<1>>, scope |-> 0]
V6 == [tag |-> TAG_V6, addr |-> <<1, 0>>, port |-> <<0>>, scope |-> 0]
LinkLocal == [V6 EXCEPT !.scope = 3]
Hidden == [tag |-> TAG_ONION, addr |-> <<Letter>>, port |-> <<1>>, scope |-> 0]

\* Up to five hints: two may be read, four no longer fit the count.
HintLists == BoundedSeq({V4, V6, LinkLocal, Hidden}, 3) \cup {<<V4, V6, V4, V4>>, <<V6, V4, V4, Hidden, V4>>}
Keys == {<<<<0>>, <<>>>>, <<<<1>>, <<1>>>>, <<<<0, 1>>, <<0>>>>}

Tickets == {[kind |-> "ticket", not_after |-> <<1>>, classical |-> k[1], pq |-> k[2], hints |-> h] :
               k \in Keys, h \in HintLists}

\* Everything ServerLink::new returns for a few hosts, prefixes, pins and onions.
Links == {NewLink([kind |-> "link", server |-> s, host |-> h, port |-> <<1>>, prefix |-> p, pins |-> c, onion |-> o]) :
             s \in {Rendezvous, Relay}, h \in BoundedSeq({Letter, Slash}, 2), p \in BoundedSeq({Letter, Slash}, 3),
             c \in BoundedSeq({<<0>>, <<1>>}, 3), o \in {None, [host |-> <<Letter>>, port |-> <<1>>]}} \ {None}

Secrets == {[kind |-> "secret", classical |-> <<1>>, pq |-> p] : p \in {<<>>, <<1>>}}

MCDocuments == Tickets \cup Links \cup Secrets
MCSizes == [ticket |-> 0..18, link |-> 0..14, secret |-> 0..9]
MCContent == {0, 1}
=============================================================================
