---------------------------- MODULE MCFriendSync ----------------------------
(* Instances of FriendSync small enough for TLC. *)
EXTENDS FriendSync

CONSTANTS bob, carol, kb, kc, me, c1, c2, p1

Stranger(k) == [key |-> k, vaults |-> {}, seen |-> FALSE]
BobOnly == {bob :> Stranger(kb)}
BobAndCarol == {(bob :> Stranger(kb)) @@ (carol :> Stranger(kc))}

BobMaybe == {<<>>, bob :> Stranger(kb)}

Longer == [i \in 1 .. Size + 1 |-> NoOne]
AnyFile == {NoOne, Longer}
LongerFile == {Longer}

TwoFriends == c1 :> kb @@ c2 :> kc
OneFriend == c1 :> kb

\* Destinations are interchangeable: the one picked for the first friend is p1.
AnyPath == [c \in Inbound |-> Paths]
FirstTakesP1 == [c \in Inbound |-> IF c = c1 THEN {p1} ELSE Paths]
=============================================================================
