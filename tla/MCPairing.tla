----------------------------- MODULE MCPairing -----------------------------
(* Instances of Pairing for TLC: Ann pairs with Bob and with Cat at the    *)
(* same time; or Ann and Bob pair, and pair again.                         *)
EXTENDS Pairing

Three == {"ann", "bob", "cat"}
Conversations == {"ann_bob", "ann_cat", "bob"}
OwnerOf == [s \in Conversations |-> IF s \in {"ann_bob", "ann_cat"} THEN "ann" ELSE s]
WithOf == [s \in Conversations |-> IF s = "ann_bob" THEN "bob" ELSE IF s = "ann_cat" THEN "cat" ELSE "ann"]

Two == {"ann", "bob"}
OwnerSelf == [s \in Two |-> s]
WithOther == [s \in Two |-> IF s = "ann" THEN "bob" ELSE "ann"]
=============================================================================
