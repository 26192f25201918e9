---------------------------- MODULE MCChunkSync ----------------------------
(* Instances of ChunkSync small enough for TLC. *)
EXTENDS ChunkSync

CONSTANTS a, b, x1, x2, f1, f2, n1, n2, n3, n4, n5

File(name, mod, nonces, first) ==
  [name |-> name, mod |-> mod,
   chunks |-> [i \in DOMAIN nonces |-> [nonce |-> nonces[i], at |-> first + i]]]

\* b has a newer version of f1, a a file of its own.
NewerAtB ==
  {[p \in Peers |-> IF p = a
      THEN <<File(f1, 1, <<n1>>, 0), File(f2, 1, <<n4>>, 1)>>
      ELSE <<File(f1, 2, <<n1, n2, n3, n5>>, 0)>>]}

\* The same with one chunk less.
ShorterAtB ==
  {[p \in Peers |-> IF p = a
      THEN <<File(f1, 1, <<n1>>, 0), File(f2, 1, <<n4>>, 1)>>
      ELSE <<File(f1, 2, <<n1, n2, n3>>, 0)>>]}

\* a is empty.
NothingAtA == {[p \in Peers |-> IF p = a THEN <<>> ELSE <<File(f1, 2, <<n1, n2>>, 0)>>]}

ADials == [x \in Exchanges |-> a]
BothDial == [x \in Exchanges |-> IF x = x1 THEN a ELSE b]
=============================================================================
