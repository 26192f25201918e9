----------------------------- MODULE MCTransfer -----------------------------
(* Instances of Transfer small enough for TLC. *)
EXTENDS Transfer

\* Two versions of a vault that agree on their first checkpoint only, of
\* different lengths, neither a multiple of it in every instance.
TwoVersions == {<<1, 1, 1, 1, 1>>, <<1, 1, 2, 2>>}
OneVersion == {<<1, 1, 1, 1, 1>>}
Units == {0, 1, 2}
=============================================================================
