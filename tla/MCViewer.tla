------------------------------ MODULE MCViewer ------------------------------
(* Instances of Viewer for TLC: two opens of one file, or a single open.   *)
EXTENDS Viewer

Two == {"a1", "a2"}
SameName == [j \in Two |-> "a"]
One == {"b"}
OneName == [j \in One |-> "b"]
=============================================================================
