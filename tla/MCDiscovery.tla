---------------------------- MODULE MCDiscovery ----------------------------
(* Discovery on small instances.                                            *)
EXTENDS Discovery

\* Two endpoints, the second of which may replay.
MCSubstrates == 1..2
MCReplaying == {2}
MCReaders == {"high"}
=============================================================================
