---------------------------- MODULE MCRendezvous ----------------------------
(* Rendezvous on small instances.                                           *)
EXTENDS Rendezvous

\* Both paired with the current identity of the other, both hybrid, both
\* classical, or the accepter hybrid alone.
Current == {[id |-> [ann |-> 1, bo |-> 2], pin |-> [ann |-> 2, bo |-> 1],
             hybrid |-> h, twins |-> {}] : h \in {{}, {2}, {1, 2}}}

\* Ann made a new identity that bo has not pinned: it still dials (0), or it now
\* accepts as bo does (3).  Or bo made one that ann has not pinned: it still
\* accepts (3), or it now dials as ann does (0).
Stale == {[id |-> [ann |-> a, bo |-> 2], pin |-> [ann |-> 2, bo |-> 1],
           hybrid |-> {0, 1, 2, 3}, twins |-> {}] : a \in {0, 3}}
         \cup {[id |-> [ann |-> 1, bo |-> b], pin |-> [ann |-> 2, bo |-> 1],
                 hybrid |-> {0, 1, 2, 3}, twins |-> {}] : b \in {0, 3}}

\* Ann runs with only the classical half of the bundle that bo has pinned.
Downgraded == {[id |-> [ann |-> 0, bo |-> 2], pin |-> [ann |-> 2, bo |-> 1],
                hybrid |-> {1, 2}, twins |-> {0, 1}]}

\* Ann runs with a hybrid bundle of which bo has pinned the classical half.
Upgraded == {[id |-> [ann |-> 0, bo |-> 2], pin |-> [ann |-> 2, bo |-> 1],
              hybrid |-> {0, 2}, twins |-> {0, 1}]}

MCScenarios == Current \cup Stale \cup Downgraded \cup Upgraded
=============================================================================
