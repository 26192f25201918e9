----------------------------- MODULE MCLiveBook -----------------------------
(* Instances of LiveBook for TLC.                                          *)
EXTENDS LiveBook

CONSTANTS a1, a2, p1, p2

\* A good link, one that needs a proxy and has it or not, one for a relay.
Cfg(kind, onionOnly, socks) == [kind |-> kind, onionOnly |-> onionOnly, socks |-> socks]
MCConfigs == {Cfg("rendezvous", FALSE, "none"), Cfg("rendezvous", TRUE, "none"),
              Cfg("relay", FALSE, "none")}

TwoProcs == {p1, p2}
OneProc == {p1}
Symmetry == Permutations(TwoProcs)

MCIds == {1, 2}
OneId == {1}
MCAddresses == {a1, a2}
MCNicks == {"bob"}
MCNames == {"home"}
MCKinds == {"address", "stun", "pair", "add", "remove", "transfer"}
=============================================================================
