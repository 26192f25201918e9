SPECIFICATION Spec
CONSTANTS
  bob = bob
  carol = carol
  kb = kb
  kc = kc
  me = me
  c1 = c1
  c2 = c2
  p1 = p1
  Nicks = {bob, carol}
  Keys = {kb, kc, me}
  Self = me
  Files = {f1}
  Paths = {p1}
  Inbound = {c1}
  PeerKey <- OneFriend
  Picks <- AnyPath
  Out = out
  Adders = {cli}
  InitBooks <- BobMaybe
  InitOnions = {"absent", "plain"}
  InitFiles <- AnyFile
  Corrupt = Corrupt
  NoOne = NoOne
  Size = 1
  MaxAdds = 2
  MaxOut = 1
  MaxFaults = 1
  MaxEvents = 9
INVARIANTS
  TypeOK
  KeyUnderOneNick
  SafeWithoutOverlap
CHECK_DEADLOCK FALSE
