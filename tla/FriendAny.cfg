SPECIFICATION FairSpec
CONSTANTS
  bob = bob
  carol = carol
  kb = kb
  kc = kc
  me = me
  c1 = c1
  c2 = c2
  p1 = p1
  Nicks = {bob, carol}
  Keys = {kb, kc, me}
  Self = me
  Files = {f1}
  Paths = {p1, p2}
  Inbound = {c1, c2}
  PeerKey <- TwoFriends
  Picks <- FirstTakesP1
  Out = out
  Adders = {cli}
  InitBooks <- BobOnly
  InitOnions = {"plain"}
  InitFiles <- LongerFile
  Corrupt = Corrupt
  NoOne = NoOne
  Size = 1
  MaxAdds = 1
  MaxOut = 1
  MaxFaults = 1
  MaxEvents = 2
INVARIANTS
  ConsentFirst
  SafeWithoutOverlap
  CleanCopyDelivers
PROPERTIES
  ProposalEnds
CHECK_DEADLOCK FALSE
