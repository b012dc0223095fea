\* Runs one after the other, lost answers, sellers that settle what they advertise.
CONSTANTS
  r1 = r1
  r2 = r2
  graph = graph
  peer = peer
  Runs = {r1, r2}
  MaxActive = 1
  Sources = {graph, peer}
  Crew <- Pair
  Peers = {peer}
  Ceiling = 3
  Estimate <- OneEach
  Prices = {0, 2}
  Repricing = FALSE
  Retries = 1
  Faults = {"transport", "open"}
  Replies = {"good", "unusable", "refused"}
  TrustFloor = 40
  TrustMinEvents = 1
SPECIFICATION FairSpec
CHECK_DEADLOCK FALSE
INVARIANTS
  BooksBalance
  OutlayBounded
  PeersNeverFatal
PROPERTIES
  GatherEnds
