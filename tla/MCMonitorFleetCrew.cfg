\* Two monitors under a semaphore of one, a crash; one of them may raise anything.
CONSTANTS
  m1 = m1
  m2 = m2
  s1 = s1
  Monitors = {m1, m2}
  Schedulers = {s1}
  Manuals = {}
  MaxConcurrency = 1
  Interval = 1
  Cooldown = 0
  Levels = {"mid", "high"}
  MaxNow = 2
  MaxCrashes = 1
  GatherOutcomes = {"ok", "caught", "uncaught"}
  Flawed = {m1}
  PushOutcomes = {"pushed", "raises"}
  EditKinds = {}
  None = None
SPECIFICATION FairSpec
PROPERTIES
  OthersAreServed
  ParkedIsSilent
