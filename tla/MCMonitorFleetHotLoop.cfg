\* A channel whose delivery raises.
CONSTANTS
  m1 = m1
  s1 = s1
  Monitors = {m1}
  Schedulers = {s1}
  Manuals = {}
  MaxConcurrency = 1
  Interval = 2
  Cooldown = 2
  Levels = {"low", "mid", "high"}
  MaxNow = 2
  MaxCrashes = 0
  GatherOutcomes = {"ok"}
  Flawed = {m1}
  PushOutcomes = {"pushed", "raises"}
  EditKinds = {}
  None = None
SPECIFICATION FairSpec
PROPERTIES
  DueIsServed
