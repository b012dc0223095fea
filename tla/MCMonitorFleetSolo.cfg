\* One scheduler that may crash, no other driver, no edits.
CONSTANTS
  m1 = m1
  s1 = s1
  Monitors = {m1}
  Schedulers = {s1}
  Manuals = {}
  MaxConcurrency = 1
  Interval = 2
  Cooldown = 5
  Levels = {"low", "mid", "high"}
  MaxNow = 7
  MaxCrashes = 1
  GatherOutcomes = {"ok", "partial", "caught", "uncaught"}
  Flawed = {m1}
  PushOutcomes = {"none", "pushed", "failed"}
  EditKinds = {}
  None = None
SPECIFICATION Spec
INVARIANTS
  CooldownRespected
PROPERTIES
  BaselineKept
  CadenceKept
  CrossingsPublished
