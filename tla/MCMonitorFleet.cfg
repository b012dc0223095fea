\* One monitor, a scheduler and a manual run of it, edits, a crash.
CONSTANTS
  m1 = m1
  s1 = s1
  a1 = a1
  Monitors = {m1}
  Schedulers = {s1}
  Manuals = {a1}
  MaxConcurrency = 1
  Interval = 1
  Cooldown = 2
  Levels = {"mid", "high"}
  MaxNow = 1
  MaxCrashes = 1
  GatherOutcomes = {"ok"}
  Flawed = {}
  PushOutcomes = {"failed"}
  EditKinds = {"delete", "toggle"}
  None = None
SPECIFICATION Spec
INVARIANTS
  TypeOK
  SuppressionIsBacked
