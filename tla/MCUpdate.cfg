\* One monitor without a key; the price moves between 11.50 and 12.40 dollars.
CONSTANTS
  Labels <- McLabels
  Snapshots <- McSnapshots
  Requests <- McRequests
  Keyed = FALSE
  Quiet = 2
  NoMonitor = NoMonitor
SPECIFICATION CrewSpec
INVARIANT NoteIsSourced
