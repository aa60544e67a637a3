\* One symbol, two days of two minutes, two processes, one takeover.
CONSTANTS
  Symbols = {1}
  Procs = {p1, p2}
  Days = 2
  SessionMinutes = 2
  BucketMinutes = 2
  Limit = 2
  Traded = {0, 1, 3}
  Imported = {0}
  ImportedThrough = 1
  Flawed = {0}
  MaxIntake = 2
  MaxStarts = 1
CHECK_DEADLOCK FALSE
SPECIFICATION FairDerivedSpec
INVARIANTS
  QuietExact
  GapsTracked
  BasketExact
PROPERTIES
  PublishedExact
  EventuallyQuiet
