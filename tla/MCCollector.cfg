\* Two symbols, two sessions, a collector that runs on and one that collects once.
CONSTANTS
  Procs = {p1, p2}
  Once = {p1}
  Symbols = {1, 2}
  Sessions <- Calendar
  Prompt = {1}
  Late = {3}
  Overlap = 1
  Cutoffs = {1, 4, 5}
  MaxToken = 3
  MaxFaults = 1
CHECK_DEADLOCK FALSE
SPECIFICATION FairSpec
INVARIANTS
  CheckpointStored
PROPERTIES
  WritesUnderRun
  LateBarsStored
