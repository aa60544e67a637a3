\* One strategy slot and the forced flat, two symbols.
CONSTANTS
  Strategy = 1
  Symbols = {1, 2}
  Proposals <- MCProposals
  MaxLatch = 2
  MaxCrashes = 0
SPECIFICATION Spec
PROPERTIES
  LatchReduces
CHECK_DEADLOCK FALSE
