\* Two strategy slots and the forced flat, two symbols, one crash, two halts.
CONSTANTS
  Strategy = 2
  Symbols = {1, 2}
  Proposals <- MCProposals
  MaxLatch = 3
  MaxCrashes = 1
SPECIFICATION Spec
INVARIANTS
  ReceiptProves
  ReceiptsClean
  ForcedFlatIsFlat
PROPERTIES
  DecidedInTheClear
  SessionEnds
CHECK_DEADLOCK FALSE
