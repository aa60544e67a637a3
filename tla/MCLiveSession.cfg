\* Two sessions, one unit held, the daemon and the command line, on a frozen clock.
CONSTANTS
  Sessions = 2
  Held = 1
  MaxOrder = 1
  MaxDecisions = 2
  MaxMoves = 1
  MaxHalts = 1
  MaxFaults = 1
  ReconcileTime = 0
SPECIFICATION Spec
INVARIANTS
  ReceiptFirst
  HardStopsDisjoint
PROPERTIES
  BuysTakenUnlatched
