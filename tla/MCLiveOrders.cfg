\* A sell in two parts and a buy, the daemon alone, one fault.
CONSTANTS
  Sells = {"s1"}
  Buys = {"b1"}
  Qty <- MCQty
  Daemon = "daemon"
  Others = {}
  MaxFaults = 1
SPECIFICATION Spec
INVARIANTS
  SubmittedOnce
  TerminalIsTrue
  BuysAfterSells
  
