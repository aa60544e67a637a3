\* A cancellation that fails because the order has traded.
CONSTANTS
  Exits = {x1}
  Entries = {}
  Procs = {p1}
  Qty <- MCQty
  MaxQty = 1
  MaxTime = 1
SPECIFICATION Spec
INVARIANTS
  AmbiguityResolvable
CHECK_DEADLOCK FALSE
