\* An exit of one unit and an entry of two, two processes, time.
CONSTANTS
  Exits = {x1}
  Entries = {e1}
  Procs = {p1, p2}
  Qty <- MCQty
  MaxQty = 2
  MaxTime = 1
SPECIFICATION Spec
SYMMETRY Symmetric
INVARIANTS
  TypeOK
  LedgerIsTrue
  OutcomeLearnable
  SubmittedOnce
  EntriesWaitForExits
PROPERTIES
  StartsInTheClear
CHECK_DEADLOCK FALSE
