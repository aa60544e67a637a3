\* One job, two worker replicas with one owner string, skewed clocks.
CONSTANTS
  JobIds = {1}
  Workers = {w1, w2}
  OwnerOf <- MCOwnerOf
  Handles <- MCHandlesAll
  MaxAttempts = 2
  Lease = 2
  RetryDelay <- MCDelays
  ClaimLimit = 2
  Dialect = "postgresql"
  Skew = 1
  MaxTime = 6
  MaxVersion = 8
  NoOwner = NoOwner
SPECIFICATION Spec
INVARIANTS
  TypeOK
  NoRowPoisonsTheQueue
  AttemptsFenced
  HistoryMatchesRow
  CompletionNotStale
PROPERTIES
  ImplementsLifecycle
CHECK_DEADLOCK FALSE
