\* Two jobs, two workers, PostgreSQL's candidate order.
CONSTANTS
  JobIds = {j1, j2}
  Workers = {w1, w2}
  MaxAttempts = 2
  Lease = 2
  RetryDelay <- MCDelays
  Dialect = "postgresql"
SPECIFICATION FairSpec
PROPERTIES
  EveryJobEnds
CHECK_DEADLOCK FALSE
