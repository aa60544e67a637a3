\* Two events, two workers: safety and delivery.
CONSTANTS
  Events = {1, 2}
  Workers = {w1, w2}
  MaxAttempts = 2
  Lease = 2
  RetryDelay <- MCDelays
SPECIFICATION FairSpec
INVARIANTS
  PublishedWasDelivered
PROPERTIES
  EventuallySettled
CHECK_DEADLOCK FALSE
