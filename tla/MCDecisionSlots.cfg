\* An entry slot and the forced-flat slot, a scheduler, and a process that is
\* the strategy and a worker in turn.
CONSTANTS
  Slots = {1, 2}
  Forced = {2}
  ReadyAt <- MCReady
  DeadlineAt <- MCDeadline
  RequiredAt <- MCRequired
  Lease = 1
  Schedulers = {p1}
  Strategies = {g1}
  Workers = {g1}
  StrategyOwner = StrategyOwner
  NoOwner = NoOwner
  MaxTime = 5
  MaxLag = 1
  MaxCrashes = 1
SPECIFICATION FairSpec
INVARIANTS
  TypeOK
  CompletedInTime
PROPERTIES
  LiveLeaseRespected
  DecidedNotReclaimed
  EverySlotEnds
CHECK_DEADLOCK FALSE
