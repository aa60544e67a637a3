# TLA+ specifications of the adaptive trader platform

These modules specify the parts of `adaptive_trader` whose correctness depends on
what several processes, a database and a broker do in an order nobody chooses:
the durable job queue with its outbox, the submission of orders to the paper
broker, the leased decision slots of a session, the workers that carry a session
through from data to reconciled orders, the order ledger, latches and reductions
of the live paper trader, and the market-data collector with what it derives from
its bars.  TLC checks them on small instances; TLAPS proves their safety
properties for instances of any size.
`PROJECT.json` maps every definition to the lines it models.

All paths below are relative to `src/src/adaptive_trader/`.

## The system

The repository holds an older single-process paper trader (`live.py`,
`execution.py`, ...), a continuous market-data collector (`collection/`) and the
platform that replaces the former (`platform/`).  The platform is a set of
processes that share nothing but a PostgreSQL (in tests SQLite) database:

| component | state | operations | talks to |
|---|---|---|---|
| Durable jobs (`platform/jobs`) | `aqa_jobs`, `aqa_job_attempts`, `aqa_outbox_events` | create, cancel, claim_next (with recovery of expired attempts), mark_running, heartbeat, succeed, fail | worker processes, handlers |
| Outbox (`platform/jobs`) | `aqa_outbox_events` | claim, heartbeat, publish, fail, exhaust | an external publisher |
| Job worker service (`platform/runtime.py`) | process memory, heartbeat thread | an endless cycle: one job, then one outbox event | the two above |
| Execution (`platform/execution`, `platform/storage/execution.py`) | plans, intents, orders, order events, executions | persist a plan, authorize, claim a submission, record its outcome, look up, apply a broker update, cancel | the broker, risk latches |
| Reconciliation, flatten (`platform/execution`) | reconciliation records | compare ledger and broker, engage a latch, close everything | ledger, broker, latches |
| Risk (`platform/risk`, `platform/storage/risk.py`) | risk decisions, latches | evaluate targets, engage and clear latches | scheduler, operator |
| Decision slots (`platform/scheduling`) | `aqa_decision_slots` | create, evaluate readiness, claim, renew, complete, skip, fail, recover | market data, risk |
| Market data (`platform/data`) | bars, revisions, watermarks, gaps | collect, normalise, aggregate, materialise, repair | provider, jobs |
| Collector (`collection`) | fenced lease, runs, observations, checkpoints, queue of sessions to derive | acquire, renew, catch up, stream, repair a gap, drain the queue, shut down | provider, market data |
| Audit (`platform/storage/repositories.py`) | hash-chained event streams | append under advisory locks | everybody |
| Operator (`platform/control`, `platform/api`) | sessions, requests | halt, clear, query | latches |
| Service cycles (`platform/service_cycles.py`) | the rows of the components above; the execution worker's broker in memory | one cycle each of collector, scheduler, strategy and execution worker | all of the above, through the database |
| Live trader (`live.py`, `execution.py`, `reconciliation.py`, `persistence.py`) | decisions with receipts, orders, order events, fill ledger, snapshots, active halts | run a decision, resume a buy leg, apply trade updates, reconcile, monitor risk, reduce, halt, resume | Alpaca, its update stream, command-line processes |

The hard behaviours are the same everywhere: a lease that expires while its owner
still works; processes that share an owner name; a value read in one transaction
and used in the next; a broker call whose answer is lost; a crash between a
durable step and the external effect it announces; and timestamps of two clocks
that are compared with each other.  `PROJECT.json` lists these hazards line by
line with the properties that would catch each going wrong.

What makes the components correct:

* jobs: an attempt is worked on by the process that claimed it only, attempts are
  bounded, history and outbox agree with the row, no stored row can stop the
  queue, a finished worker's completion is not refused, every job ends;
* outbox: PUBLISHED means delivered, and every event is settled;
* execution: no intent is submitted twice, nothing is submitted while an outcome
  is open or over an engaged latch, entries wait for exits, the ledger never says
  more than the broker did, an unknown outcome can be learnt;
* slots: at most one decision per slot, none after its deadline, forced flat
  never forgotten;
* the session: exposure is granted and opened only in the clear, a clean receipt
  proves its plan, ledger and account never disagree, the day ends flat;
* live trader: an intent is sent once, an end is recorded only of an order that
  ended, buys wait for sells, a reconciliation leaves no deficit in the fill
  ledger, the attempts of a reduction do not overlap, no buy is planned or resumed
  under a risk latch;
* market data: readiness and baskets are those of the bars and gaps of one
  moment, a missing interval is a gap that can be repaired, and nothing that
  arrives during a drain is forgotten;
* collector: a checkpoint covers only what is stored, nothing is written outside
  the run of the current lease, and late bars are found in the end.

## Modules

| module | models |
|---|---|
| `JobLifecycle` | what the queue promises of one job: the abstract specification |
| `DurableJobs` | `JobRepository` and `DurableJobWorker` with full rows, attempt history, outbox rows and skewed clocks |
| `DurableJobsProofs` | theorems about `DurableJobs` |
| `JobProgress` | the same control with relative time, for liveness |
| `Outbox` | delivery of outbox events by `DurableOutboxWorker`, safety and liveness |
| `OutboxProofs` | theorems about `Outbox` |
| `OrderExecution` | `ExecutionService`, the ledger's methods and the Alpaca adapter |
| `OrderExecutionProofs` | theorems about `OrderExecution` |
| `DecisionSlots` | `DecisionSlotRepository`, the operational scheduler cycle and the strategy's proposal |
| `ServiceCycles` | the four workers of `service_cycles.py` with risk decisions, latches, operator controls, plans and reconciliation receipts: the composition over one session |
| `ServiceCyclesProofs` | theorems about `ServiceCycles` |
| `LiveOrders` | `OrderManager`, `Reconciler`, the order and fill tables and the execution of a decision by `LiveService` |
| `LiveOrdersProofs` | theorems about `LiveOrders` |
| `LiveSession` | decisions, risk latches, reductions, halts and resumes of `LiveService` |
| `LiveSessionProofs` | theorems about `LiveSession` |
| `DerivedData` | the collector's queue and its drain: canonical bars, aggregates, gaps, readiness, baskets |
| `ReadinessProofs` | theorems about the two components that a decision waits for, `DecisionSlots` and `DerivedData` |
| `Collector` | `CollectorService`: lease, runs, catch-up, checkpoints, gap repair, stream and shutdown |
| `CollectorProofs` | theorems about `Collector` |
| `MC*` | constant definitions for TLC |

A definition called "Mutant of X" is a plausible mistake in the code that X
models.  Replacing X by it violates a property; `PROJECT.json` says which.

### DurableJobs

A repository method is one transaction with the row locked, hence one action; its
early returns and conflicts are the negation of the guard, because a refused call
changes nothing durable and only makes `run_one` raise (`Abort`).  A row of
`aqa_jobs` is a record with the columns that conditions read; payload, hashes,
priorities of types and text are left out.  `ValidRow` is the record validation
that every build and every read goes through together with the table's CHECK
constraints; `FreshAttempts` and `FreshEvents` are its UNIQUE constraints.  A
transition that would violate one rolls back, so `Persist` has them as guards,
and `NoRowPoisonsTheQueue` says that they never are what stops a transition.

`run_one` is split where another process can come between: claim, mark_running,
handler, return, join of the heartbeat thread, final checkpoint, completion.
`Checkpoint` is the heartbeat thread (or the handler's own checkpoint).  Every
call reads the process's own clock, anywhere within `Skew` of real time.
`claim_next` is `ClaimJob` and `RecoverExpired`: the query's ORDER BY with the
dialect's NULL ordering, its LIMIT, `SKIP LOCKED` as an arbitrary set of skipped
rows on PostgreSQL, and the recovery of the expired attempts that it meets before
the first due job.  `by` in an attempt row is a history field, the process that
wrote it: lease owners are `job-worker-<pid>` and containers share pid 1, so the
instance gives both workers one owner string.

### JobProgress and Outbox

An absolute clock must be bounded for TLC, and nothing can be said to happen
eventually after the last tick.  These modules replace it by the time left until
a row is due or its lease ends.  Workers have one clock there.  `Outbox` also has
the history of deliveries; a publisher may deliver and still raise.

### OrderExecution

A ledger method is one transaction under the experiment's advisory lock.  Calls of
the broker are split: the request leaves (`Send`), arrives late or never
(`Arrive`, `Lose`), is answered (`Answer`) or raises (`RecordUnknown`); a process
may die anywhere (`Abort`).  The broker (external) trades, cancels, rejects and
expires orders at any time and stamps them with its own clock.

* `Authorize` is `authorize_intent` together with `_submission_authority`, whose
  reads of ledger, latches and broker are separate steps in the code.  One step is
  enough: `record_submission_started` compares the snapshot with the ledger again
  (`current`, `latched`) and fails if any order or latch changed since, and the
  broker can only have moved on, so a comparison that holds across the reads
  holds at the last of them.
* `submit_plan` returns before the entries unless every exit came back FILLED;
  because FILLED has no way out, the condition can be read from the ledger.
* Every order has a symbol of its own, so the comparison of positions and cash is
  one of unit counts.  Prices, staleness of quotes, signatures and the paper gates
  can only deny a submission; the model may always decline to act.
* An update carries the broker's `updated_at`, and `evolve` refuses an older time
  than the ledger's.  All clocks agree in the model: skew would only add refusals.
* Latches are one Boolean that changes at any time.

### DecisionSlots

Again a repository method is one transaction with the row locked.  Its version and
content hash in the UPDATE cannot fail then, and a call that raises changes
nothing.  `Claimed` is `_claim_locked`, case by case (`Elapsed`, `Materialized`,
`Grantable`, otherwise the row as it is: LEASE_HELD, NOT_READY or NOT_AVAILABLE);
`claim`, `claim_next`, `recover_expired_claims` and the scheduler all go through
it.  `ValidRow` is what `_validate_slot` demands of lease and completion columns.

* The scheduler takes one instant per cycle and uses it in all its transactions:
  `sched[p].at` lags behind `now`.  It claims in the name of the strategy.
  `Recover` is one step, although the code reads the slot, the signal and then
  claims: the condition for leaving a claim alone (`Waits`) can only turn false in
  between, when a signal appears, and then the next cycle sees it.
* `Propose` and `PersistSignal` are `propose_once`: the signal is written in a
  second transaction which does not look at the slot.  The data checks between
  them can only deny, and `Forget` stands for that and for a crash.
* Workers are callers with an owner name of their own, such as the forced-flat
  coordinator; their instants lag by up to `MaxLag`, but a worker's clock does not
  run back.
* The watermark is any slot, chosen anew by every cycle, so data may come late,
  never, or be withdrawn.
* Time beyond `MaxTime` has nothing new: all deadlines and leases are over.

### ServiceCycles

This module composes what the others treat one by one, on the worker cycles that
run a session offline.  The services share the database and run cycle after cycle;
the collector's, scheduler's and strategy's transactions are one action each, and
the execution worker's cycle is cut at every transaction: restore and read
(`Begin`), `PersistDecision`, `PersistPlan`, and per intent `Authorize`, `Start`
and `Apply`, then `Close`.  Between any two of them the operator halts or resumes
or the worker dies (`Crash`).

* A latch is a stream of alternating events, so its length tells whether it is
  engaged and whether it changed; `persist` compares the streams (the content
  hash), `record_submission_started` only the set of active latches.
* A target is a signed unit per symbol.  The risk engine keeps the proposal or,
  under a latch, reduces to zero; weights, caps and statistics are not modelled.
  The planner's rules are: exits to zero, entries from zero, and a reversal that
  stops at zero and is entered in a second stage with a decision of its own.
* The broker of the workers fills at once and lives in the execution worker's
  memory.  `exec.pos` is its account; after a crash it is rebuilt from the durable
  orders, those that were only started included.
* The slots at whose prices the account has lost too much are chosen at the start
  (`loss`), as the offline prices are: a repeated cycle sees them again.
* Slot leases, deadlines and clocks are those of `DecisionSlots`.  Here instants
  are computed from the slot, as in the code, so nothing expires.

### LiveOrders

The rows of a decision's orders have three writers: the main thread (submission,
reconciliation inside a cycle, resumed buy legs, the reconciliation monitor), the
trade-update thread and, if `Others` is not empty, command-line reconcilers.
`transition_order` is two steps, because SQLite begins its transaction at the
UPDATE: the check of event key and state (`Check`, `CheckUpdate`, `Advance`), and
the write (`Write`, `ApplyUpdate`, `CommitAdvance`).  `Locked` is the lock of
`Database`, which makes the two steps one for the threads of a process.  The
reconciler works with what the broker said at its begin and rows read after it,
and records what it saw (`seen`) at its end (`Finish`).

`Finish` is not the only writer of `seen`.  The risk monitor, the close of a day
and a process that starts record an account and positions that they read after
their last reconciliation (`ReadAccount`, `RecordAccount`), and nobody repairs the
fill ledger for those.  The newest snapshot may therefore show fills that the
ledger lacks.  What holds, and is stated, is that a reconciliation does not end
before the ledger has what the orders had traded at its begin (`LedgerRepaired`).
The broker is external: it trades, ends orders and sends updates, which a
disconnect loses (`Disconnect`) and a reconnect may repeat (`Repeat`).  Prices,
notionals and timestamps are left out.  REJECTED, REPLACED and EXPIRED are reached
as CANCELED is.

### LiveSession

One symbol, one order per decision, and the life of an order reduced to what
decisions depend on.  The daemon's cycle is cut where it reads and where it
writes: claim, reconcile and latches, target and positions, plan with gate and
receipt, submission.  The risk monitor latches, cancels, reconciles and reduces
after a hard stop or an operator's request; a reduction series numbers its
attempts, and an attempt that may still trade blocks the next (`Blocks`).  The
command line halts, flattens and resumes.  `account` is external: which limits
are breached and whether market and data are fit.

* `ReconcileTime` is how far the clock advances during a reconciliation.  The
  release of a daily-loss latch is refused unless it is 0 (a hazard in
  `PROJECT.json`); the run uses 0, so that the release happens and safety is
  checked with it as well.
* A buy leg that waits for sells stays with its decision (`HoldBuys`), and a later
  round of the daemon, or a later process, sends it (`ResumeBuys`, `ResumeGate`) or
  gives it up (`AbandonBuys`).  The halts are read before the reconciliation and
  the gate, not after.
* The command line that flattens cancels everything and then makes attempts of its
  own (`Flatten`, `FlattenAgain`) with the actions of the daemon's reductions: it
  reconciles, latches what is breached and passes the gate, since `ensure_ready`
  starts its streams.  `Flatten("raised")` is a readiness or a broker call that
  fails, `Flatten("refused")` a stream of updates that is not healthy.
* `Move` changes one limit, or market and data, at a time.  A new session ends a
  breach of the daily limit, whose loss is counted from the last close, and not one
  of the hard stop (`NewSession`).

### DerivedData

Intake (`Deliver`, `Cover`, `CoverClosed`) commits bars, corrections and REST
coverage and upserts the session's queue row with the next generation.  A drain
selects a batch of the queue and takes each item through inspection, reading, gap
synchronisation, aggregation and the gaps of the aggregates; then, by symbol and
timeframe, through fence, scan, publication and basket; and deletes the rows whose
generation is still the one selected.  Every transaction is an action, and intake,
a successor (`Start`) or the loss of the lock's connection (`LoseLock`) comes
between any two of them.

* A bar event is its revision and whether its provider payload is complete: all
  that readiness tells apart.  An aggregate is the sequence of its minutes' events,
  so that "made of the current minutes" is an equality.
* `mark` holds the components that `quality_hash` is computed over, not the hash;
  `Through` is what the hash is published with.
* `prefix` is the scan that `_readiness_prefixes` keeps in memory, with the four
  conditions for its use (`Reusable`).
* The calendar has one closed slot between two sessions, and the database clock is
  past every bar, so no publication is refused for its timestamp.  A gap is never
  waived.
* A batch is a set of queue rows; `FirstOf` and `LastItem` are the code's order by
  session and symbol.

### Collector

A process collects once and ends, or streams in its main thread while a second
thread reconciles and repairs.  A `job` is `_backfill_range` at work: session
window by session window and symbol by symbol, fetch, store and advance are steps
of their own.  Every write verifies the fencing token in its transaction (`Valid`);
a process whose token is superseded or whose lease has expired is refused and goes
where the code's exception handlers send it (`Refused`, `Interrupted`, `Closing`).
`Stall` lets a lease expire under a process that still runs, `Crash` ends one
between any two steps.

* A lease has no clock of its own: it expires when nobody renews it, or by a
  stall.  The cutoff moves through `Cutoffs` while the collector works.
* Some minutes never have a bar (an IEX symbol without a trade), some have it at
  once (`Prompt`), some late or never (`Late`).
* The gaps that `DerivedData` would record are `Gaps`: the missing minutes below
  the checkpoint.  The cooldown of repairs only delays them.
* One observation of a minute is enough here; precedence among several is a
  database comparison that no interleaving changes.

## Runs

| run | instance | shows |
|---|---|---|
| `durable_jobs` | 1 job, 2 workers with one owner string, 2 attempts, skew 1, lease 2, time to 6 | all safety properties of the queue and the refinement of `JobLifecycle` |
| `job_progress` | 2 jobs, 2 workers, PostgreSQL order | every created job ends |
| `outbox` | 2 events, 2 workers | safety and liveness of delivery |
| `order_execution` | an exit of 1 unit, an entry of 2, 2 processes, time to 1 | once-only submission, clear starts, the barrier between phases, the ledger's truth and that an outcome can be learnt |
| `decision_slots` | an entry and the forced-flat slot, 1 scheduler, 1 process that is strategy and worker, lease 1, lag 1, 1 crash, time to 5 | leases, deadlines and recovery of slots, and every slot ends |
| `service_cycles` | 2 strategy slots and the forced flat, 2 symbols, 3 proposals, 2 halts, 1 crash | receipts, decisions and the forced flat under halts and a crash; the session ends |
| `live_orders` | a sell of 2 units and a buy of 1, the daemon's threads, 1 fault | once-only submission, true ends, buys after sells, a repaired fill ledger |
| `live_session` | 2 sessions, 1 unit held, 2 decisions, 1 move of the account, 1 halt, 1 fault | receipts first, disjoint attempts of a hard stop, no buy taken in hand under a latch |
| `derived_data` | 1 symbol, 2 days of 2 minutes, buckets of 2, 2 processes, 2 batches of intake, 1 takeover or lost lock | published and final exactness, gaps, baskets, and the queue empties |
| `collector` | 2 symbols, 2 sessions with closed time between, 1 process that runs on and 1 that collects once, 3 leases, 1 fault | checkpoints, runs and late bars |
| `order_cancel` | 1 exit, 1 process | violated: the first finding below |
| `service_halt` | 1 strategy slot and the forced flat, 2 symbols, no crash | violated: the second finding below |

Why the bounds are enough for the cases meant.  Two workers and two attempts are
the least in which a late worker meets its successor; with skew 1 and lease 2 a
worker's clock may be ahead of or behind the row by as much as half a lease, and
time to 6 lets an attempt expire, be retried after its delay and expire again.
Heartbeats are bounded by `MaxVersion`: three beyond the transitions of a job's
life, one in each place where they can race something.  Claims that recover
several attempts on the way need a second job: the theorems cover them for any
number of jobs, `job_progress` has two.  Two units give the entry a partial fill;
two processes are needed for responses applied out of order, for a stale authority
and for a cancel that races a refresh.  In the timetable of `MCDecisionSlots` two leases fit between ready_at and deadline_at, as
in the code's 30 and 60 seconds, so a slot can be claimed, lapse, be claimed again
and lapse at its deadline, and the forced flat has a lease more; a process that is
strategy and worker in turn competes with the scheduler in both roles.  In
`service_cycles` the proposals are both sides at once, the reversal of one of them, and nothing: with two slots this gives a plan
with an exit and an entry, a reversal with its second stage, and a forced flat
from any position; two halts give a resume between two halts of one plan.  In
`live_orders` a sell in two parts and one fault make partial fills, lost, repeated
and stale updates, an answer that comes after the update, and a buy leg resumed by
a new process.  `live_session` has room for a decision and a reduction, or two
attempts of a reduction, by the daemon or by the daemon and the command line, in
either session; one move is a breach at any moment, which the next session ends if
it is a daily loss, so that the latch is released while buys are possible again.  In `derived_data` a minute is missing
at the start and one minute never has a bar, so there are gaps that fill and gaps
that do not; two batches are a bar and its correction, or a bar and coverage, on
either side of any transaction; a second day makes a prefix to reuse.  One symbol
means a basket of one; the minimum over several is an expression, not an
interleaving.  In `collector` cutoffs fall within a session, at its end and in
closed time; the second symbol and the minutes without a bar are the gaps behind
which a late bar must be found, and three leases are a process, its successor and
one more that owes nothing to a fault.  Symmetry is used for the processes of
`OrderExecution` only, which no definition tells apart, and never with a liveness
property.

Deadlock is not checked where the bounded clock ends, or where a queue whose jobs
are all terminal, a session that has ended or derived data with no more intake
rightly has nothing to do; it is checked of the live trader, whose monitors are always due.

**Fairness** (`JobProgress`, `Outbox`): time passes; every process keeps polling,
because the loop of `run_job_worker` (`platform/runtime.py` 312-327) catches what
a cycle raises and has no exit but shutdown, after which the container is
restarted; a call in progress goes on or aborts; handlers and publishers return.
The last is an assumption about code outside the queue: nothing limits a
handler's run time and its heartbeats would keep the lease of a hung one for ever.
No fairness is assumed of claims succeeding, of a particular job being chosen, or
of processes not crashing.  `DecisionSlots`: time passes, a scheduler's loop starts
a cycle after every cycle, and a cycle goes on unless it raises or crashes; nothing
is assumed of strategies, workers or data.  Cycles are cut short by a
crash at most `MaxCrashes` times, otherwise no slot could be promised to end.
`DerivedData`: a drain goes on and the maintenance loop begins the next
(`collection/service.py` 257-268); intake and failures are bounded and not owed.
`Collector`: threads go on, an unrenewed lease expires, a renewal that must fail
does, the clock moves, and a collector that ended is started again by its
supervisor; the stream, late bars and faults are not owed.  `ServiceCycles`:
the loop of `run_service_worker` (`platform/worker_runtime.py` 88-119) catches what
a cycle raises and runs the next one, so each service's steps are weakly fair; the
operator owes nothing, and `SessionEnds` has the condition that the halt does not
stay engaged.  No liveness is stated for orders: `resolve_ambiguous`
and `refresh_nonterminal` are called by no service loop.

### Findings

`AmbiguityResolvable` is violated.  `cancel_one` records CANCEL_REQUESTED, and
after a failed `broker.cancel` RECONCILIATION_REQUIRED, at the local
`requested_at`.  The usual reason for the failure is that the order has already
traded, and then the broker's `updated_at` lies before the request.  The lookup
that is to resolve the doubt returns FILLED with that time, and `evolve`
(`platform/execution/models.py` 534) raises "order update time cannot move
backward", every time it is tried.  The order stays in doubt and blocks all new
exposure, whereas `docs/engineering-principles.md` 42, ADR 0005 and the docstring
of `resolve_ambiguous` say that ambiguity is resolved by lookup.  Submissions do
not have the problem, because an unknown outcome is recorded at the time of the
safety snapshot, before the request left: `OutcomeLearnable` holds.

`LatchReduces` is violated.  A plan has two entries; the first fills; the operator
halts.  Every later cycle of the execution worker finds the durable decision and
plan, the second entry is refused because a latch is active, and the cycle raises
(`platform/service_cycles.py` 1320) before the reconciliation.  The slot gets no
receipt, the scheduler waits for it, and the forced-flat slot, which comes after
it, is not claimed: the position stays for as long as the halt does, and no
incident is recorded.  `docs/requirements.md` says that under a latch "validated
risk reduction toward zero remains possible" (REQ-RISK-005), and that inability to
flatten "creates a blocking incident rather than success" (REQ-EXEC-009).
`SessionEnds` shows the other side: when the operator resumes, the plan is carried
out and the day ends flat.

### Two more properties that do not hold

The runs check two properties of `LiveSession` that are weaker than one would
wish.  The stronger ones are in the module, with a configuration for each that
shows TLC's counterexample (`tlc -config MCLiveFlatten.cfg MCLiveSession`, and the
same with `MCLiveLatch.cfg`; 1 session, 1 unit held, 2 decisions, 1 move, 1 halt).

`AttemptsDisjoint` is violated.  An attempt at a reduction looks at the earlier
attempts of its request (`live.py` 2524-2552), then claims the next key (2570), and
writes its plan after that.  A claimed attempt has no plan yet, so nothing about it
blocks.  When the operator flattens, the command line makes attempts (4143) while
the daemon's monitor has found the same request (3078): both claim a key, neither
finds an open order, and both sell what is held.  The comment at 2535 says "Unknown
or nonterminal prior submissions can still fill, so they block a retry."  The
attempts of a hard stop are made by the daemon alone, and `HardStopsDisjoint` is
checked.

`BuysUnlatched` is violated.  `run_once` reads the latches for the last time before
its plan (`live.py` 2103) and sends at 2318.  The flatten attempt of the command line
latches a breach in between (2873), without canceling again, and the daemon sends a
buy under the latch; a resumed buy leg, whose halts are read at 3213, does the same.
`docs/methodology.md` 115 says that a session loss at the limit "blocks new exposure
for the remainder of that session".  `BuysTakenUnlatched` is checked: a buy is taken
in hand only while nothing is latched, and what is sent under a latch is the one buy
in hand.

## Theorems

Every theorem is about the specification that the runs check, for every value of
the constants that the module's named assumption admits.  None of the properties
is inductive by itself; each module of proofs begins with the invariant that is,
every part of it was first checked by TLC on the run's instance, and preservation
is proved action by action, from lemmas that say what an action may do to a row, a
process or the evidence.

`DurableJobsProofs`, for every number of jobs, workers and attempts, every lease
and delay, skew, owner naming and dialect: `TypeCorrect`, `Fencing`,
`CompletionCurrent`, `QueueNotPoisoned`, `ForwardTime`, `HistoryComplete` and
`Refinement` (the queue implements `JobLifecycle`).  The invariant `IInv` adds:
stored rows validate (`RowsValid`); a FAILED row has an attempt left
(`RetriesLeft`), which validation alone does not say and without which a claim
would build an attempt too many; evidence lies behind the row, so the next
transition's keys are fresh (`EventsBehind`, `AttemptsBehind`); an attempt has one
claim row (`AttemptKeys`); a busy process wrote the claim of its attempt and is
named by the row as long as the row leases it (`ProcessesClaimed`); and nothing
changed a running row since its final checkpoint (`CheckpointLast`), which is the
join of the heartbeat thread.  `StepEffects` expands the actions once into what a
step may do to a row, a process and the evidence.  `HistoryComplete` has a second
invariant, `HistoryInv`, that says of the rows of an attempt what
`HistoryMatchesRow` says by counting them: numbered from 1 without a gap, a claim
first, an outcome last once the attempt is over.  That they are then as many as
counted (`CountRows`) is the bijection between the rows and their numbers.

`OutboxProofs`, for any events, workers, leases and delays: `PublishedSafe` (and
`FairPublishedSafe` for the fair specification).  `OutboxInv` adds that a success
in a process's memory is the delivery of the attempt it holds
(`SuccessIsDelivery`); a late process is then harmless, because the row's attempt
is compared with that one when it is published.

`OrderExecutionProofs`, for every plan, quantity and number of processes:
`TypeCorrect`, `OnceOnly`, `LedgerTruth`, `InTheClear`, `EntriesLast`,
`LookupLearns`.  `IInv` adds: an unclaimed intent was never sent (`Fresh`); a claim
is held before the send by one process (`Claimed`, `Sole`), so the send is the only
one; a snapshot that the ledger still agrees with is clear (`Authority`); and a
response in memory is a past state of the broker's order (`Held`), which together
with "ended orders stay ended" makes out-of-order application harmless.  The
barrier is a second invariant: an entry is past it from its authorization on,
FILLED is final, and the ledger's FILLED is the broker's.  `LookupLearns` needs a
third, `LearnInv`.  Its core is `Times`: except in the two states that a
cancellation leads to, the ledger's time is not ahead of the broker's order, and
neither is the instant that a process in a submission will record if the call
raises, since it was read before the request left.  The first finding above is
the case that the exception leaves open.

`ReadinessProofs` has two parts.  For `DecisionSlots`, with any timetable, lease,
lag and number of schedulers, strategies and workers: `SlotTypes`, `CompletedSafe`, `LeaseSafe` and
`ReclaimSafe`.  `SlotsInv` adds that nobody passes an instant still to come
(`CyclesPast`, `MindsPast`), which is what makes a stale instant harmless to a live
lease; that a cycle works on slots of the schedule; and that a slot which is
decided, or which a strategy is about to decide, does not go back to waiting
(`DecidedIsEngaged`).  `Allowed` is what a transaction may make of a row; all
actions are shown to write allowed rows.

For `DerivedData`, with any symbols, sessions, bucket length, batch limit, traded
minutes, processes, batches of intake and takeovers: `QuietExactSafe`,
`GapsTrackedSafe`, `BasketExactSafe` and `PublishedExactSafe`, all from
`DerivedSafe`, the invariance of `DerivedInv`.  Everything stored of a symbol is
taken as one value (`Store`), so that a lemma about a transaction speaks of the
values before and after it, and only the last layer of lemmas, one for each action,
of the state.  The invariant has three parts:

* Of a symbol (`SymbolInv`): every session is in order - aggregates made of the
  current minutes, gaps over exactly what is missing, published components those of
  now - or is queued (`DaysDone`), and no queue row or gap reaches past the history.
* Of the basket (`BasketInv`): it is the one of now, or a symbol that counts in it is
  queued and its publication will recompute it.
* Of the drain that the lease's owner is in (`DrainInv`), the only one that can be
  guarded; another process's memory is never used again.  Its rows are queued in the
  generation that it selected or a later one, and if it is still the same one
  (`Current`) then what the drain has done of the session holds (`DrainPart`,
  `DrainShown`), which is what makes the deletion safe.  Its fence has no generation
  and no checkpoint ahead of the present ones, so that an equal fence at the
  publication means that no intake came between (`FenceInv`, `TakenFence`), and then
  all that the scan saw is the present (`ScanInv`).  A prefix in memory is part of
  what was last published (`PrefixInv`); with no dirty session before its end and
  the same gaps, it is the present too.

`Taken` is what a batch of intake does to a symbol: it leaves a session alone or
queues it with a new generation.  The lemmas about it (`TakenSymbol` to
`IntakeKeeps`) show that every part survives it between any two transactions.

`ServiceCyclesProofs`, for any slots, symbols, proposals, halts and crashes:
`ReceiptProvesSafe`, `DecidedInTheClearSafe`, `ReceiptsCleanSafe` and
`ForcedFlatSafe`.  That a clean receipt proves its
plan rests on `IntentsAccounted`: every intent of the plan in hand is filled, still
to come, being filled, or its refusal is remembered until the cycle raises; and on
`CleanIsCarriedOut`, which keeps a plan carried out when a later worker takes up
its key again.  The other two are about money: `AccountInv` says that one decision
is in turn at a time (`DecidedInTurn`, `PendingUnique`), and that the position,
which is a sum over the orders of all decisions, is what the decision in turn began
with and what its own orders traded (`AccountMatches`).  A broker that is rebuilt
from durable intents is then the account, a reversal's close leaves nothing opposed
to the signal (`ReversalsEnd`), and the forced flat's clean receipt means a flat
account (`ForcedFlattens`).

`LiveOrdersProofs`, for any intents, quantities, faults and any number of
command-line reconcilers beside the daemon (the run has none): `LiveSubmittedOnce`,
`LiveTerminalIsTrue`, `LiveBuysAfterSells` and `LiveLedgerRepaired`.  `LiveInv` says that everything that
somebody holds of an order that ended - an update under way, the one in the update
thread's hands, the snapshot of a reconciliation, the answer to a submission - is
how it ended, and `Forward` that it stays so; and that the main thread holds a
reserved order, sends only one that nobody has sent, and turns to the buys only
after all sells have ended at the broker.  `LedgerInv` is about the sums of fills: a
reconciler that is done with an order has its snapshot's quantity in the ledger, or
holds a repair that is large enough (`ReconLedger`).  It holds although others
record fills between the comparison and the repair, because the ledger only grows
(`More`), and although `record_fill` ignores a fill whose id is known, because a
repair's id names the quantity that it reached (`FillsOK`).

Sums over finite sets are proved from the fold that defines them, in both modules:
`Induction` (a set of numbers with 0 and closed under successor has them all, from
the well-foundedness of <), then that the fold's recursive function exists, is
unique and does not depend on the order in which elements are taken (`AddsExists`,
`AddsUnique`, `TotalAdd`).

`LiveSessionProofs`, for any sessions, decisions, halts, moves and faults:
`ReceiptSafe`, `BuysSafe` and `HardStopsSafe`, the daemon and the command line both
reducing.  `SessionInv` adds that a process sends only the plan in its decision's
receipt, for a key whose order was not sent (`MemOK`), that a buy leg which waits
keeps its receipt (`BookOK`), and that two processes never hold one key
(`OwnersDistinct`).  `BuysSafe` is about steps: the plan follows the latches of its
own instant, a resumed leg those it has just read, and whoever sends a buy has
nothing in hand after it.  `OneReducer` is the invariant of `HardStopsSafe`: the
daemon alone holds keys of a hard stop, and when it is past the test for earlier
attempts no order of that series may still arrive.

`CollectorProofs`, for any calendar, symbols, overlap, bars, processes and leases:
`CheckpointSafe` and `RunSafe`.  `CheckpointStored` is about the bars and the
checkpoints of all symbols; why a step keeps it is in the memory of the processes,
also of those whose lease is gone.  `JobOK` says of work in progress that the
range is complete history, that every bar before the window is stored, and what
was fetched of the window is stored or in hand; `HoldOK` what a process may rely on
only while its lease is valid, above all that its run is open and that no
checkpoint passes the end of its catch-up; `TokensDistinct` that the valid lease
has one holder.  The calendar's part is `Window`: the first session window of a
range that has minutes, for which the least-number principle is enough.

`ForwardTime` is stated of every step and only proved: no run checks it.

Only model-checked:

* all liveness (`job_progress`, `outbox`, `decision_slots`, `service_cycles`,
  `derived_data`, `collector`) and ENABLED, which are beyond the proof system.  All
  safety properties that the passing runs check are theorems.

## Not modelled, and the plan

Done: 1. `DurableJobs`, `JobLifecycle`, `JobProgress`, `Outbox` and their proofs;
2. `OrderExecution` and its proofs; 3. `DecisionSlots`; 4. latches, risk decisions,
reconciliation and operator controls, composed in `ServiceCycles`; 5. the live
trader in `LiveOrders` and `LiveSession`; 6. market data and the collector in
`DerivedData` and `Collector`; 7. the proofs of 3 to 6.

Parts of modelled components that are not there: in the run of `LiveOrders`,
command-line reconcilers beside the daemon (`Others`, which the theorems cover),
whose row race (`persistence.py` 1384) can move a terminal row back; the splitting of a
large order into parts; cash and prices in reconciliation; precedence among
observations of one minute; finite backfills from the command line, which may
advance a checkpoint over sessions that were never fetched (a listed hazard); gap
waivers; and the gap repair and dataset freeze inside job handlers.

Left out for good: numerics (risk weights, allocation, backtest, metrics), which
are floating-point or Decimal arithmetic without concurrency; HTTP, dashboards,
command lines and logging; migrations and table definitions except the
constraints that transitions rely on; the audit chain, whose appends are part of
transactions taken as atomic; dataset files, which are written once; the in-memory
repository, a test double; `flatten.py`, which no service calls; and the paper and
shadow cycles, which only record that authority was denied or what was observed.
