----------------------------- MODULE DurableJobs -----------------------------
(***************************************************************************)
(* The durable job queue: JobRepository (platform/jobs/repository.py) and  *)
(* the DurableJobWorker processes that use it (platform/jobs/worker.py).   *)
(* Every repository method is one database transaction, hence one action.  *)
(* A worker process has no durable state and may stop between any two.     *)
(* Clocks are the workers' own: each call reads a time within Skew of now. *)
(***************************************************************************)
EXTENDS Integers, FiniteSets

CONSTANTS
  JobIds,       \* job identities; numbers, because claim order compares them
  Workers,      \* worker processes
  OwnerOf,      \* OwnerOf[w]: the lease_owner string process w uses; replicas may share one
  Handles,      \* Handles[w]: the jobs whose type is in w's job_types
  MaxAttempts,  \* JOB_MAX_ATTEMPTS
  Lease,        \* JOB_LEASE_DURATION
  RetryDelay,   \* JOB_RETRY_DELAYS
  ClaimLimit,   \* the LIMIT of the claim query
  Dialect,      \* "postgresql" or "sqlite": NULL ordering and SKIP LOCKED
  Skew,         \* how far a process's clock may be from now
  MaxTime,      \* bound: time of the model
  MaxVersion,   \* bound: row versions reachable by heartbeats
  NoOwner       \* SQL NULL in lease_owner

Owners == {OwnerOf[w] : w \in Workers}

ASSUME JobsAssumption ==
  /\ JobIds \subseteq Nat /\ JobIds # {}
  /\ NoOwner \notin Owners
  /\ Handles \in [Workers -> SUBSET JobIds]
  /\ MaxAttempts \in Nat \ {0}
  /\ Lease \in Nat \ {0}
  /\ RetryDelay \in [1..MaxAttempts -> Nat \ {0}]
  /\ ClaimLimit \in Nat \ {0}
  /\ Dialect \in {"postgresql", "sqlite"}
  /\ Skew \in Nat /\ MaxTime \in Nat /\ MaxVersion \in Nat

VARIABLES
  now,       \* real time
  jobs,      \* table aqa_jobs
  attempts,  \* table aqa_job_attempts; "by" is history: the process that wrote the row
  outbox,    \* table aqa_outbox_events: the rows job transitions insert
  proc       \* the worker processes' memory

vars == <<now, jobs, attempts, outbox, proc>>

NoTime == -1  \* SQL NULL in a timestamp

Leased   == {"CLAIMED", "RUNNING"}
Waiting  == {"PENDING", "FAILED"}
Terminal == {"SUCCEEDED", "DEAD", "CANCELED"}
JobState == {"ABSENT"} \cup Leased \cup Waiting \cup Terminal

Time == Nat \cup {NoTime}
JobRow == [state : JobState, attempt : 0..MaxAttempts, next : Time,
           owner : Owners \cup {NoOwner}, expires : Time, claimed : Time,
           started : Time, completed : Time, error : BOOLEAN,
           created : Nat, updated : Nat, version : Nat]

Outcome == {"SUCCEEDED", "FAILED", "ABANDONED"}
AttemptRow == [job : JobIds, attempt : 1..MaxAttempts, seq : 1..3,
               transition : {"CLAIMED", "RUNNING"} \cup Outcome,
               owner : Owners, by : Workers]
OutboxRow == [job : JobIds, version : Nat, state : JobState \ {"ABSENT"}]

\* pc: where run_one is; "returned" is between the handler's return and the
\* join of the heartbeat thread, "finishing" between the final checkpoint and
\* the completing transaction.
PC == {"idle", "claimed", "handling", "returned", "joined", "finishing"}
Proc == [pc : PC, job : JobIds, attempt : 0..MaxAttempts, lost : BOOLEAN,
         ok : BOOLEAN, completion : Nat]

\* A process between two calls of run_one remembers nothing.
Idle == [pc |-> "idle", job |-> CHOOSE j \in JobIds : TRUE, attempt |-> 0,
         lost |-> FALSE, ok |-> FALSE, completion |-> 0]

\* A process that has just claimed attempt k of job j.
Holding(j, k) == [pc |-> "claimed", job |-> j, attempt |-> k,
                  lost |-> FALSE, ok |-> FALSE, completion |-> 0]

\* What a process's clock may show.
Reading == {t \in 0..MaxTime : t <= now + Skew /\ now <= t + Skew}
-----------------------------------------------------------------------------
(***************************************************************************)
(* Rows: the JobRecord each transition builds, and the record validation   *)
(* every build and every read goes through.                                *)
(***************************************************************************)
AbsentRow == [state |-> "ABSENT", attempt |-> 0, next |-> NoTime,
              owner |-> NoOwner, expires |-> NoTime, claimed |-> NoTime,
              started |-> NoTime, completed |-> NoTime, error |-> FALSE,
              created |-> 0, updated |-> 0, version |-> 0]

NewRow(t) ==
  [state |-> "PENDING", attempt |-> 0, next |-> t, owner |-> NoOwner,
   expires |-> NoTime, claimed |-> NoTime, started |-> NoTime, completed |-> NoTime,
   error |-> FALSE, created |-> t, updated |-> t, version |-> 1]

ClaimedRow(r, o, t) ==
  [state |-> "CLAIMED", attempt |-> r.attempt + 1, next |-> NoTime, owner |-> o,
   expires |-> t + Lease, claimed |-> t, started |-> NoTime, completed |-> NoTime,
   error |-> FALSE, created |-> r.created, updated |-> t, version |-> r.version + 1]

RunningRow(r, t) ==
  [state |-> "RUNNING", attempt |-> r.attempt, next |-> r.next, owner |-> r.owner,
   expires |-> r.expires, claimed |-> r.claimed, started |-> t,
   completed |-> r.completed, error |-> r.error, created |-> r.created,
   updated |-> t, version |-> r.version + 1]

BeatRow(r, t) ==
  [state |-> "RUNNING", attempt |-> r.attempt, next |-> r.next, owner |-> r.owner,
   expires |-> t + Lease, claimed |-> r.claimed, started |-> r.started,
   completed |-> r.completed, error |-> r.error, created |-> r.created,
   updated |-> t, version |-> r.version + 1]

SucceededRow(r, t) ==
  [state |-> "SUCCEEDED", attempt |-> r.attempt, next |-> r.next, owner |-> NoOwner,
   expires |-> NoTime, claimed |-> NoTime, started |-> NoTime, completed |-> t,
   error |-> r.error, created |-> r.created, updated |-> t,
   version |-> r.version + 1]

\* Mutant of Spent: one attempt too many.
SpentTooLate(r) == r.attempt > MaxAttempts
\* fail() and _recover_expired(): dead once the attempts are spent.
Spent(r) == r.attempt >= MaxAttempts
\* Mutant of GaveUpRow: started_at survives the attempt.
GaveUpRowStillStarted(r, t) ==
  [state |-> IF Spent(r) THEN "DEAD" ELSE "FAILED", attempt |-> r.attempt,
   next |-> IF Spent(r) THEN NoTime ELSE t + RetryDelay[r.attempt],
   owner |-> NoOwner, expires |-> NoTime, claimed |-> NoTime, started |-> r.started,
   completed |-> IF Spent(r) THEN t ELSE NoTime, error |-> TRUE,
   created |-> r.created, updated |-> t, version |-> r.version + 1]
GaveUpRow(r, t) ==
  [state |-> IF Spent(r) THEN "DEAD" ELSE "FAILED", attempt |-> r.attempt,
   next |-> IF Spent(r) THEN NoTime ELSE t + RetryDelay[r.attempt],
   owner |-> NoOwner, expires |-> NoTime, claimed |-> NoTime, started |-> NoTime,
   completed |-> IF Spent(r) THEN t ELSE NoTime, error |-> TRUE,
   created |-> r.created, updated |-> t, version |-> r.version + 1]

CanceledRow(r, t) ==
  [state |-> "CANCELED", attempt |-> r.attempt, next |-> NoTime, owner |-> r.owner,
   expires |-> r.expires, claimed |-> r.claimed, started |-> r.started,
   completed |-> t, error |-> FALSE, created |-> r.created, updated |-> t,
   version |-> r.version + 1]

\* JobRecord.__post_init__, _validate_job_state and the CHECK constraints of the
\* table, which also want a released row to hold nothing of its lease.
ValidRow(r) ==
  /\ r.attempt \in 0..MaxAttempts /\ r.version >= 1 /\ r.created <= r.updated
  /\ (r.state \in Leased) <=> (r.owner # NoOwner /\ r.expires # NoTime /\ r.claimed # NoTime)
  /\ r.state \notin Leased => r.owner = NoOwner /\ r.expires = NoTime /\ r.claimed = NoTime
  /\ r.state \in Leased => /\ r.attempt >= 1
                           /\ r.created <= r.claimed /\ r.claimed <= r.updated
                           /\ r.updated < r.expires
  /\ r.state = "RUNNING" => r.started # NoTime
  /\ r.state # "RUNNING" => r.started = NoTime
  /\ r.started # NoTime => /\ r.claimed # NoTime
                           /\ r.claimed <= r.started /\ r.started <= r.updated
  /\ (r.state \in Terminal) <=> (r.completed # NoTime)
  /\ r.completed # NoTime => r.completed = r.updated
  /\ (r.state \in Waiting) <=> (r.next # NoTime)
  /\ r.next # NoTime => r.next >= r.updated
  /\ (r.state \in {"FAILED", "DEAD"}) <=> r.error
  /\ r.state = "PENDING" => r.attempt = 0
  /\ r.state \notin {"PENDING", "CANCELED"} => r.attempt >= 1
  /\ r.state = "DEAD" => r.attempt = MaxAttempts
-----------------------------------------------------------------------------
(***************************************************************************)
(* Evidence written in the same transaction as the row.                    *)
(***************************************************************************)
AttemptEvent(j, row, seq, transition, owner, w) ==
  [job |-> j, attempt |-> row.attempt, seq |-> seq,
   transition |-> transition, owner |-> owner, by |-> w]

OutboxEvent(j, row) == [job |-> j, version |-> row.version, state |-> row.state]

\* The unique constraints of aqa_job_attempts and aqa_outbox_events.
FreshAttempts(rows) ==
  \A a \in rows, b \in attempts :
    ~(a.job = b.job /\ a.attempt = b.attempt /\ a.seq = b.seq)
FreshEvents(rows) ==
  \A a \in rows, b \in outbox : ~(a.job = b.job /\ a.version = b.version)

\* Mutants of Abandonment: the owner is read from the row that was already
\* released; the attempt is taken for a running one.
AbandonmentOfReleasedRow(j, w) ==
  AttemptEvent(j, jobs[j], IF jobs[j].state = "RUNNING" THEN 3 ELSE 2,
               "ABANDONED", NoOwner, w)
AbandonmentAfterRunning(j, w) ==
  AttemptEvent(j, jobs[j], 3, "ABANDONED", jobs[j].owner, w)
\* The attempt row that abandons the expired attempt of job j.
Abandonment(j, w) ==
  AttemptEvent(j, jobs[j], IF jobs[j].state = "RUNNING" THEN 3 ELSE 2,
               "ABANDONED", jobs[j].owner, w)
-----------------------------------------------------------------------------
(***************************************************************************)
(* Conditions of the repository's methods.                                 *)
(***************************************************************************)
Due(j, t) == jobs[j].state \in Waiting /\ jobs[j].next <= t
Expired(j, t) == jobs[j].state \in Leased /\ jobs[j].expires <= t

\* Mutant of LeaseHeld: the owner string alone is the fence.
LeaseHeldByName(j, owner, attempt, t, state) ==
  /\ t >= jobs[j].updated /\ jobs[j].state = state
  /\ jobs[j].owner = owner /\ jobs[j].expires > t
\* _require_worker_lease: the fence every worker transition passes.
LeaseHeld(j, owner, attempt, t, state) ==
  /\ t >= jobs[j].updated
  /\ jobs[j].state = state
  /\ jobs[j].owner = owner
  /\ jobs[j].attempt = attempt
  /\ jobs[j].expires > t

\* ORDER BY next_attempt_at, created_at, job_id; NULLs last on PostgreSQL.
NullRank(r) == IF (r.next = NoTime) = (Dialect = "postgresql") THEN 1 ELSE 0
Before(i, j) ==
  LET a == jobs[i]  b == jobs[j] IN
  \/ NullRank(a) < NullRank(b)
  \/ /\ NullRank(a) = NullRank(b)
     /\ \/ a.next < b.next
        \/ a.next = b.next /\ a.created < b.created
        \/ a.next = b.next /\ a.created = b.created /\ i < j

\* The claim query; rows another transaction holds locked are skipped.
Candidates(w, t, skipped) ==
  LET c == {j \in Handles[w] \ skipped : Due(j, t) \/ Expired(j, t)}
  IN  {j \in c : Cardinality({i \in c : Before(i, j)}) < ClaimLimit}

Skippable == IF Dialect = "postgresql" THEN SUBSET JobIds ELSE {{}}
-----------------------------------------------------------------------------
Init ==
  /\ now = 0
  /\ jobs = [j \in JobIds |-> AbsentRow]
  /\ attempts = {}
  /\ outbox = {}
  /\ proc = [w \in Workers |-> Idle]

Tick == now < MaxTime /\ now' = now + 1 /\ UNCHANGED <<jobs, attempts, outbox, proc>>

\* Persist the rows of the jobs in js with their evidence, all or nothing.
Persist(js, row, newAttempts) ==
  LET events == {OutboxEvent(j, row[j]) : j \in js} IN
  /\ \A j \in js : ValidRow(row[j])
  /\ FreshAttempts(newAttempts) /\ FreshEvents(events)
  /\ jobs' = [j \in JobIds |-> IF j \in js THEN row[j] ELSE jobs[j]]
  /\ attempts' = attempts \cup newAttempts
  /\ outbox' = outbox \cup events

\* create(): a repeated request returns the stored job and changes nothing.
Create(j, t) ==
  /\ jobs[j].state = "ABSENT"
  /\ Persist({j}, [i \in {j} |-> NewRow(t)], {})
  /\ UNCHANGED <<now, proc>>

\* cancel(): an operator's call, refused once a worker has the job.
Cancel(j, t) ==
  /\ jobs[j].state \in Waiting
  /\ t >= jobs[j].updated
  /\ Persist({j}, [i \in {j} |-> CanceledRow(jobs[j], t)], {})
  /\ UNCHANGED <<now, proc>>

\* claim_next() when no candidate is due: every expired attempt is abandoned.
RecoverExpired(w, t, skipped) ==
  LET js == Candidates(w, t, skipped) IN
  /\ proc[w].pc = "idle"
  /\ js # {} /\ \A j \in js : ~Due(j, t)
  /\ Persist(js, [j \in js |-> GaveUpRow(jobs[j], t)], {Abandonment(j, w) : j \in js})
  /\ UNCHANGED <<now, proc>>

\* claim_next() that claims j, the first due candidate, after abandoning the
\* expired attempts the query returned ahead of it.
ClaimJob(w, j, t, skipped) ==
  LET c == Candidates(w, t, skipped)
      ahead == {i \in c : Expired(i, t) /\ Before(i, j)}
      row == [i \in ahead \cup {j} |->
                IF i = j THEN ClaimedRow(jobs[j], OwnerOf[w], t)
                         ELSE GaveUpRow(jobs[i], t)]
  IN
  /\ proc[w].pc = "idle"
  /\ j \in c /\ Due(j, t)
  /\ \A i \in c : Due(i, t) /\ i # j => Before(j, i)
  /\ Persist(ahead \cup {j}, row,
             {Abandonment(i, w) : i \in ahead}
               \cup {AttemptEvent(j, row[j], 1, "CLAIMED", OwnerOf[w], w)})
  /\ proc' = [proc EXCEPT ![w] = Holding(j, row[j].attempt)]
  /\ UNCHANGED now

\* mark_running(); then the handler and the heartbeat thread start.
MarkRunning(w, t) ==
  LET p == proc[w]  j == p.job  row == RunningRow(jobs[j], t) IN
  /\ p.pc = "claimed"
  /\ LeaseHeld(j, OwnerOf[w], p.attempt, t, "CLAIMED")
  /\ Persist({j}, [i \in {j} |-> row], {AttemptEvent(j, row, 2, "RUNNING", OwnerOf[w], w)})
  /\ proc' = [proc EXCEPT ![w].pc = "handling"]
  /\ UNCHANGED now

\* heartbeat() by the lease guard: the background thread, or the handler.
Heartbeat(w, t) ==
  LET p == proc[w]  j == p.job  row == BeatRow(jobs[j], t) IN
  /\ ~p.lost
  /\ LeaseHeld(j, OwnerOf[w], p.attempt, t, "RUNNING")
  /\ jobs[j].version < MaxVersion
  /\ ValidRow(row)
  /\ jobs' = [jobs EXCEPT ![j] = row]
  /\ UNCHANGED <<now, attempts, outbox>>

\* Mutant of Checkpoint: the heartbeat thread outlives keep_alive.
CheckpointNotJoined(w, t) ==
  /\ proc[w].pc \in {"handling", "returned", "finishing"}
  /\ Heartbeat(w, t)
  /\ UNCHANGED proc

\* The heartbeat thread runs until it is joined, so also after the handler
\* has returned.
Checkpoint(w, t) ==
  /\ proc[w].pc \in {"handling", "returned"}
  /\ Heartbeat(w, t)
  /\ UNCHANGED proc

\* A refused or failed heartbeat loses the lease for good.
LoseLease(w) ==
  /\ proc[w].pc \in {"handling", "returned"} /\ ~proc[w].lost
  /\ proc' = [proc EXCEPT ![w].lost = TRUE]
  /\ UNCHANGED <<now, jobs, attempts, outbox>>

\* The handler returns a result or raises.
Return(w, ok) ==
  /\ proc[w].pc = "handling"
  /\ proc' = [proc EXCEPT ![w].pc = "returned", ![w].ok = ok]
  /\ UNCHANGED <<now, jobs, attempts, outbox>>

\* keep_alive() exits: the heartbeat thread has stopped.
Join(w) ==
  /\ proc[w].pc = "returned"
  /\ proc' = [proc EXCEPT ![w].pc = "joined"]
  /\ UNCHANGED <<now, jobs, attempts, outbox>>

\* The checkpoint whose updated_at becomes the completion timestamp.
FinalCheckpoint(w, t) ==
  /\ proc[w].pc = "joined"
  /\ Heartbeat(w, t)
  /\ proc' = [proc EXCEPT ![w].pc = "finishing", ![w].completion = t]

\* succeed() or fail() at the completion timestamp.
Complete(w) ==
  LET p == proc[w]  j == p.job  t == p.completion
      row == IF p.ok THEN SucceededRow(jobs[j], t) ELSE GaveUpRow(jobs[j], t)
  IN
  /\ p.pc = "finishing"
  /\ LeaseHeld(j, OwnerOf[w], p.attempt, t, "RUNNING")
  /\ Persist({j}, [i \in {j} |-> row],
             {AttemptEvent(j, row, 3, IF p.ok THEN "SUCCEEDED" ELSE "FAILED", OwnerOf[w], w)})
  /\ proc' = [proc EXCEPT ![w] = Idle]
  /\ UNCHANGED now

\* run_one() raises (lease conflict, database fault, heartbeat thread that does
\* not stop) or the process dies; the next cycle starts with nothing in memory.
Abort(w) ==
  /\ proc[w].pc # "idle"
  /\ proc' = [proc EXCEPT ![w] = Idle]
  /\ UNCHANGED <<now, jobs, attempts, outbox>>

WorkerStep(w) ==
  \/ \E t \in Reading :
       \/ \E skipped \in Skippable :
            RecoverExpired(w, t, skipped) \/ \E j \in JobIds : ClaimJob(w, j, t, skipped)
       \/ MarkRunning(w, t) \/ Checkpoint(w, t) \/ FinalCheckpoint(w, t)
  \/ \E ok \in BOOLEAN : Return(w, ok)
  \/ LoseLease(w) \/ Join(w) \/ Complete(w) \/ Abort(w)

Next ==
  \/ Tick
  \/ \E j \in JobIds, t \in Reading : Create(j, t) \/ Cancel(j, t)
  \/ \E w \in Workers : WorkerStep(w)

Spec == Init /\ [][Next]_vars
-----------------------------------------------------------------------------
(***************************************************************************)
(* Properties.                                                             *)
(***************************************************************************)

\* Every table and every process's memory holds values of its type.
TypeOK ==
  /\ now \in 0..MaxTime
  /\ jobs \in [JobIds -> JobRow]
  /\ attempts \subseteq AttemptRow
  /\ outbox \subseteq OutboxRow
  /\ proc \in [Workers -> Proc]

\* No reachable row makes a transition that its condition admits fail: the
\* record it builds validates and its evidence violates no unique constraint,
\* at every clock reading.  claim_next reads up to 32 rows at once, so one row
\* that could not be claimed or recovered would stop the queue for everybody.
Persistable(j, row, newAttempts) ==
  ValidRow(row) /\ FreshAttempts(newAttempts) /\ FreshEvents({OutboxEvent(j, row)})
NoRowPoisonsTheQueue ==
  \A j \in JobIds, t \in 0..MaxTime, w \in Workers :
    LET r == jobs[j]  o == OwnerOf[w]
        event(row, seq, tr) == {AttemptEvent(j, row, seq, tr, o, w)}
    IN
    /\ r.state # "ABSENT" => ValidRow(r)
    /\ Due(j, t) => Persistable(j, ClaimedRow(r, o, t), event(ClaimedRow(r, o, t), 1, "CLAIMED"))
    /\ Expired(j, t) => Persistable(j, GaveUpRow(r, t), {Abandonment(j, w)})
    /\ r.state \in Waiting /\ t >= r.updated => Persistable(j, CanceledRow(r, t), {})
    /\ LeaseHeld(j, o, r.attempt, t, "CLAIMED") =>
         Persistable(j, RunningRow(r, t), event(r, 2, "RUNNING"))
    /\ LeaseHeld(j, o, r.attempt, t, "RUNNING") =>
         /\ ValidRow(BeatRow(r, t))
         /\ Persistable(j, SucceededRow(r, t), event(r, 3, "SUCCEEDED"))
         /\ Persistable(j, GaveUpRow(r, t), event(r, 3, "FAILED"))

\* The fence: only the process that claimed an attempt starts and completes
\* it, although replicas and restarts may use the same lease_owner string.
AttemptsFenced ==
  \A a \in attempts, b \in attempts :
    /\ a.job = b.job /\ a.attempt = b.attempt
    /\ a.transition = "CLAIMED" /\ b.transition \in {"RUNNING", "SUCCEEDED", "FAILED"}
    => a.by = b.by

\* The attempt history is a complete account of the row: every attempt so far
\* was claimed, its rows are numbered without a gap, and every attempt but the
\* one the row still leases has exactly one outcome.
HistoryOf(j, k) == {a \in attempts : a.job = j /\ a.attempt = k}
HistoryMatchesRow ==
  \A j \in JobIds, k \in 1..MaxAttempts :
    LET h == HistoryOf(j, k)
        outcomes == {a \in h : a.transition \in Outcome}
        leasedNow == k = jobs[j].attempt /\ jobs[j].state \in Leased
    IN  IF k > jobs[j].attempt THEN h = {}
        ELSE /\ {a.seq : a \in h} = 1..Cardinality(h)
             /\ \A a \in h : (a.seq = 1) <=> (a.transition = "CLAIMED")
             /\ \A a \in h : a.transition = "RUNNING" => a.seq = 2
             /\ \A a \in outcomes : a.seq = Cardinality(h)
             /\ Cardinality(outcomes) = IF leasedNow THEN 0 ELSE 1
             /\ leasedNow => Cardinality(h) = IF jobs[j].state = "CLAIMED" THEN 1 ELSE 2
             /\ (k = jobs[j].attempt /\ jobs[j].state = "SUCCEEDED") <=>
                  (\E a \in outcomes : a.transition = "SUCCEEDED")

\* A completion is refused only to a worker that lost its attempt: while the
\* row still runs the worker's attempt, the timestamp of the final checkpoint
\* passes the fence.  It would not if a heartbeat could follow the checkpoint.
CompletionNotStale ==
  \A w \in Workers :
    LET p == proc[w] IN
    p.pc = "finishing" /\ jobs[p.job].state = "RUNNING" /\ jobs[p.job].attempt = p.attempt
    => LeaseHeld(p.job, OwnerOf[w], p.attempt, p.completion, "RUNNING")

\* A job's updated_at never runs back, although claim_next and the recovery in
\* it do not compare the caller's clock with updated_at; and every change of a
\* row is one version.
RowStep(j) ==
  /\ jobs'[j].updated >= jobs[j].updated
  /\ jobs'[j] # jobs[j] => jobs'[j].version = jobs[j].version + 1
ClockNeverRunsBack == [][\A j \in JobIds : jobs[j].state # "ABSENT" => RowStep(j)]_vars

\* The queue implements the life of a job that JobLifecycle states: no attempt
\* beyond MaxAttempts, no way out of a terminal state, no second success.
Lifecycle == INSTANCE JobLifecycle
  WITH state <- [j \in JobIds |-> jobs[j].state], tries <- [j \in JobIds |-> jobs[j].attempt]
ImplementsLifecycle == Lifecycle!LifecycleSpec
=============================================================================
