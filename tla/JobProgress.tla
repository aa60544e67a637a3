---------------------------- MODULE JobProgress ----------------------------
(***************************************************************************)
(* Progress of the durable job queue.  DurableJobs bounds its clock, so it *)
(* cannot say that something eventually happens; here time is relative, as *)
(* in Outbox: left[j] counts down to next_attempt_at while job j waits and *)
(* to lease_expires_at while it is leased.  Evidence rows, versions and    *)
(* skew are left out, the control of claim_next and run_one is kept.       *)
(***************************************************************************)
EXTENDS Integers

CONSTANTS JobIds, Workers, MaxAttempts, Lease, RetryDelay, Dialect

ASSUME ProgressAssumption ==
  /\ JobIds # {} /\ MaxAttempts \in Nat \ {0} /\ Lease \in Nat \ {0}
  /\ RetryDelay \in [1..MaxAttempts -> Nat \ {0}]
  /\ Dialect \in {"postgresql", "sqlite"}

VARIABLES
  state,    \* state[j]
  attempt,  \* attempt[j]: attempt_count
  left,     \* left[j]: time until the job is due, or until its lease ends
  proc      \* the worker processes' memory
progressVars == <<state, attempt, left, proc>>

Leased   == {"CLAIMED", "RUNNING"}
Waiting  == {"PENDING", "FAILED"}
Terminal == {"SUCCEEDED", "DEAD", "CANCELED"}
PC == {"idle", "claimed", "handling", "returned", "finishing"}

Idle == [pc |-> "idle", job |-> CHOOSE j \in JobIds : TRUE, attempt |-> 0, ok |-> FALSE]

Init ==
  /\ state = [j \in JobIds |-> "ABSENT"]
  /\ attempt = [j \in JobIds |-> 0]
  /\ left = [j \in JobIds |-> 0]
  /\ proc = [w \in Workers |-> Idle]

Create(j) ==
  /\ state[j] = "ABSENT"
  /\ state' = [state EXCEPT ![j] = "PENDING"]
  /\ UNCHANGED <<attempt, left, proc>>

Cancel(j) ==
  /\ state[j] \in Waiting
  /\ state' = [state EXCEPT ![j] = "CANCELED"] /\ left' = [left EXCEPT ![j] = 0]
  /\ UNCHANGED <<attempt, proc>>

Tick ==
  /\ \E j \in JobIds : left[j] > 0
  /\ left' = [j \in JobIds |-> IF left[j] > 0 THEN left[j] - 1 ELSE 0]
  /\ UNCHANGED <<state, attempt, proc>>

Due(j) == state[j] \in Waiting /\ left[j] = 0
\* Mutant of Expired: recovery looks for running attempts only.
ExpiredRunning(j) == state[j] = "RUNNING" /\ left[j] = 0
Expired(j) == state[j] \in Leased /\ left[j] = 0

\* A lost or failed attempt of job j, whose retry delay began "late" ago.
Spent(j) == attempt[j] >= MaxAttempts
GaveUpState(j) == IF Spent(j) THEN "DEAD" ELSE "FAILED"
GaveUpLeft(j, late) ==
  IF Spent(j) \/ RetryDelay[attempt[j]] < late THEN 0 ELSE RetryDelay[attempt[j]] - late
GiveUp(js, late) ==
  /\ state' = [j \in JobIds |-> IF j \in js THEN GaveUpState(j) ELSE state[j]]
  /\ left' = [j \in JobIds |-> IF j \in js THEN GaveUpLeft(j, late) ELSE left[j]]

\* claim_next() on expired candidates only: all of them are abandoned.
RecoverExpired(w) ==
  LET js == {j \in JobIds : Expired(j)} IN
  /\ proc[w].pc = "idle"
  /\ js # {} /\ \A j \in JobIds : ~Due(j)
  /\ GiveUp(js, 0)
  /\ UNCHANGED <<attempt, proc>>

\* claim_next() with a due candidate.  Expired rows have no next_attempt_at:
\* SQLite sorts them first and the claim recovers them, PostgreSQL sorts them
\* last and the claim returns before it reaches them.
ClaimJob(w, j) ==
  LET js == IF Dialect = "sqlite" THEN {i \in JobIds : Expired(i)} ELSE {} IN
  /\ proc[w].pc = "idle" /\ Due(j)
  /\ state' = [i \in JobIds |-> IF i = j THEN "CLAIMED"
                                ELSE IF i \in js THEN GaveUpState(i) ELSE state[i]]
  /\ left' = [i \in JobIds |-> IF i = j THEN Lease
                               ELSE IF i \in js THEN GaveUpLeft(i, 0) ELSE left[i]]
  /\ attempt' = [attempt EXCEPT ![j] = @ + 1]
  /\ proc' = [proc EXCEPT ![w] = [pc |-> "claimed", job |-> j,
                                  attempt |-> attempt[j] + 1, ok |-> FALSE]]

Holds(w, s) == state[proc[w].job] = s /\ attempt[proc[w].job] = proc[w].attempt

MarkRunning(w) ==
  /\ proc[w].pc = "claimed" /\ Holds(w, "CLAIMED") /\ left[proc[w].job] > 0
  /\ state' = [state EXCEPT ![proc[w].job] = "RUNNING"]
  /\ proc' = [proc EXCEPT ![w].pc = "handling"]
  /\ UNCHANGED <<attempt, left>>

Heartbeat(w) ==
  /\ Holds(w, "RUNNING") /\ left[proc[w].job] > 0
  /\ left' = [left EXCEPT ![proc[w].job] = Lease]
  /\ UNCHANGED <<state, attempt>>

Checkpoint(w) ==
  proc[w].pc \in {"handling", "returned"} /\ Heartbeat(w) /\ UNCHANGED proc

Return(w) ==
  /\ proc[w].pc = "handling"
  /\ \E ok \in BOOLEAN : proc' = [proc EXCEPT ![w].pc = "returned", ![w].ok = ok]
  /\ UNCHANGED <<state, attempt, left>>

FinalCheckpoint(w) ==
  /\ proc[w].pc = "returned" /\ Heartbeat(w)
  /\ proc' = [proc EXCEPT ![w].pc = "finishing"]

\* succeed() or fail() at the timestamp of the final checkpoint, however late.
Complete(w) ==
  LET j == proc[w].job IN
  /\ proc[w].pc = "finishing" /\ Holds(w, "RUNNING")
  /\ IF proc[w].ok
     THEN state' = [state EXCEPT ![j] = "SUCCEEDED"] /\ left' = [left EXCEPT ![j] = 0]
     ELSE \E late \in 0..RetryDelay[attempt[j]] : GiveUp({j}, late)
  /\ proc' = [proc EXCEPT ![w] = Idle]
  /\ UNCHANGED attempt

\* run_one() raises or the process dies.
Abort(w) ==
  /\ proc[w].pc # "idle"
  /\ proc' = [proc EXCEPT ![w] = Idle]
  /\ UNCHANGED <<state, attempt, left>>

Poll(w) == RecoverExpired(w) \/ \E j \in JobIds : ClaimJob(w, j)

Next ==
  \/ Tick
  \/ \E j \in JobIds : Create(j) \/ Cancel(j)
  \/ \E w \in Workers : \/ Poll(w) \/ MarkRunning(w) \/ Checkpoint(w) \/ Return(w)
                        \/ FinalCheckpoint(w) \/ Complete(w) \/ Abort(w)

\* Time passes, every process keeps polling (the service loop catches what a
\* cycle raises, and a dead container is restarted), and handlers return: the
\* code has no limit on a handler's run time, its heartbeats would keep a hung
\* handler's lease for ever.
Fairness ==
  /\ WF_progressVars(Tick)
  /\ \A w \in Workers :
       /\ WF_progressVars(Poll(w))
       /\ WF_progressVars(Return(w))
       /\ WF_progressVars(MarkRunning(w) \/ FinalCheckpoint(w) \/ Complete(w) \/ Abort(w))

FairSpec == Init /\ [][Next]_progressVars /\ Fairness

\* Every created job ends, whatever crashes, lost leases and other jobs do: an
\* attempt that nobody finishes is recovered, and attempts are bounded.
EveryJobEnds == \A j \in JobIds : state[j] # "ABSENT" ~> state[j] \in Terminal
=============================================================================
