------------------------- MODULE DurableJobsProofs -------------------------
(***************************************************************************)
(* Proofs about DurableJobs, for any number of jobs, workers and attempts, *)
(* any lease and retry delays and any clock skew.                          *)
(***************************************************************************)
EXTENDS DurableJobs, FiniteSetTheorems, TLAPS

(***************************************************************************)
(* The inductive invariant.                                                *)
(***************************************************************************)
\* Stored rows validate.
RowsValid ==
  \A j \in JobIds : IF jobs[j].state = "ABSENT" THEN jobs[j] = AbsentRow
                                                ELSE ValidRow(jobs[j])

\* A failed attempt that is not the last: record validation alone does not say
\* so, and claim_next could not claim the row otherwise.
RetriesLeft == \A j \in JobIds : jobs[j].state = "FAILED" => jobs[j].attempt < MaxAttempts

\* Stored evidence is behind the row, so the next transition's is fresh.
EventsBehind == \A e \in outbox : e.version <= jobs[e.job].version
AttemptsBehind ==
  \A a \in attempts :
    /\ a.attempt <= jobs[a.job].attempt
    /\ a.attempt = jobs[a.job].attempt =>
         /\ jobs[a.job].state = "CLAIMED" => a.seq = 1
         /\ jobs[a.job].state = "RUNNING" => a.seq \in {1, 2}

\* An attempt has one claim row, its first.
AttemptKeys ==
  /\ \A a \in attempts : (a.seq = 1) <=> (a.transition = "CLAIMED")
  /\ \A a \in attempts, b \in attempts :
       a.job = b.job /\ a.attempt = b.attempt /\ a.seq = b.seq => a = b

\* A busy process wrote the claim of the attempt it works on, and its owner
\* string is in the row as long as the row leases that attempt.
ProcessesClaimed ==
  \A w \in Workers : proc[w].pc # "idle" =>
    /\ \E a \in attempts : /\ a.job = proc[w].job /\ a.attempt = proc[w].attempt
                           /\ a.transition = "CLAIMED" /\ a.by = w
    /\ LET r == jobs[proc[w].job] IN
       r.attempt = proc[w].attempt /\ r.state \in Leased => r.owner = OwnerOf[w]

\* The final checkpoint was the last change of the row it still runs.
CheckpointLast ==
  \A w \in Workers :
    LET p == proc[w]  r == jobs[p.job] IN
    p.pc = "finishing" /\ r.state = "RUNNING" /\ r.attempt = p.attempt
      => r.updated = p.completion

IInv == /\ TypeOK /\ RowsValid /\ RetriesLeft /\ EventsBehind /\ AttemptsBehind /\ AttemptKeys
        /\ ProcessesClaimed /\ AttemptsFenced /\ CheckpointLast

-----------------------------------------------------------------------------
(***************************************************************************)
(* The rows a transition builds from a valid row are rows, and valid.      *)
(***************************************************************************)

\* A clock reading is a natural number.
LEMMA ReadingIsNat == ASSUME TypeOK, NEW t \in Reading PROVE t \in Nat
  BY DEF Reading

\* create() stores a valid row.
LEMMA NewRowValid ==
  ASSUME NEW t \in Nat
  PROVE  NewRow(t) \in JobRow /\ ValidRow(NewRow(t)) /\ AbsentRow \in JobRow
  BY JobsAssumption DEF JobsAssumption, NewRow, AbsentRow, JobRow, ValidRow, JobState, Leased, Waiting,
                        Terminal, Time, NoTime

\* The state and the attempt of the rows.
LEMMA RowFields ==
  /\ \A t : NewRow(t).state = "PENDING"
  /\ \A r, o, t : ClaimedRow(r, o, t).state = "CLAIMED"
  /\ \A r, t : RunningRow(r, t).state = "RUNNING" /\ RunningRow(r, t).attempt = r.attempt
  /\ \A r, t : BeatRow(r, t).state = "RUNNING" /\ BeatRow(r, t).attempt = r.attempt
  /\ \A r, t : SucceededRow(r, t).state = "SUCCEEDED" /\ SucceededRow(r, t).attempt = r.attempt
  /\ \A r, t : GaveUpRow(r, t).state \in {"FAILED", "DEAD"} /\ GaveUpRow(r, t).attempt = r.attempt
  /\ \A r, t : CanceledRow(r, t).state = "CANCELED" /\ CanceledRow(r, t).attempt = r.attempt
  BY DEF NewRow, ClaimedRow, RunningRow, BeatRow, SucceededRow, GaveUpRow, CanceledRow

\* A due row that validates and has attempts left can be claimed.
LEMMA ClaimedRowValid ==
  ASSUME NEW r \in JobRow, ValidRow(r), NEW t \in Nat, NEW w \in Workers,
         r.state \in Waiting, r.next <= t, r.attempt < MaxAttempts
  PROVE  /\ ClaimedRow(r, OwnerOf[w], t) \in JobRow
         /\ ValidRow(ClaimedRow(r, OwnerOf[w], t))
  BY JobsAssumption DEF JobsAssumption, ClaimedRow, JobRow, ValidRow, JobState, Leased, Waiting,
                        Terminal, Time, NoTime, Owners

\* A leased row can be given up from the moment of its last update on.
LEMMA GaveUpRowValid ==
  ASSUME NEW r \in JobRow, ValidRow(r), NEW t \in Nat,
         r.state \in Leased, r.updated <= t
  PROVE  GaveUpRow(r, t) \in JobRow /\ ValidRow(GaveUpRow(r, t))
  <1>1. r.attempt \in 1..MaxAttempts /\ r.created \in Nat /\ r.created <= t /\ r.version \in Nat
    BY JobsAssumption DEF JobsAssumption, JobRow, ValidRow
  <1>2. CASE Spent(r)
    <2>1. r.attempt = MaxAttempts
      BY <1>1, <1>2, JobsAssumption DEF JobsAssumption, Spent
    <2> QED
      BY <1>1, <1>2, <2>1, JobsAssumption
      DEF JobsAssumption, GaveUpRow, JobRow, ValidRow, JobState, Leased, Waiting, Terminal, Time, NoTime
  <1>3. CASE ~Spent(r)
    <2>1. t + RetryDelay[r.attempt] \in Nat /\ t <= t + RetryDelay[r.attempt]
      BY <1>1, JobsAssumption DEF JobsAssumption
    <2> QED
      BY <1>1, <1>3, <2>1, JobsAssumption
      DEF JobsAssumption, GaveUpRow, JobRow, ValidRow, JobState, Leased, Waiting, Terminal, Time, NoTime
  <1> QED BY <1>2, <1>3

\* A waiting row can be canceled.
LEMMA CanceledRowValid ==
  ASSUME NEW r \in JobRow, ValidRow(r), NEW t \in Nat,
         r.state \in Waiting, r.updated <= t
  PROVE  CanceledRow(r, t) \in JobRow /\ ValidRow(CanceledRow(r, t))
  BY JobsAssumption DEF JobsAssumption, CanceledRow, JobRow, ValidRow, JobState, Leased, Waiting,
                        Terminal, Time, NoTime, Owners

\* A held lease can be started.
LEMMA RunningRowValid ==
  ASSUME NEW r \in JobRow, ValidRow(r), NEW t \in Nat,
         r.state = "CLAIMED", r.updated <= t, t < r.expires
  PROVE  RunningRow(r, t) \in JobRow /\ ValidRow(RunningRow(r, t))
  BY JobsAssumption DEF JobsAssumption, RunningRow, JobRow, ValidRow, JobState, Leased, Waiting,
                        Terminal, Time, NoTime, Owners

\* A held lease can be extended, and completed.
LEMMA BeatRowValid ==
  ASSUME NEW r \in JobRow, ValidRow(r), NEW t \in Nat,
         r.state = "RUNNING", r.updated <= t
  PROVE  /\ BeatRow(r, t) \in JobRow /\ ValidRow(BeatRow(r, t))
         /\ SucceededRow(r, t) \in JobRow /\ ValidRow(SucceededRow(r, t))
  BY JobsAssumption DEF JobsAssumption, BeatRow, SucceededRow, JobRow, ValidRow, JobState, Leased, Waiting,
                        Terminal, Time, NoTime, Owners
-----------------------------------------------------------------------------
(***************************************************************************)
(* What one step does, in the terms of the invariant.  The cases of Next   *)
(* are expanded once, in StepEffects below.                                *)
(***************************************************************************)

\* The process v, in a state of run_one in pcs, works on the current attempt of j.
WorksOn(v, j, pcs) ==
  proc[v].pc \in pcs /\ proc[v].job = j /\ proc[v].attempt = jobs[j].attempt

\* The ways a job's row may change.
JobEffect(j) ==
  \/ jobs'[j] = jobs[j]
  \/ \E t \in Nat :
       \/ jobs[j].state = "ABSENT" /\ jobs'[j] = NewRow(t)
       \/ \E w \in Workers : /\ Due(j, t) /\ jobs'[j] = ClaimedRow(jobs[j], OwnerOf[w], t)
                            /\ jobs'[j].attempt <= MaxAttempts
       \/ jobs[j].state \in Leased /\ jobs[j].updated <= t /\ jobs'[j] = GaveUpRow(jobs[j], t)
       \/ jobs[j].state \in Waiting /\ jobs[j].updated <= t /\ jobs'[j] = CanceledRow(jobs[j], t)
       \/ \E v \in Workers :
            /\ WorksOn(v, j, {"claimed"}) /\ LeaseHeld(j, OwnerOf[v], proc[v].attempt, t, "CLAIMED")
            /\ jobs'[j] = RunningRow(jobs[j], t)
       \/ \E v \in Workers :
            /\ WorksOn(v, j, {"handling", "returned", "joined", "finishing"})
            /\ LeaseHeld(j, OwnerOf[v], proc[v].attempt, t, "RUNNING")
            /\ \/ jobs'[j] = SucceededRow(jobs[j], t)
               \/ proc[v].pc # "finishing" /\ jobs'[j] = BeatRow(jobs[j], t)

\* The attempt rows a step may insert.
AttemptEffect(a) ==
  /\ a \in AttemptRow
  /\ a.attempt = jobs'[a.job].attempt
  /\ \A b \in attempts : ~(a.job = b.job /\ a.attempt = b.attempt /\ a.seq = b.seq)
  /\ \/ a.transition = "CLAIMED" /\ a.seq = 1 /\ jobs'[a.job].attempt = jobs[a.job].attempt + 1
     \/ a.transition = "ABANDONED" /\ a.seq # 1 /\ jobs'[a.job].state \notin Leased
     \/ /\ a.transition = "RUNNING" /\ a.seq = 2 /\ jobs'[a.job].state = "RUNNING"
        /\ WorksOn(a.by, a.job, {"claimed"})
     \/ /\ a.transition \in {"SUCCEEDED", "FAILED"} /\ a.seq = 3
        /\ jobs'[a.job].state \notin Leased
        /\ WorksOn(a.by, a.job, {"finishing"})

\* What a step may do to the memory of process w.
ProcEffect(w) ==
  \/ proc'[w] = proc[w]
  \/ proc'[w].pc = "idle"
  \/ /\ proc'[w].pc = "claimed"
     /\ jobs'[proc'[w].job].owner = OwnerOf[w]
     /\ \E a \in attempts' : /\ a.job = proc'[w].job /\ a.attempt = proc'[w].attempt
                            /\ a.transition = "CLAIMED" /\ a.by = w
  \/ /\ proc[w].pc # "idle" /\ proc'[w].job = proc[w].job /\ proc'[w].attempt = proc[w].attempt
     /\ proc'[w].pc = "finishing" => jobs'[proc[w].job].updated = proc'[w].completion

StepEffect ==
  /\ now' \in 0..MaxTime
  /\ jobs' \in [JobIds -> JobRow] /\ \A j \in JobIds : JobEffect(j)
  /\ attempts \subseteq attempts' /\ \A a \in attempts' \ attempts : AttemptEffect(a)
  /\ \A a \in attempts' \ attempts, b \in attempts' \ attempts : a.job = b.job => a = b
  /\ outbox \subseteq outbox'
  /\ \A e \in outbox' \ outbox : e.job \in JobIds /\ e = OutboxEvent(e.job, jobs'[e.job])
  /\ \A e \in outbox' \ outbox : jobs'[e.job].state # "ABSENT"
  /\ proc' \in [Workers -> Proc] /\ \A w \in Workers : ProcEffect(w)

\* Persist, spelled out for the set of jobs it moves.
Persisted(js, row, new) ==
  /\ jobs' \in [JobIds -> JobRow]
  /\ \A j \in js : jobs'[j] = row[j]
  /\ \A j \in JobIds \ js : jobs'[j] = jobs[j]
  /\ attempts' = attempts \cup new /\ FreshAttempts(new)
  /\ outbox \subseteq outbox'
  /\ \A e \in outbox' \ outbox : e.job \in JobIds /\ e = OutboxEvent(e.job, jobs'[e.job])
  /\ \A e \in outbox' \ outbox : jobs'[e.job].state # "ABSENT"

\* Persist has that effect when it is given rows.
LEMMA PersistEffect ==
  ASSUME TypeOK, NEW js \in SUBSET JobIds, NEW row, NEW new,
         Persist(js, row, new), \A j \in js : row[j] \in JobRow /\ row[j].state # "ABSENT"
  PROVE  Persisted(js, row, new)
  <1>1. /\ jobs' \in [JobIds -> JobRow]
        /\ \A j \in js : jobs'[j] = row[j]
        /\ \A j \in JobIds \ js : jobs'[j] = jobs[j]
    BY DEF Persist, TypeOK
  <1>2. ASSUME NEW e \in outbox' \ outbox
        PROVE  e.job \in js /\ e = OutboxEvent(e.job, row[e.job])
    BY DEF Persist, OutboxEvent
  <1>3. QED
    BY <1>1, <1>2 DEF Persist, Persisted

\* create(): one new row, one event.
LEMMA CreateEffect ==
  ASSUME IInv, NEW j \in JobIds, NEW t \in Reading, Create(j, t)
  PROVE  StepEffect
  <1> DEFINE row == [i \in {j} |-> NewRow(t)]
  <1>1. t \in Nat
    BY ReadingIsNat DEF IInv
  <1>2. \A i \in {j} : row[i] \in JobRow /\ row[i].state # "ABSENT"
    BY <1>1, NewRowValid DEF NewRow
  <1>3. Persist({j}, row, {})
    BY DEF Create
  <1> HIDE DEF row
  <1>4. Persisted({j}, row, {})
    BY <1>2, <1>3, PersistEffect DEF IInv
  <1>5. \A i \in JobIds : JobEffect(i)
    BY <1>1, <1>4 DEF JobEffect, Create, Persisted, row
  <1>6. now' \in 0..MaxTime /\ proc' \in [Workers -> Proc] /\ \A w \in Workers : ProcEffect(w)
    BY DEF Create, IInv, TypeOK, ProcEffect
  <1>7. QED
    BY <1>4, <1>5, <1>6 DEF StepEffect, Persisted

\* cancel(): one waiting row, one event.
LEMMA CancelEffect ==
  ASSUME IInv, NEW j \in JobIds, NEW t \in Reading, Cancel(j, t)
  PROVE  StepEffect
  <1> DEFINE row == [i \in {j} |-> CanceledRow(jobs[j], t)]
  <1>1. t \in Nat
    BY ReadingIsNat DEF IInv
  <1>2. jobs[j] \in JobRow /\ ValidRow(jobs[j]) /\ jobs[j].state \in Waiting /\ jobs[j].updated <= t
    BY <1>1 DEF IInv, TypeOK, RowsValid, Cancel, Waiting, JobRow
  <1>3. \A i \in {j} : row[i] \in JobRow /\ row[i].state # "ABSENT"
    BY <1>1, <1>2, CanceledRowValid DEF CanceledRow
  <1>4. Persist({j}, row, {})
    BY DEF Cancel
  <1> HIDE DEF row
  <1>5. Persisted({j}, row, {})
    BY <1>3, <1>4, PersistEffect DEF IInv
  <1>6. \A i \in JobIds : JobEffect(i)
    BY <1>1, <1>2, <1>5 DEF JobEffect, Persisted, row
  <1>7. now' \in 0..MaxTime /\ proc' \in [Workers -> Proc] /\ \A w \in Workers : ProcEffect(w)
    BY DEF Cancel, IInv, TypeOK, ProcEffect
  <1>8. QED
    BY <1>5, <1>6, <1>7 DEF StepEffect, Persisted

\* What the invariant says of a leased row.
LEMMA LeasedRow ==
  ASSUME IInv, NEW j \in JobIds, jobs[j].state \in Leased
  PROVE  /\ jobs[j] \in JobRow /\ ValidRow(jobs[j])
         /\ jobs[j].attempt \in 1..MaxAttempts /\ jobs[j].owner \in Owners
         /\ jobs[j].updated \in Nat /\ jobs[j].expires \in Nat /\ jobs[j].updated < jobs[j].expires
  <1>1. jobs[j] \in JobRow /\ ValidRow(jobs[j])
    BY DEF IInv, TypeOK, RowsValid, Leased
  <1>2. QED
    BY <1>1, JobsAssumption DEF JobsAssumption, ValidRow, JobRow, Leased, Time, NoTime

\* Abandoning an expired attempt: the row and its evidence.
LEMMA AbandonEffect ==
  ASSUME IInv, NEW j \in JobIds, NEW t \in Nat, Expired(j, t), NEW w \in Workers
  PROVE  /\ GaveUpRow(jobs[j], t) \in JobRow /\ GaveUpRow(jobs[j], t).state \in {"DEAD", "FAILED"}
         /\ GaveUpRow(jobs[j], t).attempt = jobs[j].attempt
         /\ jobs[j].state \in Leased /\ jobs[j].updated <= t
         /\ Abandonment(j, w) \in AttemptRow /\ Abandonment(j, w).job = j
         /\ Abandonment(j, w).attempt = jobs[j].attempt
         /\ Abandonment(j, w).transition = "ABANDONED" /\ Abandonment(j, w).seq \in {2, 3}
  <1>1. jobs[j].state \in Leased /\ jobs[j].updated <= t
    BY LeasedRow DEF Expired
  <1>2. GaveUpRow(jobs[j], t) \in JobRow /\ GaveUpRow(jobs[j], t).state \in {"DEAD", "FAILED"}
        /\ GaveUpRow(jobs[j], t).attempt = jobs[j].attempt
    BY <1>1, LeasedRow, GaveUpRowValid DEF GaveUpRow
  <1>3. Abandonment(j, w) \in AttemptRow /\ Abandonment(j, w).job = j
         /\ Abandonment(j, w).attempt = jobs[j].attempt
         /\ Abandonment(j, w).transition = "ABANDONED" /\ Abandonment(j, w).seq \in {2, 3}
    BY <1>1, LeasedRow DEF Abandonment, AttemptEvent, AttemptRow, Outcome
  <1>4. QED
    BY <1>1, <1>2, <1>3

\* claim_next() that only recovers.
LEMMA RecoverExpiredEffect ==
  ASSUME IInv, NEW w \in Workers, NEW t \in Reading, NEW skipped, RecoverExpired(w, t, skipped)
  PROVE  StepEffect
  <1> DEFINE js == Candidates(w, t, skipped)
             row == [j \in js |-> GaveUpRow(jobs[j], t)]
             new == {Abandonment(j, w) : j \in js}
  <1>1. t \in Nat
    BY ReadingIsNat DEF IInv
  <1>2. js \in SUBSET JobIds /\ \A j \in js : Expired(j, t)
    BY JobsAssumption DEF JobsAssumption, Candidates, RecoverExpired
  <1>3. Persist(js, row, new)
    BY DEF RecoverExpired
  <1>4. \A j \in js : row[j] \in JobRow /\ row[j].state # "ABSENT" /\ row[j] = GaveUpRow(jobs[j], t)
    BY <1>1, <1>2, AbandonEffect
  <1>5. \A a \in new : /\ a \in AttemptRow /\ a.job \in js /\ a.attempt = jobs[a.job].attempt
                       /\ a.transition = "ABANDONED" /\ a.seq \in {2, 3} /\ a = Abandonment(a.job, w)
    BY <1>1, <1>2, AbandonEffect
  <1> HIDE DEF js, row, new
  <1>6. Persisted(js, row, new)
    BY <1>2, <1>3, <1>4, PersistEffect DEF IInv
  <1>7. \A j \in JobIds : JobEffect(j)
    <2> SUFFICES ASSUME NEW j \in JobIds, j \in js PROVE JobEffect(j)
      BY <1>6 DEF JobEffect, Persisted
    <2> jobs'[j] = GaveUpRow(jobs[j], t)
      BY <1>4, <1>6 DEF Persisted
    <2> QED
      BY <1>1, <1>2, AbandonEffect DEF JobEffect
  <1>8. \A a \in attempts' \ attempts : AttemptEffect(a)
    <2> SUFFICES ASSUME NEW a \in new PROVE AttemptEffect(a)
      BY <1>6 DEF Persisted
    <2>1. jobs'[a.job] = GaveUpRow(jobs[a.job], t) /\ a.job \in js
      BY <1>4, <1>5, <1>6 DEF Persisted
    <2>2. jobs'[a.job].attempt = jobs[a.job].attempt /\ jobs'[a.job].state \notin Leased
      BY <1>1, <1>2, <2>1, AbandonEffect DEF Leased
    <2> QED
      BY <1>5, <1>6, <2>2 DEF AttemptEffect, Persisted, FreshAttempts
  <1>9. \A a \in attempts' \ attempts, b \in attempts' \ attempts : a.job = b.job => a = b
    BY <1>5, <1>6 DEF Persisted
  <1>10. now' \in 0..MaxTime /\ proc' \in [Workers -> Proc] /\ \A v \in Workers : ProcEffect(v)
    BY DEF RecoverExpired, IInv, TypeOK, ProcEffect
  <1>11. QED
    BY <1>6, <1>7, <1>8, <1>9, <1>10 DEF StepEffect, Persisted

\* claim_next() that claims j after abandoning the attempts ahead of it.
LEMMA ClaimJobEffect ==
  ASSUME IInv, NEW w \in Workers, NEW j \in JobIds, NEW t \in Reading, NEW skipped,
         ClaimJob(w, j, t, skipped)
  PROVE  StepEffect
  <1> DEFINE c == Candidates(w, t, skipped)
             ahead == {i \in c : Expired(i, t) /\ Before(i, j)}
             js == ahead \cup {j}
             row == [i \in js |-> IF i = j THEN ClaimedRow(jobs[j], OwnerOf[w], t)
                                           ELSE GaveUpRow(jobs[i], t)]
             lost == {Abandonment(i, w) : i \in ahead}
             claim == AttemptEvent(j, row[j], 1, "CLAIMED", OwnerOf[w], w)
             new == lost \cup {claim}
  <1>1. t \in Nat
    BY ReadingIsNat DEF IInv
  <1>2. Due(j, t) /\ ahead \in SUBSET JobIds /\ js \in SUBSET JobIds
        /\ \A i \in ahead : Expired(i, t)
    BY JobsAssumption DEF JobsAssumption, Candidates, ClaimJob
  <1>3. j \notin ahead
    BY <1>2 DEF Due, Expired, Waiting, Leased
  <1>4. Persist(js, row, new)
    BY DEF ClaimJob
  <1>5. proc' = [proc EXCEPT ![w] = Holding(j, row[j].attempt)]
    BY DEF ClaimJob
  <1>6. /\ jobs[j] \in JobRow /\ ValidRow(jobs[j]) /\ jobs[j].state \in Waiting
        /\ jobs[j].next <= t /\ jobs[j].attempt < MaxAttempts
    <2>1. jobs[j] \in JobRow /\ ValidRow(jobs[j]) /\ jobs[j].state \in Waiting /\ jobs[j].next <= t
      BY <1>2 DEF Due, Waiting, IInv, TypeOK, RowsValid
    <2>2. jobs[j].state = "FAILED" => jobs[j].attempt < MaxAttempts
      BY DEF IInv, RetriesLeft
    <2>3. jobs[j].state = "PENDING" => jobs[j].attempt < MaxAttempts
      BY <2>1, JobsAssumption DEF JobsAssumption, ValidRow
    <2> QED
      BY <2>1, <2>2, <2>3 DEF Waiting
  <1>7. row[j] = ClaimedRow(jobs[j], OwnerOf[w], t) /\ row[j] \in JobRow
    BY <1>1, <1>6, ClaimedRowValid
  <1>8. /\ row[j].state = "CLAIMED" /\ row[j].attempt = jobs[j].attempt + 1
        /\ row[j].owner = OwnerOf[w] /\ row[j].attempt \in 1..MaxAttempts
    BY <1>6, <1>7, JobsAssumption DEF JobsAssumption, ClaimedRow, JobRow
  <1>9. \A i \in ahead : row[i] \in JobRow /\ row[i].state # "ABSENT" /\ row[i] = GaveUpRow(jobs[i], t)
    BY <1>1, <1>2, <1>3, AbandonEffect
  <1>10. \A a \in lost : /\ a \in AttemptRow /\ a.job \in ahead /\ a.attempt = jobs[a.job].attempt
                        /\ a.transition = "ABANDONED" /\ a.seq \in {2, 3} /\ a = Abandonment(a.job, w)
    BY <1>1, <1>2, AbandonEffect
  <1>11. /\ claim \in AttemptRow /\ claim.job = j /\ claim.attempt = row[j].attempt
         /\ claim.transition = "CLAIMED" /\ claim.seq = 1 /\ claim.by = w
    BY <1>8 DEF AttemptEvent, AttemptRow, Owners
  <1>12. \A i \in js : row[i] \in JobRow /\ row[i].state # "ABSENT"
    BY <1>7, <1>8, <1>9
  <1>13. js = ahead \cup {j} /\ new = lost \cup {claim}
    OBVIOUS
  <1> HIDE DEF c, ahead, js, row, lost, claim, new
  <1>14. Persisted(js, row, new)
    BY <1>2, <1>4, <1>12, PersistEffect DEF IInv
  <1>15. jobs'[j] = row[j] /\ \A i \in ahead : jobs'[i] = GaveUpRow(jobs[i], t)
    BY <1>9, <1>13, <1>14 DEF Persisted
  <1>16. \A i \in JobIds : JobEffect(i)
    <2>1. JobEffect(j)
      BY <1>1, <1>2, <1>7, <1>8, <1>15 DEF JobEffect
    <2>2. ASSUME NEW i \in ahead PROVE JobEffect(i)
      BY <1>1, <1>2, <1>15, AbandonEffect DEF JobEffect
    <2>3. ASSUME NEW i \in JobIds, i \notin js PROVE JobEffect(i)
      BY <2>3, <1>14 DEF JobEffect, Persisted
    <2> QED
      BY <1>13, <2>1, <2>2, <2>3
  <1>17. \A a \in attempts' \ attempts : AttemptEffect(a)
    <2>1. \A a \in new, b \in attempts : ~(a.job = b.job /\ a.attempt = b.attempt /\ a.seq = b.seq)
      BY <1>14 DEF Persisted, FreshAttempts
    <2>2. ASSUME NEW a \in lost PROVE AttemptEffect(a)
      <3>1. jobs'[a.job].attempt = jobs[a.job].attempt /\ jobs'[a.job].state \notin Leased
        BY <1>1, <1>2, <1>10, <1>15, AbandonEffect DEF Leased
      <3> QED
        BY <1>10, <1>13, <2>1, <3>1 DEF AttemptEffect
    <2>3. AttemptEffect(claim)
      BY <1>8, <1>11, <1>13, <1>15, <2>1 DEF AttemptEffect
    <2> QED
      BY <1>13, <1>14, <2>2, <2>3 DEF Persisted
  <1>18. \A a \in attempts' \ attempts, b \in attempts' \ attempts : a.job = b.job => a = b
    BY <1>3, <1>10, <1>11, <1>13, <1>14 DEF Persisted
  <1>19. now' \in 0..MaxTime
    BY DEF ClaimJob, IInv, TypeOK
  <1>20. /\ proc' \in [Workers -> Proc] /\ proc'[w].pc = "claimed" /\ proc'[w].job = j
         /\ proc'[w].attempt = row[j].attempt /\ \A v \in Workers \ {w} : proc'[v] = proc[v]
    <2>1. proc \in [Workers -> Proc]
      BY DEF IInv, TypeOK
    <2>2. Holding(j, row[j].attempt) \in Proc
      BY <1>8, JobsAssumption DEF JobsAssumption, Holding, Proc, PC
    <2> QED
      BY <1>5, <2>1, <2>2 DEF Holding
  <1>21. \A v \in Workers : ProcEffect(v)
    <2>1. claim \in attempts'
      BY <1>13, <1>14 DEF Persisted
    <2> QED
      BY <1>8, <1>11, <1>15, <1>20, <2>1 DEF ProcEffect
  <1>22. QED
    BY <1>14, <1>16, <1>17, <1>18, <1>19, <1>20, <1>21 DEF StepEffect, Persisted

\* mark_running().
LEMMA MarkRunningEffect ==
  ASSUME IInv, NEW w \in Workers, NEW t \in Reading, MarkRunning(w, t)
  PROVE  StepEffect
  <1> DEFINE j == proc[w].job
             r == RunningRow(jobs[j], t)
             row == [i \in {j} |-> r]
             a == AttemptEvent(j, r, 2, "RUNNING", OwnerOf[w], w)
  <1>1. t \in Nat /\ j \in JobIds
    BY ReadingIsNat DEF IInv, TypeOK, Proc
  <1>2. LeaseHeld(j, OwnerOf[w], proc[w].attempt, t, "CLAIMED") /\ proc[w].pc = "claimed"
    BY DEF MarkRunning
  <1>3. jobs[j].state = "CLAIMED" /\ jobs[j].updated <= t /\ t < jobs[j].expires
        /\ proc[w].attempt = jobs[j].attempt
    BY <1>1, <1>2, LeasedRow DEF LeaseHeld, Leased
  <1>4. Persist({j}, row, {a})
    BY DEF MarkRunning
  <1>5. r \in JobRow /\ r.state = "RUNNING" /\ r.attempt = jobs[j].attempt
    BY <1>1, <1>3, LeasedRow, RunningRowValid DEF Leased, RunningRow
  <1>6. /\ a \in AttemptRow /\ a.job = j /\ a.attempt = jobs[j].attempt /\ a.by = w
        /\ a.transition = "RUNNING" /\ a.seq = 2
    BY <1>1, <1>3, <1>5, LeasedRow DEF Leased, AttemptEvent, AttemptRow, Owners
  <1>7. \A i \in {j} : row[i] \in JobRow /\ row[i].state # "ABSENT"
    BY <1>5
  <1>8. row[j] = r
    OBVIOUS
  <1>9. proc' = [proc EXCEPT ![w].pc = "handling"] /\ now' = now
    BY DEF MarkRunning
  <1> HIDE DEF row, a, r
  <1>10. Persisted({j}, row, {a})
    BY <1>1, <1>4, <1>7, PersistEffect DEF IInv
  <1>11. jobs'[j] = r
    BY <1>8, <1>10 DEF Persisted
  <1>12. \A i \in JobIds : JobEffect(i)
    <2>1. JobEffect(j)
      BY <1>1, <1>2, <1>3, <1>11 DEF JobEffect, WorksOn, r
    <2> QED
      BY <2>1, <1>10 DEF JobEffect, Persisted
  <1>13. \A b \in attempts' \ attempts : b = a
    BY <1>10 DEF Persisted
  <1>14. AttemptEffect(a)
    BY <1>2, <1>3, <1>5, <1>6, <1>10, <1>11 DEF AttemptEffect, Persisted, FreshAttempts, WorksOn
  <1>15. now' \in 0..MaxTime /\ proc' \in [Workers -> Proc] /\ \A v \in Workers : ProcEffect(v)
    BY <1>2, <1>9 DEF IInv, TypeOK, Proc, PC, ProcEffect
  <1>16. QED
    BY <1>10, <1>12, <1>13, <1>14, <1>15 DEF StepEffect, Persisted

\* heartbeat(), by whichever step calls it.
LEMMA HeartbeatEffect ==
  ASSUME IInv, NEW w \in Workers, NEW t \in Reading, Heartbeat(w, t),
         proc[w].pc \in {"handling", "returned", "joined"}
  PROVE  /\ now' \in 0..MaxTime
         /\ jobs' \in [JobIds -> JobRow] /\ \A j \in JobIds : JobEffect(j)
         /\ attempts' = attempts /\ outbox' = outbox
         /\ jobs'[proc[w].job].updated = t
  <1> DEFINE j == proc[w].job
             r == BeatRow(jobs[j], t)
  <1>1. t \in Nat /\ j \in JobIds
    BY ReadingIsNat DEF IInv, TypeOK, Proc
  <1>2. LeaseHeld(j, OwnerOf[w], proc[w].attempt, t, "RUNNING")
    BY DEF Heartbeat
  <1>3. jobs[j].state = "RUNNING" /\ jobs[j].updated <= t /\ proc[w].attempt = jobs[j].attempt
    BY <1>1, <1>2, LeasedRow DEF LeaseHeld, Leased
  <1>4. r \in JobRow /\ r.updated = t
    BY <1>1, <1>3, LeasedRow, BeatRowValid DEF Leased, BeatRow
  <1>5. jobs' = [jobs EXCEPT ![j] = r] /\ attempts' = attempts /\ outbox' = outbox /\ now' = now
    BY DEF Heartbeat
  <1>6. JobEffect(j)
    BY <1>1, <1>2, <1>3, <1>5 DEF JobEffect, WorksOn, IInv, TypeOK
  <1> HIDE DEF r
  <1>7. QED
    BY <1>1, <1>4, <1>5, <1>6 DEF IInv, TypeOK, JobEffect

\* The heartbeat thread and the handler's checkpoints.
LEMMA CheckpointEffect ==
  ASSUME IInv, NEW w \in Workers, NEW t \in Reading, Checkpoint(w, t)
  PROVE  StepEffect
  <1>1. /\ Heartbeat(w, t) /\ proc[w].pc \in {"handling", "returned", "joined"}
        /\ proc' = proc
    BY DEF Checkpoint
  <1>2. proc' \in [Workers -> Proc] /\ \A v \in Workers : ProcEffect(v)
    BY <1>1 DEF IInv, TypeOK, ProcEffect
  <1>3. QED
    BY <1>1, <1>2, HeartbeatEffect DEF StepEffect

\* The final checkpoint.
LEMMA FinalCheckpointEffect ==
  ASSUME IInv, NEW w \in Workers, NEW t \in Reading, FinalCheckpoint(w, t)
  PROVE  StepEffect
  <1>1. /\ Heartbeat(w, t) /\ proc[w].pc = "joined" /\ t \in Nat
        /\ proc' = [proc EXCEPT ![w].pc = "finishing", ![w].completion = t]
    BY ReadingIsNat DEF FinalCheckpoint, IInv
  <1>2. proc \in [Workers -> Proc]
    BY DEF IInv, TypeOK
  <1>3. proc' \in [Workers -> Proc]
    BY <1>1, <1>2 DEF Proc, PC
  <1>4. \A v \in Workers : ProcEffect(v)
    BY <1>1, <1>2, HeartbeatEffect DEF Proc, ProcEffect
  <1>5. QED
    BY <1>1, <1>3, <1>4, HeartbeatEffect DEF StepEffect

\* succeed() and fail().
LEMMA CompleteEffect ==
  ASSUME IInv, NEW w \in Workers, Complete(w)
  PROVE  StepEffect
  <1> DEFINE j == proc[w].job
             t == proc[w].completion
             r == IF proc[w].ok THEN SucceededRow(jobs[j], t) ELSE GaveUpRow(jobs[j], t)
             row == [i \in {j} |-> r]
             tr == IF proc[w].ok THEN "SUCCEEDED" ELSE "FAILED"
             a == AttemptEvent(j, r, 3, tr, OwnerOf[w], w)
  <1>1. t \in Nat /\ j \in JobIds
    BY DEF IInv, TypeOK, Proc
  <1>2. LeaseHeld(j, OwnerOf[w], proc[w].attempt, t, "RUNNING") /\ proc[w].pc = "finishing"
    BY DEF Complete
  <1>3. jobs[j].state = "RUNNING" /\ jobs[j].updated <= t /\ proc[w].attempt = jobs[j].attempt
    BY <1>1, <1>2, LeasedRow DEF LeaseHeld, Leased
  <1>4. Persist({j}, row, {a})
    BY DEF Complete
  <1>5. r \in JobRow /\ r.state \in {"SUCCEEDED", "FAILED", "DEAD"} /\ r.attempt = jobs[j].attempt
    <2>1. SucceededRow(jobs[j], t) \in JobRow /\ GaveUpRow(jobs[j], t) \in JobRow
      BY <1>1, <1>3, LeasedRow, BeatRowValid, GaveUpRowValid DEF Leased
    <2>2. /\ SucceededRow(jobs[j], t).state = "SUCCEEDED"
          /\ SucceededRow(jobs[j], t).attempt = jobs[j].attempt
      BY DEF SucceededRow
    <2>3. /\ GaveUpRow(jobs[j], t).state \in {"FAILED", "DEAD"}
          /\ GaveUpRow(jobs[j], t).attempt = jobs[j].attempt
      BY DEF GaveUpRow
    <2> QED
      BY <2>1, <2>2, <2>3
  <1>6. /\ a \in AttemptRow /\ a.job = j /\ a.attempt = jobs[j].attempt /\ a.by = w
        /\ a.transition \in {"SUCCEEDED", "FAILED"} /\ a.seq = 3
    <2> HIDE DEF r
    <2> QED
      BY <1>1, <1>3, <1>5, LeasedRow DEF Leased, AttemptEvent, AttemptRow, Owners, Outcome
  <1>7. \A i \in {j} : row[i] \in JobRow /\ row[i].state # "ABSENT"
    BY <1>5
  <1>8. row[j] = r
    OBVIOUS
  <1>9. proc' = [proc EXCEPT ![w] = Idle] /\ now' = now
    BY DEF Complete
  <1> HIDE DEF row, a, r
  <1>10. Persisted({j}, row, {a})
    BY <1>1, <1>4, <1>7, PersistEffect DEF IInv
  <1>11. jobs'[j] = r
    BY <1>8, <1>10 DEF Persisted
  <1>12. \A i \in JobIds : JobEffect(i)
    <2>1. WorksOn(w, j, {"handling", "returned", "joined", "finishing"})
      BY <1>2, <1>3 DEF WorksOn
    <2>2. CASE proc[w].ok
      BY <1>1, <1>2, <1>10, <1>11, <2>1, <2>2 DEF JobEffect, r, Persisted
    <2>3. CASE ~proc[w].ok
      BY <1>1, <1>3, <1>10, <1>11, <2>3 DEF JobEffect, r, Persisted, Leased
    <2> QED
      BY <2>2, <2>3
  <1>13. \A b \in attempts' \ attempts : b = a
    BY <1>10 DEF Persisted
  <1>14. AttemptEffect(a)
    BY <1>2, <1>3, <1>5, <1>6, <1>10, <1>11
       DEF AttemptEffect, Persisted, FreshAttempts, WorksOn, Leased
  <1>15. proc' \in [Workers -> Proc] /\ \A v \in Workers : ProcEffect(v)
    BY <1>9, JobsAssumption DEF JobsAssumption, IInv, TypeOK, Proc, PC, Idle, ProcEffect
  <1>16. QED
    BY <1>9, <1>10, <1>12, <1>13, <1>14, <1>15 DEF StepEffect, Persisted, IInv, TypeOK

\* The steps that touch no table.
LEMMA LocalEffect ==
  ASSUME IInv,
         \/ Tick
         \/ \E w \in Workers : \/ LoseLease(w) \/ Join(w) \/ Abort(w)
                              \/ \E ok \in BOOLEAN : Return(w, ok)
  PROVE  StepEffect
  <1> USE DEF IInv, TypeOK
  <1>1. jobs' = jobs /\ attempts' = attempts /\ outbox' = outbox
    BY DEF Tick, LoseLease, Join, Abort, Return
  <1>2. now' \in 0..MaxTime
    <2>1. now \in 0..MaxTime /\ MaxTime \in Nat
      BY JobsAssumption DEF JobsAssumption
    <2>2. now' = now \/ (now < MaxTime /\ now' = now + 1)
      BY DEF Tick, LoseLease, Join, Abort, Return
    <2> HIDE DEF IInv, TypeOK
    <2> QED
      BY <2>1, <2>2
  <1>3. proc' \in [Workers -> Proc] /\ \A v \in Workers : ProcEffect(v)
    <2>1. CASE Tick
      BY <2>1 DEF Tick, ProcEffect
    <2>2. ASSUME NEW w \in Workers, LoseLease(w) PROVE <1>3!1 /\ <1>3!2
      BY <2>2 DEF LoseLease, ProcEffect, Proc, PC
    <2>3. ASSUME NEW w \in Workers, Join(w) PROVE <1>3!1 /\ <1>3!2
      BY <2>3 DEF Join, ProcEffect, Proc, PC
    <2>4. ASSUME NEW w \in Workers, Abort(w) PROVE <1>3!1 /\ <1>3!2
      BY <2>4, JobsAssumption DEF JobsAssumption, Abort, ProcEffect, Proc, PC, Idle
    <2>5. ASSUME NEW w \in Workers, NEW ok \in BOOLEAN, Return(w, ok) PROVE <1>3!1 /\ <1>3!2
      BY <2>5 DEF Return, ProcEffect, Proc, PC
    <2> QED
      BY <2>1, <2>2, <2>3, <2>4, <2>5
  <1>4. QED
    BY <1>1, <1>2, <1>3 DEF StepEffect, JobEffect

\* Every step of the system.
LEMMA StepEffects == ASSUME IInv, Next PROVE StepEffect
  <1> USE DEF Next, WorkerStep
  <1>1. CASE \E j \in JobIds, t \in Reading : Create(j, t) \/ Cancel(j, t)
    BY <1>1, CreateEffect, CancelEffect
  <1>2. CASE \E w \in Workers, t \in Reading, skipped \in Skippable :
               RecoverExpired(w, t, skipped) \/ \E j \in JobIds : ClaimJob(w, j, t, skipped)
    BY <1>2, RecoverExpiredEffect, ClaimJobEffect
  <1>3. CASE \E w \in Workers, t \in Reading :
               MarkRunning(w, t) \/ Checkpoint(w, t) \/ FinalCheckpoint(w, t)
    BY <1>3, MarkRunningEffect, CheckpointEffect, FinalCheckpointEffect
  <1>4. CASE \E w \in Workers : Complete(w)
    BY <1>4, CompleteEffect
  <1>5. CASE \/ Tick
             \/ \E w \in Workers : \/ LoseLease(w) \/ Join(w) \/ Abort(w)
                                  \/ \E ok \in BOOLEAN : Return(w, ok)
    BY <1>5, LocalEffect
  <1>6. QED
    BY <1>1, <1>2, <1>3, <1>4, <1>5

-----------------------------------------------------------------------------
(***************************************************************************)
(* The invariant is inductive.                                             *)
(***************************************************************************)

\* What a step may do to one row: stay valid, keep retries left when failed,
\* move updated_at and the attempt forward only, and count one version.
LEMMA RowEffect ==
  ASSUME IInv, NEW j \in JobIds, JobEffect(j), jobs'[j] \in JobRow
  PROVE  /\ IF jobs'[j].state = "ABSENT" THEN jobs'[j] = AbsentRow ELSE ValidRow(jobs'[j])
         /\ jobs'[j].state = "FAILED" => jobs'[j].attempt < MaxAttempts
         /\ jobs[j].version <= jobs'[j].version
         /\ jobs[j].attempt <= jobs'[j].attempt
         /\ jobs[j].state # "ABSENT" => RowStep(j)
         /\ jobs'[j].state \in Leased /\ jobs'[j].attempt = jobs[j].attempt =>
              jobs[j].state \in Leased /\ jobs'[j].owner = jobs[j].owner
         /\ jobs'[j].state = "CLAIMED" /\ jobs'[j].attempt = jobs[j].attempt =>
              jobs'[j] = jobs[j]
  <1> DEFINE r == jobs[j]
             Goal(s) ==
               /\ IF s.state = "ABSENT" THEN s = AbsentRow ELSE ValidRow(s)
               /\ s.state = "FAILED" => s.attempt < MaxAttempts
               /\ r.version <= s.version
               /\ r.attempt <= s.attempt
               /\ r.state # "ABSENT" => /\ s.updated >= r.updated
                                        /\ s # r => s.version = r.version + 1
               /\ s.state \in Leased /\ s.attempt = r.attempt =>
                    r.state \in Leased /\ s.owner = r.owner
               /\ s.state = "CLAIMED" /\ s.attempt = r.attempt => s = r
  <1>1. /\ r \in JobRow /\ (IF r.state = "ABSENT" THEN r = AbsentRow ELSE ValidRow(r))
        /\ r.state = "FAILED" => r.attempt < MaxAttempts
    BY DEF IInv, TypeOK, RowsValid, RetriesLeft
  <1>2. r.version \in Nat /\ r.attempt \in Nat /\ r.updated \in Nat
    BY <1>1 DEF JobRow
  <1> SUFFICES Goal(jobs'[j])
    BY DEF RowStep
  <1>3. CASE jobs'[j] = r
    BY <1>1, <1>2, <1>3
  <1>4. ASSUME NEW t \in Nat, r.state = "ABSENT" PROVE Goal(NewRow(t))
    BY <1>1, <1>2, <1>4, NewRowValid DEF AbsentRow, NewRow, Leased
  <1>5. ASSUME NEW t \in Nat, NEW w \in Workers, Due(j, t),
               ClaimedRow(r, OwnerOf[w], t).attempt <= MaxAttempts
        PROVE  Goal(ClaimedRow(r, OwnerOf[w], t))
    <2>1. r.state \in Waiting /\ r.next <= t /\ ValidRow(r) /\ r.attempt < MaxAttempts
      BY <1>1, <1>2, <1>5, JobsAssumption DEF JobsAssumption, Due, Waiting, ClaimedRow
    <2>2. ValidRow(ClaimedRow(r, OwnerOf[w], t))
      BY <1>1, <2>1, ClaimedRowValid
    <2>3. r.updated <= t
      BY <1>1, <2>1 DEF ValidRow, JobRow, Time, NoTime, Waiting
    <2> QED
      BY <1>2, <2>2, <2>3 DEF ClaimedRow, Leased
  <1>6. ASSUME NEW t \in Nat, r.state \in Leased, r.updated <= t PROVE Goal(GaveUpRow(r, t))
    <2>1. ValidRow(r) /\ ValidRow(GaveUpRow(r, t)) /\ r.attempt \in 0..MaxAttempts
      BY <1>1, <1>6, GaveUpRowValid DEF Leased, JobRow
    <2> QED
      BY <1>2, <1>6, <2>1, JobsAssumption DEF JobsAssumption, GaveUpRow, Spent, Leased
  <1>7. ASSUME NEW t \in Nat, r.state \in Waiting, r.updated <= t PROVE Goal(CanceledRow(r, t))
    <2>1. ValidRow(CanceledRow(r, t))
      BY <1>1, <1>7, CanceledRowValid DEF Waiting
    <2> QED
      BY <1>2, <1>7, <2>1 DEF CanceledRow, Leased
  <1>8. ASSUME NEW t \in Nat, NEW o, NEW k, LeaseHeld(j, o, k, t, "CLAIMED") PROVE Goal(RunningRow(r, t))
    <2>1. r.state = "CLAIMED" /\ r.updated <= t /\ t < r.expires
      BY <1>2, <1>8, LeasedRow DEF LeaseHeld, Leased
    <2>2. ValidRow(RunningRow(r, t))
      BY <1>1, <2>1, RunningRowValid
    <2> QED
      BY <1>2, <2>1, <2>2 DEF RunningRow, Leased
  <1>9. ASSUME NEW t \in Nat, NEW o, NEW k, LeaseHeld(j, o, k, t, "RUNNING")
        PROVE  Goal(SucceededRow(r, t)) /\ Goal(BeatRow(r, t))
    <2>1. r.state = "RUNNING" /\ r.updated <= t
      BY <1>2, <1>9, LeasedRow DEF LeaseHeld, Leased
    <2>2. ValidRow(SucceededRow(r, t)) /\ ValidRow(BeatRow(r, t))
      BY <1>1, <2>1, BeatRowValid
    <2> QED
      BY <1>2, <2>1, <2>2 DEF SucceededRow, BeatRow, Leased
  <1> HIDE DEF Goal
  <1>10. QED
    BY <1>3, <1>4, <1>5, <1>6, <1>7, <1>8, <1>9 DEF JobEffect

\* The claim of an attempt identifies the process that works on it.
LEMMA OneProcessPerAttempt ==
  ASSUME IInv, NEW v \in Workers, NEW w \in Workers,
         proc[v].pc # "idle", proc[w].pc # "idle",
         proc[v].job = proc[w].job, proc[v].attempt = proc[w].attempt
  PROVE  v = w
  <1>1. PICK a \in attempts : /\ a.job = proc[v].job /\ a.attempt = proc[v].attempt
                              /\ a.transition = "CLAIMED" /\ a.by = v
    BY DEF IInv, ProcessesClaimed
  <1>2. PICK b \in attempts : /\ b.job = proc[w].job /\ b.attempt = proc[w].attempt
                              /\ b.transition = "CLAIMED" /\ b.by = w
    BY DEF IInv, ProcessesClaimed
  <1>3. a = b
    BY <1>1, <1>2 DEF IInv, AttemptKeys
  <1>4. QED
    BY <1>1, <1>2, <1>3

\* Initial states satisfy the invariant.
LEMMA InitIInv == Init => IInv
  <1> SUFFICES ASSUME Init PROVE IInv
    OBVIOUS
  <1>1. AbsentRow \in JobRow /\ Idle \in Proc
    BY NewRowValid, JobsAssumption DEF JobsAssumption, Idle, Proc, PC
  <1>2. TypeOK
    BY <1>1, JobsAssumption DEF JobsAssumption, Init, TypeOK
  <1>3. RowsValid /\ RetriesLeft
    BY DEF Init, RowsValid, RetriesLeft, AbsentRow
  <1>4. \A w \in Workers : proc[w].pc = "idle"
    BY DEF Init, Idle
  <1>5. QED
    BY <1>2, <1>3, <1>4 DEF Init, IInv, EventsBehind, AttemptsBehind, AttemptKeys,
                            ProcessesClaimed, AttemptsFenced, CheckpointLast

\* Every step preserves the invariant.
LEMMA NextIInv == IInv /\ [Next]_vars => IInv'
  <1>1. ASSUME IInv, UNCHANGED vars PROVE IInv'
    BY <1>1 DEF vars, IInv, TypeOK, RowsValid, RetriesLeft, EventsBehind, AttemptsBehind,
                AttemptKeys, ProcessesClaimed, AttemptsFenced, CheckpointLast
  <1> SUFFICES ASSUME IInv, Next PROVE IInv'
    BY <1>1
  <1>2. StepEffect
    BY StepEffects
  <1>3. ASSUME NEW j \in JobIds
        PROVE  /\ jobs'[j] \in JobRow /\ JobEffect(j)
               /\ IF jobs'[j].state = "ABSENT" THEN jobs'[j] = AbsentRow ELSE ValidRow(jobs'[j])
               /\ jobs'[j].state = "FAILED" => jobs'[j].attempt < MaxAttempts
               /\ jobs[j].version \in Nat /\ jobs'[j].version \in Nat
               /\ jobs[j].version <= jobs'[j].version
               /\ jobs[j].attempt \in Nat /\ jobs'[j].attempt \in Nat
               /\ jobs[j].attempt <= jobs'[j].attempt
               /\ jobs'[j].state \in Leased /\ jobs'[j].attempt = jobs[j].attempt =>
                    jobs[j].state \in Leased /\ jobs'[j].owner = jobs[j].owner
               /\ jobs'[j].state = "CLAIMED" /\ jobs'[j].attempt = jobs[j].attempt =>
                    jobs'[j] = jobs[j]
    <2>1. jobs'[j] \in JobRow /\ JobEffect(j) /\ jobs[j] \in JobRow
      BY <1>2 DEF StepEffect, IInv, TypeOK
    <2>2. /\ jobs[j].version \in Nat /\ jobs'[j].version \in Nat
          /\ jobs[j].attempt \in Nat /\ jobs'[j].attempt \in Nat
      BY <2>1 DEF JobRow
    <2> QED
      BY <2>1, <2>2, RowEffect
  <1>4. attempts' \subseteq AttemptRow
    BY <1>2 DEF StepEffect, AttemptEffect, IInv, TypeOK
  <1>5. TypeOK'
    <2>1. outbox' \subseteq OutboxRow
      <3> SUFFICES ASSUME NEW e \in outbox' \ outbox PROVE e \in OutboxRow
        BY DEF IInv, TypeOK
      <3>1. e.job \in JobIds /\ e = OutboxEvent(e.job, jobs'[e.job]) /\ jobs'[e.job].state # "ABSENT"
        BY <1>2 DEF StepEffect
      <3> QED
        BY <3>1, <1>3 DEF OutboxEvent, OutboxRow, JobRow
    <2> QED
      BY <1>2, <1>4, <2>1 DEF StepEffect, TypeOK
  <1>6. RowsValid' /\ RetriesLeft'
    BY <1>3 DEF RowsValid, RetriesLeft
  <1>7. EventsBehind'
    <2> SUFFICES ASSUME NEW e \in outbox' PROVE e.version <= jobs'[e.job].version
      BY DEF EventsBehind
    <2>1. CASE e \in outbox
      <3>1. e.job \in JobIds /\ e.version \in Nat /\ e.version <= jobs[e.job].version
        BY <2>1 DEF IInv, TypeOK, OutboxRow, EventsBehind
      <3> QED
        BY <3>1, <1>3
    <2>2. CASE e \notin outbox
      <3>1. e.job \in JobIds /\ e = OutboxEvent(e.job, jobs'[e.job])
        BY <1>2, <2>2 DEF StepEffect
      <3>2. e.version = jobs'[e.job].version
        BY <3>1 DEF OutboxEvent
      <3> QED
        BY <1>3, <3>1, <3>2
    <2> QED
      BY <2>1, <2>2
  <1>8. AttemptsBehind'
    <2> SUFFICES ASSUME NEW a \in attempts'
                 PROVE  /\ a.attempt <= jobs'[a.job].attempt
                        /\ a.attempt = jobs'[a.job].attempt =>
                             /\ jobs'[a.job].state = "CLAIMED" => a.seq = 1
                             /\ jobs'[a.job].state = "RUNNING" => a.seq \in {1, 2}
      BY DEF AttemptsBehind
    <2>1. a.job \in JobIds /\ a.attempt \in Nat
      BY <1>4 DEF AttemptRow
    <2>2. CASE a \in attempts
      <3>1. /\ a.attempt <= jobs[a.job].attempt
            /\ a.attempt = jobs[a.job].attempt =>
                 /\ jobs[a.job].state = "CLAIMED" => a.seq = 1
                 /\ jobs[a.job].state = "RUNNING" => a.seq \in {1, 2}
        BY <2>2 DEF IInv, AttemptsBehind
      <3>2. a.attempt = jobs'[a.job].attempt => a.attempt = jobs[a.job].attempt
        BY <2>1, <3>1, <1>3
      <3> QED
        BY <2>1, <3>1, <3>2, <1>3 DEF Leased
    <2>3. CASE a \notin attempts
      <3>1. AttemptEffect(a)
        BY <1>2, <2>3 DEF StepEffect
      <3> QED
        BY <2>1, <3>1 DEF AttemptEffect, Leased
    <2> QED
      BY <2>2, <2>3
  <1>9. AttemptKeys'
    <2>1. \A a \in attempts' : (a.seq = 1) <=> (a.transition = "CLAIMED")
      BY <1>2 DEF StepEffect, AttemptEffect, IInv, AttemptKeys
    <2>2. ASSUME NEW a \in attempts', NEW b \in attempts',
                 a.job = b.job, a.attempt = b.attempt, a.seq = b.seq
          PROVE  a = b
      BY <1>2, <2>2 DEF StepEffect, AttemptEffect, IInv, AttemptKeys
    <2> QED
      BY <2>1, <2>2 DEF AttemptKeys
  <1>10. ProcessesClaimed'
    <2> SUFFICES ASSUME NEW w \in Workers, proc'[w].pc # "idle"
                 PROVE  /\ \E a \in attempts' : /\ a.job = proc'[w].job /\ a.attempt = proc'[w].attempt
                                               /\ a.transition = "CLAIMED" /\ a.by = w
                        /\ LET r == jobs'[proc'[w].job] IN
                           r.attempt = proc'[w].attempt /\ r.state \in Leased => r.owner = OwnerOf[w]
      BY DEF ProcessesClaimed
    <2>1. ProcEffect(w) /\ attempts \subseteq attempts'
      BY <1>2 DEF StepEffect
    <2>2. CASE proc[w].pc # "idle" /\ proc'[w].job = proc[w].job /\ proc'[w].attempt = proc[w].attempt
      <3>1. PICK a \in attempts : /\ a.job = proc[w].job /\ a.attempt = proc[w].attempt
                                  /\ a.transition = "CLAIMED" /\ a.by = w
        BY <2>2 DEF IInv, ProcessesClaimed
      <3>2. a.job \in JobIds /\ a.attempt \in Nat /\ a.attempt <= jobs[a.job].attempt
        BY DEF IInv, TypeOK, AttemptRow, AttemptsBehind
      <3>3. jobs'[a.job].attempt = a.attempt => jobs[a.job].attempt = a.attempt
        BY <3>2, <1>3
      <3>4. jobs[a.job].attempt = a.attempt /\ jobs[a.job].state \in Leased => jobs[a.job].owner = OwnerOf[w]
        BY <2>2, <3>1 DEF IInv, ProcessesClaimed
      <3> QED
        BY <2>1, <2>2, <3>1, <3>2, <3>3, <3>4, <1>3
    <2>3. CASE /\ jobs'[proc'[w].job].owner = OwnerOf[w]
               /\ \E a \in attempts' : /\ a.job = proc'[w].job /\ a.attempt = proc'[w].attempt
                                      /\ a.transition = "CLAIMED" /\ a.by = w
      BY <2>3
    <2> QED
      BY <2>1, <2>2, <2>3 DEF ProcEffect
  <1>11. AttemptsFenced'
    <2> SUFFICES ASSUME NEW a \in attempts', NEW b \in attempts',
                        a.job = b.job, a.attempt = b.attempt, a.transition = "CLAIMED",
                        b.transition \in {"RUNNING", "SUCCEEDED", "FAILED"}
                 PROVE  a.by = b.by
      BY DEF AttemptsFenced
    <2>1. CASE a \in attempts /\ b \in attempts
      BY <2>1 DEF IInv, AttemptsFenced
    <2>2. CASE b \notin attempts
      <3>1. AttemptEffect(b) /\ b.by \in Workers
        BY <1>2, <1>4, <2>2 DEF StepEffect, AttemptRow
      <3>2. proc[b.by].pc # "idle" /\ proc[b.by].job = b.job /\ proc[b.by].attempt = jobs[b.job].attempt
            /\ b.attempt = jobs'[b.job].attempt /\ b.job \in JobIds
        BY <3>1 DEF AttemptEffect, WorksOn, AttemptRow
      <3>3. PICK c \in attempts : /\ c.job = b.job /\ c.attempt = jobs[b.job].attempt
                                  /\ c.transition = "CLAIMED" /\ c.by = b.by
        BY <3>1, <3>2 DEF IInv, ProcessesClaimed
      <3>4. jobs'[b.job].attempt = jobs[b.job].attempt
        <4>1. JobEffect(b.job) /\ jobs[b.job] \in JobRow
          BY <1>3, <3>2 DEF IInv, TypeOK
        <4>2. jobs'[b.job].state # "CLAIMED" /\ jobs[b.job].state # "ABSENT"
          <5>1. jobs'[b.job].state # "CLAIMED"
            BY <3>1 DEF AttemptEffect, Leased
          <5>2. jobs[b.job].state = "ABSENT" => jobs[b.job].attempt = 0
            BY <3>2 DEF IInv, RowsValid, AbsentRow
          <5>3. jobs[b.job].attempt >= 1
            BY <3>3 DEF IInv, TypeOK, AttemptRow
          <5> QED
            BY <5>1, <5>2, <5>3
        <4> QED
          BY <4>1, <4>2, RowFields DEF JobEffect
      <3>5. a.seq = 1 /\ c.seq = 1 /\ c \in attempts'
        BY <1>2, <1>9, <3>3 DEF AttemptKeys, StepEffect
      <3>6. a = c
        BY <1>9, <3>2, <3>3, <3>4, <3>5 DEF AttemptKeys
      <3> QED
        BY <3>3, <3>6
    <2>3. CASE a \notin attempts /\ b \in attempts
      <3>1. AttemptEffect(a) /\ a.job \in JobIds
        BY <1>2, <1>4, <2>3 DEF StepEffect, AttemptRow
      <3>2. a.attempt = jobs[a.job].attempt + 1
        BY <3>1 DEF AttemptEffect
      <3>3. b.attempt <= jobs[a.job].attempt /\ b.attempt \in Nat
        BY <2>3 DEF IInv, AttemptsBehind, TypeOK, AttemptRow
      <3> QED
        BY <1>3, <3>1, <3>2, <3>3
    <2> QED
      BY <2>1, <2>2, <2>3
  <1>12. CheckpointLast'
    <2> SUFFICES ASSUME NEW w \in Workers, proc'[w].pc = "finishing",
                        jobs'[proc'[w].job].state = "RUNNING",
                        jobs'[proc'[w].job].attempt = proc'[w].attempt
                 PROVE  jobs'[proc'[w].job].updated = proc'[w].completion
      BY DEF CheckpointLast
    <2>1. ProcEffect(w)
      BY <1>2 DEF StepEffect
    <2>2. CASE proc'[w] = proc[w]
      <3> DEFINE j == proc[w].job
      <3>1. j \in JobIds /\ JobEffect(j) /\ jobs[j] \in JobRow
        BY <1>3 DEF IInv, TypeOK, Proc
      <3>2. PICK a \in attempts : /\ a.job = j /\ a.attempt = proc[w].attempt
                                  /\ a.transition = "CLAIMED" /\ a.by = w
        BY <2>2 DEF IInv, ProcessesClaimed
      <3>3. jobs[j].attempt = proc[w].attempt
        <4>1. a.attempt \in Nat /\ a.attempt <= jobs[j].attempt
          BY <3>2 DEF IInv, TypeOK, AttemptRow, AttemptsBehind
        <4> QED
          BY <2>2, <3>1, <3>2, <4>1, <1>3
      <3>4. ASSUME NEW v \in Workers, NEW pcs, WorksOn(v, j, pcs), "idle" \notin pcs PROVE v = w
        BY <2>2, <3>3, <3>4, OneProcessPerAttempt DEF WorksOn
      <3>5. \A v \in Workers : /\ ~WorksOn(v, j, {"claimed"})
                               /\ WorksOn(v, j, {"handling", "returned", "joined", "finishing"})
                                    => proc[v].pc = "finishing"
        BY <2>2, <3>4 DEF WorksOn
      <3>6. jobs'[j].state = "RUNNING"
        BY <2>2
      <3> HIDE DEF j
      <3>7. jobs'[j] = jobs[j]
        BY <3>1, <3>5, <3>6, RowFields DEF JobEffect
      <3> QED
        BY <2>2, <3>3, <3>7 DEF IInv, CheckpointLast, j
    <2>3. CASE proc'[w] # proc[w]
      BY <2>1, <2>3 DEF ProcEffect
    <2> QED
      BY <2>2, <2>3
  <1>13. QED
    BY <1>5, <1>6, <1>7, <1>8, <1>9, <1>10, <1>11, <1>12 DEF IInv

-----------------------------------------------------------------------------
(***************************************************************************)
(* The theorems.                                                           *)
(***************************************************************************)

\* The invariant holds in every state of every behaviour.
THEOREM Invariance == Spec => []IInv
  BY InitIInv, NextIInv, PTL DEF Spec

\* The tables and the processes' memory are always well typed.
THEOREM TypeCorrect == Spec => []TypeOK
  BY Invariance, PTL DEF IInv

\* For any number of workers, all with the same lease_owner or not: only the
\* process that claimed an attempt starts and completes it (_require_worker_lease).
THEOREM Fencing == Spec => []AttemptsFenced
  BY Invariance, PTL DEF IInv

\* The completion timestamp run_one takes after joining its heartbeat thread is
\* never refused while the row still runs the worker's attempt.
THEOREM CompletionCurrent == Spec => []CompletionNotStale
  <1>1. IInv => CompletionNotStale
    <2> SUFFICES ASSUME IInv, NEW w \in Workers, proc[w].pc = "finishing",
                        jobs[proc[w].job].state = "RUNNING",
                        jobs[proc[w].job].attempt = proc[w].attempt
                 PROVE  LeaseHeld(proc[w].job, OwnerOf[w], proc[w].attempt,
                                  proc[w].completion, "RUNNING")
      BY DEF CompletionNotStale
    <2>1. proc[w].job \in JobIds /\ jobs[proc[w].job].state \in Leased
      BY DEF IInv, TypeOK, Proc, Leased
    <2>2. jobs[proc[w].job].owner = OwnerOf[w]
      BY <2>1 DEF IInv, ProcessesClaimed
    <2>3. jobs[proc[w].job].updated = proc[w].completion
      BY DEF IInv, CheckpointLast
    <2> QED
      BY <2>1, <2>2, <2>3, LeasedRow DEF LeaseHeld
  <1>2. QED
    BY <1>1, Invariance, PTL

\* Evidence of a job's next transition never collides with stored evidence.
LEMMA NextEvidenceFresh ==
  ASSUME IInv, NEW j \in JobIds, NEW row, row.version = jobs[j].version + 1
  PROVE  FreshEvents({OutboxEvent(j, row)})
  <1> SUFFICES ASSUME NEW e \in outbox, e.job = j PROVE e.version # jobs[j].version + 1
    BY DEF FreshEvents, OutboxEvent
  <1>1. e.version <= jobs[j].version /\ e.version \in Nat /\ jobs[j].version \in Nat
    BY DEF IInv, EventsBehind, TypeOK, OutboxRow, JobRow
  <1> QED
    BY <1>1

\* No reachable row blocks claim_next, recovery, cancellation, start, heartbeat
\* or completion by failing validation or a unique constraint.
THEOREM QueueNotPoisoned == Spec => []NoRowPoisonsTheQueue
  <1>1. IInv => NoRowPoisonsTheQueue
    <2> SUFFICES ASSUME IInv, NEW j \in JobIds, NEW t \in 0..MaxTime, NEW w \in Workers
        PROVE
        /\ jobs[j].state # "ABSENT" => ValidRow(jobs[j])
        /\ Due(j, t) =>
             LET row == ClaimedRow(jobs[j], OwnerOf[w], t) IN
             Persistable(j, row, {AttemptEvent(j, row, 1, "CLAIMED", OwnerOf[w], w)})
        /\ Expired(j, t) => Persistable(j, GaveUpRow(jobs[j], t), {Abandonment(j, w)})
        /\ jobs[j].state \in Waiting /\ t >= jobs[j].updated =>
             Persistable(j, CanceledRow(jobs[j], t), {})
        /\ LeaseHeld(j, OwnerOf[w], jobs[j].attempt, t, "CLAIMED") =>
             Persistable(j, RunningRow(jobs[j], t),
                         {AttemptEvent(j, jobs[j], 2, "RUNNING", OwnerOf[w], w)})
        /\ LeaseHeld(j, OwnerOf[w], jobs[j].attempt, t, "RUNNING") =>
             /\ ValidRow(BeatRow(jobs[j], t))
             /\ Persistable(j, SucceededRow(jobs[j], t),
                            {AttemptEvent(j, jobs[j], 3, "SUCCEEDED", OwnerOf[w], w)})
             /\ Persistable(j, GaveUpRow(jobs[j], t),
                            {AttemptEvent(j, jobs[j], 3, "FAILED", OwnerOf[w], w)})
      BY DEF NoRowPoisonsTheQueue
    <2> DEFINE r == jobs[j]
    <2>1. t \in Nat /\ r \in JobRow /\ r.updated \in Nat /\ r.version \in Nat /\ r.attempt \in Nat
      BY DEF IInv, TypeOK, JobRow
    <2>2. r.state # "ABSENT" => ValidRow(r)
      BY DEF IInv, RowsValid
    <2>3. \A a \in attempts : a.job = j => a.attempt \in Nat /\ a.attempt <= r.attempt
      BY DEF IInv, AttemptsBehind, TypeOK, AttemptRow
    <2>4. \A a \in attempts : a.job = j /\ a.attempt = r.attempt =>
             /\ r.state = "CLAIMED" => a.seq = 1
             /\ r.state = "RUNNING" => a.seq \in {1, 2}
      BY DEF IInv, AttemptsBehind
    <2>5. ASSUME Due(j, t)
          PROVE  LET row == ClaimedRow(r, OwnerOf[w], t) IN
                 Persistable(j, row, {AttemptEvent(j, row, 1, "CLAIMED", OwnerOf[w], w)})
      <3> DEFINE row == ClaimedRow(r, OwnerOf[w], t)
      <3>1. r.state \in Waiting /\ r.next <= t /\ r.attempt < MaxAttempts
        <4>1. r.state \in Waiting /\ r.next <= t /\ ValidRow(r)
          BY <2>2, <2>5 DEF Due, Waiting
        <4>2. r.state = "FAILED" => r.attempt < MaxAttempts
          BY DEF IInv, RetriesLeft
        <4>3. r.state = "PENDING" => r.attempt < MaxAttempts
          BY <4>1, JobsAssumption DEF JobsAssumption, ValidRow
        <4> QED
          BY <4>1, <4>2, <4>3 DEF Waiting
      <3>2. ValidRow(row)
        BY <2>1, <2>2, <3>1, ClaimedRowValid DEF Waiting
      <3>3. row.version = r.version + 1 /\ row.attempt = r.attempt + 1
        BY DEF ClaimedRow
      <3> HIDE DEF row
      <3>4. FreshAttempts({AttemptEvent(j, row, 1, "CLAIMED", OwnerOf[w], w)})
        BY <2>1, <2>3, <3>3 DEF FreshAttempts, AttemptEvent
      <3>5. Persistable(j, row, {AttemptEvent(j, row, 1, "CLAIMED", OwnerOf[w], w)})
        BY <3>2, <3>3, <3>4, NextEvidenceFresh DEF Persistable
      <3> QED
        BY <3>5 DEF row
    <2>6. ASSUME r.state \in Leased, r.updated <= t
          PROVE  ValidRow(GaveUpRow(r, t)) /\ FreshEvents({OutboxEvent(j, GaveUpRow(r, t))})
      <3>1. GaveUpRow(r, t).version = r.version + 1
        BY DEF GaveUpRow
      <3> QED
        BY <2>1, <2>2, <2>6, <3>1, GaveUpRowValid, NextEvidenceFresh DEF Leased
    <2>7. ASSUME Expired(j, t) PROVE Persistable(j, GaveUpRow(r, t), {Abandonment(j, w)})
      <3>1. r.state \in Leased /\ r.updated <= t
        BY <2>1, <2>7, LeasedRow DEF Expired
      <3>2. FreshAttempts({Abandonment(j, w)})
        BY <2>3, <2>4, <3>1 DEF FreshAttempts, Abandonment, AttemptEvent, Leased
      <3> QED
        BY <2>6, <3>1, <3>2 DEF Persistable
    <2>8. ASSUME r.state \in Waiting, t >= r.updated PROVE Persistable(j, CanceledRow(r, t), {})
      <3>1. CanceledRow(r, t).version = r.version + 1
        BY DEF CanceledRow
      <3>2. ValidRow(CanceledRow(r, t))
        BY <2>1, <2>2, <2>8, CanceledRowValid DEF Waiting
      <3> QED
        BY <3>1, <3>2, NextEvidenceFresh DEF Persistable, FreshAttempts
    <2>9. ASSUME LeaseHeld(j, OwnerOf[w], r.attempt, t, "CLAIMED")
          PROVE  Persistable(j, RunningRow(r, t), {AttemptEvent(j, r, 2, "RUNNING", OwnerOf[w], w)})
      <3>1. r.state = "CLAIMED" /\ r.updated <= t /\ t < r.expires
        BY <2>1, <2>9, LeasedRow DEF LeaseHeld, Leased
      <3>2. RunningRow(r, t).version = r.version + 1
        BY DEF RunningRow
      <3>3. FreshAttempts({AttemptEvent(j, r, 2, "RUNNING", OwnerOf[w], w)})
        BY <2>3, <2>4, <3>1 DEF FreshAttempts, AttemptEvent
      <3>4. ValidRow(RunningRow(r, t))
        BY <2>1, <2>2, <3>1, RunningRowValid
      <3> QED
        BY <3>2, <3>3, <3>4, NextEvidenceFresh DEF Persistable
    <2>10. ASSUME LeaseHeld(j, OwnerOf[w], r.attempt, t, "RUNNING")
           PROVE  /\ ValidRow(BeatRow(r, t))
                  /\ Persistable(j, SucceededRow(r, t), {AttemptEvent(j, r, 3, "SUCCEEDED", OwnerOf[w], w)})
                  /\ Persistable(j, GaveUpRow(r, t), {AttemptEvent(j, r, 3, "FAILED", OwnerOf[w], w)})
      <3>1. r.state = "RUNNING" /\ r.updated <= t
        BY <2>1, <2>10, LeasedRow DEF LeaseHeld, Leased
      <3>2. SucceededRow(r, t).version = r.version + 1
        BY DEF SucceededRow
      <3>3. FreshAttempts({AttemptEvent(j, r, 3, "SUCCEEDED", OwnerOf[w], w)})
            /\ FreshAttempts({AttemptEvent(j, r, 3, "FAILED", OwnerOf[w], w)})
        BY <2>3, <2>4, <3>1 DEF FreshAttempts, AttemptEvent
      <3>4. ValidRow(BeatRow(r, t)) /\ ValidRow(SucceededRow(r, t))
        BY <2>1, <2>2, <3>1, BeatRowValid
      <3> QED
        BY <2>6, <3>1, <3>2, <3>3, <3>4, NextEvidenceFresh DEF Persistable, Leased
    <2>11. QED
      BY <2>2, <2>5, <2>7, <2>8, <2>9, <2>10
  <1>2. QED
    BY <1>1, Invariance, PTL

\* updated_at never runs back and every change of a row is one version, with
\* any clock skew.
THEOREM ForwardTime == Spec => ClockNeverRunsBack
  <1>1. IInv /\ [Next]_vars => [\A j \in JobIds : jobs[j].state # "ABSENT" => RowStep(j)]_vars
    <2> SUFFICES ASSUME IInv, Next, NEW j \in JobIds, jobs[j].state # "ABSENT" PROVE RowStep(j)
      OBVIOUS
    <2>1. JobEffect(j) /\ jobs'[j] \in JobRow
      BY StepEffects DEF StepEffect
    <2> QED
      BY <2>1, RowEffect
  <1>2. QED
    BY <1>1, Invariance, PTL DEF Spec, ClockNeverRunsBack

\* The queue implements JobLifecycle.
THEOREM Refinement == Spec => ImplementsLifecycle
  <1> DEFINE st == [j \in JobIds |-> jobs[j].state]
             tr == [j \in JobIds |-> jobs[j].attempt]
  <1>1. Init => Lifecycle!LifecycleInit
    BY DEF Init, Lifecycle!LifecycleInit, AbsentRow
  <1>2. IInv /\ [Next]_vars => [Lifecycle!LifecycleNext]_<<st, tr>>
    <2>1. ASSUME UNCHANGED vars PROVE UNCHANGED <<st, tr>>
      BY <2>1 DEF vars
    <2>2. ASSUME IInv, Next, NEW j \in JobIds PROVE Lifecycle!JobStep(j)
      <3>1. JobEffect(j) /\ jobs[j] \in JobRow /\ jobs'[j] \in JobRow
        BY <2>2, StepEffects DEF StepEffect, IInv, TypeOK
      <3>2. /\ jobs[j].attempt \in 0..MaxAttempts /\ MaxAttempts \in Nat
            /\ jobs[j].state = "ABSENT" => jobs[j].attempt = 0
        BY <2>2, <3>1, JobsAssumption DEF JobsAssumption, JobRow, IInv, RowsValid, AbsentRow
      <3>3. st[j] = jobs[j].state /\ tr[j] = jobs[j].attempt
            /\ st'[j] = jobs'[j].state /\ tr'[j] = jobs'[j].attempt
        OBVIOUS
      <3>4. CASE jobs'[j] = jobs[j]
        BY <3>4 DEF Lifecycle!JobStep, Lifecycle!Stays
      <3>5. ASSUME NEW t \in Nat, jobs[j].state = "ABSENT", jobs'[j] = NewRow(t) PROVE Lifecycle!Created(j)
        BY <3>5 DEF NewRow, Lifecycle!Created, Lifecycle!Moves
      <3>6. ASSUME NEW t \in Nat, NEW w \in Workers, Due(j, t),
                   jobs'[j] = ClaimedRow(jobs[j], OwnerOf[w], t), jobs'[j].attempt <= MaxAttempts
            PROVE  Lifecycle!Claimed(j)
        BY <3>2, <3>6 DEF Due, Waiting, ClaimedRow, Lifecycle!Claimed, Lifecycle!Moves
      <3>7. ASSUME NEW t \in Nat, jobs[j].state \in Leased, jobs'[j] = GaveUpRow(jobs[j], t)
            PROVE  Lifecycle!GaveUp(j)
        BY <3>2, <3>7 DEF Leased, GaveUpRow, Spent, Lifecycle!GaveUp, Lifecycle!Moves
      <3>8. ASSUME NEW t \in Nat, jobs[j].state \in Waiting, jobs'[j] = CanceledRow(jobs[j], t)
            PROVE  Lifecycle!Canceled(j)
        BY <3>8 DEF Waiting, CanceledRow, Lifecycle!Canceled, Lifecycle!Moves
      <3>9. ASSUME NEW t \in Nat, NEW o, NEW k, LeaseHeld(j, o, k, t, "CLAIMED"),
                   jobs'[j] = RunningRow(jobs[j], t)
            PROVE  Lifecycle!Started(j)
        BY <3>9 DEF LeaseHeld, RunningRow, Lifecycle!Started, Lifecycle!Moves
      <3>10. ASSUME NEW t \in Nat, NEW o, NEW k, LeaseHeld(j, o, k, t, "RUNNING"),
                    jobs'[j] = SucceededRow(jobs[j], t)
             PROVE  Lifecycle!Completed(j)
        BY <3>10 DEF LeaseHeld, SucceededRow, Lifecycle!Completed, Lifecycle!Moves
      <3>11. ASSUME NEW t \in Nat, NEW o, NEW k, LeaseHeld(j, o, k, t, "RUNNING"),
                    jobs'[j] = BeatRow(jobs[j], t)
             PROVE  Lifecycle!Stays(j)
        BY <3>11 DEF LeaseHeld, BeatRow, Lifecycle!Stays
      <3> QED
        BY <3>1, <3>4, <3>5, <3>6, <3>7, <3>8, <3>9, <3>10, <3>11 DEF JobEffect, Lifecycle!JobStep
    <2> QED
      BY <2>1, <2>2 DEF Lifecycle!LifecycleNext
  <1>3. QED
    BY <1>1, <1>2, Invariance, PTL DEF Spec, ImplementsLifecycle, Lifecycle!LifecycleSpec,
                                       Lifecycle!lifecycleVars
-----------------------------------------------------------------------------
(***************************************************************************)
(* The attempt history.                                                    *)
(***************************************************************************)
\* What the rows h of attempt k say of a job in state st at attempt n, without
\* counting them.
Shape(h, k, n, st) ==
  LET leased == k = n /\ st \in Leased IN
  IF k > n THEN h = {}
  ELSE /\ \E a \in h : a.seq = 1
       /\ \A a \in h : a.transition = "RUNNING" => a.seq = 2
       /\ \A a, b \in h : a.transition \in Outcome => b.seq <= a.seq
       /\ \A a \in h : a.seq = 3 => \E b \in h : b.seq = 2
       /\ leased => \A a \in h : a.transition \notin Outcome
       /\ leased /\ st = "RUNNING" => \E a \in h : a.seq = 2
       /\ ~leased => \E a \in h : a.transition \in Outcome
       /\ \A a \in h : a.transition = "SUCCEEDED" => k = n /\ st = "SUCCEEDED"
       /\ k = n /\ st = "SUCCEEDED" => \E a \in h : a.transition = "SUCCEEDED"
HistoryShape(j, k) == Shape(HistoryOf(j, k), k, jobs[j].attempt, jobs[j].state)
HistoryInv == \A j \in JobIds, k \in 1..MaxAttempts : HistoryShape(j, k)

\* A step changes a job and writes the row that says so, or neither.
EvidenceEffect(j) ==
  LET r == jobs[j]  s == jobs'[j] IN
  \/ /\ \A a \in attempts' : a.job = j => a \in attempts
     /\ s.attempt = r.attempt
     /\ s.state = r.state \/ {r.state, s.state} \cap (Leased \cup {"SUCCEEDED"}) = {}
  \/ \E a \in attempts' :
       /\ a.job = j /\ a.attempt = s.attempt /\ \A b \in attempts' : b.job = j => b = a \/ b \in attempts
       /\ \/ /\ a.transition = "CLAIMED" /\ a.seq = 1
             /\ r.state \in Waiting /\ s.state = "CLAIMED" /\ s.attempt = r.attempt + 1
          \/ /\ a.transition = "RUNNING" /\ a.seq = 2
             /\ r.state = "CLAIMED" /\ s.state = "RUNNING" /\ s.attempt = r.attempt
          \/ /\ a.transition \in Outcome /\ a.seq = IF r.state = "RUNNING" THEN 3 ELSE 2
             /\ r.state \in Leased /\ s.state \notin Leased /\ s.attempt = r.attempt
             /\ a.transition = "SUCCEEDED" <=> s.state = "SUCCEEDED"

\* Persist, job by job.
LEMMA PersistRows ==
  ASSUME TypeOK, NEW js \in SUBSET JobIds, NEW row, NEW new, Persist(js, row, new)
  PROVE  /\ \A j \in js : jobs'[j] = row[j]
         /\ \A j \in JobIds \ js : jobs'[j] = jobs[j]
         /\ attempts' = attempts \cup new
  BY DEF Persist

LEMMA PersistOne ==
  ASSUME TypeOK, NEW i \in JobIds, NEW row, NEW new, Persist({i}, row, new)
  PROVE  /\ jobs'[i] = row[i] /\ \A j \in JobIds : j # i => jobs'[j] = jobs[j]
         /\ attempts' = attempts \cup new
  BY DEF Persist

\* A job that is not persisted, and that no row is about.
LEMMA NoEvidence ==
  ASSUME NEW j \in JobIds, jobs'[j] = jobs[j], NEW new, attempts' = attempts \cup new,
         \A a \in new : a.job # j
  PROVE  EvidenceEffect(j)
  BY DEF EvidenceEffect

\* A job whose attempt is abandoned with its evidence.
LEMMA AbandonEvidence ==
  ASSUME IInv, NEW j \in JobIds, NEW t \in Nat, NEW w \in Workers, Expired(j, t),
         jobs'[j] = GaveUpRow(jobs[j], t), NEW new, attempts' = attempts \cup new,
         Abandonment(j, w) \in new, \A a \in new : a.job = j => a = Abandonment(j, w)
  PROVE  EvidenceEffect(j)
  <1> DEFINE a == Abandonment(j, w)
  <1>1. /\ a.job = j /\ a.attempt = jobs[j].attempt /\ a.transition = "ABANDONED"
        /\ a.seq = IF jobs[j].state = "RUNNING" THEN 3 ELSE 2
    BY DEF Abandonment, AttemptEvent
  <1>2. jobs[j].state \in Leased /\ jobs'[j].attempt = jobs[j].attempt /\ jobs'[j].state \in {"FAILED", "DEAD"}
    BY RowFields DEF Expired
  <1>3. a \in attempts' /\ \A b \in attempts' : b.job = j => b = a \/ b \in attempts
    OBVIOUS
  <1> HIDE DEF a
  <1> QED BY <1>1, <1>2, <1>3 DEF EvidenceEffect, Leased, Outcome

LEMMA Evidence ==
  ASSUME IInv, Next, NEW j \in JobIds
  PROVE  EvidenceEffect(j)
  <1>0. TypeOK
    BY DEF IInv
  <1>1. ASSUME NEW i \in JobIds, NEW t \in Reading, Create(i, t) \/ Cancel(i, t)
        PROVE  EvidenceEffect(j)
    <2>1. PICK r : Persist({i}, r, {}) /\ \/ jobs[i].state = "ABSENT" /\ r = [x \in {i} |-> NewRow(t)]
                                          \/ jobs[i].state \in Waiting /\ r = [x \in {i} |-> CanceledRow(jobs[i], t)]
      BY <1>1 DEF Create, Cancel
    <2>2. jobs'[i] = r[i] /\ (j # i => jobs'[j] = jobs[j]) /\ attempts' = attempts
      <3>1. attempts' = attempts \cup {} /\ jobs'[i] = r[i] /\ \A x \in JobIds : x # i => jobs'[x] = jobs[x]
        BY <1>0, <2>1, PersistOne
      <3> QED BY <3>1
    <2>3. CASE j # i
      BY <2>2, <2>3 DEF EvidenceEffect
    <2>4. CASE j = i
      <3>1. jobs[i].state = "ABSENT" => jobs[i].attempt = 0
        BY DEF IInv, RowsValid, AbsentRow
      <3>2. NewRow(t).attempt = 0 /\ NewRow(t).state = "PENDING"
        BY DEF NewRow
      <3>3. jobs'[i].attempt = jobs[i].attempt /\ jobs'[i].state \in {"PENDING", "CANCELED"}
            /\ jobs[i].state \in {"ABSENT"} \cup Waiting
        BY <2>1, <2>2, <3>1, <3>2, RowFields
      <3> QED BY <2>2, <2>4, <3>3 DEF EvidenceEffect, Waiting, Leased
    <2> QED BY <2>3, <2>4
  <1>2. ASSUME NEW w \in Workers, NEW t \in Reading, NEW skipped \in Skippable, RecoverExpired(w, t, skipped)
        PROVE  EvidenceEffect(j)
    <2> DEFINE js == Candidates(w, t, skipped)
               row == [i \in js |-> GaveUpRow(jobs[i], t)]
               new == {Abandonment(i, w) : i \in js}
    <2>1. js \in SUBSET JobIds /\ \A i \in js : Expired(i, t)
      BY <1>2, JobsAssumption DEF JobsAssumption, Candidates, RecoverExpired
    <2>2. t \in Nat /\ Persist(js, row, new)
      BY <1>0, <1>2, ReadingIsNat DEF RecoverExpired
    <2>3. \A i \in js : row[i] = GaveUpRow(jobs[i], t) /\ Abandonment(i, w) \in new
      OBVIOUS
    <2>4. \A a \in new : a.job \in js /\ a = Abandonment(a.job, w)
      BY DEF Abandonment, AttemptEvent
    <2> HIDE DEF js, row, new
    <2>5. /\ j \in js => jobs'[j] = GaveUpRow(jobs[j], t)
          /\ j \notin js => jobs'[j] = jobs[j]
          /\ attempts' = attempts \cup new
      BY <1>0, <2>1, <2>2, <2>3, PersistRows
    <2>6. CASE j \in js
      BY <2>1, <2>2, <2>3, <2>4, <2>5, <2>6, AbandonEvidence
    <2>7. CASE j \notin js
      BY <2>4, <2>5, <2>7, NoEvidence
    <2> QED BY <2>6, <2>7
  <1>3. ASSUME NEW w \in Workers, NEW i \in JobIds, NEW t \in Reading, NEW skipped \in Skippable,
               ClaimJob(w, i, t, skipped)
        PROVE  EvidenceEffect(j)
    <2> DEFINE c == Candidates(w, t, skipped)
               ahead == {x \in c : Expired(x, t) /\ Before(x, i)}
               js == ahead \cup {i}
               row == [x \in js |-> IF x = i THEN ClaimedRow(jobs[i], OwnerOf[w], t)
                                             ELSE GaveUpRow(jobs[x], t)]
               claim == AttemptEvent(i, row[i], 1, "CLAIMED", OwnerOf[w], w)
               new == {Abandonment(x, w) : x \in ahead} \cup {claim}
    <2>1. Due(i, t) /\ ahead \in SUBSET JobIds /\ js \in SUBSET JobIds /\ \A x \in ahead : Expired(x, t)
      BY <1>3, JobsAssumption DEF JobsAssumption, Candidates, ClaimJob
    <2>2. i \notin ahead
      BY <2>1 DEF Due, Expired, Waiting, Leased
    <2>3. t \in Nat /\ Persist(js, row, new)
      BY <1>0, <1>3, ReadingIsNat DEF ClaimJob
    <2>4. row[i] = ClaimedRow(jobs[i], OwnerOf[w], t) /\ i \in js
      OBVIOUS
    <2>5. \A x \in ahead : x \in js /\ row[x] = GaveUpRow(jobs[x], t) /\ Abandonment(x, w) \in new
      BY <2>2
    <2>6. claim.job = i /\ claim.attempt = row[i].attempt /\ claim.seq = 1 /\ claim.transition = "CLAIMED"
      BY DEF AttemptEvent
    <2>7. claim \in new /\ \A a \in new : a = claim \/ (a.job \in ahead /\ a = Abandonment(a.job, w))
      BY DEF Abandonment, AttemptEvent
    <2>8. js = ahead \cup {i}
      OBVIOUS
    <2> HIDE DEF c, ahead, js, row, claim, new
    <2>9. /\ \A x \in js : jobs'[x] = row[x]
          /\ \A x \in JobIds \ js : jobs'[x] = jobs[x]
          /\ attempts' = attempts \cup new
      BY <1>0, <2>1, <2>3, PersistRows
    <2>10. CASE j = i
      <3>1. jobs'[j].state = "CLAIMED" /\ jobs'[j].attempt = jobs[j].attempt + 1
        BY <2>4, <2>9, <2>10 DEF ClaimedRow
      <3>2. claim.attempt = jobs'[j].attempt /\ jobs[j].state \in Waiting
        BY <2>1, <2>4, <2>6, <2>9, <2>10 DEF Due
      <3>3. claim \in attempts' /\ \A b \in attempts' : b.job = j => b = claim \/ b \in attempts
        BY <2>2, <2>7, <2>9, <2>10
      <3> QED BY <2>6, <2>10, <3>1, <3>2, <3>3 DEF EvidenceEffect
    <2>11. CASE j \in ahead
      <3>1. jobs'[j] = GaveUpRow(jobs[j], t) /\ Expired(j, t) /\ Abandonment(j, w) \in new
        BY <2>1, <2>5, <2>9, <2>11
      <3>2. \A a \in new : a.job = j => a = Abandonment(j, w)
        BY <2>2, <2>6, <2>7, <2>11
      <3> QED BY <2>3, <2>9, <3>1, <3>2, AbandonEvidence
    <2>12. CASE j \notin js
      BY <2>6, <2>7, <2>8, <2>9, <2>12, NoEvidence
    <2> QED BY <2>8, <2>10, <2>11, <2>12
  <1>4. ASSUME NEW w \in Workers, NEW t \in Reading, MarkRunning(w, t)
        PROVE  EvidenceEffect(j)
    <2> DEFINE i == proc[w].job
               r == RunningRow(jobs[i], t)
               row == [x \in {i} |-> r]
               a == AttemptEvent(i, r, 2, "RUNNING", OwnerOf[w], w)
    <2>1. i \in JobIds /\ Persist({i}, row, {a}) /\ jobs[i].state = "CLAIMED"
      BY <1>0, <1>4 DEF MarkRunning, LeaseHeld, TypeOK, Proc
    <2>2. r.state = "RUNNING" /\ r.attempt = jobs[i].attempt /\ row[i] = r
      BY RowFields
    <2>3. a.job = i /\ a.attempt = r.attempt /\ a.seq = 2 /\ a.transition = "RUNNING"
      BY DEF AttemptEvent
    <2> HIDE DEF i, r, row, a
    <2>4. jobs'[i] = r /\ (j # i => jobs'[j] = jobs[j]) /\ attempts' = attempts \cup {a}
      BY <1>0, <2>1, <2>2, PersistOne
    <2>5. CASE j = i
      BY <2>1, <2>2, <2>3, <2>4, <2>5 DEF EvidenceEffect
    <2>6. CASE j # i
      BY <2>3, <2>4, <2>6 DEF EvidenceEffect
    <2> QED BY <2>5, <2>6
  <1>5. ASSUME NEW w \in Workers, NEW t \in Reading, Checkpoint(w, t) \/ FinalCheckpoint(w, t)
        PROVE  EvidenceEffect(j)
    <2> DEFINE i == proc[w].job
    <2>1. jobs' = [jobs EXCEPT ![i] = BeatRow(jobs[i], t)] /\ jobs[i].state = "RUNNING" /\ attempts' = attempts
      BY <1>5 DEF Checkpoint, FinalCheckpoint, Heartbeat, LeaseHeld
    <2>2. CASE j = i
      <3>1. jobs'[j].state = jobs[j].state /\ jobs'[j].attempt = jobs[j].attempt
        BY <1>0, <2>1, <2>2, RowFields DEF TypeOK
      <3> QED BY <2>1, <3>1 DEF EvidenceEffect
    <2>3. CASE j # i
      BY <1>0, <2>1, <2>3 DEF EvidenceEffect, TypeOK
    <2> QED BY <2>2, <2>3
  <1>6. ASSUME NEW w \in Workers, Complete(w)
        PROVE  EvidenceEffect(j)
    <2> DEFINE i == proc[w].job
               t == proc[w].completion
               r == IF proc[w].ok THEN SucceededRow(jobs[i], t) ELSE GaveUpRow(jobs[i], t)
               row == [x \in {i} |-> r]
               tr == IF proc[w].ok THEN "SUCCEEDED" ELSE "FAILED"
               a == AttemptEvent(i, r, 3, tr, OwnerOf[w], w)
    <2>1. i \in JobIds /\ Persist({i}, row, {a}) /\ jobs[i].state = "RUNNING"
      BY <1>0, <1>6 DEF Complete, LeaseHeld, TypeOK, Proc
    <2>2. /\ r.attempt = jobs[i].attempt /\ row[i] = r /\ r.state \in {"SUCCEEDED", "FAILED", "DEAD"}
          /\ (tr = "SUCCEEDED" <=> r.state = "SUCCEEDED") /\ tr \in {"SUCCEEDED", "FAILED"}
      BY RowFields
    <2>3. a.job = i /\ a.attempt = r.attempt /\ a.seq = 3 /\ a.transition = tr
      BY DEF AttemptEvent
    <2> HIDE DEF i, r, row, a, tr
    <2>4. jobs'[i] = r /\ (j # i => jobs'[j] = jobs[j]) /\ attempts' = attempts \cup {a}
      BY <1>0, <2>1, <2>2, PersistOne
    <2>5. CASE j = i
      BY <2>1, <2>2, <2>3, <2>4, <2>5 DEF EvidenceEffect, Leased, Outcome
    <2>6. CASE j # i
      BY <2>3, <2>4, <2>6 DEF EvidenceEffect
    <2> QED BY <2>5, <2>6
  <1>7. CASE \/ Tick
             \/ \E w \in Workers : \/ LoseLease(w) \/ Join(w) \/ Abort(w)
                                  \/ \E ok \in BOOLEAN : Return(w, ok)
    BY <1>7 DEF Tick, LoseLease, Join, Abort, Return, EvidenceEffect
  <1> QED BY <1>1, <1>2, <1>3, <1>4, <1>5, <1>6, <1>7 DEF Next, WorkerStep

\* A new attempt begins with its claim; the ones before it keep their history.
LEMMA ShapeClaimed ==
  ASSUME NEW h, NEW k \in Nat, NEW n \in Nat, NEW st \in Waiting, Shape(h, k, n, st), NEW a,
         a.transition = "CLAIMED", a.seq = 1
  PROVE  /\ k # n + 1 => Shape(h, k, n + 1, "CLAIMED")
         /\ k = n + 1 => Shape(h \cup {a}, k, n + 1, "CLAIMED")
  <1>1. CASE k > n + 1
    BY <1>1 DEF Shape
  <1>2. CASE k <= n
    <2>1. ~(k > n) /\ ~(k > n + 1) /\ k # n + 1 /\ st \notin Leased /\ st # "SUCCEEDED"
      BY <1>2 DEF Waiting, Leased
    <2> QED BY <2>1 DEF Shape
  <1>3. CASE k = n + 1
    <2>1. h = {} /\ ~(k > n + 1)
      BY <1>3 DEF Shape
    <2> QED BY <1>3, <2>1 DEF Shape, Leased, Outcome
  <1> QED BY <1>1, <1>2, <1>3

LEMMA ShapeRunning ==
  ASSUME NEW h, NEW k \in Nat, Shape(h, k, k, "CLAIMED"), \A b \in h : b.seq = 1, NEW a,
         a.transition = "RUNNING", a.seq = 2
  PROVE  Shape(h \cup {a}, k, k, "RUNNING")
  <1>1. \A b \in h : b.transition \notin Outcome
    BY DEF Shape, Leased
  <1> QED BY <1>1 DEF Shape, Leased, Outcome

LEMMA ShapeEnded ==
  ASSUME NEW h, NEW k \in Nat, NEW st \in Leased, NEW fin, fin \notin Leased, Shape(h, k, k, st),
         st = "CLAIMED" => \A b \in h : b.seq = 1,
         st = "RUNNING" => \A b \in h : b.seq \in {1, 2}, NEW a,
         a.transition \in Outcome, a.seq = IF st = "RUNNING" THEN 3 ELSE 2,
         a.transition = "SUCCEEDED" <=> fin = "SUCCEEDED"
  PROVE  Shape(h \cup {a}, k, k, fin)
  <1>1. \A b \in h : b.transition \notin Outcome
    BY DEF Shape
  <1>2. (\E b \in h : b.seq = 1) /\ \A b \in h : b.transition = "RUNNING" => b.seq = 2
    BY DEF Shape
  <1>3. CASE st = "CLAIMED"
    BY <1>1, <1>2, <1>3 DEF Shape, Leased, Outcome
  <1>4. CASE st = "RUNNING"
    <2>1. \E b \in h : b.seq = 2
      BY <1>4 DEF Shape, Leased
    <2> QED BY <1>1, <1>2, <1>4, <2>1 DEF Shape, Leased, Outcome
  <1> QED BY <1>3, <1>4 DEF Leased

\* Without evidence a job does not enter or leave a lease, or succeed.
LEMMA ShapeQuiet ==
  ASSUME NEW h, NEW k, NEW n, NEW st, NEW fin, Shape(h, k, n, st),
         k # n \/ st = fin \/ {st, fin} \cap (Leased \cup {"SUCCEEDED"}) = {}
  PROVE  Shape(h, k, n, fin)
  BY DEF Shape

LEMMA NextHistory == IInv /\ HistoryInv /\ [Next]_vars => HistoryInv'
  <1> SUFFICES ASSUME IInv, HistoryInv, Next, NEW j \in JobIds, NEW k \in 1..MaxAttempts
               PROVE  HistoryShape(j, k)'
    <2>1. CASE UNCHANGED vars
      BY <2>1 DEF vars, HistoryInv, HistoryShape, HistoryOf
    <2> QED BY <2>1 DEF HistoryInv
  <1> DEFINE r == jobs[j]
             s == jobs'[j]
             h == HistoryOf(j, k)
             g == {a \in attempts' : a.job = j /\ a.attempt = k}
  <1>1. Shape(h, k, r.attempt, r.state) /\ EvidenceEffect(j) /\ attempts \subseteq attempts'
    BY Evidence, StepEffects DEF HistoryInv, HistoryShape, StepEffect
  <1>2. r.attempt \in Nat /\ k \in Nat
    BY JobsAssumption DEF JobsAssumption, IInv, TypeOK, JobRow
  <1>3. h = {a \in attempts : a.job = j /\ a.attempt = k}
    BY DEF HistoryOf
  <1>4. /\ k = r.attempt /\ r.state = "CLAIMED" => \A b \in h : b.seq = 1
        /\ k = r.attempt /\ r.state = "RUNNING" => \A b \in h : b.seq \in {1, 2}
    BY <1>3 DEF IInv, AttemptsBehind
  <1> SUFFICES Shape(g, k, s.attempt, s.state)
    BY DEF HistoryShape, HistoryOf
  <1>5. CASE /\ \A a \in attempts' : a.job = j => a \in attempts
             /\ s.attempt = r.attempt
             /\ s.state = r.state \/ {r.state, s.state} \cap (Leased \cup {"SUCCEEDED"}) = {}
    <2>1. g = h
      BY <1>1, <1>3, <1>5
    <2> HIDE DEF g, h, r, s
    <2> QED BY <1>1, <1>5, <2>1, ShapeQuiet
  <1>6. ASSUME NEW a \in attempts', a.job = j, a.attempt = s.attempt,
               \A b \in attempts' : b.job = j => b = a \/ b \in attempts
        PROVE  (k # s.attempt => g = h) /\ (k = s.attempt => g = h \cup {a})
    BY <1>1, <1>3, <1>6
  <1> HIDE DEF g, h
  <1>7. ASSUME NEW a \in attempts', a.job = j, a.attempt = s.attempt,
               \A b \in attempts' : b.job = j => b = a \/ b \in attempts,
               a.transition = "CLAIMED", a.seq = 1,
               r.state \in Waiting, s.state = "CLAIMED", s.attempt = r.attempt + 1
        PROVE  Shape(g, k, s.attempt, s.state)
    <2>1. (k # s.attempt => g = h) /\ (k = s.attempt => g = h \cup {a})
      BY <1>6, <1>7
    <2>2. /\ k # r.attempt + 1 => Shape(h, k, r.attempt + 1, "CLAIMED")
          /\ k = r.attempt + 1 => Shape(h \cup {a}, k, r.attempt + 1, "CLAIMED")
      <3> HIDE DEF r, s
      <3> QED BY <1>1, <1>2, <1>7, ShapeClaimed
    <2> QED BY <1>7, <2>1, <2>2
  <1>8. ASSUME NEW a \in attempts', a.job = j, a.attempt = s.attempt,
               \A b \in attempts' : b.job = j => b = a \/ b \in attempts,
               a.transition = "RUNNING", a.seq = 2,
               r.state = "CLAIMED", s.state = "RUNNING", s.attempt = r.attempt
        PROVE  Shape(g, k, s.attempt, s.state)
    <2>1. (k # s.attempt => g = h) /\ (k = s.attempt => g = h \cup {a})
      BY <1>6, <1>8
    <2> HIDE DEF r, s
    <2>2. CASE k # s.attempt
      BY <1>1, <1>8, <2>1, <2>2, ShapeQuiet
    <2>3. CASE k = s.attempt
      <3>1. Shape(h, k, k, "CLAIMED") /\ \A b \in h : b.seq = 1
        BY <1>1, <1>4, <1>8, <2>3
      <3> QED BY <1>2, <1>8, <2>1, <2>3, <3>1, ShapeRunning
    <2> QED BY <2>2, <2>3
  <1>9. ASSUME NEW a \in attempts', a.job = j, a.attempt = s.attempt,
               \A b \in attempts' : b.job = j => b = a \/ b \in attempts,
               a.transition \in Outcome, a.seq = IF r.state = "RUNNING" THEN 3 ELSE 2,
               r.state \in Leased, s.state \notin Leased, s.attempt = r.attempt,
               a.transition = "SUCCEEDED" <=> s.state = "SUCCEEDED"
        PROVE  Shape(g, k, s.attempt, s.state)
    <2>1. (k # s.attempt => g = h) /\ (k = s.attempt => g = h \cup {a})
      BY <1>6, <1>9
    <2> HIDE DEF r, s
    <2>2. CASE k # s.attempt
      BY <1>1, <1>9, <2>1, <2>2, ShapeQuiet
    <2>3. CASE k = s.attempt
      <3>1. Shape(h, k, k, r.state)
        BY <1>1, <1>9, <2>3
      <3>2. Shape(h \cup {a}, k, k, s.state)
        BY <1>2, <1>4, <1>9, <2>3, <3>1, ShapeEnded
      <3> QED BY <2>1, <2>3, <3>2
    <2> QED BY <2>2, <2>3
  <1> QED BY <1>1, <1>5, <1>7, <1>8, <1>9 DEF EvidenceEffect

\* No attempt has rows before the first claim.
LEMMA InitHistory == Init => HistoryInv
  <1> SUFFICES ASSUME Init, NEW j \in JobIds, NEW k \in 1..MaxAttempts PROVE HistoryShape(j, k)
    BY DEF HistoryInv
  <1>1. jobs[j].attempt = 0 /\ HistoryOf(j, k) = {} /\ k > 0
    BY JobsAssumption DEF JobsAssumption, Init, AbsentRow, HistoryOf
  <1> QED BY <1>1 DEF HistoryShape, Shape

\* Rows numbered from 1 without a gap, no two with the same number, are as many as
\* the last number says.
LEMMA CountRows ==
  ASSUME NEW h, \A a \in h : a.seq \in 1..3, \A a, b \in h : a.seq = b.seq => a = b,
         \E a \in h : a.seq = 1, (\E a \in h : a.seq = 3) => \E a \in h : a.seq = 2
  PROVE  \E n \in 1..3 : /\ Cardinality(h) = n /\ {a.seq : a \in h} = 1..n
                         /\ \E a \in h : a.seq = n
  <1>1. PICK x \in h : x.seq = 1
    OBVIOUS
  <1>2. IsFiniteSet({x}) /\ Cardinality({x}) = 1
    BY FS_Singleton
  <1>3. CASE ~\E a \in h : a.seq = 2
    <2>1. h = {x}
      BY <1>1, <1>3
    <2>2. {a.seq : a \in h} = 1..1
      BY <1>1, <2>1
    <2> QED BY <1>1, <1>2, <2>1, <2>2
  <1>4. CASE \E a \in h : a.seq = 2
    <2>1. PICK y \in h : y.seq = 2
      BY <1>4
    <2>2. y \notin {x}
      BY <1>1, <2>1
    <2>3. IsFiniteSet({x} \cup {y}) /\ Cardinality({x} \cup {y}) = 2
      <3>1. Cardinality({x} \cup {y}) = 1 + 1 /\ IsFiniteSet({x} \cup {y})
        BY <1>2, <2>2, FS_AddElement
      <3> QED BY <3>1
    <2>4. CASE ~\E a \in h : a.seq = 3
      <3>1. h = {x} \cup {y}
        BY <1>1, <2>1, <2>4
      <3>2. {a.seq : a \in h} = 1..2
        BY <1>1, <2>1, <3>1
      <3> QED BY <2>1, <2>3, <3>1, <3>2
    <2>5. CASE \E a \in h : a.seq = 3
      <3>1. PICK z \in h : z.seq = 3
        BY <2>5
      <3>2. z \notin {x} \cup {y}
        BY <1>1, <2>1, <3>1
      <3>3. Cardinality(({x} \cup {y}) \cup {z}) = 3
        <4>1. Cardinality(({x} \cup {y}) \cup {z}) = 2 + 1
          BY <2>3, <3>2, FS_AddElement
        <4> QED BY <4>1
      <3>4. h = ({x} \cup {y}) \cup {z}
        BY <1>1, <2>1, <3>1
      <3>5. {a.seq : a \in h} = 1..3
        BY <1>1, <2>1, <3>1, <3>4
      <3> QED BY <3>1, <3>3, <3>4, <3>5
    <2> QED BY <2>4, <2>5
  <1> QED BY <1>3, <1>4

\* The history counts as HistoryMatchesRow says.
LEMMA ShapeMatches == IInv /\ HistoryInv => HistoryMatchesRow
  <1> SUFFICES ASSUME IInv, HistoryInv PROVE HistoryMatchesRow
    OBVIOUS
  <1> SUFFICES ASSUME NEW j \in JobIds, NEW k \in 1..MaxAttempts, ~(k > jobs[j].attempt)
      PROVE
        LET h == HistoryOf(j, k)
            outcomes == {a \in h : a.transition \in Outcome}
            leasedNow == k = jobs[j].attempt /\ jobs[j].state \in Leased
        IN  /\ {a.seq : a \in h} = 1..Cardinality(h)
            /\ \A a \in h : (a.seq = 1) <=> (a.transition = "CLAIMED")
            /\ \A a \in h : a.transition = "RUNNING" => a.seq = 2
            /\ \A a \in outcomes : a.seq = Cardinality(h)
            /\ Cardinality(outcomes) = IF leasedNow THEN 0 ELSE 1
            /\ leasedNow => Cardinality(h) = IF jobs[j].state = "CLAIMED" THEN 1 ELSE 2
            /\ (k = jobs[j].attempt /\ jobs[j].state = "SUCCEEDED") <=>
                 (\E a \in outcomes : a.transition = "SUCCEEDED")
    <2>1. \A i \in JobIds, c \in 1..MaxAttempts : c > jobs[i].attempt => HistoryOf(i, c) = {}
      BY DEF HistoryInv, HistoryShape, Shape
    <2> QED BY <2>1 DEF HistoryMatchesRow
  <1> DEFINE h == HistoryOf(j, k)
             r == jobs[j]
             outcomes == {a \in h : a.transition \in Outcome}
             leased == k = r.attempt /\ r.state \in Leased
  <1>1. Shape(h, k, r.attempt, r.state) /\ ~(k > r.attempt)
    BY DEF HistoryInv, HistoryShape
  <1>2. /\ \A a \in h : a.seq \in 1..3 /\ (a.seq = 1 <=> a.transition = "CLAIMED")
        /\ \A a, b \in h : a.seq = b.seq => a = b
    BY DEF HistoryOf, IInv, TypeOK, AttemptRow, AttemptKeys
  <1>3. /\ leased /\ r.state = "CLAIMED" => \A a \in h : a.seq = 1
        /\ leased /\ r.state = "RUNNING" => \A a \in h : a.seq \in {1, 2}
    BY DEF HistoryOf, IInv, AttemptsBehind
  <1> HIDE DEF h, r
  <1>4. /\ \E a \in h : a.seq = 1
        /\ \A a \in h : a.transition = "RUNNING" => a.seq = 2
        /\ \A a, b \in h : a.transition \in Outcome => b.seq <= a.seq
        /\ (\E a \in h : a.seq = 3) => \E b \in h : b.seq = 2
        /\ leased => \A a \in h : a.transition \notin Outcome
        /\ leased /\ r.state = "RUNNING" => \E a \in h : a.seq = 2
        /\ ~leased => \E a \in h : a.transition \in Outcome
        /\ \A a \in h : a.transition = "SUCCEEDED" => k = r.attempt /\ r.state = "SUCCEEDED"
        /\ k = r.attempt /\ r.state = "SUCCEEDED" => \E a \in h : a.transition = "SUCCEEDED"
    BY <1>1 DEF Shape
  <1>5. PICK n \in 1..3 : Cardinality(h) = n /\ {a.seq : a \in h} = 1..n /\ \E a \in h : a.seq = n
    BY <1>2, <1>4, CountRows
  <1>6. \A a \in h : a.seq <= n
    BY <1>5
  <1>7. \A a \in outcomes : a.seq = n
    BY <1>2, <1>4, <1>5, <1>6
  <1>8. Cardinality(outcomes) = IF leased THEN 0 ELSE 1
    <2>1. CASE leased
      <3>1. outcomes = {}
        BY <1>4, <2>1
      <3> QED BY <2>1, <3>1, FS_EmptySet
    <2>2. CASE ~leased
      <3>1. PICK a \in h : a.transition \in Outcome
        BY <1>4, <2>2
      <3>2. outcomes = {a}
        BY <1>2, <1>7, <3>1
      <3> QED BY <2>2, <3>2, FS_Singleton
    <2> QED BY <2>1, <2>2
  <1>9. leased => n = IF r.state = "CLAIMED" THEN 1 ELSE 2
    <2>1. CASE leased /\ r.state = "CLAIMED"
      BY <1>3, <1>5, <2>1
    <2>2. CASE leased /\ r.state = "RUNNING"
      <3>1. PICK a \in h : a.seq = 2
        BY <1>4, <2>2
      <3>2. 2 <= n /\ n \in {1, 2}
        BY <1>3, <1>5, <1>6, <2>2, <3>1
      <3> QED BY <2>2, <3>2
    <2> QED BY <2>1, <2>2 DEF Leased
  <1>10. (k = r.attempt /\ r.state = "SUCCEEDED") <=> (\E a \in outcomes : a.transition = "SUCCEEDED")
    BY <1>4 DEF Outcome
  <1> QED BY <1>2, <1>4, <1>5, <1>7, <1>8, <1>9, <1>10 DEF h, r

\* The attempt history accounts for the row at every moment, for any number of
\* workers, attempts and lost leases: no attempt without its claim, no gap in its
\* numbers, one outcome for each that is over.
THEOREM HistoryComplete == Spec => []HistoryMatchesRow
  BY InitHistory, NextHistory, ShapeMatches, Invariance, PTL DEF Spec
=============================================================================
