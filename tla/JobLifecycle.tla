---------------------------- MODULE JobLifecycle ----------------------------
(***************************************************************************)
(* What the durable job queue promises about one job, whatever the number  *)
(* of workers, crashes and clock errors: a job moves along the edges       *)
(* below, spends at most MaxAttempts attempts, and never leaves SUCCEEDED, *)
(* DEAD or CANCELED.  One database transaction may move several jobs       *)
(* (claim_next abandons expired attempts before it claims), so a step      *)
(* moves any number of jobs, each along one edge.                          *)
(***************************************************************************)
EXTENDS Integers

CONSTANTS JobIds, MaxAttempts

VARIABLES state,    \* state[j]: the lifecycle state of job j
          tries     \* tries[j]: attempts claimed so far

lifecycleVars == <<state, tries>>

Terminal == {"SUCCEEDED", "DEAD", "CANCELED"}

Moves(j, from, to) == state[j] \in from /\ state'[j] = to

Created(j)  == Moves(j, {"ABSENT"}, "PENDING") /\ tries'[j] = 0
Claimed(j)  == /\ Moves(j, {"PENDING", "FAILED"}, "CLAIMED")
               /\ tries[j] < MaxAttempts
               /\ tries'[j] = tries[j] + 1
Started(j)  == Moves(j, {"CLAIMED"}, "RUNNING") /\ tries'[j] = tries[j]
Completed(j) == Moves(j, {"RUNNING"}, "SUCCEEDED") /\ tries'[j] = tries[j]

\* A lost or failed attempt: retried until the attempts are spent, then dead.
GaveUp(j) == /\ Moves(j, {"CLAIMED", "RUNNING"},
                      IF tries[j] = MaxAttempts THEN "DEAD" ELSE "FAILED")
             /\ tries'[j] = tries[j]
Canceled(j) == Moves(j, {"PENDING", "FAILED"}, "CANCELED") /\ tries'[j] = tries[j]
Stays(j)    == state'[j] = state[j] /\ tries'[j] = tries[j]

JobStep(j) == \/ Created(j) \/ Claimed(j) \/ Started(j) \/ Completed(j)
              \/ GaveUp(j)  \/ Canceled(j) \/ Stays(j)

LifecycleInit == /\ state = [j \in JobIds |-> "ABSENT"]
                 /\ tries = [j \in JobIds |-> 0]

LifecycleNext == \A j \in JobIds : JobStep(j)

LifecycleSpec == LifecycleInit /\ [][LifecycleNext]_lifecycleVars
=============================================================================
