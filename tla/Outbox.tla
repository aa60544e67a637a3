------------------------------- MODULE Outbox -------------------------------
(***************************************************************************)
(* Delivery of the outbox events that job transitions insert: the outbox   *)
(* methods of JobRepository (platform/jobs/repository.py) called by the    *)
(* DurableOutboxWorker (platform/jobs/worker.py) of every worker process.  *)
(*                                                                         *)
(* Time is relative, so that the state space is finite without a last      *)
(* tick: left[e] counts down to next_attempt_at while the event waits and  *)
(* to lease_expires_at while it is claimed.  Workers share one clock and   *)
(* one lease_owner string; DurableJobs treats skew and the other columns.  *)
(***************************************************************************)
EXTENDS Integers

CONSTANTS
  Events,       \* outbox events; numbers in (created_at, outbox_event_id) order
  Workers,      \* worker processes
  MaxAttempts,  \* JOB_MAX_ATTEMPTS
  Lease,        \* JOB_LEASE_DURATION
  RetryDelay    \* JOB_RETRY_DELAYS

ASSUME OutboxAssumption ==
  /\ Events \subseteq Nat /\ Events # {}
  /\ MaxAttempts \in Nat \ {0} /\ Lease \in Nat \ {0}
  /\ RetryDelay \in [1..MaxAttempts -> Nat \ {0}]

VARIABLES
  state,      \* state[e], with ABSENT before the job transition that inserts e
  attempt,    \* attempt[e]: attempt_count
  left,       \* left[e]: time until the event is due, or until its lease ends
  proc,       \* the worker processes' memory
  deliveries  \* history: publisher calls that delivered
outboxVars == <<state, attempt, left, proc, deliveries>>

Waiting == {"PENDING", "FAILED"}
Settled == {"PUBLISHED", "DEAD"}

Idle == [pc |-> "idle", event |-> CHOOSE e \in Events : TRUE, attempt |-> 0, ok |-> FALSE]

Init ==
  /\ state = [e \in Events |-> "ABSENT"]
  /\ attempt = [e \in Events |-> 0]
  /\ left = [e \in Events |-> 0]
  /\ proc = [w \in Workers |-> Idle]
  /\ deliveries = {}

\* _append_transition_evidence inserts the event, due at once.
Enqueue(e) ==
  /\ state[e] = "ABSENT"
  /\ state' = [state EXCEPT ![e] = "PENDING"]
  /\ UNCHANGED <<attempt, left, proc, deliveries>>

Tick ==
  /\ \E e \in Events : left[e] > 0
  /\ left' = [e \in Events |-> IF left[e] > 0 THEN left[e] - 1 ELSE 0]
  /\ UNCHANGED <<state, attempt, proc, deliveries>>

\* Mutant of Claimable: an expired claim is nobody's.
ClaimableWaiting(e) == state[e] \in Waiting /\ left[e] = 0

\* The WHERE clause of the claim query.
Claimable(e) == state[e] \in Waiting \cup {"CLAIMED"} /\ left[e] = 0

\* The row the claim query returns: the oldest that no other transaction locks.
Head(e, skipped) ==
  /\ Claimable(e) /\ e \notin skipped
  /\ \A f \in Events \ skipped : Claimable(f) => e <= f

\* claim_outbox(): one more attempt, or the end of an event whose last attempt
\* expired.
Claim(w, e, skipped) ==
  /\ proc[w].pc = "idle" /\ Head(e, skipped) /\ attempt[e] < MaxAttempts
  /\ state' = [state EXCEPT ![e] = "CLAIMED"]
  /\ attempt' = [attempt EXCEPT ![e] = @ + 1]
  /\ left' = [left EXCEPT ![e] = Lease]
  /\ proc' = [proc EXCEPT ![w] = [pc |-> "publishing", event |-> e,
                                  attempt |-> attempt[e] + 1, ok |-> FALSE]]
  /\ UNCHANGED deliveries

Exhaust(w, e, skipped) ==
  /\ proc[w].pc = "idle" /\ Head(e, skipped) /\ attempt[e] >= MaxAttempts
  /\ state' = [state EXCEPT ![e] = "DEAD"]
  /\ UNCHANGED <<attempt, left, proc, deliveries>>

\* Mutant of LeaseHeld: any claim will do.
LeaseHeldByAnyone(e, k) == state[e] = "CLAIMED"

\* _require_outbox_lease, but for the expiry: the owner string is common.
LeaseHeld(e, k) == state[e] = "CLAIMED" /\ attempt[e] = k

\* publisher.publish(): it may deliver and still raise.
Publish(w, ok, delivered) ==
  /\ proc[w].pc = "publishing" /\ (ok => delivered)
  /\ proc' = [proc EXCEPT ![w].pc = "returned", ![w].ok = ok]
  /\ deliveries' = IF delivered
                   THEN deliveries \cup {[event |-> proc[w].event,
                                          attempt |-> proc[w].attempt]}
                   ELSE deliveries
  /\ UNCHANGED <<state, attempt, left>>

\* heartbeat_outbox() by the thread that keep_alive runs until it is joined.
Heartbeat(w) ==
  /\ proc[w].pc \in {"publishing", "returned"}
  /\ LeaseHeld(proc[w].event, proc[w].attempt) /\ left[proc[w].event] > 0
  /\ left' = [left EXCEPT ![proc[w].event] = Lease]
  /\ UNCHANGED <<state, attempt, proc, deliveries>>

\* The thread is joined; the final checkpoint fixes the completion timestamp.
FinalCheckpoint(w) ==
  /\ proc[w].pc = "returned"
  /\ LeaseHeld(proc[w].event, proc[w].attempt) /\ left[proc[w].event] > 0
  /\ left' = [left EXCEPT ![proc[w].event] = Lease]
  /\ proc' = [proc EXCEPT ![w].pc = "finishing"]
  /\ UNCHANGED <<state, attempt, deliveries>>

\* publish_outbox() or fail_outbox() at the completion timestamp, which lies
\* before the expiry that the checkpoint wrote however late the call is; the
\* retry delay runs from that timestamp too.
Complete(w) ==
  LET e == proc[w].event
      delay == RetryDelay[attempt[e]]
      final == proc[w].ok \/ attempt[e] >= MaxAttempts
  IN
  /\ proc[w].pc = "finishing" /\ LeaseHeld(e, proc[w].attempt)
  /\ state' = [state EXCEPT ![e] = IF proc[w].ok THEN "PUBLISHED"
                                   ELSE IF final THEN "DEAD" ELSE "FAILED"]
  /\ \E late \in 0..delay : left' = [left EXCEPT ![e] = IF final THEN 0 ELSE delay - late]
  /\ proc' = [proc EXCEPT ![w] = Idle]
  /\ UNCHANGED <<attempt, deliveries>>

\* run_one() raises or the process dies.
Abort(w) ==
  /\ proc[w].pc # "idle"
  /\ proc' = [proc EXCEPT ![w] = Idle]
  /\ UNCHANGED <<state, attempt, left, deliveries>>

Poll(w) == \E e \in Events, skipped \in SUBSET Events :
             Claim(w, e, skipped) \/ Exhaust(w, e, skipped)
Deliver(w) == \E ok \in BOOLEAN, delivered \in BOOLEAN : Publish(w, ok, delivered)

Next ==
  \/ Tick
  \/ \E e \in Events : Enqueue(e)
  \/ \E w \in Workers : Poll(w) \/ Deliver(w) \/ Heartbeat(w) \/ FinalCheckpoint(w)
                          \/ Complete(w) \/ Abort(w)

\* Time passes, and every process keeps calling run_one (the service loop has
\* no way out but shutdown), which ends because the publisher returns.
Fairness ==
  /\ WF_outboxVars(Tick)
  /\ \A w \in Workers :
       /\ WF_outboxVars(Poll(w))
       /\ WF_outboxVars(Deliver(w))
       /\ WF_outboxVars(FinalCheckpoint(w) \/ Complete(w) \/ Abort(w))

Spec == Init /\ [][Next]_outboxVars
FairSpec == Spec /\ Fairness
-----------------------------------------------------------------------------
(***************************************************************************)
(* Properties.                                                             *)
(***************************************************************************)

\* PUBLISHED is never claimed of an attempt that did not deliver, even when a
\* process that lost its lease finishes late under the same owner string.
PublishedWasDelivered ==
  \A e \in Events : state[e] = "PUBLISHED" =>
    \E d \in deliveries : d.event = e /\ d.attempt = attempt[e]

\* Every inserted event is delivered or declared dead, whatever other events,
\* crashes and failed publications do.
EventuallySettled == \A e \in Events : state[e] # "ABSENT" ~> state[e] \in Settled

=============================================================================
