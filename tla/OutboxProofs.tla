---------------------------- MODULE OutboxProofs ----------------------------
(***************************************************************************)
(* Proofs about Outbox, for any events, workers, leases and retry delays.  *)
(***************************************************************************)
EXTENDS Outbox, TLAPS

PC == {"idle", "publishing", "returned", "finishing"}
Memory == [pc : PC, event : Events, attempt : Nat, ok : BOOLEAN]
Delivery(e, k) == [event |-> e, attempt |-> k]

(***************************************************************************)
(* The inductive invariant.                                                *)
(***************************************************************************)
\* The columns that the argument reads, and the memory of the processes.
OutboxTypes ==
  /\ DOMAIN state = Events
  /\ attempt \in [Events -> Nat]
  /\ proc \in [Workers -> Memory]

\* A success in a process' memory is the delivery of the attempt that it holds.
SuccessIsDelivery ==
  \A w \in Workers : proc[w].ok => Delivery(proc[w].event, proc[w].attempt) \in deliveries

\* A PUBLISHED event was delivered by the attempt that its row counts last.
PublishedDelivery ==
  \A e \in Events : state[e] = "PUBLISHED" => Delivery(e, attempt[e]) \in deliveries

OutboxInv == OutboxTypes /\ SuccessIsDelivery /\ PublishedDelivery
-----------------------------------------------------------------------------
\* The memory of a process between two calls of run_one.
LEMMA IdleType == Idle \in Memory /\ ~Idle.ok
  <1>1. (CHOOSE e \in Events : TRUE) \in Events
    BY OutboxAssumption DEF OutboxAssumption
  <1> QED BY <1>1 DEF Idle, Memory, PC

\* The schema starts without a PUBLISHED event.
LEMMA OutboxInitially == Init => OutboxInv
  BY IdleType DEF Init, OutboxInv, OutboxTypes, SuccessIsDelivery, PublishedDelivery

\* Every call of the repository and every call of the publisher keep the
\* invariant.
LEMMA OutboxStep == OutboxInv /\ [Next]_outboxVars => OutboxInv'
  <1> SUFFICES ASSUME OutboxInv, [Next]_outboxVars PROVE OutboxInv'
    OBVIOUS
  <1> USE DEF OutboxInv
  <1> USE IdleType
  <1>1. CASE Tick
    BY <1>1 DEF Tick, OutboxTypes, SuccessIsDelivery, PublishedDelivery
  <1>2. ASSUME NEW e \in Events, Enqueue(e) PROVE OutboxInv'
    BY <1>2 DEF Enqueue, OutboxTypes, SuccessIsDelivery, PublishedDelivery
  <1>3. ASSUME NEW w \in Workers, NEW e \in Events, NEW skipped \in SUBSET Events,
               Claim(w, e, skipped)
        PROVE  OutboxInv'
    <2>1. OutboxTypes'
      BY <1>3 DEF Claim, OutboxTypes, Memory, PC
    <2>2. SuccessIsDelivery'
      BY <1>3 DEF Claim, OutboxTypes, SuccessIsDelivery, Memory
    <2>3. PublishedDelivery'
      BY <1>3 DEF Claim, OutboxTypes, PublishedDelivery
    <2> QED BY <2>1, <2>2, <2>3
  <1>4. ASSUME NEW w \in Workers, NEW e \in Events, NEW skipped \in SUBSET Events,
               Exhaust(w, e, skipped)
        PROVE  OutboxInv'
    BY <1>4 DEF Exhaust, OutboxTypes, SuccessIsDelivery, PublishedDelivery
  <1>5. ASSUME NEW w \in Workers, NEW ok \in BOOLEAN, NEW delivered \in BOOLEAN,
               Publish(w, ok, delivered)
        PROVE  OutboxInv'
    <2>1. OutboxTypes'
      BY <1>5 DEF Publish, OutboxTypes, Memory, PC
    <2>2. deliveries \subseteq deliveries'
      BY <1>5 DEF Publish
    <2>3. ok => Delivery(proc[w].event, proc[w].attempt) \in deliveries'
      BY <1>5 DEF Publish, Delivery
    <2>4. SuccessIsDelivery'
      BY <1>5, <2>2, <2>3 DEF Publish, OutboxTypes, SuccessIsDelivery, Memory
    <2>5. PublishedDelivery'
      BY <1>5, <2>2 DEF Publish, PublishedDelivery
    <2> QED BY <2>1, <2>4, <2>5
  <1>6. ASSUME NEW w \in Workers, Heartbeat(w) PROVE OutboxInv'
    BY <1>6 DEF Heartbeat, OutboxTypes, SuccessIsDelivery, PublishedDelivery
  <1>7. ASSUME NEW w \in Workers, FinalCheckpoint(w) PROVE OutboxInv'
    <2>1. OutboxTypes'
      BY <1>7 DEF FinalCheckpoint, OutboxTypes, Memory, PC
    <2> QED BY <1>7, <2>1 DEF FinalCheckpoint, OutboxTypes, SuccessIsDelivery,
                              PublishedDelivery, Memory
  <1>8. ASSUME NEW w \in Workers, Complete(w) PROVE OutboxInv'
    <2>1. proc[w].event \in Events /\ proc[w].attempt = attempt[proc[w].event]
      BY <1>8 DEF Complete, LeaseHeld, OutboxTypes, Memory
    <2>2. OutboxTypes' /\ SuccessIsDelivery'
      BY <1>8 DEF Complete, OutboxTypes, SuccessIsDelivery
    <2>3. PublishedDelivery'
      BY <1>8, <2>1 DEF Complete, OutboxTypes, SuccessIsDelivery, PublishedDelivery
    <2> QED BY <2>2, <2>3
  <1>9. ASSUME NEW w \in Workers, Abort(w) PROVE OutboxInv'
    BY <1>9 DEF Abort, OutboxTypes, SuccessIsDelivery, PublishedDelivery
  <1>10. CASE UNCHANGED outboxVars
    BY <1>10 DEF outboxVars, OutboxTypes, SuccessIsDelivery, PublishedDelivery
  <1> QED BY <1>1, <1>2, <1>3, <1>4, <1>5, <1>6, <1>7, <1>8, <1>9, <1>10
          DEF Next, Poll, Deliver
-----------------------------------------------------------------------------
\* The invariant holds in every state that claims, publications, heartbeats,
\* late completions and crashes of any number of processes reach.
THEOREM OutboxSafe == Spec => []OutboxInv
  BY OutboxInitially, OutboxStep, PTL DEF Spec

\* publish_outbox never marks an event PUBLISHED whose last attempt did not
\* deliver: attempt_count in _require_outbox_lease fences off a process that
\* returns after its lease ended, although all processes share one owner string.
THEOREM PublishedSafe == Spec => []PublishedWasDelivered
  <1>1. OutboxInv => PublishedWasDelivered
    BY DEF OutboxInv, PublishedDelivery, PublishedWasDelivered, Delivery
  <1> QED BY <1>1, OutboxSafe, PTL

\* The same holds of the fair executions that the liveness property is about.
THEOREM FairPublishedSafe == FairSpec => []PublishedWasDelivered
  BY PublishedSafe, PTL DEF FairSpec
=============================================================================
