---------------------------- MODULE DecisionSlots ----------------------------
(***************************************************************************)
(* The durable decision slots of one session: DecisionSlotRepository       *)
(* (platform/scheduling/service.py), the OperationalSchedulerCycle that    *)
(* claims slots in the name of the strategy, the strategy's propose_once,  *)
(* and callers that hold a slot under their own name (the forced-flat      *)
(* coordinator).                                                           *)
(*                                                                         *)
(* A repository method is one transaction with the row locked, hence one   *)
(* action; the version and hash in its UPDATE cannot fail then.  A caller  *)
(* passes an instant it read before, so instants lag behind real time.     *)
(***************************************************************************)
EXTENDS Integers, FiniteSets

CONSTANTS
  Slots,          \* the schedule; numbers in the order of the timetable
  Forced,         \* the slots of type FORCED_FLAT
  ReadyAt, DeadlineAt, RequiredAt,  \* ready_at, deadline_at, required_completion_at
  Lease,          \* LEASE_DURATION
  Schedulers,     \* scheduler processes, which claim as StrategyOwner
  Strategies,     \* strategy processes, which read those claims
  Workers,        \* callers with a claim_owner of their own
  StrategyOwner,  \* "strategy_worker"
  NoOwner,        \* SQL NULL in claim_owner
  MaxLag,         \* bound: how far the instant of a worker lags behind real time
  MaxTime,        \* bound: time of the model
  MaxCrashes      \* bound: cycles that raise or die

Owners == Workers \cup {StrategyOwner}

ASSUME SlotsAssumption ==
  /\ Slots \subseteq Nat \ {0} /\ IsFiniteSet(Slots) /\ Slots # {} /\ Forced \subseteq Slots
  /\ ReadyAt \in [Slots -> Nat] /\ DeadlineAt \in [Slots -> Nat] /\ RequiredAt \in [Slots -> Nat]
  /\ \A s \in Slots : ReadyAt[s] < DeadlineAt[s] /\ DeadlineAt[s] <= RequiredAt[s]
  /\ Lease \in Nat \ {0} /\ MaxLag \in Nat /\ MaxTime \in Nat /\ MaxCrashes \in Nat
  /\ StrategyOwner \notin Workers /\ NoOwner \notin Owners

VARIABLES
  now,      \* real time
  slot,     \* table aqa_decision_slots
  signal,   \* the materialized decision of a slot: the instant it was made at
  sched,    \* memory of the scheduler cycles
  mind,     \* memory of strategies and workers
  crashes   \* how many cycles were cut short
vars == <<now, slot, signal, sched, mind, crashes>>

None == -1
Terminal  == {"COMPLETED", "SKIPPED", "EXPIRED", "FAILED"}
Unclaimed == {"PENDING", "WAITING_FOR_DATA", "READY", "FLATTEN_REQUIRED"}
SlotState == {"ABSENT", "CLAIMED"} \cup Unclaimed \cup Terminal
Time == 0..MaxTime

SlotRow == [state : SlotState, owner : Owners \cup {NoOwner}, expires : Nat \cup {None},
            attempt : Nat, completed : Time \cup {None}]

\* pc: "recovering" the expired claims read at the start; "looking" at a slot of
\* the schedule, then "evaluating" and "claiming" it.
Cycle == [pc : {"idle", "recovering", "looking", "evaluating", "claiming"}, at : Time,
          abandoned : SUBSET Slots, basket : Nat, cursor : Nat]
NoCycle == [pc |-> "idle", at |-> 0, abandoned |-> {}, basket |-> 0, cursor |-> 0]

\* The slot a process is going to decide, and the last instant it read.
Mind == [slot : Slots \cup {None}, at : Time]
Minds == Strategies \cup Workers
-----------------------------------------------------------------------------
(***************************************************************************)
(* Rows.                                                                   *)
(***************************************************************************)
Row(state, attempt) ==
  [state |-> state, owner |-> NoOwner, expires |-> None, attempt |-> attempt, completed |-> None]
InitialRow(s) == Row(IF s \in Forced THEN "FLATTEN_REQUIRED" ELSE "PENDING", 0)
MovedRow(s, state) == Row(state, slot[s].attempt)
LeasedRow(o, t, attempt) ==
  [Row("CLAIMED", attempt) EXCEPT !.owner = o, !.expires = t + Lease]
\* Mutant of EndedRow: the lease is not cleared.
EndedLeased(s, state, t) == [slot[s] EXCEPT !.state = state, !.completed = t]
EndedRow(s, state, t) == [MovedRow(s, state) EXCEPT !.completed = t]

\* _validate_slot: the columns that go with a state.
ValidRow(row) ==
  /\ row.state = "CLAIMED" <=> row.owner # NoOwner
  /\ row.state = "CLAIMED" <=> row.expires # None
  /\ row.state \in Terminal <=> row.completed # None

\* _expire_locked
ExpiredRow(s, t) == EndedRow(s, IF s \in Forced THEN "FAILED" ELSE "EXPIRED", t)

Decided(s) == signal[s] # None  \* MaterializationProbe.exists

\* Mutant of Missed: a strategy decision has until its deadline has passed.
MissedLater(s, t) == IF s \in Forced THEN t > RequiredAt[s] ELSE t > DeadlineAt[s]
\* _completion_deadline_missed
Missed(s, t) == IF s \in Forced THEN t > RequiredAt[s] ELSE t >= DeadlineAt[s]

\* Mutant of Lapsed: a lease ends one instant early.
LapsedEarly(s, t) == slot[s].state = "CLAIMED" /\ slot[s].expires <= t + 1
Lapsed(s, t) == slot[s].state = "CLAIMED" /\ slot[s].expires <= t
Live(s, t)   == slot[s].state = "CLAIMED" /\ slot[s].expires > t

\* _claim_locked, by outcome: DEADLINE_ELAPSED, MATERIALIZED, CLAIMED or RECLAIMED.
Elapsed(s, t) ==
  \/ slot[s].state = "CLAIMED" /\ Missed(s, t)
  \/ Lapsed(s, t) /\ s \in Forced /\ t >= DeadlineAt[s]
  \/ slot[s].state \in Unclaimed /\ t >= DeadlineAt[s]
Materialized(s, t) == Lapsed(s, t) /\ s \notin Forced /\ Decided(s)
Grantable(s, t) ==
  \/ Lapsed(s, t)
  \/ slot[s].state \in {"READY", "FLATTEN_REQUIRED"} /\ ReadyAt[s] <= t

\* Mutant of Claimed: a lapsed claim is granted again without a look at what was
\* materialized.
ClaimedBlindly(s, o, t) ==
  CASE Elapsed(s, t)      -> ExpiredRow(s, t)
    [] ~Elapsed(s, t) /\ Grantable(s, t) -> LeasedRow(o, t, slot[s].attempt + 1)
    [] OTHER              -> slot[s]
\* _claim_locked: the row after the claim, which may be the row before it.
Claimed(s, o, t) ==
  CASE Elapsed(s, t)      -> ExpiredRow(s, t)
    [] ~Elapsed(s, t) /\ Materialized(s, t) -> EndedRow(s, "COMPLETED", t)
    [] ~Elapsed(s, t) /\ ~Materialized(s, t) /\ Grantable(s, t)
                          -> LeasedRow(o, t, slot[s].attempt + 1)
    [] OTHER              -> slot[s]

\* evaluate_readiness returns the row it leaves; READY has no edge back to waiting.
Raises(s, t, covered) ==
  /\ s \notin Forced
  /\ \/ slot[s].state = "CLAIMED"
     \/ slot[s].state = "READY" /\ ReadyAt[s] <= t /\ t < DeadlineAt[s] /\ ~covered
Evaluated(s, t, covered) ==
  CASE s \in Forced \/ slot[s].state \in Terminal -> slot[s]
    [] s \notin Forced /\ slot[s].state \in Unclaimed /\ t >= DeadlineAt[s] -> ExpiredRow(s, t)
    [] s \notin Forced /\ slot[s].state \in Unclaimed /\ ReadyAt[s] <= t /\ t < DeadlineAt[s]
         -> MovedRow(s, IF covered THEN "READY" ELSE "WAITING_FOR_DATA")
    [] OTHER -> slot[s]
-----------------------------------------------------------------------------
Init ==
  /\ now = 0
  /\ slot = [s \in Slots |-> Row("ABSENT", 0)]
  /\ signal = [s \in Slots |-> None]
  /\ sched = [p \in Schedulers |-> NoCycle]
  /\ mind = [p \in Minds |-> [slot |-> None, at |-> 0]]
  /\ crashes = 0

Tick == now < MaxTime /\ now' = now + 1 /\ UNCHANGED <<slot, signal, sched, mind, crashes>>
-----------------------------------------------------------------------------
(***************************************************************************)
(* OperationalSchedulerCycle.run_cycle: one instant for the whole cycle.   *)
(***************************************************************************)
Earlier(s, r) == DeadlineAt[s] < DeadlineAt[r] \/ (DeadlineAt[s] = DeadlineAt[r] /\ s <= r)

\* _watermark: the last slot whose interval the active basket covers, 0 when the
\* readiness view has no clean row; gaps may open, so it may go back.
Watermark == {0} \cup Slots

\* Mutant of Begin: the forced-flat claims are left to their owner.
BeginEntries(p, basket) ==
  /\ sched[p].pc = "idle"
  /\ sched' = [sched EXCEPT ![p] =
                 [pc |-> "recovering", at |-> now, basket |-> basket, cursor |-> 0,
                  abandoned |-> {s \in Slots \ Forced : Lapsed(s, now)}]]
  /\ UNCHANGED <<now, slot, signal, mind, crashes>>
\* The expired claims and the watermark.
Begin(p, basket) ==
  /\ sched[p].pc = "idle"
  /\ sched' = [sched EXCEPT ![p] =
                 [pc |-> "recovering", at |-> now, basket |-> basket, cursor |-> 0,
                  abandoned |-> {s \in Slots : Lapsed(s, now)}]]
  /\ UNCHANGED <<now, slot, signal, mind, crashes>>

\* An expired claim of a slot that still waits for its data is left alone.
Waits(p, s) ==
  s \notin Forced /\ sched[p].at < DeadlineAt[s] /\ ~Decided(s) /\ sched[p].basket < s

Recover(p, s) ==
  /\ sched[p].pc = "recovering" /\ s \in sched[p].abandoned
  /\ \A r \in sched[p].abandoned : Earlier(s, r)
  /\ slot' = IF Waits(p, s) THEN slot
             ELSE [slot EXCEPT ![s] = Claimed(s, StrategyOwner, sched[p].at)]
  /\ sched' = [sched EXCEPT ![p].abandoned = @ \ {s}]
  /\ UNCHANGED <<now, signal, mind, crashes>>

\* The cycle goes on to the next slot of the schedule, or ends.
After(c) == {s \in Slots : s > c}
First(ss) == CHOOSE s \in ss : \A r \in ss : s <= r
Advanced(c) ==
  IF After(c.cursor) = {} THEN NoCycle
  ELSE [c EXCEPT !.pc = "looking", !.cursor = First(After(c.cursor))]

\* create_schedule: existing slots keep their state.
CreateSchedule(p) ==
  /\ sched[p].pc = "recovering" /\ sched[p].abandoned = {}
  /\ slot' = [s \in Slots |-> IF slot[s].state = "ABSENT" THEN InitialRow(s) ELSE slot[s]]
  /\ sched' = [sched EXCEPT ![p] = Advanced(@)]
  /\ UNCHANGED <<now, signal, mind, crashes>>

Look(p) ==
  LET c == sched[p]  s == c.cursor IN
  /\ c.pc = "looking"
  /\ sched' = [sched EXCEPT ![p] =
       CASE slot[s].state \notin Unclaimed -> Advanced(c)
         [] slot[s].state \in Unclaimed /\ s \notin Forced -> [c EXCEPT !.pc = "evaluating"]
         [] slot[s].state \in Unclaimed /\ s \in Forced
              -> IF ReadyAt[s] <= c.at THEN [c EXCEPT !.pc = "claiming"] ELSE Advanced(c)]
  /\ UNCHANGED <<now, slot, signal, mind, crashes>>

\* evaluate_readiness; when it raises, the cycle is over.
Evaluate(p) ==
  LET c == sched[p]  s == c.cursor  row == Evaluated(s, c.at, s <= c.basket) IN
  /\ c.pc = "evaluating"
  /\ IF Raises(s, c.at, s <= c.basket)
     THEN UNCHANGED slot /\ sched' = [sched EXCEPT ![p] = NoCycle]
     ELSE /\ slot' = [slot EXCEPT ![s] = row]
          /\ sched' = [sched EXCEPT ![p] = IF row.state = "READY" /\ ReadyAt[s] <= c.at
                                           THEN [c EXCEPT !.pc = "claiming"] ELSE Advanced(c)]
  /\ UNCHANGED <<now, signal, mind, crashes>>

ClaimSlot(p) ==
  LET c == sched[p]  s == c.cursor IN
  /\ c.pc = "claiming"
  /\ slot' = [slot EXCEPT ![s] = Claimed(s, StrategyOwner, c.at)]
  /\ sched' = [sched EXCEPT ![p] = Advanced(c)]
  /\ UNCHANGED <<now, signal, mind, crashes>>

\* A database fault, or the process dies.
Crash(p) ==
  /\ sched[p].pc # "idle" /\ crashes < MaxCrashes
  /\ sched' = [sched EXCEPT ![p] = NoCycle]
  /\ crashes' = crashes + 1
  /\ UNCHANGED <<now, slot, signal, mind>>
-----------------------------------------------------------------------------
(***************************************************************************)
(* Strategies and workers.                                                 *)
(***************************************************************************)
\* propose_once reads the slot and decides to answer it.
Propose(p, s) ==
  /\ mind[p].slot = None
  /\ Live(s, now) /\ slot[s].owner = StrategyOwner
  /\ ReadyAt[s] <= now /\ now < DeadlineAt[s]
  /\ mind' = [mind EXCEPT ![p] = [slot |-> s, at |-> now]]
  /\ UNCHANGED <<now, slot, signal, sched, crashes>>

\* persist_once, in a later transaction that does not look at the slot.
PersistSignal(p) ==
  LET s == mind[p].slot IN
  /\ s # None /\ ~Decided(s)
  /\ signal' = [signal EXCEPT ![s] = mind[p].at]
  /\ mind' = [mind EXCEPT ![p].slot = None]
  /\ UNCHANGED <<now, slot, sched, crashes>>

\* The process gives up, finds a decision already made, or dies.
Forget(p) ==
  /\ mind[p].slot # None
  /\ mind' = [mind EXCEPT ![p].slot = None]
  /\ UNCHANGED <<now, slot, signal, sched, crashes>>

\* A worker's calls: its clock does not run back.
Remember(w, s, t) == mind' = [mind EXCEPT ![w] = [slot |-> s, at |-> t]]
Writes(s, row) ==
  /\ slot' = [slot EXCEPT ![s] = row]
  /\ UNCHANGED <<now, signal, sched, crashes>>

\* claim: the worker is to decide the slot if it holds it now.
WorkerClaim(w, s, t) ==
  LET row == Claimed(s, w, t) IN
  /\ slot[s].state # "ABSENT" /\ mind[w].slot = None
  /\ Writes(s, row)
  /\ Remember(w, IF row # slot[s] /\ row.state = "CLAIMED" THEN s ELSE None, t)

\* claim_next: the first eligible slot whose row no other transaction has locked,
\* hence any of them; no other is considered.
Eligible(s, t) ==
  /\ ReadyAt[s] <= t
  /\ \/ slot[s].state \in {"READY", "FLATTEN_REQUIRED"}
     \/ slot[s].state = "CLAIMED" /\ (Lapsed(s, t) \/ DeadlineAt[s] <= t)
ClaimNext(w, s, t) ==
  LET row == Claimed(s, w, t) IN
  /\ mind[w].slot = None /\ Eligible(s, t)
  /\ ~(Live(s, t) /\ ~Missed(s, t))
  /\ Writes(s, row)
  /\ Remember(w, IF row.state = "CLAIMED" THEN s ELSE None, t)

Owned(s, w) == slot[s].state = "CLAIMED" /\ slot[s].owner = w

RenewLease(w, s, t) ==
  /\ Owned(s, w) /\ (Missed(s, t) \/ Live(s, t))
  /\ Writes(s, IF Missed(s, t) THEN ExpiredRow(s, t) ELSE LeasedRow(w, t, slot[s].attempt))
  /\ Remember(w, mind[w].slot, t)

Complete(w, s, t) ==
  /\ Owned(s, w)
  /\ \/ /\ Missed(s, t) \/ (Live(s, t) /\ ~Decided(s) /\ t >= DeadlineAt[s])
        /\ Writes(s, ExpiredRow(s, t))
     \/ /\ ~Missed(s, t) /\ Live(s, t) /\ Decided(s)
        /\ Writes(s, EndedRow(s, "COMPLETED", t))
  /\ Remember(w, None, t)

Fail(w, s, t) ==
  /\ Owned(s, w) /\ (Live(s, t) \/ (s \in Forced /\ t > RequiredAt[s]))
  /\ Writes(s, EndedRow(s, "FAILED", t))
  /\ Remember(w, None, t)

\* recover_expired_claims: all that are not locked, in one transaction.
RecoverClaims(w, t) ==
  \E ss \in SUBSET {s \in Slots : slot[s].state = "CLAIMED" /\ (Lapsed(s, t) \/ Missed(s, t))} :
  /\ ss # {} /\ mind[w].slot = None
  /\ slot' = [s \in Slots |-> IF s \in ss THEN Claimed(s, w, t) ELSE slot[s]]
  /\ \E s \in ss : Remember(w, IF slot'[s].state = "CLAIMED" THEN s ELSE None, t)
  /\ UNCHANGED <<now, signal, sched, crashes>>

\* skip: an operator's call.
Skip(s) ==
  /\ slot[s].state \in {"PENDING", "WAITING_FOR_DATA", "READY"} /\ ~Decided(s)
  /\ Writes(s, EndedRow(s, "SKIPPED", now))
  /\ UNCHANGED mind

CycleStep(p) ==
  \/ \E s \in Slots : Recover(p, s)
  \/ CreateSchedule(p) \/ Look(p) \/ Evaluate(p) \/ ClaimSlot(p)

WorkerStep(w) ==
  \E t \in {u \in mind[w].at..now : u + MaxLag >= now} :
    \/ \E s \in Slots : \/ WorkerClaim(w, s, t) \/ ClaimNext(w, s, t) \/ RenewLease(w, s, t)
                        \/ Complete(w, s, t) \/ Fail(w, s, t)
    \/ RecoverClaims(w, t)

Next ==
  \/ Tick
  \/ \E p \in Schedulers : (\E b \in Watermark : Begin(p, b)) \/ CycleStep(p) \/ Crash(p)
  \/ \E p \in Strategies, s \in Slots : Propose(p, s)
  \/ \E p \in Minds : PersistSignal(p) \/ Forget(p)
  \/ \E w \in Workers : WorkerStep(w)
  \/ \E s \in Slots : Skip(s)

Spec == Init /\ [][Next]_vars

\* Time passes, and a scheduler's service loop starts one cycle after another;
\* a cycle that is not cut short goes on.
Fairness ==
  /\ WF_vars(Tick)
  /\ \A p \in Schedulers : WF_vars(\E b \in Watermark : Begin(p, b)) /\ WF_vars(CycleStep(p))
FairSpec == Spec /\ Fairness
-----------------------------------------------------------------------------
(***************************************************************************)
(* Properties.                                                             *)
(***************************************************************************)

\* Rows, decisions and memories hold values of their type, and every row written
\* passes the validation of DecisionSlot.
TypeOK ==
  /\ now \in Time
  /\ slot \in [Slots -> SlotRow] /\ \A s \in Slots : ValidRow(slot[s])
  /\ signal \in [Slots -> Time \cup {None}]
  /\ sched \in [Schedulers -> Cycle]
  /\ mind \in [Minds -> Mind]
  /\ crashes \in 0..MaxCrashes

\* COMPLETED means decided, and in time: for an entry before its deadline, for
\* forced flat by the required completion.
CompletedInTime ==
  \A s \in Slots : slot[s].state = "COMPLETED" =>
    /\ Decided(s)
    /\ IF s \in Forced THEN slot[s].completed <= RequiredAt[s]
                        ELSE slot[s].completed < DeadlineAt[s]

\* A lease that has not run out is its owner's: nobody else gets the slot,
\* whatever instants other callers pass.
LiveLeaseRespected ==
  [][\A s \in Slots : Live(s, now) /\ slot'[s].state = "CLAIMED" =>
       slot'[s].owner = slot[s].owner /\ slot'[s].attempt = slot[s].attempt]_vars

\* A materialized decision is inspected before a reclaim: a decided entry slot
\* is never claimed again.
DecidedNotReclaimed ==
  [][\A s \in Slots \ Forced : Decided(s) => slot'[s].attempt = slot[s].attempt]_vars

\* Every slot of the session ends, whatever crashes, races, missing data and
\* vanished owners do, as long as scheduler cycles go on after its deadline.
EverySlotEnds == <>(\A s \in Slots : slot[s].state \in Terminal)
=============================================================================
