--------------------------- MODULE ServiceCycles ---------------------------
(***************************************************************************)
(* The worker services of the offline platform over one session: the       *)
(* collector, the scheduler, the strategy and the execution worker         *)
(* (service_cycles.py), with the risk latches and the immutable decisions  *)
(* (storage/risk.py, risk/engine.py, risk/latches.py), the operator's      *)
(* controls (control/operator.py) and the reconciliation receipts          *)
(* (execution/reconciliation.py, storage/execution.py).                    *)
(*                                                                         *)
(* The services share the database and nothing else, and each runs one     *)
(* cycle after the other.  The execution worker's cycle is many            *)
(* transactions: between any two of them the operator may halt or resume,  *)
(* or the worker may die and rebuild its broker from what is durable.      *)
(* Instants are computed from the slot, so that a repeated cycle repeats   *)
(* them; clocks, leases and deadlines of the slots are in DecisionSlots,   *)
(* answers of a real broker in OrderExecution.                             *)
(***************************************************************************)
EXTENDS Integers, FiniteSetsExt

CONSTANTS
  Strategy,     \* how many strategy slots the session has
  Symbols,      \* the tradable symbols, ordered
  Proposals,    \* what a signal may ask for: a signed unit or nothing per symbol
  MaxLatch,     \* bound: events of the stream of operator halts
  MaxCrashes    \* bound: crashes of the execution worker

ASSUME ServiceCyclesAssumption ==
  /\ Strategy \in Nat \ {0} /\ Symbols \subseteq Nat /\ IsFiniteSet(Symbols)
  /\ Proposals \subseteq [Symbols -> {-1, 0, 1}]
  /\ MaxLatch \in Nat /\ MaxCrashes \in Nat

Forced == Strategy + 1                 \* the forced-flat slot is the last
Slots  == 1..Forced
Stages == 1..2                         \* the second opens after a reversal's close
\* RiskLatchKind; DEPLOYMENT_DRAWDOWN is engaged and cleared like SESSION_LOSS.
Kinds     == {"SESSION_LOSS", "OPERATOR_HALT", "RECONCILIATION"}
Clearable == Kinds \ {"RECONCILIATION"}
Flat == [y \in Symbols |-> 0]
None == [target |-> Flat, base |-> Flat, made |-> FALSE]

VARIABLES
  data,       \* what the collector has made durable
  slot,       \* aqa_decision_slots: state
  signal,     \* aqa_signal_envelopes: the proposal, or none
  latch,      \* aqa_risk_latch_events: length of each stream; odd is engaged
  dec,        \* aqa_risk_decisions, by slot and stage
  order,      \* aqa_broker_orders, by slot, stage and symbol
  receipt,    \* aqa_reconciliations, by slot and stage
  loss,       \* external: the slots at whose prices an account that traded has lost too much
  exec,       \* memory of the execution worker, its broker included
  crashes
vars == <<data, slot, signal, latch, dec, order, receipt, loss, exec, crashes>>

Idle == [pc |-> "idle", slot |-> 1, stage |-> 1, pos |-> Flat, read |-> [k \in Kinds |-> 0],
         blocking |-> FALSE, todo |-> {}, intent |-> 0, exits |-> TRUE, refused |-> FALSE]
-----------------------------------------------------------------------------
(***************************************************************************)
(* Decisions, plans and positions.                                         *)
(***************************************************************************)
\* RiskLatchState.from_events: ENGAGED and CLEARED alternate.
Engaged(streams) == {k \in Kinds : streams[k] % 2 = 1}
Active == Engaged(latch)

\* plan_signed_orders: per symbol an exit to zero, or an entry from zero; a sign
\* reversal stops at zero.
Exits(d)   == {y \in Symbols : d.base[y] # 0 /\ d.target[y] # d.base[y]}
Entries(d) == {y \in Symbols : d.base[y] = 0 /\ d.target[y] # 0}
Intents(d) == Exits(d) \cup Entries(d)
Delta(d, y) == IF y \in Exits(d) THEN -d.base[y] ELSE d.target[y]
\* _plan_requires_reversal
Reversal(d) == \E y \in Symbols : d.base[y] * d.target[y] < 0

\* What the orders of a set of stages, in one of these states, have traded.
Traded(stages, states, y) ==
  MapThenSumSet(LAMBDA k : IF order[k][y] \in states THEN Delta(dec[k], y) ELSE 0, stages)
Keys == Slots \X Stages
\* The account of the broker, rebuilt from these orders.
Rebuilt(states) == [y \in Symbols |-> Traded(Keys, states, y)]
Position == Rebuilt({"FILLED"})

Receipts(s) == {n \in Stages : receipt[<<s, n>>] # "NONE"}
\* The slot is executed: all clean, and no opposite entry is due.
Executed(s) ==
  /\ Receipts(s) # {} /\ \A n \in Receipts(s) : receipt[<<s, n>>] = "CLEAN"
  /\ ~Reversal(dec[<<s, Max(Receipts(s))>>])
-----------------------------------------------------------------------------
(***************************************************************************)
(* The collector, the scheduler and the strategy.                          *)
(***************************************************************************)
\* OfflineMarketDataCycle: bars and the ready basket, and then the history.
Collect ==
  /\ data # "complete"
  /\ data' = IF data = "none" THEN "basket" ELSE "complete"
  /\ UNCHANGED <<slot, signal, latch, dec, order, receipt, loss, exec, crashes>>

Ended == {"COMPLETED", "FAILED"}
\* The scheduler looks at the earliest slot that has not ended; the forced flat is
\* the last.
Current(s) ==
  /\ slot[s] \notin Ended
  /\ \A r \in 1..(s - 1) : slot[r] \in Ended
Sets(s, state) ==
  /\ slot' = [slot EXCEPT ![s] = state]
  /\ UNCHANGED <<data, signal, latch, dec, order, receipt, loss, exec, crashes>>

CreateSchedule ==
  /\ \A s \in Slots : slot[s] = "ABSENT"
  /\ slot' = [s \in Slots |-> "PENDING"]
  /\ UNCHANGED <<data, signal, latch, dec, order, receipt, loss, exec, crashes>>

EvaluateSlot(s) ==
  /\ s # Forced /\ Current(s) /\ slot[s] \in {"PENDING", "WAITING_FOR_DATA"}
  /\ slot[s] = "WAITING_FOR_DATA" => data # "none"
  /\ Sets(s, IF data = "none" THEN "WAITING_FOR_DATA" ELSE "READY")

ClaimSlot(s) ==
  /\ Current(s) /\ slot[s] = (IF s = Forced THEN "PENDING" ELSE "READY")
  /\ Sets(s, "CLAIMED")

\* Mutant of Receipt: the latest of the session.
ReceiptOfAny(s) ==
  IF \E r \in Slots : Executed(r) THEN "CLEAN" ELSE "NONE"
\* _slot_execution_receipt: a clean close of a reversal is not the end.
Receipt(s) ==
  CASE Receipts(s) = {} -> "NONE"
    [] Receipts(s) # {} /\ receipt[<<s, Max(Receipts(s))>>] = "BLOCKING" -> "BLOCKING"
    [] OTHER -> IF Reversal(dec[<<s, Max(Receipts(s))>>]) THEN "NONE" ELSE "CLEAN"

EndSlot(s) ==
  /\ Current(s) /\ slot[s] = "CLAIMED" /\ (s # Forced => signal[s].made)
  /\ \/ Receipt(s) = "CLEAN" /\ Sets(s, "COMPLETED")
     \/ Receipt(s) = "BLOCKING" /\ s = Forced /\ Sets(s, "FAILED")

\* StrategyCycle: the first claimed slot without a signal; forced flat asks for zero.
Propose(s, p) ==
  /\ slot[s] = "CLAIMED" /\ ~signal[s].made /\ data # "none"
  /\ \A r \in 1..(s - 1) : slot[r] = "CLAIMED" => signal[r].made
  /\ s = Forced => p = Flat
  /\ signal' = [signal EXCEPT ![s] = [made |-> TRUE, wants |-> p]]
  /\ UNCHANGED <<data, slot, latch, dec, order, receipt, loss, exec, crashes>>
-----------------------------------------------------------------------------
(***************************************************************************)
(* ExecutionCycle.                                                         *)
(***************************************************************************)
At(pc) == exec.pc = pc
Key == <<exec.slot, exec.stage>>
Raises == exec' = Idle

\* run_cycle takes the first slot with a signal that is not executed, unless a
\* reconciliation of it blocks.
Due(s) ==
  /\ signal[s].made /\ ~Executed(s)
  /\ \A r \in 1..(s - 1) : signal[r].made => Executed(r)
  /\ \A n \in Receipts(s) : receipt[<<s, n>>] = "CLEAN"

\* Mutant of Restored: only what is known to be filled is replayed.
RestoredFills == order
\* _restore_fake_broker: what was started is replayed, and its fill recorded.
Restored ==
  [k \in Keys |-> [y \in Symbols |-> IF order[k][y] = "STARTED" THEN "FILLED" ELSE order[k][y]]]

\* Mutant of Begin: the account is rebuilt from the fills that were known.
BeginStale(s) ==
  LET n == IF Receipts(s) = {} THEN 1 ELSE 2 IN
  /\ At("idle") /\ data = "complete" /\ Due(s)
  /\ order' = Restored
  /\ exec' = [Idle EXCEPT !.pc = IF dec[<<s, n>>].made THEN "plan" ELSE "persist",
                          !.slot = s, !.stage = n, !.read = latch, !.pos = Position]
  /\ UNCHANGED <<data, slot, signal, latch, dec, receipt, loss, crashes>>
\* The decision of the stage is read, or the latches, to evaluate it.
Begin(s) ==
  LET n == IF Receipts(s) = {} THEN 1 ELSE 2 IN
  /\ At("idle") /\ data = "complete" /\ Due(s)
  /\ order' = Restored
  /\ exec' = [Idle EXCEPT !.pc = IF dec[<<s, n>>].made THEN "plan" ELSE "persist",
                          !.slot = s, !.stage = n, !.read = latch,
                          !.pos = Rebuilt({"STARTED", "FILLED"})]
  /\ UNCHANGED <<data, slot, signal, latch, dec, receipt, loss, crashes>>

\* assess_financial_latches, for a latch that is not engaged.
Required == IF exec.slot \in loss /\ \E k \in Keys, y \in Symbols : order[k][y] = "FILLED"
            THEN {"SESSION_LOSS"} \ Engaged(exec.read) ELSE {}
\* evaluate_signed_risk: a latch leaves only reductions to zero.
Evaluated ==
  [made |-> TRUE, base |-> exec.pos,
   target |-> IF Engaged(exec.read) \cup Required # {} THEN Flat ELSE signal[exec.slot].wants]

Decides ==
  /\ latch' = [k \in Kinds |-> IF k \in Required THEN latch[k] + 1 ELSE latch[k]]
  /\ dec' = [dec EXCEPT ![Key] = Evaluated]
  /\ exec' = [exec EXCEPT !.pc = "plan"]
\* Mutant of PersistDecision: the latches are not compared.
PersistAnyway ==
  /\ At("persist") /\ Decides
  /\ UNCHANGED <<data, slot, signal, order, receipt, loss, crashes>>
\* persist: a decision evaluated from latches that have changed raises; else the
\* latches it requires and the decision are written together.
PersistDecision ==
  /\ At("persist")
  /\ IF latch # exec.read THEN Raises /\ UNCHANGED <<latch, dec>> ELSE Decides
  /\ UNCHANGED <<data, slot, signal, order, receipt, loss, crashes>>

\* The forced flat plans to zero whatever the decision.
Plan(d) == IF exec.slot = Forced THEN [d EXCEPT !.target = Flat] ELSE d

\* Whether a latch is active is read once; then the plan and its intents are
\* persisted, or found.
PersistPlan ==
  LET todo == Intents(Plan(dec[Key])) IN
  /\ At("plan")
  /\ order' = [order EXCEPT ![Key] = [y \in Symbols |-> IF y \in todo /\ @[y] = "NONE"
                                                        THEN "COMMITTED" ELSE @[y]]]
  /\ exec' = [exec EXCEPT !.pc = "submit", !.blocking = Active # {}, !.todo = todo]
  /\ UNCHANGED <<data, slot, signal, latch, dec, receipt, loss, crashes>>

\* submit_plan: exits before entries, each in the order of the symbols.
First(todo) ==
  LET exits == todo \cap Exits(dec[Key]) IN Min(IF exits # {} THEN exits ELSE todo)
\* An intent's outcome; an exit that is not filled keeps the entries back.
Outcome(y, refused) ==
  exec' = [exec EXCEPT !.pc = "submit", !.todo = @ \ {y}, !.intent = 0, !.refused = @ \/ refused,
                       !.exits = @ /\ ~(refused /\ y \in Exits(dec[Key]))]

\* _authorize and _submission_authority: the latches and the positions are as the
\* worker believes, and none is active where exposure is opened.
Authorized(y) ==
  /\ order[Key][y] = "COMMITTED"
  /\ y \in Entries(dec[Key]) => exec.exits /\ ~exec.blocking
  /\ exec.blocking = (Active # {})
  /\ \A z \in Symbols :
       exec.pos[z] = dec[Key].base[z] + Traded({Key}, {"FILLED"}, z)

Authorize ==
  LET y == First(exec.todo) IN
  /\ At("submit") /\ exec.todo # {}
  /\ IF Authorized(y) THEN exec' = [exec EXCEPT !.pc = "start", !.intent = y, !.read = latch]
     ELSE Outcome(y, order[Key][y] # "FILLED")
  /\ UNCHANGED <<data, slot, signal, latch, dec, order, receipt, loss, crashes>>

\* record_submission_started: the set of active latches is compared once more.
Start ==
  /\ At("start")
  /\ IF Active # Engaged(exec.read) THEN Outcome(exec.intent, TRUE) /\ UNCHANGED order
     ELSE /\ order' = [order EXCEPT ![Key][exec.intent] = "STARTED"]
          /\ exec' = [exec EXCEPT !.pc = "apply"]
  /\ UNCHANGED <<data, slot, signal, latch, dec, receipt, loss, crashes>>

\* The broker fills at once, and the fill is recorded.
Apply ==
  LET y == exec.intent IN
  /\ At("apply")
  /\ order' = [order EXCEPT ![Key][y] = "FILLED"]
  /\ exec' = [exec EXCEPT !.pc = "submit", !.todo = @ \ {y}, !.intent = 0,
                          !.pos[y] = @ + Delta(dec[Key], y)]
  /\ UNCHANGED <<data, slot, signal, latch, dec, receipt, loss, crashes>>

\* reconcile: the broker's positions are the plan's and its fills; a forced flat
\* is flat, and no entry is open.
Discrepant ==
  \/ \E y \in Symbols : exec.pos[y] # dec[Key].base[y] + Traded({Key}, {"FILLED"}, y)
  \/ exec.slot = Forced /\ exec.pos # Flat
  \/ exec.slot = Forced /\ \E k \in Keys, y \in Symbols :
        y \in Entries(dec[k]) /\ order[k][y] \in {"COMMITTED", "STARTED"}

\* record_reconciliation_bundle: a blocking receipt comes with its latch.
Reconciles ==
  /\ receipt' = [receipt EXCEPT ![Key] = IF Discrepant THEN "BLOCKING" ELSE "CLEAN"]
  /\ latch' = IF Discrepant /\ "RECONCILIATION" \notin Active
              THEN [latch EXCEPT !["RECONCILIATION"] = @ + 1] ELSE latch
  /\ exec' = Idle
\* Mutant of Close: a plan with refused intents is reconciled all the same.
CloseAnyway ==
  /\ At("submit") /\ exec.todo = {} /\ Reconciles
  /\ UNCHANGED <<data, slot, signal, dec, order, loss, crashes>>
\* A refused intent raises, before the reconciliation.
Close ==
  /\ At("submit") /\ exec.todo = {}
  /\ IF exec.refused THEN Raises /\ UNCHANGED <<receipt, latch>> ELSE Reconciles
  /\ UNCHANGED <<data, slot, signal, dec, order, loss, crashes>>
-----------------------------------------------------------------------------
(***************************************************************************)
(* The operator, and crashes.                                              *)
(***************************************************************************)
\* _transition: an engaged latch is not engaged again, a request that is repeated
\* finds its event; only some latches can be cleared.
Halt ==
  /\ "OPERATOR_HALT" \notin Active /\ latch["OPERATOR_HALT"] < MaxLatch
  /\ latch' = [latch EXCEPT !["OPERATOR_HALT"] = @ + 1]
  /\ UNCHANGED <<data, slot, signal, dec, order, receipt, loss, exec, crashes>>

Resume(k) ==
  /\ k \in Active \cap Clearable
  /\ latch' = [latch EXCEPT ![k] = @ + 1]
  /\ UNCHANGED <<data, slot, signal, dec, order, receipt, loss, exec, crashes>>

Crash ==
  /\ ~At("idle") /\ crashes < MaxCrashes
  /\ exec' = Idle /\ crashes' = crashes + 1
  /\ UNCHANGED <<data, slot, signal, latch, dec, order, receipt, loss>>

Init ==
  /\ data = "none" /\ slot = [s \in Slots |-> "ABSENT"]
  /\ signal = [s \in Slots |-> [made |-> FALSE, wants |-> Flat]]
  /\ latch = [k \in Kinds |-> 0]
  /\ dec = [k \in Keys |-> None]
  /\ order = [k \in Keys |-> [y \in Symbols |-> "NONE"]]
  /\ receipt = [k \in Keys |-> "NONE"]
  /\ loss \in SUBSET Slots
  /\ exec = Idle /\ crashes = 0

SchedulerStep ==
  CreateSchedule \/ \E s \in Slots : EvaluateSlot(s) \/ ClaimSlot(s) \/ EndSlot(s)
StrategyStep == \E s \in Slots, p \in Proposals : Propose(s, p)
ExecutionStep ==
  \/ \E s \in Slots : Begin(s)
  \/ PersistDecision \/ PersistPlan \/ Authorize \/ Start \/ Apply \/ Close

Next ==
  \/ Collect \/ SchedulerStep \/ StrategyStep \/ ExecutionStep
  \/ Halt \/ (\E k \in Kinds : Resume(k)) \/ Crash

\* Every service runs cycle after cycle; the operator owes nothing.
Fairness ==
  /\ WF_vars(Collect) /\ WF_vars(SchedulerStep) /\ WF_vars(StrategyStep)
  /\ WF_vars(ExecutionStep)
Spec == Init /\ [][Next]_vars /\ Fairness
-----------------------------------------------------------------------------
(***************************************************************************)
(* Properties.                                                             *)
(***************************************************************************)

\* A clean receipt says the plan was carried out: every intent of it is filled,
\* although halts refuse some of them on the way.
ReceiptProves ==
  \A k \in Keys : receipt[k] = "CLEAN" =>
    \A y \in Symbols : order[k][y] \in {"NONE", "FILLED"}

\* Neither crashes nor halts nor their order can make the ledger and the rebuilt
\* broker disagree: no reconciliation blocks.
ReceiptsClean == \A k \in Keys : receipt[k] # "BLOCKING"

\* The session's forced flat is completed only when the account is flat and no
\* order can trade any more.
ForcedFlatIsFlat ==
  slot[Forced] = "COMPLETED" =>
    /\ Position = Flat
    /\ \A k \in Keys, y \in Symbols : order[k][y] \in {"NONE", "FILLED"}

\* A decision that grants exposure becomes durable only while no latch is active,
\* although the latches were read in an earlier transaction.
DecidedInTheClear ==
  [][\A k \in Keys : ~dec[k].made /\ dec'[k].made /\ dec'[k].target # Flat => Active = {}]_vars

\* The session ends, whatever crashes and halts come in between, if the operator
\* does not leave the halt engaged.
SessionEnds == []<>("OPERATOR_HALT" \notin Active) => <>(\A s \in Slots : slot[s] \in Ended)

\* While a latch is active, risk can still be reduced to zero: the account becomes
\* flat, or the operator resumes.
LatchReduces == (Active # {} /\ Position # Flat) ~> (Active = {} \/ Position = Flat)
=============================================================================
