----------------------------- MODULE LiveSession -----------------------------
(***************************************************************************)
(* Decisions, risk latches and operator halts of the live paper trader     *)
(* (LiveService of live.py, the decision and halt tables of persistence.py *)
(* and OrderPlanner of execution.py).                                      *)
(*                                                                         *)
(* The daemon's main loop runs one decision per session and a risk monitor *)
(* that cancels orders and reduces the position after a breach; a command- *)
(* line process halts, flattens and resumes on the same database.  Between *)
(* two broker or database calls of one process the other one, the account  *)
(* and the broker move on.  There is one symbol, and a decision sends one  *)
(* order of it; the sells of a decision that its buy waits for are those   *)
(* of other symbols.  LiveOrders has the life of an order.                 *)
(***************************************************************************)
EXTENDS Integers, FiniteSets

CONSTANTS
  Sessions,       \* bound: market sessions
  Held,           \* the position at the start
  MaxOrder,       \* max_single_order_fraction_of_equity
  MaxDecisions,   \* bound: decisions, reductions included
  MaxMoves,       \* bound: moves of the account and of market and data
  MaxHalts,       \* bound: halts of the operator
  MaxFaults,      \* bound: crashes and orders that do not arrive
  ReconcileTime   \* what the clock advances by in a reconciliation

ASSUME LiveSessionAssumption ==
  /\ Sessions \in Nat \ {0} /\ Held \in Nat /\ MaxOrder \in Nat \ {0}
  /\ MaxDecisions \in Nat \ {0} /\ MaxMoves \in Nat /\ MaxHalts \in Nat /\ MaxFaults \in Nat
  /\ ReconcileTime \in Nat

VARIABLES
  session,   \* the market session
  account,   \* external: the limits the account breaches, and whether market and data are fit
  moves,
  halts,     \* active_halts
  asked,     \* how many halts were recorded; the number is the halt_event_id
  dec,       \* rebalance_decisions, by idempotency key
  local,     \* broker_orders: what is known locally of a decision's order
  pos,       \* external: the position
  book,      \* external: the broker's orders
  mem,       \* memory of the daemon and of the command line
  faults
vars == <<session, account, moves, halts, asked, dec, local, pos, book, mem, faults>>

Procs == {"daemon", "cli"}
Limits == {"daily_loss", "hard_stop"}

\* Idempotency keys: the session's decision, and the attempts of the reduction
\* series of a session's hard stop or of an operator's request.
Cycle(s)     == <<"cycle", s, 0>>
Series(k, i) == {<<k, i, n>> : n \in 0..(MaxDecisions - 1)}
HardStop(s)  == Series("hard_stop", s)
Request(i)   == Series("flatten", i)
Keys == {Cycle(s) : s \in 1..Sessions} \cup (UNION {HardStop(s) : s \in 1..Sessions})
        \cup (UNION {Request(i) : i \in 1..MaxHalts})

NoHalt == [id |-> 0, flatten |-> FALSE, canceled |-> FALSE]
NoPlan == [side |-> "none", qty |-> 0]
NoOrder == [side |-> "none", qty |-> 0, state |-> "none"]
EndedOrder(state) == [NoOrder EXCEPT !.state = state]
Ended == {"filled", "canceled"}
Idle == [pc |-> "idle", series |-> {}, key |-> <<>>, halted |-> FALSE, latched |-> FALSE, want |-> "none",
         pos |-> 0, plan |-> NoPlan]

OpenOrders == {k \in Keys : book[k].state \in {"open", "canceling"}}
Bounded == Cardinality({k \in Keys : dec[k].status # "none"}) >= MaxDecisions
\* A clean reconciliation in an open market: no negative position, fresh data.
Fit == account.fit /\ pos >= 0
-----------------------------------------------------------------------------
(***************************************************************************)
(* Latches.                                                                *)
(***************************************************************************)
\* _apply_account_risk_latches: what is breached is latched; daily_loss is kept
\* with the session.
LatchedHalts(h) ==
  [h EXCEPT !.daily = IF "daily_loss" \in account.breach /\ @ = 0 THEN session ELSE @,
            !.hard  = @ \/ "hard_stop" \in account.breach]
CanceledAll == [k \in Keys |-> IF book[k].state = "open" THEN [book[k] EXCEPT !.state = "canceling"]
                               ELSE book[k]]
Latching(h) == h.daily # 0 \/ h.hard
\* While a risk latch is active, every order is asked to be canceled.
Cancels(h) == book' = IF Latching(h) THEN CanceledAll ELSE book

Latched == Latching(halts)

\* expire_daily_loss_latch, with the instant the caller read before the
\* reconciliation it shows as evidence: the evidence must not be younger.
Expired(h) ==
  IF Fit /\ h.daily # 0 /\ h.daily < session /\ ReconcileTime <= 0
  THEN [h EXCEPT !.daily = 0] ELSE h

\* Reconciler.run: the rows follow the broker.
ReconciledLocal ==
  [k \in Keys |-> IF book[k].state \in Ended THEN "ended" ELSE local[k]]
-----------------------------------------------------------------------------
(***************************************************************************)
(* The scheduled decision: run_once.                                       *)
(***************************************************************************)
Goes(p, m) == mem' = [mem EXCEPT ![p] = m]
At(p, pc) == mem[p].pc = pc

\* Data is fresh; latches are applied, then the session's decision is claimed.
BeginCycle ==
  LET h == LatchedHalts(halts)  k == Cycle(session) IN
  /\ At("daemon", "idle") /\ account.fit /\ dec[k].status = "none" /\ ~Bounded
  /\ halts' = h /\ Cancels(h)
  /\ dec' = [dec EXCEPT ![k].status = "claimed"]
  /\ Goes("daemon", [Idle EXCEPT !.pc = "reconcile", !.key = k, !.latched = Latching(h)])
  /\ UNCHANGED <<session, account, moves, asked, local, pos, faults>>

\* reconcile, the expiry of a daily-loss latch, the latches once more, with the
\* cancellation if the breach is new to this cycle; and then manual_halt_active
\* is read, once, before the target provider works ...
CycleReconcile ==
  LET h == LatchedHalts(Expired(halts))  m == mem["daemon"] IN
  /\ At("daemon", "reconcile")
  /\ local' = ReconciledLocal /\ halts' = h
  /\ IF m.latched THEN UNCHANGED book ELSE Cancels(h)
  /\ Goes("daemon", [m EXCEPT !.pc = "target", !.halted = halts.manual.id # 0,
                              !.latched = Latching(h)])
  /\ UNCHANGED <<session, account, moves, asked, dec, pos, faults>>

\* ... the target is a reduction or an increase, and then the positions are read.
CycleTarget(want) ==
  /\ At("daemon", "target")
  /\ Goes("daemon", [mem["daemon"] EXCEPT !.pc = "plan", !.want = want, !.pos = pos])
  /\ UNCHANGED <<session, account, moves, halts, asked, dec, local, pos, book, faults>>

\* OrderPlanner.plan: nothing while an order of the symbol is open; a sell is
\* bounded by the position read and by the order limit.  A short position raises,
\* and nothing is sent.
Smaller(a, b) == IF a < b THEN a ELSE b
Planned(want, held, open) ==
  CASE open \/ (want = "sell" /\ held <= 0) -> NoPlan
    [] ~open /\ want = "sell" /\ held > 0  -> [side |-> "sell", qty |-> Smaller(held, MaxOrder)]
    [] ~open /\ want = "buy"               -> [side |-> "buy", qty |-> 1]

\* A hard stop replaces the target by cash; a daily loss permits reductions only.
Permitted(h, want) ==
  CASE h.hard                                    -> "sell"
    [] ~h.hard /\ h.daily # 0 /\ want = "buy"    -> "none"
    [] OTHER                                     -> want

\* The decision with its receipt, which stays; the row's plan may be replaced.
Authorized(plan) == [status |-> "submission_authorized", plan |-> plan, receipt |-> plan]
NotSent(status)  == [status |-> status, plan |-> NoPlan, receipt |-> NoPlan]

Submits(k, plan) == [Idle EXCEPT !.pc = "submit", !.key = k, !.plan = plan]

Rest(h) == UNCHANGED <<session, account, moves, asked, local, pos, faults>> /\ halts' = h

\* Mutant of CyclePlan: the latches are those of the cycle's start.
CyclePlanStale ==
  LET m == mem["daemon"]
      plan == Planned(Permitted(halts, m.want), m.pos, OpenOrders # {})
      allowed == Fit /\ ~m.halted IN
  /\ At("daemon", "plan") /\ Permitted(halts, m.want) # "none" /\ UNCHANGED book
  /\ dec' = [dec EXCEPT ![m.key] = IF allowed THEN Authorized(plan)
                                   ELSE NotSent("observed")]
  /\ Goes("daemon", IF allowed THEN Submits(m.key, plan) ELSE Idle)
  /\ Rest(LatchedHalts(halts))
\* The open orders and the account are read again; latches, and after a breach that
\* is new the positions once more; plan; the gate, with the halt that was read
\* before; and the receipt, before any order.
CyclePlan ==
  LET m == mem["daemon"]  h == LatchedHalts(halts)
      want == Permitted(h, m.want)
      held == IF Latching(h) /\ ~m.latched THEN pos ELSE m.pos
      plan == IF want = "none" THEN NoPlan ELSE Planned(want, held, OpenOrders # {})
      allowed == Fit /\ ~m.halted /\ plan # NoPlan IN
  /\ At("daemon", "plan")
  /\ IF m.latched THEN UNCHANGED book ELSE Cancels(h)
  /\ dec' = [dec EXCEPT ![m.key] = IF allowed THEN Authorized(plan)
                                   ELSE NotSent("observed")]
  /\ Goes("daemon", IF allowed THEN Submits(m.key, plan) ELSE Idle)
  /\ Rest(h)

\* execute, for the cycle, its resumed buys and the reductions: the broker answers;
\* the call times out, and the order arrives later or never; or the update thread
\* was faster and the answer is an invalid transition: the row loses its plan, and
\* a resumed one stays.  The command line looks at what became of its order.
Submit(p, outcome) ==
  LET m == mem[p]  failed == outcome = "raised" /\ dec[m.key].status # "execution_pending" IN
  /\ At(p, "submit") /\ (outcome # "answered" => faults < MaxFaults)
  /\ local' = [local EXCEPT ![m.key] = "sent"]
  /\ book' = [book EXCEPT ![m.key] = [side |-> m.plan.side, qty |-> m.plan.qty,
                                      state |-> IF outcome = "unknown" THEN "late" ELSE "open"]]
  /\ dec' = [dec EXCEPT ![m.key].status = CASE outcome = "answered" -> "submitted"
                                             [] outcome = "unknown"  -> "submission_unknown"
                                             [] outcome = "raised"   -> IF failed THEN "rejected" ELSE @,
                        ![m.key].plan = IF failed THEN NoPlan ELSE @]
  /\ faults' = IF outcome = "answered" THEN faults ELSE faults + 1
  /\ Goes(p, IF p = "cli" /\ outcome = "answered" THEN [Idle EXCEPT !.pc = "sent", !.key = m.key]
             ELSE Idle)
  /\ UNCHANGED <<session, account, moves, halts, asked, pos>>

\* execute sends the sells and keeps the buys back while they have not ended ...
HoldBuys ==
  LET m == mem["daemon"] IN
  /\ At("daemon", "submit") /\ m.plan.side = "buy" /\ dec[m.key].status = "submission_authorized"
  /\ dec' = [dec EXCEPT ![m.key].status = "execution_pending"]
  /\ Goes("daemon", Idle)
  /\ UNCHANGED <<session, account, moves, halts, asked, local, pos, book, faults>>

\* ... and _resume_pending_executions sends them in the same session.  Any active
\* halt keeps them back; the halts are read before the reconciliation, ...
ResumeBuys ==
  LET k == Cycle(session) IN
  /\ At("daemon", "idle") /\ dec[k].status = "execution_pending"
  /\ halts.manual.id = 0 /\ ~Latched
  /\ Goes("daemon", [Idle EXCEPT !.pc = "resume", !.key = k, !.plan = dec[k].plan])
  /\ UNCHANGED <<session, account, moves, halts, asked, dec, local, pos, book, faults>>

\* ... and the gate and the cash after it.  A buy that has a row is not sent again.
ResumeGate(enough) ==
  LET m == mem["daemon"]  unsent == local[m.key] = "none" IN
  /\ At("daemon", "resume")
  /\ local' = ReconciledLocal
  /\ dec' = IF Fit /\ ~unsent THEN [dec EXCEPT ![m.key].status = "submitted"] ELSE dec
  /\ Goes("daemon", IF Fit /\ unsent /\ enough THEN [m EXCEPT !.pc = "submit"] ELSE Idle)
  /\ UNCHANGED <<session, account, moves, halts, asked, pos, book, faults>>

\* After the cutoff, or in a later session, they are given up.
AbandonBuys(s) ==
  /\ At("daemon", "idle") /\ dec[Cycle(s)].status = "execution_pending"
  /\ dec' = [dec EXCEPT ![Cycle(s)].status = "buy_leg_abandoned"]
  /\ UNCHANGED <<session, account, moves, halts, asked, local, pos, book, mem, faults>>
-----------------------------------------------------------------------------
(***************************************************************************)
(* The risk monitor and the reductions.                                    *)
(***************************************************************************)
\* Latches and cancellation, reconcile, expiry, latches again; the hard stop that
\* they leave is in memory.
BeginMonitor ==
  LET h == LatchedHalts(Expired(LatchedHalts(halts))) IN
  /\ At("daemon", "idle")
  /\ halts' = h /\ local' = ReconciledLocal
  /\ book' = IF Latched \/ Latching(h) THEN CanceledAll ELSE book
  /\ Goes("daemon", [Idle EXCEPT !.pc = "monitor", !.want = IF h.hard THEN "sell" ELSE "none"])
  /\ UNCHANGED <<session, account, moves, asked, dec, pos, faults>>

\* The newest flatten request with evidence of its cancellation goes first; one
\* without it is canceled again, which may fail.
MonitorCancels(succeeds) ==
  /\ At("daemon", "monitor") /\ halts.manual.flatten /\ ~halts.manual.canceled
  /\ IF succeeds THEN /\ book' = CanceledAll
                      /\ halts' = [halts EXCEPT !.manual.canceled = TRUE]
                      /\ UNCHANGED mem
     ELSE UNCHANGED <<book, halts>> /\ Goes("daemon", [mem["daemon"] EXCEPT !.pc = "reduce"])
  /\ UNCHANGED <<session, account, moves, asked, dec, local, pos, faults>>

\* The operator's request, or the hard stop: reconcile, the latches once more, and
\* the gate, which another halt closes to a hard stop and which is open to an
\* account without positions.
Flattens == halts.manual.flatten /\ halts.manual.canceled
Chosen == IF Flattens THEN Request(halts.manual.id) ELSE HardStop(session)
MonitorReduces ==
  LET reduces == Flattens \/ mem["daemon"].want = "sell"
      allowed == IF Flattens THEN pos = 0 \/ Fit ELSE reduces /\ halts.manual.id = 0 /\ Fit IN
  /\ At("daemon", "reduce") \/ (At("daemon", "monitor") /\ (halts.manual.flatten => Flattens))
  /\ halts' = IF reduces THEN LatchedHalts(halts) ELSE halts
  /\ local' = IF reduces THEN ReconciledLocal ELSE local
  /\ Goes("daemon", IF allowed THEN [Idle EXCEPT !.pc = "attempt", !.series = Chosen] ELSE Idle)
  /\ UNCHANGED <<session, account, moves, asked, dec, pos, book, faults>>

Attempts(series) == {k \in series : dec[k].status # "none"}
\* An attempt whose receipt names an order that may still trade blocks the next.
Blocks(k) ==
  /\ dec[k].plan # NoPlan
  /\ local[k] = "sent" \/ book[k].state \in {"open", "canceling"}

\* Mutant of ReductionAttempt: only the local row of an attempt counts.
AttemptIgnoringBroker(p) ==
  LET m == mem[p]  tried == Attempts(m.series) IN
  /\ At(p, "attempt")
  /\ IF (tried # {} /\ pos = 0) \/ Bounded THEN Goes(p, Idle)
     ELSE Goes(p, [Idle EXCEPT !.pc = "claim",
                               !.key = CHOOSE k \in m.series : k[3] = Cardinality(tried)])
  /\ UNCHANGED <<session, account, moves, halts, asked, dec, local, pos, book, faults>>
\* _execute_hard_stop_reduction: the attempts so far, and the next key.
ReductionAttempt(p) ==
  LET m == mem[p]  tried == Attempts(m.series) IN
  /\ At(p, "attempt")
  /\ IF \/ \E k \in tried : Blocks(k)
        \/ tried # {} /\ pos = 0
        \/ Bounded
     THEN Goes(p, Idle)
     ELSE Goes(p, [Idle EXCEPT !.pc = "claim",
                               !.key = CHOOSE k \in m.series : k[3] = Cardinality(tried)])
  /\ UNCHANGED <<session, account, moves, halts, asked, dec, local, pos, book, faults>>

\* claim_rebalance, with a payload that is still empty; then the positions.
ReductionClaim(p) ==
  LET m == mem[p] IN
  /\ At(p, "claim")
  /\ IF dec[m.key].status # "none" THEN Goes(p, Idle) /\ UNCHANGED dec
     ELSE /\ dec' = [dec EXCEPT ![m.key].status = "claimed"]
          /\ Goes(p, [m EXCEPT !.pc = "orders", !.pos = pos])
  /\ UNCHANGED <<session, account, moves, halts, asked, local, pos, book, faults>>

\* Mutant of ReductionPlan: the receipt is left to the end of the attempt.
ReductionPlanUnwritten(p) ==
  LET m == mem[p]  plan == Planned("sell", m.pos, OpenOrders # {}) IN
  /\ At(p, "orders")
  /\ Goes(p, IF plan = NoPlan THEN Idle ELSE Submits(m.key, plan))
  /\ UNCHANGED <<session, account, moves, halts, asked, dec, local, pos, book, faults>>
\* The open orders, the plan, and the receipt with it.
ReductionPlan(p) ==
  LET m == mem[p]  plan == Planned("sell", m.pos, OpenOrders # {}) IN
  /\ At(p, "orders")
  /\ dec' = [dec EXCEPT ![m.key] = CASE plan # NoPlan              -> Authorized(plan)
                                     [] plan = NoPlan /\ m.pos > 0 -> NotSent("deferred")
                                     [] plan = NoPlan /\ m.pos = 0 -> NotSent("no_positions")
                                     [] OTHER                      -> NotSent("rejected")]
  /\ Goes(p, IF plan = NoPlan THEN Idle ELSE Submits(m.key, plan))
  /\ UNCHANGED <<session, account, moves, halts, asked, local, pos, book, faults>>
-----------------------------------------------------------------------------
(***************************************************************************)
(* The command line: halt and resume.                                      *)
(***************************************************************************)
\* halt: the operator's halt, or request to flatten, replaces the one before.
Halt(flatten) ==
  /\ At("cli", "idle") /\ asked < MaxHalts
  /\ asked' = asked + 1
  /\ halts' = [halts EXCEPT !.manual = [id |-> asked + 1, flatten |-> flatten, canceled |-> FALSE]]
  /\ Goes("cli", [Idle EXCEPT !.pc = "cancel", !.series = IF flatten THEN Request(asked + 1) ELSE {}])
  /\ UNCHANGED <<session, account, moves, dec, local, pos, book, faults>>

\* cancel_all_orders, and the evidence of its success.
HaltCancels(succeeds) ==
  LET m == mem["cli"] IN
  /\ At("cli", "cancel")
  /\ IF ~succeeds THEN UNCHANGED <<book, halts>> /\ Goes("cli", Idle)
     ELSE /\ book' = CanceledAll
          /\ halts' = IF halts.manual.id = asked THEN [halts EXCEPT !.manual.canceled = TRUE] ELSE halts
          /\ Goes("cli", IF m.series # {} THEN [m EXCEPT !.pc = "flatten"] ELSE Idle)
  /\ UNCHANGED <<session, account, moves, asked, dec, local, pos, faults>>

\* _operator_flatten_attempt: reconcile, the latches, without a cancellation, and
\* the gate, then the reduction.  ensure_ready or a call of the broker may raise
\* before that, and the gate refuse for the stream of trade updates.
Flatten(outcome) ==
  LET m == mem["cli"] IN
  /\ At("cli", "flatten") /\ (outcome = "refused" => pos # 0)
  /\ local' = ReconciledLocal
  /\ halts' = IF outcome = "raised" THEN halts ELSE LatchedHalts(halts)
  /\ Goes("cli", IF outcome = "allowed" /\ (pos = 0 \/ Fit) THEN [m EXCEPT !.pc = "attempt"] ELSE Idle)
  /\ UNCHANGED <<session, account, moves, asked, dec, pos, book, faults>>

\* The next attempt is made at once only after a fill that leaves a position; the
\* other ones are left to the daemon's monitor.
FlattenAgain ==
  LET m == mem["cli"] IN
  /\ At("cli", "sent")
  /\ Goes("cli", IF pos # 0 /\ book[m.key].state = "filled"
                 THEN [Idle EXCEPT !.pc = "flatten", !.series = Request(m.key[2])] ELSE Idle)
  /\ UNCHANGED <<session, account, moves, halts, asked, dec, local, pos, book, faults>>

\* resume, after a clean reconciliation; a daily loss stays.
Resume ==
  /\ At("cli", "idle") /\ Fit /\ (halts.manual.id # 0 \/ halts.hard)
  /\ local' = ReconciledLocal
  /\ halts' = [halts EXCEPT !.manual = NoHalt, !.hard = FALSE]
  /\ UNCHANGED <<session, account, moves, asked, dec, pos, book, mem, faults>>
-----------------------------------------------------------------------------
(***************************************************************************)
(* The world.                                                              *)
(***************************************************************************)
\* Equity crosses a limit; or the market opens or closes, or data goes stale.
Move(breach, fit) ==
  /\ moves < MaxMoves /\ moves' = moves + 1
  /\ \/ fit = account.fit /\ Cardinality((breach \ account.breach) \cup (account.breach \ breach)) = 1
     \/ fit # account.fit /\ breach = account.breach
  /\ account' = [breach |-> breach, fit |-> fit]
  /\ UNCHANGED <<session, halts, asked, dec, local, pos, book, mem, faults>>

\* Orders are day orders, and the daily loss is counted from the last close.
NewSession ==
  /\ session < Sessions /\ session' = session + 1
  /\ account' = [account EXCEPT !.breach = @ \ {"daily_loss"}]
  /\ \A p \in Procs : At(p, "idle")
  /\ book' = [k \in Keys |-> IF k \in OpenOrders THEN EndedOrder("canceled") ELSE book[k]]
  /\ UNCHANGED <<moves, halts, asked, dec, local, pos, mem, faults>>

Arrive(k) ==
  /\ book[k].state = "late"
  /\ book' = [book EXCEPT ![k].state = "open"]
  /\ UNCHANGED <<session, account, moves, halts, asked, dec, local, pos, mem, faults>>

Fill(k) ==
  /\ book[k].state \in {"open", "canceling"}
  /\ book' = [book EXCEPT ![k] = EndedOrder("filled")]
  /\ pos' = IF book[k].side = "buy" THEN pos + book[k].qty ELSE pos - book[k].qty
  /\ UNCHANGED <<session, account, moves, halts, asked, dec, local, mem, faults>>

Cancel(k) ==
  /\ book[k].state = "canceling"
  /\ book' = [book EXCEPT ![k] = EndedOrder("canceled")]
  /\ UNCHANGED <<session, account, moves, halts, asked, dec, local, pos, mem, faults>>

\* A process dies; what it claimed stays claimed.
Crash(p) ==
  /\ ~At(p, "idle") /\ faults < MaxFaults
  /\ faults' = faults + 1 /\ Goes(p, Idle)
  /\ UNCHANGED <<session, account, moves, halts, asked, dec, local, pos, book>>

Init ==
  /\ session = 1 /\ account = [breach |-> {}, fit |-> TRUE] /\ moves = 0
  /\ halts = [manual |-> NoHalt, daily |-> 0, hard |-> FALSE] /\ asked = 0
  /\ dec = [k \in Keys |-> NotSent("none")]
  /\ local = [k \in Keys |-> "none"]
  /\ pos = Held /\ book = [k \in Keys |-> NoOrder]
  /\ mem = [p \in Procs |-> Idle] /\ faults = 0

CycleStep ==
  \/ CycleReconcile \/ (\E want \in {"sell", "buy"} : CycleTarget(want)) \/ CyclePlan
BuyStep ==
  \/ HoldBuys \/ ResumeBuys \/ (\E enough \in BOOLEAN : ResumeGate(enough))
  \/ \E s \in 1..Sessions : AbandonBuys(s)
ReductionStep(p) ==
  \/ ReductionAttempt(p) \/ ReductionClaim(p) \/ ReductionPlan(p)
  \/ \E outcome \in {"answered", "unknown", "raised"} : Submit(p, outcome)
MonitorStep == MonitorReduces \/ \E succeeds \in BOOLEAN : MonitorCancels(succeeds)
CliStep ==
  \/ (\E flatten \in BOOLEAN : Halt(flatten)) \/ (\E succeeds \in BOOLEAN : HaltCancels(succeeds))
  \/ (\E outcome \in {"allowed", "refused", "raised"} : Flatten(outcome)) \/ FlattenAgain
  \/ Resume

Next ==
  \/ BeginCycle \/ CycleStep \/ BuyStep \/ BeginMonitor \/ MonitorStep
  \/ \E p \in Procs : ReductionStep(p) \/ Crash(p)
  \/ CliStep
  \/ \E breach \in SUBSET Limits, fit \in BOOLEAN : Move(breach, fit)
  \/ NewSession
  \/ \E k \in Keys : Arrive(k) \/ Fill(k) \/ Cancel(k)

Spec == Init /\ [][Next]_vars
-----------------------------------------------------------------------------
(***************************************************************************)
(* Properties.                                                             *)
(***************************************************************************)

\* An order at the broker is named by the receipt of its decision, so that a
\* process that starts after a crash finds it among the earlier attempts.
ReceiptFirst ==
  \A k \in Keys : book[k].state \in {"late", "open", "canceling"} =>
    dec[k].receipt = [side |-> book[k].side, qty |-> book[k].qty]

\* The attempts of a hard stop do not overlap: one that may still arrive or trade
\* blocks the next, whatever times out, raises or crashes.
HardStopsDisjoint ==
  \A j, k \in OpenOrders : j[1] = "hard_stop" /\ k[1] = "hard_stop" /\ j[2] = k[2] => j = k

\* The same of an operator's request, whose attempts two processes make: "Unknown
\* or nonterminal prior submissions can still fill, so they block a retry."  The
\* code does not keep it, as MCLiveFlatten.cfg shows.
AttemptsDisjoint ==
  \A j, k \in OpenOrders : j[1] # "cycle" /\ j[1] = k[1] /\ j[2] = k[2] => j = k

\* The daemon has a buy in hand, to send or to resume.
Buying == mem["daemon"].plan.side = "buy"
Sent(k) == book[k].state = "none" /\ book'[k].state # "none"

\* A buy comes into the daemon's hand only while no risk latch is active, although
\* latches are set between the target and the plan, and goes out of it when it is
\* sent: a latch that another process sets is outrun by one buy at most.
BuysTakenUnlatched ==
  [][/\ ~Buying /\ Buying' => ~Latched'
     /\ \A k \in Keys : Sent(k) /\ book'[k].side = "buy" => Buying /\ ~Buying']_vars

\* No buy is sent while a risk latch is active: a loss beyond the limit "blocks new
\* exposure for the remainder of that session".  The code does not keep it, as
\* MCLiveLatch.cfg shows.
BuysUnlatched ==
  [][\A k \in Keys : Sent(k) /\ Latched => book'[k].side = "sell"]_vars
=============================================================================
