----------------------------- MODULE LiveOrders -----------------------------
(***************************************************************************)
(* The order ledger of the live paper trader: OrderManager (execution.py), *)
(* the Reconciler (reconciliation.py), the rows they share (order and fill *)
(* tables of persistence.py) and the execution of one authorized decision  *)
(* by LiveService (live.py).                                               *)
(*                                                                         *)
(* Three actors write the rows: the daemon's main thread, which submits    *)
(* and reconciles; its trade-update thread; and command-line processes,    *)
(* which reconcile.  What a caller read before a repository call is in its *)
(* memory and may be stale.  A call that inserts is one action.            *)
(* transition_order is two: SQLite begins the transaction at the UPDATE,   *)
(* after the SELECTs that check the row, and the lock around both is one   *)
(* of threads, not of processes.  The broker is external: it trades,       *)
(* cancels and sends updates, which a disconnect loses and a reconnect may *)
(* repeat.                                                                 *)
(***************************************************************************)
EXTENDS Integers, Sequences, FiniteSetsExt

CONSTANTS
  Sells, Buys,   \* the intents of the decision, by client order id
  Qty,           \* how much an order trades in the end, if it is not canceled
  Daemon,        \* the process with the main loop and the update thread
  Others,        \* command-line processes that reconcile
  MaxFaults      \* bound: disconnects, repeated updates and crashes

Orders == Sells \cup Buys
Procs  == {Daemon} \cup Others

ASSUME LiveOrdersAssumption ==
  /\ IsFiniteSet(Orders) /\ Sells \cap Buys = {} /\ Qty \in [Orders -> Nat \ {0}]
  /\ Daemon \notin Others /\ MaxFaults \in Nat

VARIABLES
  row,      \* broker_orders: state and filled_quantity of an order
  events,   \* order_events: the event keys recorded
  fills,    \* fill_events: the immutable fill ledger
  status,   \* status of the decision
  seen,     \* filled quantities in the last account snapshot recorded
  broker,   \* external: the orders at the broker
  stream,   \* external: trade updates on their way
  main,     \* memory of the main thread
  upd,      \* memory of the update thread
  recon,    \* memory of the reconcilers, by process
  faults
vars == <<row, events, fills, status, seen, broker, stream, main, upd, recon, faults>>
db == <<row, events, fills, status, seen>>

\* TERMINAL_STATES; REJECTED, REPLACED and EXPIRED are reached like CANCELED.
Terminal == {"FILLED", "CANCELED"}
Working  == {"SUBMITTED", "PARTIALLY_FILLED"}

\* _TRANSITIONS
CanTransition(from, to) ==
  CASE from = "LOCALLY_RESERVED"   -> to \in {"SUBMISSION_STARTED"} \cup Working \cup Terminal
    [] from = "SUBMISSION_STARTED" -> to \in {"SUBMISSION_UNKNOWN"} \cup Working \cup Terminal
    [] from \in {"SUBMISSION_UNKNOWN", "SUBMITTED"} -> to \in Working \cup Terminal
    [] from = "PARTIALLY_FILLED"   -> to \in {"PARTIALLY_FILLED", "FILLED", "CANCELED"}
    [] from \in Terminal           -> to = from
    [] OTHER                       -> FALSE

Ended == {"filled", "canceled"}
\* state_for_broker_status
StateFor(s) ==
  CASE s = "new"              -> "SUBMITTED"
    [] s = "partially_filled" -> "PARTIALLY_FILLED"
    [] s = "filled"           -> "FILLED"
    [] s = "canceled"         -> "CANCELED"
    [] OTHER                  -> "RECONCILIATION_REQUIRED"

NoRow == [state |-> "NONE", filled |-> 0]
View(o) == [status |-> broker[o].status, filled |-> broker[o].filled]

\* fill_ledger_totals
Ledger(o) == MapThenSumSet(LAMBDA f : f.qty, {f \in fills : f.order = o})
\* record_fill: fill_id is the primary key.
WithFill(o, id, qty) ==
  IF \E f \in fills : f.order = o /\ f.id = id THEN fills
  ELSE fills \cup {[order |-> o, id |-> id, qty |-> qty]}

\* transition_order checks: a key that is known changes nothing; a state that is
\* not the one the caller read raises ...
Known(key) == key \in events
Lost(o, read) == row[o].state # read
\* ... and writes: the key is unique, so a key known by then undoes the write.
\* Mutant of Moves: the quantity is left to the fill.
MovesState(o, to, filled, key) ==
  /\ row' = [row EXCEPT ![o].state = to]
  /\ events' = events \cup {key}
Moves(o, to, filled, key) ==
  /\ row' = [row EXCEPT ![o] = [state |-> to, filled |-> filled]]
  /\ events' = events \cup {key}

Idle == [pc |-> "idle", todo |-> {}, buying |-> FALSE, order |-> "", read |-> "",
         answer |-> [status |-> "absent", filled |-> 0], ambiguous |-> FALSE]
NoUpdate == [pc |-> "idle", u |-> <<>>, read |-> "", prior |-> 0]
NoRecon == [pc |-> "idle", snap |-> <<>>, rows |-> <<>>, left |-> {}, order |-> "",
            delta |-> 0, blocking |-> FALSE]
-----------------------------------------------------------------------------
(***************************************************************************)
(* submit_intent, by the main thread.                                      *)
(***************************************************************************)
At(pc) == main.pc = pc
\* Database._lock: the threads of the daemon write one after the other.
Locked == main.pc \in {"commit", "commit_unknown"} \/ upd.pc = "commit" \/ recon[Daemon].pc = "commit"

\* reserve_order_intent; a reservation that exists is only looked up.
Reserve(o) ==
  /\ At("next") /\ o \in main.todo
  /\ row' = [row EXCEPT ![o] = IF @ = NoRow THEN [state |-> "LOCALLY_RESERVED", filled |-> 0] ELSE @]
  /\ main' = IF row[o] = NoRow
             THEN [main EXCEPT !.pc = "start", !.order = o, !.todo = @ \ {o}]
             ELSE [main EXCEPT !.todo = @ \ {o}, !.ambiguous = @ \/ broker[o].status = "absent"]
  /\ UNCHANGED <<events, fills, status, seen, broker, stream, upd, recon, faults>>

\* get_orders does not find the order, and the row says SUBMISSION_STARTED before
\* the broker is called; an order that is found is taken over.
Start ==
  LET o == main.order IN
  /\ At("start")
  /\ IF broker[o].status = "absent"
     THEN /\ row' = [row EXCEPT ![o].state = "SUBMISSION_STARTED"]
          /\ main' = [main EXCEPT !.pc = "call"]
     ELSE /\ main' = [main EXCEPT !.pc = "answer", !.answer = View(o)]
          /\ UNCHANGED row
  /\ UNCHANGED <<events, fills, status, seen, broker, stream, upd, recon, faults>>

Update(o, event, filled) == [order |-> o, event |-> event, filled |-> filled]
Accepted(o) ==
  /\ broker' = [broker EXCEPT ![o] = [status |-> "new", filled |-> 0, calls |-> @.calls + 1]]
  /\ stream' = Append(stream, Update(o, "new", 0))

\* submit_order: the answer arrives ...
CallAnswered ==
  /\ At("call") /\ Accepted(main.order)
  /\ main' = [main EXCEPT !.pc = "answer", !.answer = [status |-> "new", filled |-> 0]]
  /\ UNCHANGED <<row, events, fills, status, seen, upd, recon, faults>>

\* Mutant of CallRaises: the call is made again.
CallRaisesRetried(accepted) ==
  /\ At("call") /\ broker[main.order].calls < 2
  /\ IF accepted THEN Accepted(main.order)
     ELSE broker' = [broker EXCEPT ![main.order].calls = @ + 1] /\ UNCHANGED stream
  /\ UNCHANGED <<row, events, fills, status, seen, main, upd, recon, faults>>
\* ... or any exception, before or after the order was accepted.
CallRaises(accepted) ==
  /\ At("call")
  /\ IF accepted THEN Accepted(main.order)
     ELSE /\ broker' = [broker EXCEPT ![main.order].calls = @ + 1]
          /\ UNCHANGED stream
  /\ main' = [main EXCEPT !.pc = "unknown"]
  /\ UNCHANGED <<row, events, fills, status, seen, upd, recon, faults>>

\* A failure: run_once closes the decision as rejected; a resumed one stays pending.
Fails ==
  /\ main' = Idle
  /\ status' = IF status = "execution_pending" THEN status ELSE "rejected"

\* _transition reads the row and validates; the write is a transaction of its own.
Target == IF At("unknown") THEN "SUBMISSION_UNKNOWN" ELSE StateFor(main.answer.status)
Validate ==
  /\ main.pc \in {"answer", "unknown"}
  /\ IF CanTransition(row[main.order].state, Target)
     THEN /\ main' = [main EXCEPT !.pc = IF At("unknown") THEN "write_unknown" ELSE "write",
                                  !.read = row[main.order].state]
          /\ UNCHANGED status
     ELSE Fails
  /\ UNCHANGED <<row, events, fills, seen, broker, stream, upd, recon, faults>>

Answered == [Idle EXCEPT !.pc = "next", !.todo = main.todo, !.buying = main.buying,
                         !.ambiguous = main.ambiguous]
Check ==
  /\ main.pc \in {"write", "write_unknown"} /\ ~Locked
  /\ IF Lost(main.order, main.read) THEN Fails
     ELSE /\ main' = [main EXCEPT !.pc = IF At("write") THEN "commit" ELSE "commit_unknown"]
          /\ UNCHANGED status
  /\ UNCHANGED <<row, events, fills, seen, broker, stream, upd, recon, faults>>

Write ==
  LET a == main.answer IN
  /\ At("commit")
  /\ Moves(main.order, StateFor(a.status), a.filled, <<"response", main.order, a.status, a.filled>>)
  /\ main' = Answered
  /\ UNCHANGED <<fills, status, seen, broker, stream, upd, recon, faults>>

WriteUnknown ==
  /\ At("commit_unknown")
  /\ row' = [row EXCEPT ![main.order].state = "SUBMISSION_UNKNOWN"]
  /\ main' = [Answered EXCEPT !.ambiguous = TRUE]
  /\ UNCHANGED <<events, fills, status, seen, broker, stream, upd, recon, faults>>
-----------------------------------------------------------------------------
(***************************************************************************)
(* execute, and what the cycle makes of it.                                *)
(***************************************************************************)
\* Reconciler.run begins with what the broker says.
BeginRecon(p) ==
  recon' = [recon EXCEPT ![p] = [NoRecon EXCEPT !.pc = "local", !.snap = [o \in Orders |-> View(o)]]]

\* The sell leg is submitted: reconcile_after_sells.
SellsSubmitted ==
  /\ At("next") /\ main.todo = {} /\ ~main.buying
  /\ IF Sells = {} THEN main' = [main EXCEPT !.todo = Buys, !.buying = TRUE] /\ UNCHANGED recon
     ELSE main' = [main EXCEPT !.pc = "reconciling"] /\ BeginRecon(Daemon)
  /\ UNCHANGED <<db, broker, stream, upd, faults>>

SellsEnded == \A o \in Sells : row[o].state \in Terminal \cup {"NONE"}

\* Mutant of AfterSells: only the reconciliation counts.
AfterSellsUnchecked ==
  /\ At("reconciling") /\ recon[Daemon].pc = "done"
  /\ main' = IF recon[Daemon].blocking THEN [main EXCEPT !.pc = "close"]
             ELSE [main EXCEPT !.pc = "next", !.todo = Buys, !.buying = TRUE]
  /\ recon' = [recon EXCEPT ![Daemon] = NoRecon]
  /\ UNCHANGED <<db, broker, stream, upd, faults>>
\* Cash from an unfilled reduction is never presumed available.
AfterSells ==
  /\ At("reconciling") /\ recon[Daemon].pc = "done"
  /\ main' = IF recon[Daemon].blocking \/ ~SellsEnded THEN [main EXCEPT !.pc = "close"]
             ELSE [main EXCEPT !.pc = "next", !.todo = Buys, !.buying = TRUE]
  /\ recon' = [recon EXCEPT ![Daemon] = NoRecon]
  /\ UNCHANGED <<db, broker, stream, upd, faults>>

\* Both legs, or the sells alone, are through.
Executed == At("close") \/ (At("next") /\ main.todo = {} /\ main.buying)

\* An ambiguous cycle reconciles once more before it is closed.
Ambiguous ==
  /\ Executed /\ main.ambiguous
  /\ main' = [main EXCEPT !.pc = "closing"] /\ BeginRecon(Daemon)
  /\ UNCHANGED <<db, broker, stream, upd, faults>>

Unreserved == {o \in Buys : row[o] = NoRow}
Close ==
  /\ \/ Executed /\ ~main.ambiguous /\ UNCHANGED recon
     \/ At("closing") /\ recon[Daemon].pc = "done" /\ recon' = [recon EXCEPT ![Daemon] = NoRecon]
  /\ status' = CASE main.ambiguous -> "submission_unknown"
                 [] ~main.ambiguous /\ Unreserved # {} -> "execution_pending"
                 [] OTHER -> "submitted"
  /\ main' = Idle
  /\ UNCHANGED <<row, events, fills, seen, broker, stream, upd, faults>>

\* reconcile raises inside the cycle.
CycleRaises ==
  /\ main.pc \in {"reconciling", "closing"} /\ recon[Daemon].pc = "raised"
  /\ Fails /\ recon' = [recon EXCEPT ![Daemon] = NoRecon]
  /\ UNCHANGED <<row, events, fills, seen, broker, stream, upd, faults>>

\* _resume_pending_executions: the sells have ended, then reconcile ...
Resume ==
  /\ At("idle") /\ recon[Daemon].pc = "idle" /\ status = "execution_pending"
  /\ \A o \in Sells : row[o].state \in Terminal
  /\ main' = [main EXCEPT !.pc = "resuming"] /\ BeginRecon(Daemon)
  /\ UNCHANGED <<db, broker, stream, upd, faults>>

\* ... then the gate, which may refuse for reasons of its own.
Resumed(refused) ==
  /\ At("resuming") /\ recon[Daemon].pc \in {"done", "raised"}
  /\ main' = IF refused \/ recon[Daemon].pc = "raised" \/ recon[Daemon].blocking THEN Idle
             ELSE [main EXCEPT !.pc = "next", !.todo = Unreserved, !.buying = TRUE]
  /\ recon' = [recon EXCEPT ![Daemon] = NoRecon]
  /\ UNCHANGED <<db, broker, stream, upd, faults>>

\* A pending buy leg is given up after its cutoff.
Abandon ==
  /\ At("idle") /\ recon[Daemon].pc = "idle" /\ status = "execution_pending"
  /\ status' = "buy_leg_abandoned"
  /\ UNCHANGED <<row, events, fills, seen, broker, stream, main, upd, recon, faults>>
-----------------------------------------------------------------------------
(***************************************************************************)
(* process_trade_update, by the update thread.                             *)
(***************************************************************************)
UpdateKey(u) == <<"update", u.order, u.event, u.filled>>

\* An event that is known is skipped; an invalid transition raises, and the
\* update is gone.
Deliver ==
  LET u == Head(stream) IN
  /\ upd.pc = "idle" /\ stream # <<>>
  /\ stream' = Tail(stream)
  /\ upd' = IF Known(UpdateKey(u)) \/ ~CanTransition(row[u.order].state, StateFor(u.event))
            THEN NoUpdate
            ELSE [pc |-> "write", u |-> u, read |-> row[u.order].state, prior |-> row[u.order].filled]
  /\ UNCHANGED <<db, broker, main, recon, faults>>

Delta == upd.u.filled - upd.prior
CheckUpdate ==
  /\ upd.pc = "write" /\ ~Locked
  /\ upd' = IF Known(UpdateKey(upd.u)) \/ Lost(upd.u.order, upd.read) THEN NoUpdate
            ELSE [upd EXCEPT !.pc = "commit"]
  /\ UNCHANGED <<db, broker, stream, main, recon, faults>>

ApplyUpdate ==
  LET u == upd.u  to == StateFor(u.event) IN
  /\ upd.pc = "commit"
  /\ Moves(u.order, to, u.filled, UpdateKey(u))
  /\ upd' = IF to \in {"PARTIALLY_FILLED", "FILLED"} /\ Delta > 0
            THEN [upd EXCEPT !.pc = "fill"] ELSE NoUpdate
  /\ UNCHANGED <<fills, status, seen, broker, stream, main, recon, faults>>

RecordFill ==
  /\ upd.pc = "fill" /\ ~Locked
  /\ fills' = WithFill(upd.u.order, <<"execution", upd.u.filled>>, Delta)
  /\ upd' = NoUpdate
  /\ UNCHANGED <<row, events, status, seen, broker, stream, main, recon, faults>>
-----------------------------------------------------------------------------
(***************************************************************************)
(* Reconciler.run, by process p.                                           *)
(***************************************************************************)
\* The reconciliation monitor of the main loop, or the command line.
Monitor(p) ==
  /\ recon[p].pc = "idle" /\ (p = Daemon => At("idle"))
  /\ BeginRecon(p)
  /\ UNCHANGED <<db, broker, stream, main, upd, faults>>

AtBroker(r) == {o \in Orders : r.snap[o].status # "absent"}
\* local_order_missing_at_broker
Missing(r, rows) ==
  \E o \in Orders \ AtBroker(r) :
    rows[o].state \notin Terminal \cup {"NONE", "LOCALLY_RESERVED"}
\* The position and cash comparison: what traded since the last snapshot recorded.
Moved(r) == \E o \in Orders : r.snap[o].filled # seen[o]

ReadLocal(p) ==
  LET r == recon[p] IN
  /\ r.pc = "local"
  /\ recon' = [recon EXCEPT ![p] = [r EXCEPT !.pc = "loop", !.rows = row, !.left = AtBroker(r),
                                             !.blocking = Missing(r, row) \/ Moved(r)]]
  /\ UNCHANGED <<db, broker, stream, main, upd, faults>>

Advances(l, b) ==
  /\ CanTransition(l.state, StateFor(b.status))
  /\ l.state # StateFor(b.status) \/ l.filled # b.filled
Conflicts(l, b) ==
  \/ l.filled # b.filled
  \/ l.state # StateFor(b.status) /\ ~Advances(l, b)

\* Mutant of Compared: the deficit is the one of the row that was read.
ComparedRow(r, o) ==
  LET d == r.snap[o].filled - r.rows[o].filled IN
  [r EXCEPT !.pc = IF d > 0 THEN "repair" ELSE "loop", !.left = @ \ {o},
            !.order = IF d > 0 THEN o ELSE "", !.delta = IF d > 0 THEN d ELSE 0,
            !.blocking = @ \/ d < 0 \/ Conflicts(r.rows[o], r.snap[o])]
\* The ledger compared with the order fetched: a deficit is repaired, in a
\* transaction of its own, and a surplus blocks.
Compared(r, o) ==
  LET d == r.snap[o].filled - Ledger(o) IN
  [r EXCEPT !.pc = IF d > 0 THEN "repair" ELSE "loop", !.left = @ \ {o},
            !.order = IF d > 0 THEN o ELSE "", !.delta = IF d > 0 THEN d ELSE 0,
            !.blocking = @ \/ d < 0 \/ Conflicts(r.rows[o], r.snap[o])]

ReconcileKey(o, b) == <<"reconcile", o, b.status, b.filled>>
\* One order: the row follows the broker, unless it changed since it was read ...
Advance(p) ==
  LET r == recon[p]  o == CHOOSE x \in r.left : TRUE  l == r.rows[o]  b == r.snap[o] IN
  /\ r.pc = "loop" /\ r.left # {} /\ (p = Daemon => ~Locked)
  /\ recon' = [recon EXCEPT ![p] =
       CASE ~Advances(l, b) \/ Known(ReconcileKey(o, b))                  -> Compared(r, o)
         [] Advances(l, b) /\ ~Known(ReconcileKey(o, b)) /\ Lost(o, l.state) -> [NoRecon EXCEPT !.pc = "raised"]
         [] OTHER                                               -> [r EXCEPT !.pc = "commit", !.order = o]]
  /\ UNCHANGED <<db, broker, stream, main, upd, faults>>

\* ... or since it was checked; only the key is guarded.
CommitAdvance(p) ==
  LET r == recon[p]  o == r.order  b == r.snap[o]  key == ReconcileKey(o, b) IN
  /\ r.pc = "commit"
  /\ IF Known(key) THEN /\ recon' = [recon EXCEPT ![p] = [NoRecon EXCEPT !.pc = "raised"]]
                        /\ UNCHANGED <<row, events>>
     ELSE /\ Moves(o, StateFor(b.status), b.filled, key)
          /\ recon' = [recon EXCEPT ![p] = Compared(r, o)]
  /\ UNCHANGED <<fills, status, seen, broker, stream, main, upd, faults>>

Repair(p) ==
  LET r == recon[p] IN
  /\ r.pc = "repair"
  /\ fills' = WithFill(r.order, <<"reconciliation", r.snap[r.order].filled>>, r.delta)
  /\ recon' = [recon EXCEPT ![p].pc = "loop", ![p].order = "", ![p].delta = 0]
  /\ UNCHANGED <<row, events, status, seen, broker, stream, main, upd, faults>>

\* The result and then the account snapshot are recorded.  Who called for the
\* result of the main thread reads it; a monitor's result is only evidence.
Finish(p) ==
  LET r == recon[p] IN
  /\ r.pc = "loop" /\ r.left = {}
  /\ seen' = [o \in Orders |-> r.snap[o].filled]
  /\ recon' = [recon EXCEPT ![p] = IF p = Daemon /\ ~At("idle")
                                   THEN [NoRecon EXCEPT !.pc = "done", !.blocking = r.blocking]
                                   ELSE NoRecon]
  /\ UNCHANGED <<row, events, fills, status, broker, stream, main, upd, faults>>

\* The risk monitor, the market close and a process that starts record the account
\* and the positions too, as they read them after their last reconciliation.
ReadAccount(p) ==
  /\ recon[p].pc = "idle" /\ (p = Daemon => At("idle"))
  /\ recon' = [recon EXCEPT ![p] = [NoRecon EXCEPT !.pc = "account", !.snap = [o \in Orders |-> View(o)]]]
  /\ UNCHANGED <<db, broker, stream, main, upd, faults>>

RecordAccount(p) ==
  /\ recon[p].pc = "account"
  /\ seen' = [o \in Orders |-> recon[p].snap[o].filled]
  /\ recon' = [recon EXCEPT ![p] = NoRecon]
  /\ UNCHANGED <<row, events, fills, status, broker, stream, main, upd, faults>>

\* A monitor that raised records an incident and is due again.
MonitorFailed(p) ==
  /\ recon[p].pc = "raised" /\ (p = Daemon => At("idle"))
  /\ recon' = [recon EXCEPT ![p] = NoRecon]
  /\ UNCHANGED <<db, broker, stream, main, upd, faults>>
-----------------------------------------------------------------------------
(***************************************************************************)
(* The broker, the connection and crashes.                                 *)
(***************************************************************************)
Open(o) == broker[o].status \in {"new", "partially_filled"}
Trade(o) ==
  LET f == broker[o].filled + 1  s == IF f = Qty[o] THEN "filled" ELSE "partially_filled" IN
  /\ Open(o)
  /\ broker' = [broker EXCEPT ![o].status = s, ![o].filled = f]
  /\ stream' = Append(stream, Update(o, s, f))
  /\ UNCHANGED <<db, main, upd, recon, faults>>

\* cancel_all_orders of a halt or a risk latch, or the broker ends the order.
End(o) ==
  /\ Open(o)
  /\ broker' = [broker EXCEPT ![o].status = "canceled"]
  /\ stream' = Append(stream, Update(o, "canceled", broker[o].filled))
  /\ UNCHANGED <<db, main, upd, recon, faults>>

Fault(n) == faults < MaxFaults /\ faults' = faults + n

Disconnect ==
  /\ Fault(1) /\ stream # <<>> /\ stream' = <<>>
  /\ UNCHANGED <<db, broker, main, upd, recon>>

Repeat ==
  /\ Fault(1) /\ stream # <<>> /\ stream' = Append(stream, Head(stream))
  /\ UNCHANGED <<db, broker, main, upd, recon>>

\* The daemon dies and is started again: a decision that is not
\* execution_pending is not taken up again.
Crash ==
  /\ Fault(1)
  /\ main' = Idle /\ upd' = NoUpdate /\ stream' = <<>>
  /\ recon' = [recon EXCEPT ![Daemon] = NoRecon]
  /\ UNCHANGED <<db, broker>>

\* The decision is authorized, and its receipt written.
Init ==
  /\ row = [o \in Orders |-> NoRow] /\ events = {} /\ fills = {}
  /\ status = "submission_authorized" /\ seen = [o \in Orders |-> 0]
  /\ broker = [o \in Orders |-> [status |-> "absent", filled |-> 0, calls |-> 0]]
  /\ stream = <<>>
  /\ main = [Idle EXCEPT !.pc = "next", !.todo = Sells]
  /\ upd = NoUpdate /\ recon = [p \in Procs |-> NoRecon] /\ faults = 0

MainStep ==
  \/ \E o \in Orders : Reserve(o)
  \/ Start \/ CallAnswered \/ (\E a \in BOOLEAN : CallRaises(a))
  \/ Validate \/ Check \/ Write \/ WriteUnknown
  \/ SellsSubmitted \/ AfterSells \/ Ambiguous \/ Close \/ CycleRaises
  \/ Resume \/ (\E refused \in BOOLEAN : Resumed(refused)) \/ Abandon
UpdateStep == Deliver \/ CheckUpdate \/ ApplyUpdate \/ RecordFill
ReconStep(p) ==
  \/ ReadLocal(p) \/ Advance(p) \/ CommitAdvance(p) \/ Repair(p)
  \/ Finish(p) \/ RecordAccount(p) \/ MonitorFailed(p)

Next ==
  \/ MainStep \/ UpdateStep
  \/ \E p \in Procs : Monitor(p) \/ ReadAccount(p) \/ ReconStep(p)
  \/ \E o \in Orders : Trade(o) \/ End(o)
  \/ Disconnect \/ Repeat \/ Crash

Spec == Init /\ [][Next]_vars
-----------------------------------------------------------------------------
(***************************************************************************)
(* Properties.                                                             *)
(***************************************************************************)

\* An intent is sent to the broker at most once, whatever raises, crashes or is
\* resumed (submit_intent: "Submit at most once").
SubmittedOnce == \A o \in Orders : broker[o].calls <= 1

\* A terminal row is the truth about an order that has ended, with all it traded,
\* although stale updates and stale reconciliations write rows.
TerminalIsTrue ==
  \A o \in Orders : row[o].state \in Terminal =>
    /\ broker[o].status \in Ended /\ StateFor(broker[o].status) = row[o].state
    /\ row[o].filled = broker[o].filled

\* No buy is sent while a sell may still trade, also when the buys are resumed
\* by a later process of the daemon.
BuysAfterSells ==
  \A b \in Buys, s \in Sells : broker[b].calls > 0 => broker[s].status \in Ended

\* A reconciliation records its result only when the ledger holds all that the orders
\* had traded when it began, although an update that has moved a row may have died
\* before its fill, and other reconcilers repair the same deficit.
LedgerRepaired ==
  \A p \in Procs : recon[p].pc = "loop" /\ recon[p].left = {} =>
    \A o \in Orders : Ledger(o) >= recon[p].snap[o].filled
=============================================================================
