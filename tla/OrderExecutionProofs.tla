------------------------ MODULE OrderExecutionProofs ------------------------
(***************************************************************************)
(* Proofs about OrderExecution, for any plan, any number of processes and  *)
(* any quantity.                                                           *)
(***************************************************************************)
EXTENDS OrderExecution, TLAPS

Unsent == {"PLANNED", "INTENT_COMMITTED"}

(***************************************************************************)
(* The inductive invariant.                                                *)
(***************************************************************************)
\* An intent that is not claimed was never sent and has no executions.
Fresh == \A c \in Orders : order[c].state \in Unsent => sends[c] = 0 /\ order[c].filled = 0

\* A process about to send has claimed the order, and nobody sent it before.
Claimed ==
  \A p \in Procs : proc[p].pc = "started" =>
    order[proc[p].order].state \notin Unsent /\ sends[proc[p].order] = 0

\* Two processes never hold a claim of one order.
Sole ==
  \A p \in Procs, q \in Procs :
    p # q /\ proc[p].pc = "started" /\ proc[q].pc = "started" => proc[p].order # proc[q].order

\* A snapshot the ledger still agrees with is a clear one.
Authority ==
  \A p \in Procs : proc[p].pc = "authorized" /\ proc[p].current =>
    /\ \A d \in Orders : order[d].state \notin Unsettled
    /\ proc[p].order \in Entries => ~proc[p].latched

\* A response in memory is a past or the present state of the broker's order.
Past(u, b) ==
  /\ u \in Update /\ u.filled <= b.filled
  /\ u.state \in Terminal => b.state = u.state /\ b.filled = u.filled
Held ==
  /\ \A p \in Procs : proc[p].pc = "applying" => Past(proc[p].update, book[proc[p].order])
  /\ \A p \in Procs : proc[p].pc = "canceled" => book[proc[p].order] \in Update

IInv == /\ TypeOK /\ Fresh /\ Claimed /\ Sole /\ SubmittedOnce /\ Authority /\ Held
        /\ LedgerIsTrue
-----------------------------------------------------------------------------
(***************************************************************************)
(* The values that the actions build have their types.                     *)
(***************************************************************************)

\* The memory of a process between two calls, and in one.
LEMMA MemoryType ==
  /\ Idle \in Proc /\ Idle.pc = "idle" /\ ~Idle.current
  /\ \A pc \in PC, c \in Orders, t \in 0..MaxTime :
       /\ At(pc, c, t) \in Proc /\ At(pc, c, t).pc = pc
       /\ At(pc, c, t).order = c /\ ~At(pc, c, t).current
  <1>1. (CHOOSE c \in Orders : TRUE) \in Orders
    BY ExecutionAssumption DEF ExecutionAssumption
  <1>2. 0 \in 0..MaxTime /\ NoBooking \in Booking
    BY ExecutionAssumption DEF ExecutionAssumption, Booking
  <1>3. Idle \in Proc /\ Idle.pc = "idle" /\ ~Idle.current
    BY <1>1, <1>2 DEF Idle, Proc, PC
  <1> QED BY <1>3 DEF At, Proc

\* The memory of a process that holds an authority snapshot.
LEMMA SnapshotType ==
  ASSUME NEW m \in Proc, NEW l \in BOOLEAN
  PROVE  LET a == [m EXCEPT !.current = TRUE, !.latched = l] IN
         a \in Proc /\ a.pc = m.pc /\ a.order = m.order /\ a.latched = l
  BY DEF Proc

\* A broker order is an update, or the broker has none.
LEMMA BookingIsUpdate ==
  ASSUME NEW b \in Booking, b.state # "NONE" \/ b.state \in Reported
  PROVE  b \in Update /\ Past(b, b)
  <1>1. b \in Update
    BY DEF Booking, NoBooking, Reported, Terminal
  <1> QED BY <1>1, ExecutionAssumption DEF ExecutionAssumption, Past, Update

\* The row of an order that is only planned.
LEMMA NoOrderType == NoOrder \in OrderRow
  <1>1. 0 \in 0..MaxQty /\ 0 \in 0..MaxTime
    BY ExecutionAssumption DEF ExecutionAssumption
  <1>2. {} \in SUBSET Update /\ "PLANNED" \in OrderState
    BY DEF OrderState
  <1> QED BY <1>1, <1>2 DEF NoOrder, OrderRow

\* The rows that local transitions and broker updates write.
LEMMA RowType ==
  ASSUME TypeOK, NEW c \in Orders
  PROVE  /\ \A s \in OrderState, t \in 0..MaxTime :
              /\ Moved(c, s, t) \in OrderRow /\ Moved(c, s, t).state = s
              /\ Moved(c, s, t).filled = order[c].filled
         /\ \A u \in Update :
              /\ Applied(c, u) \in OrderRow /\ Applied(c, u).state = u.state
              /\ Applied(c, u).filled = u.filled
  <1>1. order[c] \in OrderRow
    BY DEF TypeOK
  <1>2. Reported \subseteq OrderState
    BY DEF OrderState
  <1> QED BY <1>1, <1>2 DEF Moved, Applied, OrderRow, Update
-----------------------------------------------------------------------------
(***************************************************************************)
(* The three kinds of step: a transaction on one order, a step in one      *)
(* process's memory, and a step of the broker.                             *)
(***************************************************************************)

\* A transaction that claims, advances or ends an order in its broker's terms.
LEMMA CommitStep ==
  ASSUME IInv, NEW p \in Procs, NEW c \in Orders, NEW row \in OrderRow, NEW m \in Proc,
         Commit(p, c, row, m),
         row.state \notin Unsent,
         row.filled <= book[c].filled,
         row.state \in Terminal => row.state = book[c].state /\ row.filled = book[c].filled,
         m.pc \in {"idle", "started", "canceling"}, ~m.current,
         m.pc = "started" => m.order = c /\ order[c].state \in Unsent
  PROVE  IInv'
  <1> USE DEF Commit
  <1> DEFINE stale(q) == [proc[q] EXCEPT !.current = FALSE]
  <1>1. /\ order[c] \in OrderRow
        /\ \A q \in Procs : proc[q] \in Proc /\ proc[q].order \in Orders
    BY DEF IInv, TypeOK, Proc
  <1>2. \A q \in Procs :
          /\ stale(q) \in Proc /\ stale(q).pc = proc[q].pc /\ stale(q).order = proc[q].order
          /\ stale(q).update = proc[q].update /\ ~stale(q).current
    BY <1>1 DEF Proc
  <1>3. \A q \in Procs : proc'[q] = IF q = p THEN m ELSE stale(q)
    OBVIOUS
  <1> HIDE DEF stale
  <1>4. \A d \in Orders : order'[d] = IF d = c THEN row ELSE order[d]
    BY DEF IInv, TypeOK
  <1>5. TypeOK'
    <2>1. order' \in [Orders -> OrderRow]
      BY DEF IInv, TypeOK
    <2>2. proc' \in [Procs -> Proc]
      BY <1>2, <1>3
    <2> QED BY <2>1, <2>2 DEF IInv, TypeOK
  <1>6. Fresh'
    BY <1>4 DEF IInv, Fresh
  <1>7. Claimed'
    BY <1>1, <1>2, <1>3, <1>4 DEF IInv, Claimed, Fresh
  <1>8. Sole'
    <2> SUFFICES ASSUME NEW q \in Procs, NEW r \in Procs, q # r,
                        proc'[q].pc = "started", proc'[r].pc = "started"
                 PROVE  proc'[q].order # proc'[r].order
      BY DEF Sole
    <2>1. CASE q = p
      BY <2>1, <1>1, <1>2, <1>3 DEF IInv, Claimed
    <2>2. CASE r = p
      BY <2>2, <1>1, <1>2, <1>3 DEF IInv, Claimed
    <2>3. CASE q # p /\ r # p
      BY <2>3, <1>2, <1>3 DEF IInv, Sole
    <2> QED BY <2>1, <2>2, <2>3
  <1>9. SubmittedOnce' /\ LedgerIsTrue'
    BY <1>4 DEF IInv, SubmittedOnce, LedgerIsTrue
  <1>10. Authority'
    BY <1>2, <1>3 DEF Authority
  <1>11. Held'
    BY <1>2, <1>3 DEF IInv, Held
  <1> QED BY <1>5, <1>6, <1>7, <1>8, <1>9, <1>10, <1>11 DEF IInv

\* A step in a process's memory that makes no claim.
LEMMA MemoryStep ==
  ASSUME IInv, NEW p \in Procs, NEW m \in Proc, Becomes(p, m),
         m.pc # "started", m.pc # "canceled",
         m.pc = "authorized" =>
           /\ \A d \in Orders : order[d].state \notin Unsettled
           /\ m.order \in Entries => ~m.latched,
         m.pc = "applying" => Past(m.update, book[m.order])
  PROVE  IInv'
  <1> USE DEF Becomes
  <1>1. \A q \in Procs : proc'[q] = IF q = p THEN m ELSE proc[q]
    BY DEF IInv, TypeOK
  <1>2. TypeOK'
    BY DEF IInv, TypeOK
  <1>3. Fresh' /\ SubmittedOnce' /\ LedgerIsTrue'
    BY DEF IInv, Fresh, SubmittedOnce, LedgerIsTrue
  <1>4. Claimed' /\ Sole'
    BY <1>1 DEF IInv, Claimed, Sole
  <1>5. Authority'
    BY <1>1 DEF IInv, Authority
  <1>6. Held'
    BY <1>1 DEF IInv, Held
  <1> QED BY <1>2, <1>3, <1>4, <1>5, <1>6 DEF IInv

\* The broker's order moves on: an end stays, and executions are not undone.
LEMMA BookStep ==
  ASSUME IInv, NEW c \in Orders, NEW b \in Booking,
         book' = [book EXCEPT ![c] = b],
         book[c].filled <= b.filled,
         book[c].state \notin Terminal \/ b = book[c],
         book[c] \in Update => b \in Update,
         UNCHANGED <<now, order, latch, proc, sends>>, inflight' \subseteq inflight
  PROVE  IInv'
  <1>1. \A d \in Orders : book'[d] = IF d = c THEN b ELSE book[d]
    BY DEF IInv, TypeOK
  <1>2. TypeOK'
    BY DEF IInv, TypeOK
  <1>3. Fresh' /\ Claimed' /\ Sole' /\ SubmittedOnce' /\ Authority'
    BY DEF IInv, Fresh, Claimed, Sole, SubmittedOnce, Authority
  <1>4. LedgerIsTrue'
    <2> SUFFICES ASSUME NEW d \in Orders
                 PROVE  /\ order[d].filled <= book'[d].filled
                        /\ order[d].state \in Terminal =>
                             order[d].state = book'[d].state /\ order[d].filled = book'[d].filled
      BY DEF LedgerIsTrue
    <2>1. /\ order[d].filled \in Nat /\ order[d].filled <= book[d].filled
          /\ order[d].state \in Terminal =>
               order[d].state = book[d].state /\ order[d].filled = book[d].filled
      BY ExecutionAssumption DEF ExecutionAssumption, IInv, TypeOK, OrderRow, LedgerIsTrue
    <2>2. book[d].filled \in Nat /\ b.filled \in Nat
      BY ExecutionAssumption DEF ExecutionAssumption, IInv, TypeOK, Booking, Update, NoBooking
    <2> QED BY <1>1, <2>1, <2>2
  <1>5. Held'
    <2>1. ASSUME NEW p \in Procs, proc'[p].pc = "applying"
          PROVE  Past(proc'[p].update, book'[proc'[p].order])
      <3> DEFINE u == proc[p].update  d == proc[p].order
      <3>1. d \in Orders /\ Past(u, book[d]) /\ book[d] \in Booking
        BY <2>1 DEF IInv, TypeOK, Proc, Held
      <3>2. u.filled \in Nat /\ book[d].filled \in Nat /\ b.filled \in Nat
        BY <3>1, ExecutionAssumption
        DEF ExecutionAssumption, Past, Booking, Update, NoBooking
      <3> QED BY <1>1, <3>1, <3>2 DEF Past
    <2>2. ASSUME NEW p \in Procs, proc'[p].pc = "canceled"
          PROVE  book'[proc'[p].order] \in Update
      BY <1>1, <2>2 DEF IInv, TypeOK, Proc, Held
    <2> QED BY <2>1, <2>2 DEF Held
  <1> QED BY <1>2, <1>3, <1>4, <1>5 DEF IInv
-----------------------------------------------------------------------------
(***************************************************************************)
(* One lemma per kind of action.                                           *)
(***************************************************************************)

\* The actions that only change what a process holds.
LEMMA MemoryActions ==
  ASSUME IInv, NEW p \in Procs,
         \/ \E c \in Orders : Authorize(p, c) \/ Lookup(p, c)
         \/ Answer(p) \/ CancelAnswer(p) \/ Abort(p)
  PROVE  IInv'
  <1>1. now \in 0..MaxTime /\ latch \in BOOLEAN /\ proc[p].order \in Orders
        /\ \A c \in Orders : book[c] \in Booking
    BY DEF IInv, TypeOK, Proc
  <1>2. ASSUME NEW c \in Orders, Authorize(p, c) PROVE IInv'
    <2> DEFINE m == [At("authorized", c, now) EXCEPT !.current = TRUE, !.latched = latch]
    <2>1. "authorized" \in PC
      BY DEF PC
    <2>2. m \in Proc /\ m.pc = "authorized" /\ m.order = c /\ m.latched = latch
      <3>1. /\ At("authorized", c, now) \in Proc /\ At("authorized", c, now).pc = "authorized"
            /\ At("authorized", c, now).order = c
        BY <1>1, <2>1, MemoryType
      <3> QED BY <1>1, <3>1, SnapshotType
    <2>3. Becomes(p, m) /\ Safe(c)
      BY <1>2 DEF Authorize
    <2> HIDE DEF m
    <2> QED BY <2>2, <2>3, MemoryStep DEF Safe
  <1>3. ASSUME NEW c \in Orders, book[c].state # "NONE" \/ book[c] \in Update,
               Becomes(p, Response(c))
        PROVE  IInv'
    <2>1. book[c] \in Booking /\ book[c] \in Update /\ Past(book[c], book[c])
      BY <1>1, <1>3, BookingIsUpdate DEF Update
    <2>2. /\ Response(c) \in Proc /\ Response(c).pc = "applying"
          /\ Response(c).order = c /\ Response(c).update = book[c]
      BY <2>1, MemoryType DEF Response, Proc, PC
    <2> QED BY <1>3, <2>1, <2>2, MemoryStep
  <1>4. ASSUME NEW c \in Orders, Lookup(p, c) PROVE IInv'
    <2>1. CASE book[c].state = "NONE"
      <3>1. Becomes(p, At("missing", c, now)) /\ "missing" \in PC
        BY <1>4, <2>1 DEF Lookup, PC
      <3>2. At("missing", c, now) \in Proc /\ At("missing", c, now).pc = "missing"
        BY <1>1, <3>1, MemoryType
      <3> QED BY <3>1, <3>2, MemoryStep
    <2>2. CASE book[c].state # "NONE"
      <3>1. Becomes(p, Response(c))
        BY <1>4, <2>2 DEF Lookup
      <3> QED BY <1>3, <2>2, <3>1
    <2> QED BY <2>1, <2>2
  <1>5. CASE Answer(p)
    BY <1>1, <1>3, <1>5 DEF Answer
  <1>6. CASE CancelAnswer(p)
    <2>1. book[proc[p].order] \in Update /\ Becomes(p, Response(proc[p].order))
      BY <1>6 DEF CancelAnswer, IInv, Held
    <2> QED BY <1>1, <1>3, <2>1
  <1>7. CASE Abort(p)
    BY <1>7, MemoryType, MemoryStep DEF Abort
  <1> QED BY <1>2, <1>4, <1>5, <1>6, <1>7

\* A local transition into a state that is neither an end nor unsent.
LEMMA LocalTransition ==
  ASSUME IInv, NEW p \in Procs, NEW c \in Orders, NEW t \in 0..MaxTime, NEW m \in Proc,
         NEW s \in {"SUBMISSION_STARTED", "SUBMISSION_UNKNOWN", "RECONCILIATION_REQUIRED",
                    "CANCEL_REQUESTED"},
         Commit(p, c, Moved(c, s, t), m),
         m.pc \in {"idle", "started", "canceling"}, ~m.current,
         m.pc = "started" => m.order = c /\ order[c].state \in Unsent
  PROVE  IInv'
  <1>1. s \in OrderState /\ s \notin Unsent /\ s \notin Terminal
    BY DEF OrderState, Unsettled, Ambiguous, Unsent, Terminal
  <1>2. /\ Moved(c, s, t) \in OrderRow /\ Moved(c, s, t).state = s
        /\ Moved(c, s, t).filled <= book[c].filled
    BY <1>1, RowType DEF IInv, LedgerIsTrue
  <1> QED BY <1>1, <1>2, CommitStep

\* The ledger's transactions.
LEMMA LedgerActions ==
  ASSUME IInv, NEW p \in Procs,
         \/ \E c \in Orders : RequestCancel(p, c)
         \/ Start(p) \/ RecordUnknown(p) \/ Doubt(p) \/ Apply(p)
  PROVE  IInv'
  <1>1. /\ now \in 0..MaxTime /\ proc[p].order \in Orders /\ proc[p].at \in 0..MaxTime
        /\ {"idle", "started", "canceling"} \subseteq PC
    BY DEF IInv, TypeOK, Proc, PC
  <1>2. ASSUME NEW c \in Orders, RequestCancel(p, c) PROVE IInv'
    <2> DEFINE m == At("canceling", c, now)
    <2>1. m \in Proc /\ m.pc = "canceling" /\ ~m.current
      BY <1>1, MemoryType
    <2>2. \/ Commit(p, c, Moved(c, "CANCEL_REQUESTED", now), m)
          \/ Becomes(p, m)
      BY <1>2 DEF RequestCancel
    <2> HIDE DEF m
    <2> QED BY <1>1, <2>1, <2>2, LocalTransition, MemoryStep
  <1>3. CASE Start(p)
    <2> DEFINE c == proc[p].order  t == proc[p].at  m == At("started", c, t)
    <2>1. m \in Proc /\ m.pc = "started" /\ ~m.current /\ m.order = c
      BY <1>1, MemoryType
    <2>2. Commit(p, c, Moved(c, "SUBMISSION_STARTED", t), m) /\ order[c].state \in Unsent
      BY <1>3 DEF Start, Unsent
    <2> HIDE DEF m
    <2> QED BY <1>1, <2>1, <2>2, LocalTransition
  <1>4. CASE RecordUnknown(p)
    BY <1>1, <1>4, MemoryType, LocalTransition DEF RecordUnknown
  <1>5. CASE Doubt(p)
    BY <1>1, <1>5, MemoryType, LocalTransition DEF Doubt
  <1>6. CASE Apply(p)
    <2> DEFINE c == proc[p].order  u == proc[p].update
    <2>1. Commit(p, c, Applied(c, u), Idle) /\ Past(u, book[c]) /\ u \in Update
      BY <1>6 DEF Apply, IInv, Held, Past
    <2>2. u.state \notin Unsent
      BY <2>1 DEF Update, Reported, Terminal, Unsent
    <2>3. /\ Applied(c, u) \in OrderRow /\ Applied(c, u).state = u.state
          /\ Applied(c, u).filled = u.filled
      BY <1>1, <2>1, RowType DEF IInv
    <2> QED BY <1>1, <2>1, <2>2, <2>3, MemoryType, CommitStep DEF Past
  <1> QED BY <1>2, <1>3, <1>4, <1>5, <1>6

\* The request leaves the process.
LEMMA SendAction == ASSUME IInv, NEW p \in Procs, Send(p) PROVE IInv'
  <1> DEFINE c == proc[p].order  m == [proc[p] EXCEPT !.pc = "calling"]
  <1>1. proc[p] \in Proc /\ c \in Orders /\ sends[c] = 0 /\ order[c].state \notin Unsent
    BY DEF IInv, TypeOK, Proc, Send, Claimed
  <1>2. m \in Proc /\ m.pc = "calling" /\ m.order = c
    BY <1>1 DEF Proc, PC
  <1>3. \A q \in Procs : proc'[q] = IF q = p THEN m ELSE proc[q]
    BY DEF Send, IInv, TypeOK
  <1>4. \A d \in Orders : sends'[d] = IF d = c THEN 1 ELSE sends[d]
    BY <1>1 DEF Send, IInv, TypeOK
  <1>5. UNCHANGED <<now, order, latch, book>> /\ proc[p].pc = "started"
    BY DEF Send
  <1> HIDE DEF m
  <1>6. TypeOK'
    <2>1. proc' \in [Procs -> Proc]
      BY <1>2, <1>3 DEF Send, IInv, TypeOK, m
    <2>2. sends' \in [Orders -> Nat]
      BY <1>1, <1>4 DEF Send, IInv, TypeOK
    <2> QED BY <1>1, <2>1, <2>2 DEF Send, IInv, TypeOK
  <1>7. Fresh'
    BY <1>1, <1>4, <1>5 DEF IInv, Fresh
  <1>8. Claimed' /\ Sole'
    <2>1. ASSUME NEW q \in Procs, proc'[q].pc = "started"
          PROVE  /\ q # p /\ proc'[q] = proc[q] /\ proc[q].order \in Orders
                 /\ proc[q].order # c
      <3>1. q # p /\ proc'[q] = proc[q]
        BY <1>2, <1>3, <2>1
      <3> QED BY <1>5, <2>1, <3>1 DEF IInv, TypeOK, Proc, Sole
    <2> QED BY <1>4, <1>5, <2>1 DEF IInv, Claimed, Sole
  <1>9. SubmittedOnce' /\ LedgerIsTrue'
    BY <1>4, <1>5 DEF IInv, SubmittedOnce, LedgerIsTrue
  <1>10. Authority'
    BY <1>2, <1>3, <1>5 DEF IInv, Authority
  <1>11. Held'
    BY <1>2, <1>3, <1>5 DEF IInv, Held
  <1> QED BY <1>6, <1>7, <1>8, <1>9, <1>10, <1>11 DEF IInv

\* A cancellation reaches an open order.
LEMMA CancelAction ==
  ASSUME IInv, NEW p \in Procs, NEW s \in Reported, CancelReaches(p, s) PROVE IInv'
  <1> DEFINE c == proc[p].order  b == [book[c] EXCEPT !.state = s, !.at = now]
             m == [proc[p] EXCEPT !.pc = "canceled"]
  <1>1. proc[p] \in Proc /\ c \in Orders /\ book[c] \in Booking /\ now \in 0..MaxTime
    BY DEF IInv, TypeOK, Proc
  <1>2. book[c] \in Update /\ book[c].state \notin Terminal
    BY <1>1, BookingIsUpdate DEF CancelReaches
  <1>3. b \in Update /\ b.filled = book[c].filled
    BY <1>1, <1>2 DEF Update
  <1>4. m \in Proc /\ m.pc = "canceled" /\ m.order = c
    BY <1>1 DEF Proc, PC
  <1>5. \A d \in Orders : book'[d] = IF d = c THEN b ELSE book[d]
    BY DEF CancelReaches, IInv, TypeOK
  <1>6. \A q \in Procs : proc'[q] = IF q = p THEN m ELSE proc[q]
    BY DEF CancelReaches, IInv, TypeOK
  <1>7. UNCHANGED <<now, order, latch, inflight, sends>>
    BY DEF CancelReaches
  <1>8. proc' \in [Procs -> Proc] /\ book' \in [Orders -> Booking]
    BY <1>3, <1>4 DEF CancelReaches, IInv, TypeOK, Booking
  <1> HIDE DEF b, m
  <1>9. TypeOK'
    BY <1>7, <1>8 DEF IInv, TypeOK
  <1>10. Fresh' /\ SubmittedOnce'
    BY <1>7 DEF IInv, Fresh, SubmittedOnce
  <1>11. Claimed' /\ Sole'
    BY <1>4, <1>6, <1>7 DEF IInv, Claimed, Sole
  <1>12. Authority'
    BY <1>4, <1>6, <1>7 DEF IInv, Authority
  <1>13. LedgerIsTrue'
    BY <1>2, <1>3, <1>5, <1>7 DEF IInv, LedgerIsTrue
  <1>14. Held'
    <2>1. ASSUME NEW q \in Procs, proc'[q].pc = "applying"
          PROVE  Past(proc'[q].update, book'[proc'[q].order])
      <3>1. proc'[q] = proc[q] /\ Past(proc[q].update, book[proc[q].order])
            /\ proc[q].order \in Orders
        BY <1>4, <1>6, <2>1 DEF IInv, TypeOK, Proc, Held
      <3> QED BY <1>2, <1>3, <1>5, <3>1 DEF Past
    <2>2. ASSUME NEW q \in Procs, proc'[q].pc = "canceled"
          PROVE  book'[proc'[q].order] \in Update
      BY <1>3, <1>4, <1>5, <1>6, <2>2 DEF IInv, TypeOK, Proc, Held
    <2> QED BY <2>1, <2>2 DEF Held
  <1> QED BY <1>9, <1>10, <1>11, <1>12, <1>13, <1>14 DEF IInv

\* The broker and the network.
LEMMA BrokerActions == ASSUME IInv, NEW c \in Orders, BrokerStep(c) PROVE IInv'
  <1>1. book \in [Orders -> Booking] /\ book[c] \in Booking /\ now \in 0..MaxTime
    BY DEF IInv, TypeOK
  <1>2. 0 \in 0..MaxQty
    BY ExecutionAssumption DEF ExecutionAssumption
  <1>3. ASSUME NEW s \in Reported, Arrive(c, s) PROVE IInv'
    <2> DEFINE b == IF book[c] = NoBooking THEN [state |-> s, filled |-> 0, at |-> now]
                    ELSE book[c]
    <2>1. b \in Booking /\ (book[c] \in Update => b \in Update)
      BY <1>1, <1>2 DEF Booking, Update
    <2>2. book[c].filled <= b.filled
      BY <1>1, <1>2, ExecutionAssumption DEF ExecutionAssumption, Booking, Update, NoBooking
    <2>3. book[c].state \notin Terminal \/ b = book[c]
      BY DEF NoBooking, Terminal
    <2>4. /\ book' = [book EXCEPT ![c] = b] /\ inflight' \subseteq inflight
          /\ UNCHANGED <<now, order, latch, proc, sends>>
      BY <1>1, <1>3 DEF Arrive
    <2> HIDE DEF b
    <2> QED BY <2>1, <2>2, <2>3, <2>4, BookStep
  <1>4. ASSUME NEW s \in Reported, NEW f \in 0..MaxQty, Trade(c, s, f) PROVE IInv'
    <2> DEFINE b == [state |-> s, filled |-> f, at |-> now]
    <2>1. b \in Update /\ b \in Booking /\ b.filled = f
      BY <1>1 DEF Booking, Update
    <2>2. book[c].filled <= b.filled
      BY <1>1, <1>4, <2>1, ExecutionAssumption
      DEF ExecutionAssumption, Trade, Booking, Update, NoBooking
    <2>3. /\ book' = [book EXCEPT ![c] = b] /\ inflight' \subseteq inflight
          /\ book[c].state \notin Terminal
          /\ UNCHANGED <<now, order, latch, proc, sends>>
      BY <1>4 DEF Trade
    <2> HIDE DEF b
    <2> QED BY <2>1, <2>2, <2>3, BookStep
  <1>5. CASE Lose(c)
    <2>1. /\ book' = [book EXCEPT ![c] = book[c]] /\ inflight' \subseteq inflight
          /\ UNCHANGED <<now, order, latch, proc, sends>>
      BY <1>1, <1>5 DEF Lose
    <2>2. book[c].filled <= book[c].filled
      BY <1>1, ExecutionAssumption DEF ExecutionAssumption, Booking, Update, NoBooking
    <2> QED BY <1>1, <2>1, <2>2, BookStep
  <1> QED BY <1>3, <1>4, <1>5 DEF BrokerStep

\* Time, the plan's first transaction and the latches.
LEMMA OtherActions == ASSUME IInv, Tick \/ Persist \/ ToggleLatch PROVE IInv'
  <1>1. CASE Tick \/ ToggleLatch
    <2>1. UNCHANGED <<order, inflight, book, proc, sends>>
      BY <1>1 DEF Tick, ToggleLatch
    <2>2. TypeOK'
      <3>1. now' \in 0..MaxTime
        BY <1>1, ExecutionAssumption DEF ExecutionAssumption, Tick, ToggleLatch, IInv, TypeOK
      <3>2. latch' \in BOOLEAN
        BY <1>1 DEF Tick, ToggleLatch, IInv, TypeOK
      <3> QED BY <2>1, <3>1, <3>2 DEF IInv, TypeOK
    <2> QED BY <2>1, <2>2 DEF IInv, Fresh, Claimed, Sole, SubmittedOnce, Authority, Held,
                              LedgerIsTrue
  <1>2. CASE Persist
    <2> DEFINE row == [NoOrder EXCEPT !.state = "INTENT_COMMITTED", !.updated = now]
    <2>1. row \in OrderRow /\ row.state = "INTENT_COMMITTED" /\ row.filled = 0
      BY NoOrderType DEF NoOrder, OrderRow, OrderState, IInv, TypeOK
    <2>2. order' = [c \in Orders |-> row] /\ UNCHANGED <<now, latch, inflight, book, proc, sends>>
          /\ \A c \in Orders : order[c].state = "PLANNED"
      BY <1>2 DEF Persist
    <2> HIDE DEF row
    <2>3. TypeOK'
      BY <2>1, <2>2 DEF IInv, TypeOK
    <2>4. Fresh' /\ SubmittedOnce' /\ Sole'
      BY <2>1, <2>2 DEF IInv, Fresh, SubmittedOnce, Sole, Unsent
    <2>5. Claimed'
      BY <2>2 DEF IInv, TypeOK, Proc, Claimed, Unsent
    <2>6. Authority'
      BY <2>1, <2>2 DEF IInv, Authority, Unsettled, Ambiguous
    <2>7. Held'
      BY <2>2 DEF IInv, Held
    <2>8. LedgerIsTrue'
      BY <2>1, <2>2 DEF IInv, Fresh, LedgerIsTrue, Unsent, Terminal
    <2> QED BY <2>3, <2>4, <2>5, <2>6, <2>7, <2>8 DEF IInv
  <1> QED BY <1>1, <1>2
-----------------------------------------------------------------------------
\* Every reachable state satisfies the inductive invariant.
THEOREM Invariance == Spec => []IInv
  <1>1. Init => IInv
    <2> SUFFICES ASSUME Init PROVE IInv
      OBVIOUS
    <2>1. TypeOK
      <3>1. now \in 0..MaxTime /\ sends \in [Orders -> Nat] /\ inflight \subseteq Orders
        BY ExecutionAssumption DEF ExecutionAssumption, Init
      <3>2. latch \in BOOLEAN /\ order \in [Orders -> OrderRow]
        BY NoOrderType DEF Init
      <3>3. book \in [Orders -> Booking] /\ proc \in [Procs -> Proc]
        BY MemoryType DEF Init, Booking
      <3> QED BY <3>1, <3>2, <3>3 DEF TypeOK
    <2>2. Fresh /\ SubmittedOnce /\ LedgerIsTrue
      BY DEF Init, Fresh, SubmittedOnce, LedgerIsTrue, NoOrder, NoBooking, Terminal
    <2>3. Claimed /\ Sole /\ Authority /\ Held
      BY MemoryType DEF Init, Claimed, Sole, Authority, Held
    <2> QED BY <2>1, <2>2, <2>3 DEF IInv
  <1>2. IInv /\ [Next]_vars => IInv'
    <2> SUFFICES ASSUME IInv, [Next]_vars PROVE IInv'
      OBVIOUS
    <2>1. CASE Tick \/ Persist \/ ToggleLatch
      BY <2>1, OtherActions
    <2>2. ASSUME NEW p \in Procs, ProcStep(p) PROVE IInv'
      BY <2>2, MemoryActions, LedgerActions, SendAction, CancelAction DEF ProcStep
    <2>3. ASSUME NEW c \in Orders, BrokerStep(c) PROVE IInv'
      BY <2>3, BrokerActions
    <2>4. CASE UNCHANGED vars
      BY <2>4 DEF vars, IInv, TypeOK, Fresh, Claimed, Sole, SubmittedOnce, Authority, Held,
                  LedgerIsTrue
    <2> QED BY <2>1, <2>2, <2>3, <2>4 DEF Next
  <1> QED BY <1>1, <1>2, PTL DEF Spec

\* The ledger, the broker's book and the processes keep their types.
THEOREM TypeCorrect == Spec => []TypeOK
  BY Invariance, PTL DEF IInv

\* No intent is sent to the broker twice, whatever crashes, lost answers and
\* concurrent processes do.
THEOREM OnceOnly == Spec => []SubmittedOnce
  BY Invariance, PTL DEF IInv

\* The ledger records no end and no execution that the broker does not have.
THEOREM LedgerTruth == Spec => []LedgerIsTrue
  BY Invariance, PTL DEF IInv

-----------------------------------------------------------------------------
(***************************************************************************)
(* What a step may do to one order, and the theorems that follow from it.  *)
(***************************************************************************)
Later == Reported \cup {"SUBMISSION_UNKNOWN", "RECONCILIATION_REQUIRED", "CANCEL_REQUESTED"}
OrderEffect(c) ==
  \/ order'[c] = order[c]
  \/ order[c].state = "PLANNED" /\ order'[c].state = "INTENT_COMMITTED"
  \/ \E p \in Procs : Start(p) /\ proc[p].order = c
  \/ order'[c].state \in Later /\ \E t \in 0..MaxTime : Evolves(c, order'[c].state, t)

\* Every step has one of these effects on every order.
LEMMA OrderEffects == ASSUME IInv, Next PROVE \A c \in Orders : OrderEffect(c)
  <1>1. CASE Persist
    BY <1>1 DEF Persist, NoOrder, OrderEffect
  <1>2. CASE order' = order
    BY <1>2 DEF OrderEffect
  <1>3. ASSUME NEW c \in Orders, BrokerStep(c) PROVE order' = order
    BY <1>3 DEF BrokerStep, Arrive, Trade, Lose
  <1>4. ASSUME NEW p \in Procs, ProcStep(p) PROVE \A c \in Orders : OrderEffect(c)
    <2>1. /\ now \in 0..MaxTime /\ proc[p].order \in Orders /\ proc[p].at \in 0..MaxTime
          /\ proc[p] \in Proc /\ order \in [Orders -> OrderRow]
      BY DEF IInv, TypeOK, Proc
    <2>2. ASSUME NEW d \in Orders, NEW row \in OrderRow, NEW m, Commit(p, d, row, m),
                 row.state \in Later, NEW t \in 0..MaxTime, Evolves(d, row.state, t)
          PROVE  \A c \in Orders : OrderEffect(c)
      BY <2>1, <2>2 DEF Commit, OrderEffect
    <2>3. ASSUME NEW d \in Orders, NEW t \in 0..MaxTime, NEW m,
                 NEW s \in {"SUBMISSION_UNKNOWN", "RECONCILIATION_REQUIRED", "CANCEL_REQUESTED"},
                 Commit(p, d, Moved(d, s, t), m), Evolves(d, s, t)
          PROVE  \A c \in Orders : OrderEffect(c)
      <3>1. s \in OrderState /\ s \in Later
        BY DEF OrderState, Unsettled, Ambiguous, Later
      <3>2. Moved(d, s, t) \in OrderRow /\ Moved(d, s, t).state = s
        BY <3>1, RowType DEF IInv
      <3> QED BY <2>2, <2>3, <3>1, <3>2
    <2>4. CASE Start(p)
      <3>1. \A c \in Orders : c # proc[p].order => order'[c] = order[c]
        BY <2>1, <2>4 DEF Start, Commit
      <3> QED BY <2>4, <3>1 DEF OrderEffect
    <2>5. CASE RecordUnknown(p)
      BY <2>1, <2>3, <2>5 DEF RecordUnknown
    <2>6. CASE Doubt(p)
      BY <2>1, <2>3, <2>6 DEF Doubt
    <2>7. CASE Apply(p)
      <3> DEFINE d == proc[p].order  u == proc[p].update
      <3>1. Commit(p, d, Applied(d, u), Idle) /\ Acceptable(d, u) /\ u \in Update
        BY <2>7 DEF Apply, IInv, Held, Past
      <3>2. Applied(d, u) \in OrderRow /\ Applied(d, u).state = u.state
        BY <2>1, <3>1, RowType DEF IInv
      <3>3. u.state \in Later /\ u.at \in 0..MaxTime /\ Evolves(d, u.state, u.at)
        BY <3>1 DEF Update, Later, Acceptable
      <3> QED BY <2>1, <2>2, <3>1, <3>2, <3>3
    <2>8. ASSUME NEW c \in Orders, RequestCancel(p, c) PROVE \A d \in Orders : OrderEffect(d)
      <3>1. CASE order' = order
        BY <3>1 DEF OrderEffect
      <3> QED BY <2>1, <2>3, <2>8, <3>1 DEF RequestCancel, Becomes
    <2>9. CASE order' = order
      BY <2>9 DEF OrderEffect
    <2>10. ASSUME \/ \E c \in Orders : Authorize(p, c) \/ Lookup(p, c)
                  \/ Send(p) \/ Answer(p) \/ CancelAnswer(p) \/ Abort(p)
                  \/ \E s \in Reported : CancelReaches(p, s)
           PROVE  order' = order
      BY <2>10 DEF Authorize, Lookup, Send, Answer, CancelAnswer, Abort, CancelReaches, Becomes
    <2> QED BY <1>4, <2>4, <2>5, <2>6, <2>7, <2>8, <2>9, <2>10 DEF ProcStep
  <1>5. ASSUME Tick \/ ToggleLatch PROVE order' = order
    BY <1>5 DEF Tick, ToggleLatch
  <1> QED BY <1>1, <1>2, <1>3, <1>4, <1>5 DEF Next

\* No submission starts while the outcome of another is open, nor one that
\* opens exposure under an active latch.
THEOREM InTheClear == Spec => StartsInTheClear
  <1> DEFINE Clear ==
        \A c \in Orders : Starts(c) =>
          /\ \A d \in Orders : order[d].state \notin Unsettled
          /\ c \in Entries => ~latch
  <1>1. IInv /\ [Next]_vars => [Clear]_vars
    <2> SUFFICES ASSUME IInv, Next, NEW c \in Orders, Starts(c)
                 PROVE  /\ \A d \in Orders : order[d].state \notin Unsettled
                        /\ c \in Entries => ~latch
      OBVIOUS
    <2>1. "SUBMISSION_STARTED" \notin Later
      BY DEF Later, Reported, Terminal
    <2>2. PICK p \in Procs : Start(p) /\ proc[p].order = c
      BY <2>1, OrderEffects DEF OrderEffect, Starts
    <2> QED BY <2>2 DEF Start, IInv, Authority
  <1> QED BY <1>1, Invariance, PTL DEF Spec, StartsInTheClear

\* The barrier between the phases of a plan.  An entry is past the barrier
\* from the moment it is authorized; then the ledger has every exit FILLED.
ExitsFilled == \A x \in Exits : order[x].state = "FILLED"
PastBarrier(e) ==
  \/ order[e].state \notin Unsent
  \/ e \in inflight
  \/ book[e].state # "NONE"
  \/ \E p \in Procs : proc[p].pc = "authorized" /\ proc[p].order = e
Barrier == \A e \in Entries : PastBarrier(e) => ExitsFilled

\* The edges the barrier rests on: FILLED is final, and an intent leaves the
\* unsent states by a claim only.
LEMMA Edges ==
  ASSUME NEW c \in Orders, NEW s \in Later, NEW t, Evolves(c, s, t)
  PROVE  order[c].state # "FILLED" /\ order[c].state \notin Unsent
  BY DEF Evolves, Transitions, Later, Reported, Terminal, Unsent

\* A step keeps the exits filled.
LEMMA FilledStays == ASSUME IInv, Next, ExitsFilled PROVE ExitsFilled'
  <1> SUFFICES ASSUME NEW x \in Exits PROVE order'[x].state = "FILLED"
    BY DEF ExitsFilled
  <1>1. x \in Orders /\ order[x].state = "FILLED"
    BY DEF ExitsFilled, Orders
  <1>2. \A p \in Procs : Start(p) => proc[p].order # x
    BY <1>1 DEF Start
  <1> QED BY <1>1, <1>2, OrderEffects, Edges DEF OrderEffect

\* Only an authorization takes an entry past the barrier, and it finds the
\* exits filled.
LEMMA BarrierStep ==
  ASSUME IInv, Next, NEW e \in Entries, PastBarrier(e)'
  PROVE  PastBarrier(e) \/ ExitsFilled
  <1>1. e \in Orders /\ \A p \in Procs : proc[p] \in Proc
    BY DEF Orders, IInv, TypeOK
  <1>2. CASE order'[e].state \notin Unsent
    <2>1. \A p \in Procs : Start(p) => proc[p].pc = "authorized"
      BY DEF Start
    <2> QED BY <1>1, <1>2, <2>1, OrderEffects, Edges DEF OrderEffect, PastBarrier, Unsent
  <1>3. CASE e \in inflight' \ inflight
    <2>1. PICK p \in Procs : Send(p)
      BY <1>3 DEF Next, Tick, Persist, ToggleLatch, ProcStep, BrokerStep, Authorize, Lookup,
                  RequestCancel, Start, Answer, RecordUnknown, Doubt, Apply, CancelReaches,
                  CancelAnswer, Abort, Arrive, Trade, Lose, Commit, Becomes
    <2>2. proc[p].order = e /\ proc[p].pc = "started"
      BY <1>3, <2>1 DEF Send
    <2> QED BY <2>2 DEF IInv, Claimed, PastBarrier
  <1>4. CASE book'[e].state # "NONE" /\ book[e].state = "NONE"
    <2>1. ASSUME NEW c \in Orders, BrokerStep(c) PROVE e \in inflight
      <3>1. ASSUME NEW s \in Reported, NEW f \in 0..MaxQty, Trade(c, s, f) PROVE FALSE
        <4>1. book[c].state # "NONE"
          BY <3>1 DEF Trade, Reported, Terminal
        <4> QED BY <1>1, <1>4, <3>1, <4>1 DEF Trade, IInv, TypeOK
      <3>2. 0 \in 0..MaxQty
        BY ExecutionAssumption DEF ExecutionAssumption
      <3>3. CASE Lose(c)
        BY <1>4, <3>3 DEF Lose
      <3>4. ASSUME NEW s \in Reported, Arrive(c, s) PROVE e \in inflight
        BY <1>1, <1>4, <3>4 DEF Arrive, IInv, TypeOK
      <3> QED BY <2>1, <3>1, <3>3, <3>4 DEF BrokerStep
    <2>2. ASSUME NEW p \in Procs, NEW s \in Reported, CancelReaches(p, s) PROVE FALSE
      <3>1. book[proc[p].order].state # "NONE"
        BY <2>2 DEF CancelReaches, Reported, Terminal
      <3> QED BY <1>1, <1>4, <2>2, <3>1 DEF CancelReaches, IInv, TypeOK
    <2>3. \E c \in Orders : BrokerStep(c)
      BY <1>4, <2>2 DEF Next, Tick, Persist, ToggleLatch, ProcStep, Authorize, Lookup,
                  RequestCancel, Start, Send, Answer, RecordUnknown, Doubt, Apply,
                  CancelAnswer, Abort, Commit, Becomes
    <2> QED BY <2>1, <2>3 DEF PastBarrier
  <1>5. ASSUME NEW p \in Procs, proc'[p].pc = "authorized", proc'[p].order = e,
               ~(proc[p].pc = "authorized" /\ proc[p].order = e)
        PROVE  ExitsFilled
    <2>1. ASSUME NEW q \in Procs, NEW c \in Orders, Authorize(q, c), q = p PROVE ExitsFilled
      <3>1. c = e
        <4>1. now \in 0..MaxTime /\ latch \in BOOLEAN /\ "authorized" \in PC
          BY DEF IInv, TypeOK, PC
        <4>2. At("authorized", c, now) \in Proc /\ At("authorized", c, now).order = c
          BY <4>1, MemoryType
        <4>3. proc'[p].order = c
          BY <2>1, <4>1, <4>2, SnapshotType DEF Authorize, Becomes, IInv, TypeOK
        <4> QED BY <1>5, <4>3
      <3> QED BY <2>1, <3>1 DEF Authorize, ExitsComplete, ExitsFilled
    <2>2. ASSUME NEW q \in Procs, NEW c, NEW row, NEW m, Commit(q, c, row, m),
                 m.pc # "authorized"
          PROVE  FALSE
      <3>1. CASE q = p
        BY <1>5, <2>2, <3>1 DEF Commit
      <3>2. CASE q # p
        <4>1. proc'[p] = [proc[p] EXCEPT !.current = FALSE]
          BY <2>2, <3>2 DEF Commit
        <4> QED BY <1>1, <1>5, <4>1 DEF Proc
      <3> QED BY <3>1, <3>2
    <2>3. ASSUME NEW q \in Procs, NEW m, Becomes(q, m), m.pc # "authorized" \/ q # p
          PROVE  FALSE
      BY <1>5, <2>3 DEF Becomes, IInv, TypeOK
    <2>4. ASSUME NEW q \in Procs, NEW s \in {"calling", "canceled"},
                 proc' = [proc EXCEPT ![q].pc = s]
          PROVE  FALSE
      <3>1. CASE q = p
        BY <1>1, <1>5, <2>4, <3>1 DEF IInv, TypeOK, Proc
      <3>2. CASE q # p
        BY <1>5, <2>4, <3>2 DEF IInv, TypeOK
      <3> QED BY <3>1, <3>2
    <2>5. proc' # proc
      BY <1>5
    <2>6. PICK q \in Procs : ProcStep(q)
      BY <2>5 DEF Next, Tick, Persist, ToggleLatch, BrokerStep, Arrive, Trade, Lose
    <2>7. /\ now \in 0..MaxTime /\ proc[q].order \in Orders /\ proc[q].at \in 0..MaxTime
          /\ {"started", "canceling", "missing"} \subseteq PC
      BY DEF IInv, TypeOK, Proc, PC
    <2>8. /\ Idle.pc # "authorized"
          /\ \A c \in Orders, t \in 0..MaxTime :
               /\ At("started", c, t).pc # "authorized" /\ At("canceling", c, t).pc # "authorized"
               /\ At("missing", c, t).pc # "authorized"
          /\ \A c \in Orders : Response(c).pc # "authorized"
      <3>1. \A c \in Orders : Response(c).pc = "applying"
        BY MemoryType DEF Response, Proc
      <3> QED BY <2>7, <3>1, MemoryType
    <2>9. ~(Start(q) \/ RecordUnknown(q) \/ Doubt(q) \/ Apply(q))
      BY <2>2, <2>7, <2>8 DEF Start, RecordUnknown, Doubt, Apply
    <2>10. ~(Answer(q) \/ CancelAnswer(q) \/ Abort(q))
      BY <2>3, <2>7, <2>8 DEF Answer, CancelAnswer, Abort
    <2>11. ASSUME NEW c \in Orders PROVE ~RequestCancel(q, c) /\ ~Lookup(q, c)
      BY <2>2, <2>3, <2>7, <2>8 DEF RequestCancel, Lookup
    <2>12. ~Send(q) /\ \A s \in Reported : ~CancelReaches(q, s)
      BY <2>4 DEF Send, CancelReaches
    <2>13. PICK c \in Orders : Authorize(q, c)
      BY <2>6, <2>9, <2>10, <2>11, <2>12 DEF ProcStep
    <2>14. q = p
      BY <2>3, <2>13 DEF Authorize
    <2> QED BY <2>1, <2>13, <2>14
  <1> QED BY <1>2, <1>3, <1>4, <1>5 DEF PastBarrier

\* When an entry is at the broker, every exit has traded in full there.
THEOREM EntriesLast == Spec => []EntriesWaitForExits
  <1>1. Init => Barrier
    <2> SUFFICES ASSUME Init, NEW e \in Entries PROVE ~PastBarrier(e)
      BY DEF Barrier
    <2>1. e \in Orders
      BY DEF Orders
    <2> QED BY <2>1, MemoryType DEF Init, PastBarrier, NoOrder, NoBooking, Unsent
  <1>2. IInv /\ Barrier /\ [Next]_vars => Barrier'
    <2> SUFFICES ASSUME IInv, Barrier, [Next]_vars PROVE Barrier'
      OBVIOUS
    <2>1. CASE Next
      BY <2>1, BarrierStep, FilledStays DEF Barrier
    <2>2. CASE UNCHANGED vars
      BY <2>2 DEF vars, Barrier, PastBarrier, ExitsFilled
    <2> QED BY <2>1, <2>2
  <1>3. IInv /\ Barrier => EntriesWaitForExits
    <2> SUFFICES ASSUME IInv, Barrier, NEW e \in Entries, book[e].state # "NONE", NEW x \in Exits
                 PROVE  book[x].state = "FILLED"
      BY DEF EntriesWaitForExits
    <2>1. order[x].state = "FILLED" /\ x \in Orders
      BY DEF Barrier, PastBarrier, ExitsFilled, Orders
    <2> QED BY <2>1 DEF IInv, LedgerIsTrue, Terminal
  <1> QED BY <1>1, <1>2, <1>3, Invariance, PTL DEF Spec
-----------------------------------------------------------------------------
(***************************************************************************)
(* What a lookup can learn.                                                *)
(***************************************************************************)
\* The states whose time is the service's own clock at a moment the broker's
\* order may have passed.
Asked == {"CANCEL_REQUESTED", "RECONCILIATION_REQUIRED"}

\* What is on its way to the broker, or there, was sent.
SentFirst == \A c \in Orders : c \in inflight \/ book[c].state # "NONE" => sends[c] >= 1

\* The quantities of the broker's orders and of the rows.
Amounts ==
  \A c \in Orders : /\ book[c].state = "FILLED" => book[c].filled = Qty[c]
                    /\ book[c].state = "REJECTED" => book[c].filled = 0
                    /\ order[c].state = "PARTIALLY_FILLED" => order[c].filled >= 1

\* An end that the ledger has an event of is the order's state.
EndsSeen == \A c \in Orders : \A u \in order[c].seen : u.state \in Terminal => order[c].state = u.state

\* No recorded time is ahead of the clock; and where nothing was asked of the
\* broker since, none is ahead of the broker's order.
Times ==
  /\ \A c \in Orders : order[c].updated <= now /\ book[c].at <= now
  /\ \A p \in Procs : proc[p].at <= now
  /\ \A c \in Orders : order[c].state \notin Asked /\ book[c].state # "NONE" => order[c].updated <= book[c].at
  /\ \A p \in Procs : LET c == proc[p].order IN
       /\ proc[p].pc = "calling" /\ book[c].state # "NONE" => proc[p].at <= book[c].at
       /\ proc[p].pc = "applying" => proc[p].update.at <= book[c].at

LearnInv == SentFirst /\ Amounts /\ EndsSeen /\ Times

\* Times are numbers.
LEMMA TimeTypes ==
  ASSUME TypeOK
  PROVE  /\ now \in Int /\ \A c \in Orders : order[c].updated \in Int /\ book[c].at \in Int
         /\ \A p \in Procs : proc[p].at \in Int /\ proc[p].order \in Orders
  <1>1. \A b \in Booking : b.at \in Int
    BY ExecutionAssumption DEF ExecutionAssumption, Booking, Update, NoBooking
  <1>2. now \in Int /\ \A c \in Orders : order[c].updated \in Int
    BY ExecutionAssumption DEF ExecutionAssumption, TypeOK, OrderRow
  <1>3. \A p \in Procs : proc[p].at \in Int /\ proc[p].order \in Orders
    BY ExecutionAssumption DEF ExecutionAssumption, TypeOK, Proc
  <1> QED BY <1>1, <1>2, <1>3 DEF TypeOK

\* A transaction: the row follows the clock, the broker's order and its own events.
LEMMA LearnCommit ==
  ASSUME IInv, LearnInv, NEW p \in Procs, NEW c \in Orders, NEW row, NEW m, Commit(p, c, row, m),
         row.updated <= now, row.state \notin Asked /\ book[c].state # "NONE" => row.updated <= book[c].at,
         row.state = "PARTIALLY_FILLED" => row.filled >= 1,
         \A u \in row.seen : u.state \in Terminal => row.state = u.state,
         m.at <= now, m.pc \notin {"calling", "applying"}
  PROVE  LearnInv'
  <1>1. /\ \A d \in Orders : order'[d] = IF d = c THEN row ELSE order[d]
        /\ UNCHANGED <<now, book, inflight, sends>>
    BY DEF Commit, IInv, TypeOK
  <1>2. \A q \in Procs : \/ proc'[q] = m
                         \/ /\ proc'[q].pc = proc[q].pc /\ proc'[q].order = proc[q].order
                            /\ proc'[q].at = proc[q].at /\ proc'[q].update = proc[q].update
    <2> SUFFICES ASSUME NEW q \in Procs, q # p
                 PROVE  /\ proc'[q].pc = proc[q].pc /\ proc'[q].order = proc[q].order
                        /\ proc'[q].at = proc[q].at /\ proc'[q].update = proc[q].update
      BY DEF Commit
    <2>1. proc'[q] = [proc[q] EXCEPT !.current = FALSE] /\ proc[q] \in Proc
      BY DEF Commit, IInv, TypeOK
    <2> QED BY <2>1 DEF Proc
  <1>3. SentFirst' /\ Amounts' /\ EndsSeen'
    BY <1>1 DEF LearnInv, SentFirst, Amounts, EndsSeen
  <1>4. Times'
    BY <1>1, <1>2 DEF LearnInv, Times
  <1> QED BY <1>3, <1>4 DEF LearnInv

\* A step of one process's memory.
LEMMA LearnMemory ==
  ASSUME IInv, LearnInv, NEW p \in Procs, NEW m, Becomes(p, m), m.at <= now, m.pc # "calling",
         m.pc = "applying" => m.update.at <= book[m.order].at
  PROVE  LearnInv'
  <1>1. /\ \A q \in Procs : proc'[q] = IF q = p THEN m ELSE proc[q]
        /\ UNCHANGED <<now, order, book, inflight, sends>>
    BY DEF Becomes, IInv, TypeOK
  <1>2. SentFirst' /\ Amounts' /\ EndsSeen'
    BY <1>1 DEF LearnInv, SentFirst, Amounts, EndsSeen
  <1>3. Times'
    BY <1>1 DEF LearnInv, Times
  <1> QED BY <1>2, <1>3 DEF LearnInv

\* A step of the broker with an order that was sent.
LEMMA LearnBook ==
  ASSUME IInv, LearnInv, NEW c \in Orders, NEW b, book' = [book EXCEPT ![c] = b],
         b.at = now, sends[c] >= 1, b.state = "FILLED" => b.filled = Qty[c],
         b.state = "REJECTED" => b.filled = 0,
         inflight' \subseteq inflight, UNCHANGED <<now, order, sends>>,
         \A q \in Procs : \/ proc'[q] = proc[q]
                          \/ proc'[q].at = proc[q].at /\ proc'[q].pc \notin {"calling", "applying"}
  PROVE  LearnInv'
  <1>0. /\ now \in Int /\ \A d \in Orders : order[d].updated \in Int /\ book[d].at \in Int
        /\ \A q \in Procs : proc[q].at \in Int /\ proc[q].order \in Orders
    BY TimeTypes DEF IInv
  <1>1. \A d \in Orders : book'[d] = IF d = c THEN b ELSE book[d]
    BY DEF IInv, TypeOK
  <1>2. SentFirst' /\ Amounts' /\ EndsSeen'
    BY <1>1 DEF LearnInv, SentFirst, Amounts, EndsSeen
  <1>3. \A q \in Procs : proc[q].pc = "applying" => proc[q].update.at <= now
    <2> SUFFICES ASSUME NEW q \in Procs, proc[q].pc = "applying" PROVE proc[q].update.at <= now
      OBVIOUS
    <2>1. proc[q].update \in Update /\ proc[q].order \in Orders
      BY <1>0 DEF IInv, Held, Past
    <2>2. proc[q].update.at \in Int
      BY <2>1, ExecutionAssumption DEF ExecutionAssumption, Update
    <2>3. proc[q].update.at <= book[proc[q].order].at /\ book[proc[q].order].at <= now
      BY <2>1 DEF LearnInv, Times
    <2> QED BY <1>0, <2>1, <2>2, <2>3
  <1>4. Times'
    <2>1. \A d \in Orders : order'[d].updated <= now' /\ book'[d].at <= now'
      BY <1>0, <1>1 DEF LearnInv, Times
    <2>2. \A q \in Procs : proc'[q].at <= now'
      BY DEF LearnInv, Times
    <2>3. \A d \in Orders : order'[d].state \notin Asked /\ book'[d].state # "NONE"
                              => order'[d].updated <= book'[d].at
      BY <1>1 DEF LearnInv, Times
    <2>4. ASSUME NEW q \in Procs
          PROVE  LET d == proc'[q].order IN
                 /\ proc'[q].pc = "calling" /\ book'[d].state # "NONE" => proc'[q].at <= book'[d].at
                 /\ proc'[q].pc = "applying" => proc'[q].update.at <= book'[d].at
      <3>1. CASE proc'[q] = proc[q] /\ proc[q].order = c
        BY <1>1, <1>3, <3>1 DEF LearnInv, Times
      <3>2. CASE proc'[q] = proc[q] /\ proc[q].order # c
        BY <1>0, <1>1, <3>2 DEF LearnInv, Times
      <3> QED BY <3>1, <3>2
    <2> QED BY <2>1, <2>2, <2>3, <2>4 DEF Times
  <1> QED BY <1>2, <1>4 DEF LearnInv

\* A permitted transition starts from an order of which no end has been seen.
LEMMA NoEndSeen ==
  ASSUME LearnInv, NEW c \in Orders, NEW s, NEW t, Evolves(c, s, t)
  PROVE  \A u \in order[c].seen : u.state \notin Terminal
  <1>1. order[c].state \notin Terminal
    BY DEF Evolves, Transitions, Terminal
  <1> QED BY <1>1 DEF LearnInv, EndsSeen

LEMMA LearnMemoryActions ==
  ASSUME IInv, LearnInv, NEW p \in Procs,
         \/ \E c \in Orders : Authorize(p, c) \/ Lookup(p, c)
         \/ Answer(p) \/ CancelAnswer(p) \/ Abort(p)
  PROVE  LearnInv'
  <1>0. /\ now \in Int /\ 0 <= now /\ \A c \in Orders : book[c].at \in Int
        /\ \A q \in Procs : proc[q].order \in Orders
    BY TimeTypes, ExecutionAssumption DEF ExecutionAssumption, IInv, TypeOK
  <1>1. Idle.at = 0 /\ Idle.pc = "idle"
    BY DEF Idle
  <1>2. \A c \in Orders : /\ Response(c).at = 0 /\ Response(c).pc = "applying"
                          /\ Response(c).order = c /\ Response(c).update = book[c]
    BY DEF Response, Idle
  <1>3. ASSUME NEW c \in Orders, Becomes(p, Response(c)) PROVE LearnInv'
    BY <1>0, <1>2, <1>3, LearnMemory
  <1>4. ASSUME NEW c \in Orders, Authorize(p, c) PROVE LearnInv'
    <2> DEFINE m == [At("authorized", c, now) EXCEPT !.current = TRUE, !.latched = latch]
    <2>1. Becomes(p, m) /\ m.at = now /\ m.pc = "authorized"
      BY <1>4 DEF Authorize, At, Idle
    <2> HIDE DEF m
    <2> QED BY <1>0, <2>1, LearnMemory
  <1>5. ASSUME NEW c \in Orders, Lookup(p, c) PROVE LearnInv'
    <2> DEFINE m == At("missing", c, now)
    <2>1. Becomes(p, m) \/ Becomes(p, Response(c))
      BY <1>5 DEF Lookup
    <2>2. m.at = now /\ m.pc = "missing"
      BY DEF At, Idle
    <2> HIDE DEF m
    <2> QED BY <1>0, <1>3, <2>1, <2>2, LearnMemory
  <1>6. CASE Answer(p) \/ CancelAnswer(p)
    BY <1>0, <1>3, <1>6 DEF Answer, CancelAnswer
  <1>7. CASE Abort(p)
    BY <1>0, <1>1, <1>7, LearnMemory DEF Abort
  <1> QED BY <1>4, <1>5, <1>6, <1>7

LEMMA LearnLedgerActions ==
  ASSUME IInv, LearnInv, NEW p \in Procs,
         \/ \E c \in Orders : RequestCancel(p, c)
         \/ Start(p) \/ RecordUnknown(p) \/ Doubt(p) \/ Apply(p)
  PROVE  LearnInv'
  <1>0. /\ now \in Int /\ 0 <= now /\ \A c \in Orders : book[c].at \in Int
        /\ proc[p].order \in Orders /\ proc[p].at <= now /\ proc[p].at \in Int /\ TypeOK
    BY TimeTypes, ExecutionAssumption DEF ExecutionAssumption, IInv, TypeOK, LearnInv, Times
  <1>1. /\ Idle.at = 0 /\ Idle.pc = "idle"
        /\ \A pc, c, t : At(pc, c, t).at = t /\ At(pc, c, t).pc = pc
    BY DEF Idle, At
  \* A transition of the service's own.
  <1>2. ASSUME NEW c \in Orders, NEW s, NEW t, NEW m, Commit(p, c, Moved(c, s, t), m), Evolves(c, s, t),
               s # "PARTIALLY_FILLED", t <= now, s \notin Asked /\ book[c].state # "NONE" => t <= book[c].at,
               m.at <= now, m.pc \notin {"calling", "applying"}
        PROVE  LearnInv'
    <2> DEFINE row == Moved(c, s, t)
    <2>1. row.state = s /\ row.updated = t /\ row.seen = order[c].seen
      <3>1. order[c] \in OrderRow
        BY <1>0 DEF TypeOK
      <3> QED BY <3>1 DEF Moved, OrderRow
    <2>2. \A u \in row.seen : u.state \notin Terminal
      BY <1>2, <2>1, NoEndSeen
    <2>3. Commit(p, c, row, m)
      BY <1>2
    <2> HIDE DEF row
    <2> QED BY <1>2, <2>1, <2>2, <2>3, LearnCommit
  <1>3. ASSUME NEW c \in Orders, RequestCancel(p, c) PROVE LearnInv'
    <2> DEFINE m == At("canceling", c, now)
    <2>1. \/ Evolves(c, "CANCEL_REQUESTED", now) /\ Commit(p, c, Moved(c, "CANCEL_REQUESTED", now), m)
          \/ Becomes(p, m)
      BY <1>3 DEF RequestCancel
    <2>2. m.at <= now /\ m.pc = "canceling"
      BY <1>0, <1>1
    <2> HIDE DEF m
    <2>3. CASE Becomes(p, m)
      BY <2>2, <2>3, LearnMemory
    <2> QED BY <1>0, <1>2, <2>1, <2>2, <2>3 DEF Asked
  <1>4. CASE Start(p)
    <2> DEFINE c == proc[p].order
               t == proc[p].at
               m == At("started", c, t)
    <2>1. /\ Commit(p, c, Moved(c, "SUBMISSION_STARTED", t), m) /\ Evolves(c, "SUBMISSION_STARTED", t)
          /\ order[c].state = "INTENT_COMMITTED"
      BY <1>4 DEF Start
    <2>2. m.at <= now /\ m.pc = "started"
      BY <1>0, <1>1
    <2>3. book[c].state = "NONE"
      <3>1. sends[c] = 0
        BY <1>0, <2>1 DEF IInv, Fresh, Unsent
      <3> QED BY <1>0, <3>1 DEF LearnInv, SentFirst
    <2> HIDE DEF m
    <2> QED BY <1>0, <1>2, <2>1, <2>2, <2>3
  <1>5. CASE RecordUnknown(p)
    <2> DEFINE c == proc[p].order
               t == proc[p].at
    <2>1. /\ Commit(p, c, Moved(c, "SUBMISSION_UNKNOWN", t), Idle) /\ Evolves(c, "SUBMISSION_UNKNOWN", t)
          /\ proc[p].pc = "calling"
      BY <1>5 DEF RecordUnknown
    <2>2. book[c].state # "NONE" => t <= book[c].at
      BY <2>1 DEF LearnInv, Times
    <2> QED BY <1>0, <1>1, <1>2, <2>1, <2>2
  <1>6. CASE Doubt(p)
    BY <1>0, <1>1, <1>2, <1>6 DEF Doubt, Asked
  <1>7. CASE Apply(p)
    <2> DEFINE c == proc[p].order
               u == proc[p].update
               row == Applied(c, u)
    <2>1. /\ Commit(p, c, row, Idle) /\ Evolves(c, u.state, u.at) /\ proc[p].pc = "applying"
          /\ u.state = "PARTIALLY_FILLED" => u.filled \in 1..(Qty[c] - 1)
      BY <1>7 DEF Apply, Acceptable
    <2>2. u.at <= book[c].at /\ book[c].at <= now /\ u \in Update
      BY <1>0, <2>1 DEF LearnInv, Times, IInv, Held, Past
    <2>3. u.at \in Int
      BY <2>2, ExecutionAssumption DEF ExecutionAssumption, Update
    <2>4. /\ row.state = u.state /\ row.updated = u.at /\ row.filled = u.filled
          /\ row.seen = order[c].seen \cup {u}
      <3>1. order[c] \in OrderRow
        BY <1>0 DEF TypeOK
      <3> QED BY <3>1 DEF Applied, OrderRow
    <2>5. \A v \in order[c].seen : v.state \notin Terminal
      BY <1>0, <2>1, NoEndSeen
    <2>6. u.at <= now
      BY <1>0, <2>2, <2>3
    <2>7. u.state = "PARTIALLY_FILLED" => u.filled >= 1
      BY <2>1, <1>0, ExecutionAssumption DEF ExecutionAssumption
    <2> HIDE DEF u, c, row
    <2> QED BY <1>0, <1>1, <2>1, <2>2, <2>4, <2>5, <2>6, <2>7, LearnCommit DEF c
  <1> QED BY <1>3, <1>4, <1>5, <1>6, <1>7

\* The request leaves the process before the broker has anything of it.
LEMMA LearnSend ==
  ASSUME IInv, LearnInv, NEW p \in Procs, Send(p)
  PROVE  LearnInv'
  <1> DEFINE c == proc[p].order
  <1>1. c \in Orders /\ proc[p] \in Proc /\ sends[c] = 0 /\ book[c].state = "NONE"
    <2>1. c \in Orders /\ proc[p] \in Proc /\ sends[c] = 0
      BY DEF Send, IInv, TypeOK, Proc, Claimed
    <2> QED BY <2>1 DEF LearnInv, SentFirst
  <1>2. /\ UNCHANGED <<now, order, book>> /\ inflight' = inflight \cup {c}
        /\ \A d \in Orders : sends'[d] = IF d = c THEN sends[d] + 1 ELSE sends[d]
    BY DEF Send, IInv, TypeOK
  <1>3. \A q \in Procs : \/ proc'[q] = proc[q]
                         \/ proc'[q].at = proc[q].at /\ proc'[q].order = c /\ proc'[q].pc = "calling"
    BY <1>1 DEF Send, IInv, TypeOK, Proc
  <1> HIDE DEF c
  <1>4. SentFirst'
    BY <1>1, <1>2 DEF LearnInv, SentFirst
  <1>5. Amounts' /\ EndsSeen'
    BY <1>2 DEF LearnInv, Amounts, EndsSeen
  <1>6. Times'
    BY <1>1, <1>2, <1>3 DEF LearnInv, Times
  <1> QED BY <1>4, <1>5, <1>6 DEF LearnInv

LEMMA LearnBrokerActions ==
  ASSUME IInv, LearnInv,
         \/ \E c \in Orders : BrokerStep(c)
         \/ \E p \in Procs, s \in Reported : CancelReaches(p, s)
  PROVE  LearnInv'
  \* The tables when the broker's order stays as it is.
  <1>1. ASSUME UNCHANGED <<now, order, book, proc, sends>>, inflight' \subseteq inflight PROVE LearnInv'
    BY <1>1 DEF LearnInv, SentFirst, Amounts, EndsSeen, Times
  <1>2. ASSUME NEW c \in Orders, NEW s \in Reported, Arrive(c, s) PROVE LearnInv'
    <2> DEFINE b == [state |-> s, filled |-> 0, at |-> now]
    <2>1. /\ c \in inflight /\ inflight' \subseteq inflight /\ s \in {"ACCEPTED", "PENDING", "REJECTED"}
          /\ UNCHANGED <<now, order, proc, sends>>
          /\ book' = [book EXCEPT ![c] = IF book[c] = NoBooking THEN b ELSE book[c]]
      BY <1>2 DEF Arrive
    <2>2. CASE book[c] = NoBooking
      <3>1. book' = [book EXCEPT ![c] = b]
        BY <2>1, <2>2
      <3>2. b.at = now /\ b.filled = 0 /\ b.state # "FILLED"
        BY <2>1
      <3>3. sends[c] >= 1
        BY <2>1 DEF LearnInv, SentFirst
      <3> HIDE DEF b
      <3> QED BY <2>1, <3>1, <3>2, <3>3, LearnBook
    <2>3. CASE book[c] # NoBooking
      <3>1. book' = book
        BY <2>1, <2>3 DEF IInv, TypeOK
      <3> QED BY <1>1, <2>1, <3>1
    <2> QED BY <2>2, <2>3
  <1>3. ASSUME NEW c \in Orders, NEW s \in Reported, NEW f \in 0..MaxQty, Trade(c, s, f) PROVE LearnInv'
    <2> DEFINE b == [state |-> s, filled |-> f, at |-> now]
    <2>1. /\ book' = [book EXCEPT ![c] = b] /\ inflight' = inflight /\ UNCHANGED <<now, order, proc, sends>>
          /\ (s = "FILLED" => f = Qty[c]) /\ (s = "REJECTED" => f = 0)
          /\ book[c].state \in Reported
      BY <1>3 DEF Trade
    <2>2. b.at = now /\ b.filled = f /\ b.state = s
      OBVIOUS
    <2>3. sends[c] >= 1
      BY <2>1 DEF LearnInv, SentFirst, Reported, Terminal
    <2> HIDE DEF b
    <2> QED BY <2>1, <2>2, <2>3, LearnBook
  <1>4. ASSUME NEW p \in Procs, NEW s \in Reported, CancelReaches(p, s) PROVE LearnInv'
    <2> DEFINE c == proc[p].order
               b == [book[c] EXCEPT !.state = s, !.at = now]
    <2>1. c \in Orders /\ book[c] \in Booking /\ proc[p] \in Proc
      BY DEF IInv, TypeOK, Proc
    <2>2. /\ book' = [book EXCEPT ![c] = b] /\ UNCHANGED <<now, order, inflight, sends>>
          /\ s \in {"PENDING", "CANCELED"} /\ book[c].state \in Reported
      <3>1. /\ book' = [book EXCEPT ![c].state = s, ![c].at = now]
            /\ UNCHANGED <<now, order, inflight, sends>>
            /\ s \in {"PENDING", "CANCELED"} /\ book[c].state \in Reported
        BY <1>4 DEF CancelReaches
      <3>2. book \in [Orders -> Booking]
        BY DEF IInv, TypeOK
      <3>3. [book EXCEPT ![c].state = s, ![c].at = now] = [book EXCEPT ![c] = b]
        BY <2>1, <3>2 DEF Booking
      <3> QED BY <3>1, <3>3
    <2>3. book[c] \in Update
      BY <2>1, <2>2, BookingIsUpdate
    <2>4. b.at = now /\ b.state = s
      BY <2>3 DEF Update
    <2>5. sends[c] >= 1
      BY <2>1, <2>2 DEF LearnInv, SentFirst, Reported, Terminal
    <2>6. \A q \in Procs : \/ proc'[q] = proc[q]
                           \/ proc'[q].at = proc[q].at /\ proc'[q].pc = "canceled"
      BY <1>4, <2>1 DEF CancelReaches, IInv, TypeOK, Proc
    <2> HIDE DEF b, c
    <2> QED BY <2>1, <2>2, <2>4, <2>5, <2>6, LearnBook
  <1>5. ASSUME NEW c \in Orders, Lose(c) PROVE LearnInv'
    BY <1>1, <1>5 DEF Lose
  <1> QED BY <1>2, <1>3, <1>4, <1>5 DEF BrokerStep

LEMMA LearnOther ==
  ASSUME IInv, LearnInv, Tick \/ Persist \/ ToggleLatch
  PROVE  LearnInv'
  <1>0. /\ now \in Int /\ \A d \in Orders : order[d].updated \in Int /\ book[d].at \in Int
        /\ \A q \in Procs : proc[q].at \in Int
    BY TimeTypes DEF IInv
  <1>1. CASE Tick \/ ToggleLatch
    <2>1. UNCHANGED <<order, inflight, book, proc, sends>> /\ (now' = now \/ now' = now + 1)
      BY <1>1 DEF Tick, ToggleLatch
    <2>2. SentFirst' /\ Amounts' /\ EndsSeen'
      BY <2>1 DEF LearnInv, SentFirst, Amounts, EndsSeen
    <2>3. Times'
      BY <1>0, <2>1 DEF LearnInv, Times
    <2> QED BY <2>2, <2>3 DEF LearnInv
  <1>2. CASE Persist
    <2>1. /\ UNCHANGED <<now, inflight, book, proc, sends>>
          /\ \A c \in Orders : /\ order[c].state = "PLANNED" /\ order'[c].state = "INTENT_COMMITTED"
                               /\ order'[c].updated = now /\ order'[c].seen = {}
      BY <1>2 DEF Persist, NoOrder
    <2>2. \A c \in Orders : book[c].state = "NONE"
      BY <2>1 DEF LearnInv, SentFirst, IInv, Fresh, Unsent
    <2>3. SentFirst' /\ Amounts' /\ EndsSeen'
      BY <2>1 DEF LearnInv, SentFirst, Amounts, EndsSeen
    <2>4. Times'
      BY <1>0, <2>1, <2>2 DEF LearnInv, Times
    <2> QED BY <2>3, <2>4 DEF LearnInv
  <1> QED BY <1>1, <1>2

LEMMA InitLearn == Init => LearnInv
  <1> SUFFICES ASSUME Init PROVE LearnInv
    OBVIOUS
  <1>1. /\ \A c \in Orders : /\ order[c].updated = 0 /\ order[c].state = "PLANNED" /\ order[c].seen = {}
                             /\ book[c].state = "NONE" /\ book[c].at = 0
        /\ \A p \in Procs : proc[p].at = 0 /\ proc[p].pc = "idle"
        /\ now = 0 /\ inflight = {}
    BY DEF Init, NoOrder, NoBooking, Idle
  <1> QED BY <1>1 DEF LearnInv, SentFirst, Amounts, EndsSeen, Times

LEMMA NextLearn == IInv /\ LearnInv /\ [Next]_vars => LearnInv'
  <1> SUFFICES ASSUME IInv, LearnInv, [Next]_vars PROVE LearnInv'
    OBVIOUS
  <1>1. CASE UNCHANGED vars
    BY <1>1 DEF vars, LearnInv, SentFirst, Amounts, EndsSeen, Times
  <1>2. ASSUME NEW p \in Procs, ProcStep(p) PROVE LearnInv'
    BY <1>2, LearnMemoryActions, LearnLedgerActions, LearnSend, LearnBrokerActions DEF ProcStep
  <1> QED BY <1>1, <1>2, LearnBrokerActions, LearnOther DEF Next

\* However a submission ended, and whatever was lost or late: while nothing was
\* asked of the broker since, the end of an order can be recorded from a lookup.
THEOREM LookupLearns == Spec => []OutcomeLearnable
  <1>1. IInv /\ LearnInv => OutcomeLearnable
    <2> SUFFICES ASSUME IInv, LearnInv, NEW c \in Orders, order[c].state \notin Asked,
                        book[c].state \in Terminal, order[c].state # book[c].state
                 PROVE  Acceptable(c, book[c])
      BY DEF OutcomeLearnable, Learnable, Asked
    <2>1. order[c] \in OrderRow /\ book[c] \in Booking /\ book[c].state # "NONE"
      BY DEF IInv, TypeOK, Terminal
    <2>2. order[c].state \notin Unsent
      <3>1. sends[c] >= 1
        BY <2>1 DEF LearnInv, SentFirst
      <3> QED BY <3>1 DEF IInv, Fresh
    <2>3. order[c].state \notin Terminal
      BY DEF IInv, LedgerIsTrue
    <2>4. order[c].filled <= book[c].filled /\ (order[c].state = "PARTIALLY_FILLED" => order[c].filled >= 1)
      BY DEF IInv, LedgerIsTrue, LearnInv, Amounts
    <2>5. book[c].state = "REJECTED" => order[c].state # "PARTIALLY_FILLED"
      <3>1. book[c].state = "REJECTED" => book[c].filled = 0
        BY DEF LearnInv, Amounts
      <3>2. order[c].filled \in Int
        BY <2>1, ExecutionAssumption DEF ExecutionAssumption, OrderRow
      <3> QED BY <2>4, <3>1, <3>2
    <2>6. order[c].state \in {"SUBMISSION_STARTED", "SUBMISSION_UNKNOWN", "SUBMITTED", "ACCEPTED", "PENDING",
                              "PARTIALLY_FILLED"}
      BY <2>1, <2>2, <2>3 DEF OrderRow, OrderState, Unsettled, Ambiguous, Reported, Unsent, Asked
    <2>7. book[c].state \in Transitions[order[c].state]
      BY <2>5, <2>6 DEF Transitions, Reported, Terminal
    <2>8. book[c].at >= order[c].updated
      <3>1. order[c].updated <= book[c].at /\ order[c].updated \in Int /\ book[c].at \in Int
        BY <2>1, TimeTypes DEF LearnInv, Times, IInv
      <3> QED BY <3>1
    <2>9. book[c] \notin order[c].seen
      BY DEF LearnInv, EndsSeen
    <2>10. /\ book[c].state = "FILLED" => book[c].filled = Qty[c]
           /\ book[c].state = "REJECTED" => book[c].filled = 0
      BY DEF LearnInv, Amounts
    <2> QED BY <2>2, <2>4, <2>7, <2>8, <2>9, <2>10 DEF Acceptable, Evolves, Unsent, Terminal
  <1> QED BY <1>1, InitLearn, NextLearn, Invariance, PTL DEF Spec
=============================================================================
