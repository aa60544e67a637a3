-------------------------- MODULE LiveOrdersProofs --------------------------
(***************************************************************************)
(* Proofs about LiveOrders, for any intents and quantities, any number of  *)
(* command-line processes and any number of faults.                        *)
(***************************************************************************)
EXTENDS LiveOrders, SequenceTheorems, FiniteSetTheorems, WellFoundedInduction, TLAPS

RowState == {"LOCALLY_RESERVED", "SUBMISSION_STARTED", "SUBMISSION_UNKNOWN",
             "RECONCILIATION_REQUIRED"} \cup Working \cup Terminal
Row == [state : RowState, filled : Nat]
Rows == [Orders -> Row \cup {NoRow}]
Status == {"absent", "new", "partially_filled"} \cup Ended
Views == [Orders -> [status : Status, filled : Nat]]
Books == [Orders -> [status : Status, filled : Nat, calls : Nat]]
Updates == [order : Orders, event : Status, filled : Nat]

\* The places of the main thread: between two intents, in submit_intent, and in
\* a reconciliation.
Holding == {"start", "call", "answer", "unknown", "write", "write_unknown", "commit",
            "commit_unknown"}
MainPC == {"idle", "next", "close", "closing", "reconciling", "resuming"} \cup Holding
Memory == [pc : MainPC, todo : SUBSET Orders, buying : BOOLEAN, order : Orders \cup {""},
           read : RowState \cup {""}, answer : [status : Status, filled : Nat],
           ambiguous : BOOLEAN]
ReconFields == {"pc", "snap", "rows", "left", "order", "delta", "blocking"}

(***************************************************************************)
(* The inductive invariant.  Its parts are about any orders b at the       *)
(* broker and any rows w, so that they can be compared over a step.        *)
(***************************************************************************)
\* What somebody read of an order at the broker is final if it has ended.
Truth(b, o, s, f) == s \in Ended => b[o].status = s /\ b[o].filled = f

RowInv == row \in Rows /\ TerminalIsTrue

\* Nobody calls the broker for an intent that is not reserved.
BrokerInv ==
  /\ broker \in Books
  /\ \A o \in Orders : broker[o].calls = 0 => broker[o].status = "absent"
  /\ \A o \in Orders : row[o] = NoRow => broker[o].calls = 0
  /\ SubmittedOnce /\ BuysAfterSells

\* Updates on their way, and the one in the hands of the update thread, are true.
Truthful(b) == {u \in Updates : Truth(b, u.order, u.event, u.filled)}
StreamInv == stream \in Seq(Truthful(broker))
UpdOK(b, u) ==
  /\ DOMAIN u = {"pc", "u", "read", "prior"}
  /\ u.pc # "idle" => u.u \in Truthful(b)
UpdInv == UpdOK(broker, upd)

\* So is the snapshot of every reconciliation.
ReconOK(b, r) ==
  /\ DOMAIN r = ReconFields
  /\ r.pc \in {"local", "loop", "commit", "repair"} =>
       r.snap \in Views /\ \A o \in Orders : Truth(b, o, r.snap[o].status, r.snap[o].filled)
  /\ r.left \subseteq Orders
  /\ r.pc = "commit" => r.order \in Orders
ReconInv == DOMAIN recon = Procs /\ \A p \in Procs : ReconOK(broker, recon[p])

\* The main thread holds a reserved order, and sends one that nobody has sent;
\* the buys are its business only once all sells have ended.
SellsOver(b) == \A s \in Sells : b[s].status \in Ended
MainOK(b, w, m) ==
  /\ m \in Memory
  /\ m.pc \in Holding => m.order \in Orders /\ w[m.order] # NoRow
  /\ m.pc \in {"start", "call"} => b[m.order].calls = 0
  /\ m.pc \in {"answer", "write", "commit"} =>
       Truth(b, m.order, m.answer.status, m.answer.filled)
  /\ m.todo \subseteq IF m.buying THEN Buys ELSE Sells
  /\ m.pc \in {"start", "call"} /\ m.order \in Buys => m.buying
  /\ m.buying \/ m.pc = "resuming" => SellsOver(b)
  /\ ~m.buying /\ m.pc \in {"next", "reconciling"} \cup Holding =>
       \A s \in Sells \ m.todo : w[s] # NoRow
  /\ m.pc = "reconciling" => m.todo = {}
MainInv == MainOK(broker, row, main)

LiveInv == RowInv /\ BrokerInv /\ StreamInv /\ UpdInv /\ ReconInv /\ MainInv
-----------------------------------------------------------------------------
(***************************************************************************)
(* What stays true while the broker and the rows go forward.               *)
(***************************************************************************)
\* An order that has ended stays as it is, and a reserved one stays reserved.
Forward(b, c) ==
  \A o \in Orders : b[o].status \in Ended => c[o].status = b[o].status /\ c[o].filled = b[o].filled
Kept(w, v) == \A o \in Orders : w[o] # NoRow => v[o] # NoRow
SameCalls(b, c) == \A o \in Orders : c[o].calls = b[o].calls

\* A row in any state is a reservation.
LEMMA Reserved ==
  ASSUME NEW n \in RowState, NEW f PROVE [state |-> n, filled |-> f] # NoRow
  BY DEF RowState, Working, Terminal, NoRow

\* The state that a broker status stands for.
LEMMA StateForType ==
  ASSUME NEW s \in Status
  PROVE  /\ StateFor(s) \in RowState
         /\ StateFor(s) \in Terminal <=> s \in Ended
  BY DEF Status, Ended, StateFor, RowState, Terminal, Working

\* What was true of an order stays true.
LEMMA TruthForward ==
  ASSUME NEW b, NEW c, Forward(b, c), NEW o \in Orders, NEW s, NEW f, Truth(b, o, s, f)
  PROVE  Truth(c, o, s, f)
  BY DEF Truth, Forward

\* Updates, the update thread's memory and snapshots stay true.
LEMMA EvidenceForward ==
  ASSUME NEW b, NEW c, Forward(b, c)
  PROVE  /\ Truthful(b) \subseteq Truthful(c)
         /\ \A u : UpdOK(b, u) => UpdOK(c, u)
         /\ \A r : ReconOK(b, r) => ReconOK(c, r)
         /\ \A q \in Seq(Truthful(b)) : q \in Seq(Truthful(c))
  <1>1. Truthful(b) \subseteq Truthful(c)
    BY TruthForward DEF Truthful, Updates
  <1>2. \A u : UpdOK(b, u) => UpdOK(c, u)
    BY <1>1 DEF UpdOK
  <1>3. \A r : ReconOK(b, r) => ReconOK(c, r)
    BY TruthForward DEF ReconOK
  <1>4. \A q \in Seq(Truthful(b)) : q \in Seq(Truthful(c))
    BY <1>1, SeqMonotonic
  <1> QED BY <1>1, <1>2, <1>3, <1>4

\* So does what the main thread relies on.
LEMMA MainForward ==
  ASSUME NEW b, NEW c, Forward(b, c), SameCalls(b, c), NEW w, NEW v, Kept(w, v),
         Sells \subseteq Orders, NEW m, MainOK(b, w, m)
  PROVE  MainOK(c, v, m)
  <1>1. m.pc \in {"answer", "write", "commit"} =>
          Truth(c, m.order, m.answer.status, m.answer.filled)
    BY TruthForward DEF MainOK, Holding
  <1>2. SellsOver(b) => SellsOver(c)
    BY DEF SellsOver, Forward
  <1>3. m.pc \in {"start", "call"} => c[m.order].calls = 0
    BY DEF MainOK, Holding, SameCalls
  <1> QED BY <1>1, <1>2, <1>3 DEF MainOK, Kept

\* A step that leaves the broker alone keeps what it does not write.
LEMMA QuietStep ==
  ASSUME LiveInv, UNCHANGED broker, RowInv', Kept(row, row')
  PROVE  /\ BrokerInv'
         /\ UNCHANGED stream => StreamInv'
         /\ UNCHANGED upd => UpdInv'
         /\ UNCHANGED recon => ReconInv'
         /\ UNCHANGED main => MainInv'
         /\ MainOK(broker, row, main') => MainInv'
  <1>1. Forward(broker, broker) /\ SameCalls(broker, broker)
    BY DEF Forward, SameCalls
  <1>2. BrokerInv'
    BY DEF LiveInv, BrokerInv, SubmittedOnce, BuysAfterSells, Kept
  <1>3. MainOK(broker, row, main') => MainInv'
    BY <1>1, MainForward DEF MainInv, Orders
  <1> QED BY <1>2, <1>3 DEF LiveInv, StreamInv, UpdInv, ReconInv, MainInv

\* Rows that nobody writes.
LEMMA SameRows == ASSUME LiveInv, UNCHANGED <<row, broker>> PROVE RowInv' /\ Kept(row, row')
  BY DEF LiveInv, RowInv, TerminalIsTrue, Kept

\* A row that follows what was true of the broker's order.
LEMMA TrueRow ==
  ASSUME LiveInv, UNCHANGED broker, NEW o \in Orders, NEW s \in Status, NEW f \in Nat,
         Truth(broker, o, s, f),
         row' = [row EXCEPT ![o] = [state |-> StateFor(s), filled |-> f]]
  PROVE  RowInv' /\ Kept(row, row')
  <1>1. StateFor(s) \in RowState /\ (StateFor(s) \in Terminal <=> s \in Ended)
    BY StateForType
  <1> DEFINE n == StateFor(s)
  <1>2. /\ row' = [row EXCEPT ![o] = [state |-> n, filled |-> f]]
        /\ n = StateFor(s) /\ n \in RowState /\ (n \in Terminal <=> s \in Ended)
    BY <1>1
  <1> HIDE DEF n
  <1>3. row' \in Rows
    BY <1>2 DEF LiveInv, RowInv, Rows, Row
  <1>4. Kept(row, row')
    BY <1>2, Reserved DEF LiveInv, RowInv, Rows, Kept
  <1>5. TerminalIsTrue'
    BY <1>2 DEF LiveInv, RowInv, Rows, Row, TerminalIsTrue, Truth
  <1> QED BY <1>3, <1>4, <1>5 DEF RowInv

\* A row on its way to the broker.
LEMMA OpenRow ==
  ASSUME LiveInv, UNCHANGED broker, NEW o \in Orders, NEW f \in Nat,
         NEW n \in RowState \ Terminal,
         row' = [row EXCEPT ![o] = [state |-> n, filled |-> f]]
  PROVE  RowInv' /\ Kept(row, row')
  <1>1. row' \in Rows
    BY DEF LiveInv, RowInv, Rows, Row
  <1>2. Kept(row, row')
    BY Reserved DEF LiveInv, RowInv, Rows, Kept
  <1>3. TerminalIsTrue'
    BY DEF LiveInv, RowInv, Rows, Row, TerminalIsTrue
  <1> QED BY <1>1, <1>2, <1>3 DEF RowInv

\* A row that changes its state only.
LEMMA OpenState ==
  ASSUME LiveInv, UNCHANGED broker, NEW o \in Orders,
         NEW n \in RowState \ Terminal, row' = [row EXCEPT ![o].state = n]
  PROVE  RowInv' /\ Kept(row, row')
  <1>1. row[o] \in [state : RowState \cup {"NONE"}, filled : Nat] /\ row[o].filled \in Nat
    BY DEF LiveInv, RowInv, Rows, Row, NoRow
  <1>2. [row[o] EXCEPT !.state = n] = [state |-> n, filled |-> row[o].filled]
    BY <1>1
  <1>3. row' = [row EXCEPT ![o] = [state |-> n, filled |-> row[o].filled]]
    BY <1>2
  <1> QED BY <1>1, <1>3, OpenRow
-----------------------------------------------------------------------------
(***************************************************************************)
(* Memories that every process may have.                                   *)
(***************************************************************************)
\* The main thread between two decisions.
LEMMA IdleOK == ASSUME NEW b, NEW w PROVE MainOK(b, w, Idle)
  <1>1. Idle \in Memory
    BY DEF Idle, Memory, MainPC, Status
  <1> QED BY <1>1 DEF Idle, MainOK, Holding

\* The update thread and a reconciler between two calls, or after a failure.
LEMMA ResetOK ==
  ASSUME NEW b
  PROVE  /\ UpdOK(b, NoUpdate) /\ ReconOK(b, NoRecon)
         /\ ReconOK(b, [NoRecon EXCEPT !.pc = "raised"])
         /\ \A x : ReconOK(b, [NoRecon EXCEPT !.pc = "done", !.blocking = x])
         /\ \A x : ReconOK(b, [NoRecon EXCEPT !.pc = "account", !.snap = x])
  BY DEF UpdOK, NoUpdate, ReconOK, NoRecon, ReconFields

\* A reconciler puts its results into its place of the memory.
LEMMA OneRecon ==
  ASSUME LiveInv, UNCHANGED broker, NEW p \in Procs, NEW r, ReconOK(broker, r),
         recon' = [recon EXCEPT ![p] = r]
  PROVE  ReconInv'
  BY DEF LiveInv, ReconInv

\* What the broker holds is true.
LEMMA BrokerViews ==
  ASSUME LiveInv
  PROVE  /\ [o \in Orders |-> View(o)] \in Views
         /\ \A o \in Orders : /\ View(o) \in [status : Status, filled : Nat]
                              /\ Truth(broker, o, View(o).status, View(o).filled)
  BY DEF LiveInv, BrokerInv, Books, View, Views, Truth

\* A reconciliation begins with a true snapshot.
LEMMA BeginOK ==
  ASSUME LiveInv, UNCHANGED broker, NEW p \in Procs, BeginRecon(p)
  PROVE  ReconInv'
  <1> DEFINE snap == [o \in Orders |-> View(o)]
             r == [NoRecon EXCEPT !.pc = "local", !.snap = snap]
  <1>1. snap \in Views /\ \A o \in Orders : Truth(broker, o, snap[o].status, snap[o].filled)
    BY BrokerViews
  <1>2. recon' = [recon EXCEPT ![p] = r]
    BY DEF BeginRecon
  <1> HIDE DEF snap
  <1>3. ReconOK(broker, r)
    BY <1>1 DEF NoRecon, ReconOK, ReconFields
  <1> HIDE DEF r
  <1> QED BY <1>2, <1>3, OneRecon
-----------------------------------------------------------------------------
(***************************************************************************)
(* The main thread.                                                        *)
(***************************************************************************)
\* Steps of the main thread in which the rows stay.
LEMMA MainStays ==
  ASSUME LiveInv, UNCHANGED <<row, broker, stream, upd>>, MainOK(broker, row, main'), ReconInv'
  PROVE  LiveInv'
  <1>1. RowInv' /\ Kept(row, row')
    BY SameRows
  <1>2. BrokerInv' /\ StreamInv' /\ UpdInv' /\ MainInv'
    BY <1>1, QuietStep
  <1> QED BY <1>1, <1>2 DEF LiveInv

\* What the invariant says of the main thread's memory.
LEMMA MainFacts ==
  ASSUME LiveInv
  PROVE  /\ MainOK(broker, row, main) /\ main \in Memory
         /\ main.pc \in Holding => main.order \in Orders /\ row[main.order] # NoRow
         /\ Daemon \in Procs /\ Sells \subseteq Orders /\ Buys \subseteq Orders
  BY DEF LiveInv, MainInv, MainOK, Procs, Orders

\* reserve_order_intent.
LEMMA ReserveKeeps == ASSUME LiveInv, NEW o \in Orders, Reserve(o) PROVE LiveInv'
  <1>1. UNCHANGED <<broker, stream, upd, recon>> /\ main.pc = "next" /\ o \in main.todo
    BY DEF Reserve, At
  <1>2. CASE row[o] = NoRow
    <2>1. /\ row' = [row EXCEPT ![o] = [state |-> "LOCALLY_RESERVED", filled |-> 0]]
          /\ main' = [main EXCEPT !.pc = "start", !.order = o, !.todo = @ \ {o}]
      BY <1>2 DEF Reserve
    <2>2. RowInv' /\ Kept(row, row')
      BY <1>1, <2>1, OpenRow DEF RowState, Terminal
    <2>3. BrokerInv' /\ StreamInv' /\ UpdInv' /\ ReconInv'
      BY <1>1, <2>2, QuietStep
    <2>4. row'[o] # NoRow
      BY <2>1 DEF LiveInv, RowInv, Rows, Row, NoRow
    <2>5. main' \in Memory
      BY <2>1, MainFacts DEF Memory, MainPC, Holding
    <2>6. broker[o].calls = 0
      BY <1>2 DEF LiveInv, BrokerInv
    <2>7. /\ main'.pc = "start" /\ main'.order = o /\ main'.todo = main.todo \ {o}
          /\ main'.buying = main.buying
      BY <2>1, MainFacts DEF Memory
    <2>8. \A s \in Orders : row[s] # NoRow => row'[s] # NoRow
      BY <2>2 DEF Kept
    <2>9. MainOK(broker, row, main) /\ Sells \subseteq Orders /\ Sells \cap Buys = {}
      BY MainFacts, LiveOrdersAssumption DEF LiveOrdersAssumption
    <2>10. MainOK(broker, row', main')
      <3>1. \A s \in Sells \ main'.todo : ~main'.buying => row'[s] # NoRow
        BY <1>1, <2>4, <2>7, <2>8, <2>9 DEF MainOK
      <3>2. o \in Buys => main'.buying
        BY <1>1, <2>7, <2>9 DEF MainOK
      <3>3. main'.todo \subseteq IF main'.buying THEN Buys ELSE Sells
        BY <1>1, <2>7, <2>9 DEF MainOK
      <3>4. main'.buying => SellsOver(broker)
        BY <2>7, <2>9 DEF MainOK
      <3> QED BY <2>4, <2>5, <2>6, <2>7, <3>1, <3>2, <3>3, <3>4 DEF MainOK
    <2> QED BY <1>1, <2>2, <2>3, <2>10 DEF LiveInv, MainInv
  <1>3. CASE row[o] # NoRow
    <2> DEFINE a == main.ambiguous \/ broker[o].status = "absent"
    <2>1. /\ row' = row
          /\ main' = [main EXCEPT !.todo = @ \ {o}, !.ambiguous = a]
      BY <1>3 DEF Reserve, LiveInv, RowInv, Rows
    <2>2. a \in BOOLEAN
      OBVIOUS
    <2> HIDE DEF a
    <2>3. MainOK(broker, row, main')
      BY <1>1, <1>3, <2>1, <2>2, MainFacts DEF MainOK, Memory, Holding
    <2>4. ReconInv'
      BY <1>1, <2>1, QuietStep, SameRows
    <2> QED BY <1>1, <2>1, <2>3, <2>4, MainStays
  <1> QED BY <1>2, <1>3

\* The look at the broker before the call.
LEMMA StartKeeps == ASSUME LiveInv, Start PROVE LiveInv'
  <1> DEFINE o == main.order
  <1>1. /\ UNCHANGED <<broker, stream, upd, recon>> /\ main.pc = "start"
        /\ o \in Orders /\ row[o] # NoRow
    BY MainFacts DEF Start, At, Holding
  <1>2. CASE broker[o].status = "absent"
    <2>1. /\ row' = [row EXCEPT ![o].state = "SUBMISSION_STARTED"]
          /\ main' = [main EXCEPT !.pc = "call"]
      BY <1>2 DEF Start
    <2>2. RowInv' /\ Kept(row, row')
      BY <1>1, <2>1, OpenState DEF RowState, Terminal
    <2>3. MainOK(broker, row, main')
      BY <1>1, <2>1, MainFacts DEF MainOK, Memory, MainPC, Holding
    <2> QED BY <1>1, <2>2, <2>3, QuietStep DEF LiveInv
  <1>3. CASE broker[o].status # "absent"
    <2>1. UNCHANGED row /\ main' = [main EXCEPT !.pc = "answer", !.answer = View(o)]
      BY <1>3 DEF Start
    <2>2. /\ View(o) \in [status : Status, filled : Nat]
          /\ Truth(broker, o, View(o).status, View(o).filled)
      BY <1>1, BrokerViews
    <2>3. MainOK(broker, row, main')
      BY <1>1, <2>1, <2>2, MainFacts DEF MainOK, Memory, MainPC, Holding
    <2>4. ReconInv'
      BY <1>1, <2>1, QuietStep, SameRows
    <2> QED BY <1>1, <2>1, <2>3, <2>4, MainStays
  <1> QED BY <1>2, <1>3

\* A step of the broker keeps rows and evidence.
LEMMA BrokerStep ==
  ASSUME LiveInv, UNCHANGED <<row, upd, recon>>, Forward(broker, broker')
  PROVE  RowInv' /\ UpdInv' /\ ReconInv' /\ stream \in Seq(Truthful(broker'))
  <1>1. RowInv'
    BY DEF LiveInv, RowInv, TerminalIsTrue, Forward
  <1>2. UpdOK(broker', upd) /\ (\A p \in Procs : ReconOK(broker', recon[p]))
        /\ stream \in Seq(Truthful(broker'))
    BY EvidenceForward DEF LiveInv, UpdInv, ReconInv, StreamInv
  <1> QED BY <1>1, <1>2 DEF LiveInv, UpdInv, ReconInv

\* One more update on its way.
LEMMA StreamGrows ==
  ASSUME stream \in Seq(Truthful(broker')), NEW u \in Truthful(broker'),
         stream' = Append(stream, u)
  PROVE  StreamInv'
  BY AppendProperties DEF StreamInv

\* submit_order: the broker may take the order, and may answer.
LEMMA CallKeeps ==
  ASSUME LiveInv, CallAnswered \/ \E a \in BOOLEAN : CallRaises(a)
  PROVE  LiveInv'
  <1> DEFINE o == main.order
  <1>1. /\ UNCHANGED <<row, upd, recon>> /\ main.pc = "call"
        /\ o \in Orders /\ row[o] # NoRow /\ broker[o].calls = 0
        /\ main \in Memory /\ MainOK(broker, row, main)
        /\ Sells \subseteq Orders /\ Buys \subseteq Orders
    BY MainFacts DEF CallAnswered, CallRaises, At, Holding, MainOK
  <1>2. broker \in Books /\ broker[o].status = "absent"
    BY <1>1 DEF LiveInv, BrokerInv
  <1>3. \/ Accepted(o)
        \/ broker' = [broker EXCEPT ![o].calls = @ + 1] /\ UNCHANGED stream
    BY DEF CallAnswered, CallRaises
  <1>4. \/ main' = [main EXCEPT !.pc = "answer", !.answer = [status |-> "new", filled |-> 0]]
        \/ main' = [main EXCEPT !.pc = "unknown"]
    BY DEF CallAnswered, CallRaises
  <1>5. /\ broker' \in Books
        /\ broker'[o].status \in {"absent", "new"} /\ broker'[o].calls = 1
        /\ \A x \in Orders \ {o} : broker'[x] = broker[x]
    <2>1. CASE Accepted(o)
      BY <1>1, <1>2, <2>1 DEF Accepted, Books, Status
    <2>2. CASE broker' = [broker EXCEPT ![o].calls = @ + 1]
      BY <1>1, <1>2, <2>2 DEF Books
    <2> QED BY <1>3, <2>1, <2>2
  <1>6. Forward(broker, broker')
    BY <1>2, <1>5 DEF Forward, Ended
  <1>7. RowInv' /\ UpdInv' /\ ReconInv' /\ stream \in Seq(Truthful(broker'))
    BY <1>1, <1>6, BrokerStep
  <1>8. StreamInv'
    <2>1. CASE Accepted(o)
      <3>1. Update(o, "new", 0) \in Truthful(broker')
        BY <1>1 DEF Update, Truthful, Updates, Truth, Status, Ended
      <3> QED BY <1>7, <2>1, <3>1, StreamGrows DEF Accepted
    <2>2. CASE UNCHANGED stream
      BY <1>7, <2>2 DEF StreamInv
    <2> QED BY <1>3, <2>1, <2>2
  <1>9. SellsOver(broker) => SellsOver(broker')
    BY <1>1, <1>6 DEF SellsOver, Forward
  <1>10. BrokerInv'
    <2>1. ASSUME NEW x \in Orders
          PROVE  /\ broker'[x].calls = 0 => broker'[x].status = "absent"
                 /\ row'[x] = NoRow => broker'[x].calls = 0
                 /\ broker'[x].calls <= 1
      BY <1>1, <1>5 DEF LiveInv, BrokerInv, SubmittedOnce
    <2>2. ASSUME NEW b \in Buys, broker'[b].calls > 0 PROVE SellsOver(broker')
      <3>1. CASE b = o
        BY <1>1, <1>9, <3>1 DEF MainOK
      <3>2. CASE b # o
        BY <1>1, <1>5, <1>9, <2>2, <3>2 DEF LiveInv, BrokerInv, BuysAfterSells, SellsOver
      <3> QED BY <3>1, <3>2
    <2> QED BY <1>5, <2>1, <2>2 DEF BrokerInv, SubmittedOnce, BuysAfterSells, SellsOver
  <1>11. MainInv'
    <2>1. /\ main' \in Memory /\ main'.pc \in {"answer", "unknown"} /\ main'.order = o
          /\ main'.todo = main.todo /\ main'.buying = main.buying
          /\ main'.pc = "answer" => main'.answer.status = "new"
      <3> DEFINE new == [status |-> "new", filled |-> 0]
      <3>1. new \in [status : Status, filled : Nat] /\ new.status = "new"
        BY DEF Status
      <3>2. CASE main' = [main EXCEPT !.pc = "answer", !.answer = new]
        <4> HIDE DEF new
        <4> QED BY <1>1, <3>1, <3>2 DEF Memory, MainPC, Holding
      <3>3. CASE main' = [main EXCEPT !.pc = "unknown"]
        BY <1>1, <3>3 DEF Memory, MainPC, Holding
      <3> QED BY <1>4, <3>2, <3>3
    <2>2. ~main'.buying => \A s \in Sells \ main'.todo : row'[s] # NoRow
      BY <1>1, <2>1 DEF MainOK, Holding
    <2> QED BY <1>1, <1>9, <2>1, <2>2 DEF MainInv, MainOK, Truth, Ended
  <1> QED BY <1>7, <1>8, <1>10, <1>11 DEF LiveInv

\* _transition: what is written is what was answered.
LEMMA ValidateKeeps == ASSUME LiveInv, Validate \/ Check PROVE LiveInv'
  <1>1. /\ UNCHANGED <<row, broker, stream, upd, recon>> /\ MainOK(broker, row, main)
        /\ main \in Memory
    BY MainFacts DEF Validate, Check
  <1>2. \/ main' = Idle
        \/ \E pc \in {"write", "commit"}, x \in RowState :
             main' = [main EXCEPT !.pc = pc, !.read = x] /\ main.pc \in {"answer", "write"}
        \/ \E pc \in {"write_unknown", "commit_unknown"}, x \in RowState :
             main' = [main EXCEPT !.pc = pc, !.read = x] /\ main.pc \in {"unknown", "write_unknown"}
        \/ main' = [main EXCEPT !.pc = "commit"] /\ main.pc = "write"
        \/ main' = [main EXCEPT !.pc = "commit_unknown"] /\ main.pc = "write_unknown"
    <2>1. CASE Check
      BY <2>1 DEF Check, Fails, At
    <2>2. CASE Validate
      <3>1. row[main.order].state \in RowState
        BY <2>2, MainFacts DEF Validate, LiveInv, RowInv, Rows, Row, Holding
      <3> QED BY <2>2, <3>1 DEF Validate, Fails, At
    <2> QED BY <2>1, <2>2
  <1>3. MainOK(broker, row, main')
    <2>1. CASE main' = Idle
      BY <2>1, IdleOK
    <2>2. ASSUME NEW pc \in {"write", "commit"}, NEW x \in RowState,
                 main' = [main EXCEPT !.pc = pc, !.read = x], main.pc \in {"answer", "write"}
          PROVE  MainOK(broker, row, main')
      BY <1>1, <2>2 DEF MainOK, Memory, MainPC, Holding
    <2>3. ASSUME NEW pc \in {"write_unknown", "commit_unknown"}, NEW x \in RowState,
                 main' = [main EXCEPT !.pc = pc, !.read = x],
                 main.pc \in {"unknown", "write_unknown"}
          PROVE  MainOK(broker, row, main')
      BY <1>1, <2>3 DEF MainOK, Memory, MainPC, Holding
    <2>4. CASE main' = [main EXCEPT !.pc = "commit"] /\ main.pc = "write"
      BY <1>1, <2>4 DEF MainOK, Memory, MainPC, Holding
    <2>5. CASE main' = [main EXCEPT !.pc = "commit_unknown"] /\ main.pc = "write_unknown"
      BY <1>1, <2>5 DEF MainOK, Memory, MainPC, Holding
    <2> QED BY <1>2, <2>1, <2>2, <2>3, <2>4, <2>5
  <1>4. ReconInv'
    BY <1>1, QuietStep, SameRows
  <1> QED BY <1>1, <1>3, <1>4, MainStays

\* The next intent of the leg is due.
LEMMA AnsweredOK ==
  ASSUME LiveInv, main.pc \in Holding, NEW a \in BOOLEAN
  PROVE  MainOK(broker, row, Answered) /\ MainOK(broker, row, [Answered EXCEPT !.ambiguous = a])
  <1>1. /\ MainOK(broker, row, main) /\ main \in Memory
        /\ main.todo \in SUBSET Orders /\ main.buying \in BOOLEAN /\ main.ambiguous \in BOOLEAN
    BY MainFacts DEF Memory
  <1>2. /\ Answered \in Memory /\ Answered.pc = "next" /\ Answered.todo = main.todo
        /\ Answered.buying = main.buying
    BY <1>1 DEF Answered, Idle, Memory, MainPC, Status
  <1> DEFINE m == [Answered EXCEPT !.ambiguous = a]
  <1>3. m \in Memory /\ m.pc = "next" /\ m.todo = main.todo /\ m.buying = main.buying
    BY <1>2 DEF Memory
  <1> HIDE DEF m
  <1>4. MainOK(broker, row, Answered)
    BY <1>1, <1>2 DEF MainOK, Holding
  <1>5. MainOK(broker, row, m)
    BY <1>1, <1>3 DEF MainOK, Holding
  <1> QED BY <1>4, <1>5 DEF m

\* transition_order with the answer, or with none.
LEMMA WriteKeeps == ASSUME LiveInv, Write \/ WriteUnknown PROVE LiveInv'
  <1>1. /\ UNCHANGED <<broker, stream, upd, recon>> /\ main.pc \in Holding
        /\ main \in Memory /\ main.order \in Orders
    BY MainFacts DEF Write, WriteUnknown, At, Holding
  <1>2. MainOK(broker, row, main')
    BY <1>1, AnsweredOK DEF Write, WriteUnknown
  <1>3. RowInv' /\ Kept(row, row')
    <2>1. CASE Write
      <3>1. /\ main.answer.status \in Status /\ main.answer.filled \in Nat
            /\ Truth(broker, main.order, main.answer.status, main.answer.filled)
        BY <2>1, MainFacts DEF Write, At, Memory, MainOK
      <3>2. row' = [row EXCEPT ![main.order] = [state |-> StateFor(main.answer.status),
                                                filled |-> main.answer.filled]]
        BY <2>1 DEF Write, Moves
      <3> QED BY <1>1, <3>1, <3>2, TrueRow
    <2>2. CASE WriteUnknown
      BY <1>1, <2>2, OpenState DEF WriteUnknown, RowState, Terminal
    <2> QED BY <2>1, <2>2
  <1> QED BY <1>1, <1>2, <1>3, QuietStep DEF LiveInv

\* The legs are through.
LEMMA ClosingOK ==
  ASSUME LiveInv, NEW pc \in {"close", "closing"}
  PROVE  MainOK(broker, row, [main EXCEPT !.pc = pc])
  BY MainFacts DEF MainOK, Memory, MainPC, Holding

\* The buy leg begins when the sells have ended.
LEMMA BuyLegOK ==
  ASSUME LiveInv, SellsOver(broker), NEW t \in SUBSET Buys
  PROVE  MainOK(broker, row, [main EXCEPT !.pc = "next", !.todo = t, !.buying = TRUE])
  <1> DEFINE m == [main EXCEPT !.pc = "next", !.todo = t, !.buying = TRUE]
  <1>1. t \in SUBSET Orders
    BY DEF Orders
  <1>2. m \in Memory /\ m.pc = "next" /\ m.todo = t /\ m.buying
    BY <1>1, MainFacts DEF Memory, MainPC
  <1> HIDE DEF m
  <1>3. MainOK(broker, row, m)
    BY <1>2 DEF MainOK, Holding
  <1> QED BY <1>3 DEF m

\* Rows that are terminal show that the orders have ended.
LEMMA RowsShowEnd ==
  ASSUME LiveInv, \A s \in Sells : row[s].state \in Terminal
  PROVE  SellsOver(broker)
  BY DEF LiveInv, RowInv, TerminalIsTrue, SellsOver, Orders

\* The daemon's reconciliation is over.
LEMMA ReconCleared ==
  ASSUME LiveInv, UNCHANGED broker, recon' = [recon EXCEPT ![Daemon] = NoRecon]
  PROVE  ReconInv'
  BY MainFacts, ResetOK, OneRecon

\* reconcile_after_sells, before and after the reconciliation.
LEMMA LegKeeps == ASSUME LiveInv, SellsSubmitted \/ AfterSells PROVE LiveInv'
  <1>1. UNCHANGED <<row, broker, stream, upd>>
    BY DEF SellsSubmitted, AfterSells, db
  <1>2. MainOK(broker, row, main) /\ main \in Memory /\ Sells \subseteq Orders /\ Daemon \in Procs
    BY MainFacts
  <1>3. CASE SellsSubmitted
    <2>1. CASE Sells = {}
      <3>1. main' = [main EXCEPT !.todo = Buys, !.buying = TRUE] /\ UNCHANGED recon
        BY <1>3, <2>1 DEF SellsSubmitted
      <3>2. main' = [main EXCEPT !.pc = "next", !.todo = Buys, !.buying = TRUE]
        BY <1>2, <1>3, <3>1 DEF SellsSubmitted, At, Memory
      <3>3. SellsOver(broker)
        BY <2>1 DEF SellsOver
      <3>4. MainOK(broker, row, main')
        BY <3>2, <3>3, BuyLegOK
      <3> QED BY <1>1, <3>1, <3>4, MainStays, QuietStep, SameRows
    <2>2. CASE Sells # {}
      <3>1. main' = [main EXCEPT !.pc = "reconciling"] /\ BeginRecon(Daemon)
        BY <1>3, <2>2 DEF SellsSubmitted
      <3>2. main.pc = "next" /\ main.todo = {} /\ ~main.buying
        BY <1>3 DEF SellsSubmitted, At
      <3>3. MainOK(broker, row, main')
        BY <1>2, <3>1, <3>2 DEF MainOK, Memory, MainPC, Holding
      <3> QED BY <1>1, <1>2, <3>1, <3>3, BeginOK, MainStays
    <2> QED BY <2>1, <2>2
  <1>4. CASE AfterSells
    <2>1. ReconInv'
      BY <1>1, <1>4, ReconCleared DEF AfterSells
    <2>2. CASE main' = [main EXCEPT !.pc = "close"]
      BY <1>1, <2>1, <2>2, ClosingOK, MainStays
    <2>3. CASE SellsEnded /\ main' = [main EXCEPT !.pc = "next", !.todo = Buys, !.buying = TRUE]
      <3>1. SellsOver(broker)
        <4>1. CASE main.buying
          BY <1>2, <4>1 DEF MainOK
        <4>2. CASE ~main.buying
          <5>1. \A s \in Sells : row[s] # NoRow
            BY <1>2, <1>4, <4>2 DEF AfterSells, At, MainOK
          <5>2. \A s \in Sells : row[s].state # "NONE"
            BY <1>2, <5>1 DEF LiveInv, RowInv, Rows, Row, RowState, Working, Terminal
          <5> QED BY <2>3, <5>2, RowsShowEnd DEF SellsEnded
        <4> QED BY <4>1, <4>2
      <3>2. MainOK(broker, row, main')
        BY <2>3, <3>1, BuyLegOK
      <3> QED BY <1>1, <2>1, <3>2, MainStays
    <2> QED BY <1>4, <2>2, <2>3 DEF AfterSells
  <1> QED BY <1>3, <1>4

\* The end of a cycle, and the buys that a later cycle takes up.
LEMMA CycleKeeps ==
  ASSUME LiveInv,
         \/ Ambiguous \/ Close \/ CycleRaises \/ Resume \/ Abandon
         \/ \E refused \in BOOLEAN : Resumed(refused)
  PROVE  LiveInv'
  <1>1. UNCHANGED <<row, broker, stream, upd>>
    BY DEF Ambiguous, Close, CycleRaises, Resume, Resumed, Abandon, db
  <1>2. MainOK(broker, row, main) /\ main \in Memory /\ Daemon \in Procs
    BY MainFacts
  <1>3. UNCHANGED recon => ReconInv'
    BY <1>1, QuietStep, SameRows
  <1>4. recon' = [recon EXCEPT ![Daemon] = NoRecon] => ReconInv'
    BY <1>1, ReconCleared
  <1>5. BeginRecon(Daemon) => ReconInv'
    BY <1>1, <1>2, BeginOK
  <1>6. CASE Ambiguous
    BY <1>1, <1>5, <1>6, ClosingOK, MainStays DEF Ambiguous
  <1>7. CASE Close \/ CycleRaises
    BY <1>1, <1>3, <1>4, <1>7, IdleOK, MainStays DEF Close, CycleRaises, Fails
  <1>8. CASE Resume
    <2>1. main' = [main EXCEPT !.pc = "resuming"] /\ SellsOver(broker)
      BY <1>8, RowsShowEnd DEF Resume
    <2>2. MainOK(broker, row, main')
      BY <1>2, <2>1 DEF MainOK, Memory, MainPC, Holding
    <2> QED BY <1>1, <1>5, <1>8, <2>2, MainStays DEF Resume
  <1>9. ASSUME NEW refused \in BOOLEAN, Resumed(refused) PROVE LiveInv'
    <2>1. SellsOver(broker) /\ Unreserved \in SUBSET Buys
      BY <1>2, <1>9 DEF Resumed, At, MainOK, Unreserved
    <2>2. MainOK(broker, row, main')
      BY <1>9, <2>1, IdleOK, BuyLegOK DEF Resumed
    <2> QED BY <1>1, <1>4, <1>9, <2>2, MainStays DEF Resumed
  <1>10. CASE Abandon
    BY <1>1, <1>2, <1>3, <1>10, MainStays DEF Abandon
  <1> QED BY <1>6, <1>7, <1>8, <1>9, <1>10
-----------------------------------------------------------------------------
(***************************************************************************)
(* The update thread and the reconcilers.                                  *)
(***************************************************************************)
\* process_trade_update: a row follows a true update.
LEMMA UpdateKeeps == ASSUME LiveInv, UpdateStep PROVE LiveInv'
  <1>1. UpdOK(broker, upd) /\ stream \in Seq(Truthful(broker)) /\ UpdOK(broker, NoUpdate)
    BY ResetOK DEF LiveInv, UpdInv, StreamInv
  <1>2. UNCHANGED <<broker, main, recon>>
    BY DEF UpdateStep, Deliver, CheckUpdate, ApplyUpdate, RecordFill
  <1>3. ASSUME RowInv', Kept(row, row'), StreamInv', UpdOK(broker, upd') PROVE LiveInv'
    BY <1>2, <1>3, QuietStep DEF LiveInv, UpdInv
  <1>4. UNCHANGED row => RowInv' /\ Kept(row, row')
    BY <1>2, SameRows
  <1>5. UNCHANGED stream => StreamInv'
    BY <1>1, <1>2 DEF StreamInv
  <1>6. CASE Deliver
    <2> DEFINE u == Head(stream)
    <2>1. u \in Truthful(broker) /\ Tail(stream) \in Seq(Truthful(broker))
      BY <1>1, <1>6, HeadTailProperties DEF Deliver
    <2>2. UpdOK(broker, [pc |-> "write", u |-> u, read |-> row[u.order].state,
                         prior |-> row[u.order].filled])
      BY <2>1 DEF UpdOK
    <2>3. UpdOK(broker, upd') /\ stream' = Tail(stream) /\ UNCHANGED row
      BY <1>1, <1>6, <2>2 DEF Deliver, db
    <2>4. StreamInv'
      BY <1>2, <2>1, <2>3 DEF StreamInv
    <2> QED BY <1>3, <1>4, <2>3, <2>4
  <1>7. CASE CheckUpdate
    <2>1. UpdOK(broker, [upd EXCEPT !.pc = "commit"])
      BY <1>1, <1>7 DEF CheckUpdate, UpdOK
    <2>2. UpdOK(broker, upd') /\ UNCHANGED <<row, stream>>
      BY <1>1, <1>7, <2>1 DEF CheckUpdate, db
    <2> QED BY <1>3, <1>4, <1>5, <2>2
  <1>8. CASE ApplyUpdate
    <2> DEFINE u == upd.u
    <2>1. upd.pc = "commit" /\ u \in Truthful(broker) /\ UNCHANGED stream
      BY <1>1, <1>8 DEF ApplyUpdate, UpdOK
    <2>2. /\ u.order \in Orders /\ u.event \in Status /\ u.filled \in Nat
          /\ Truth(broker, u.order, u.event, u.filled)
      BY <2>1 DEF Truthful, Updates
    <2>3. row' = [row EXCEPT ![u.order] = [state |-> StateFor(u.event), filled |-> u.filled]]
      BY <1>8 DEF ApplyUpdate, Moves
    <2>4. RowInv' /\ Kept(row, row')
      BY <1>2, <2>2, <2>3, TrueRow
    <2>5. UpdOK(broker, [upd EXCEPT !.pc = "fill"])
      BY <1>1, <2>1 DEF UpdOK
    <2>6. UpdOK(broker, upd')
      BY <1>1, <1>8, <2>5 DEF ApplyUpdate
    <2> QED BY <1>3, <1>5, <2>1, <2>4, <2>6
  <1>9. CASE RecordFill
    BY <1>1, <1>3, <1>4, <1>5, <1>9 DEF RecordFill
  <1> QED BY <1>6, <1>7, <1>8, <1>9 DEF UpdateStep

\* The order of the loop is done with, the snapshot stays.
LEMMA ComparedOK ==
  ASSUME NEW r, NEW o \in Orders, ReconOK(broker, r), r.pc \in {"loop", "commit"}
  PROVE  ReconOK(broker, Compared(r, o))
  <1> DEFINE d == r.snap[o].filled - Ledger(o)
             pc == IF d > 0 THEN "repair" ELSE "loop"
             x == IF d > 0 THEN o ELSE ""
             y == IF d > 0 THEN d ELSE 0
             z == r.blocking \/ d < 0 \/ Conflicts(r.rows[o], r.snap[o])
  <1>1. /\ Compared(r, o) = [r EXCEPT !.pc = pc, !.left = @ \ {o}, !.order = x, !.delta = y,
                                      !.blocking = z]
        /\ pc \in {"repair", "loop"}
    BY DEF Compared
  <1> HIDE DEF d, pc, x, y, z
  <1> QED BY <1>1 DEF ReconOK, ReconFields

\* Reconciler.run, in any process: rows follow a true snapshot, however stale.
LEMMA ReconKeeps ==
  ASSUME LiveInv, NEW p \in Procs, Monitor(p) \/ ReadAccount(p) \/ ReconStep(p)
  PROVE  LiveInv'
  <1> DEFINE r == recon[p]
  <1>1. ReconOK(broker, r) /\ ReconOK(broker, NoRecon)
        /\ ReconOK(broker, [NoRecon EXCEPT !.pc = "raised"])
    BY ResetOK DEF LiveInv, ReconInv
  <1>2. UNCHANGED <<broker, stream, main, upd>>
    BY DEF Monitor, ReadAccount, ReconStep, ReadLocal, Advance, CommitAdvance, Repair, Finish,
           RecordAccount, MonitorFailed
  <1>3. ASSUME RowInv', Kept(row, row'), ReconInv' PROVE LiveInv'
    BY <1>2, <1>3, QuietStep DEF LiveInv
  <1>4. ASSUME NEW q, ReconOK(broker, q), recon' = [recon EXCEPT ![p] = q], UNCHANGED row
        PROVE  LiveInv'
    <2>1. ReconInv'
      BY <1>2, <1>4, OneRecon
    <2> QED BY <1>2, <1>3, <1>4, <2>1, SameRows
  <1>5. CASE Monitor(p)
    <2>1. ReconInv' /\ UNCHANGED row
      BY <1>2, <1>5, BeginOK DEF Monitor, db
    <2> QED BY <1>2, <1>3, <2>1, SameRows
  <1>6. CASE ReadLocal(p)
    <2> DEFINE x == Missing(r, row) \/ Moved(r)
               a == AtBroker(r)
               q == [r EXCEPT !.pc = "loop", !.rows = row, !.left = a, !.blocking = x]
    <2>1. recon' = [recon EXCEPT ![p] = q] /\ r.pc = "local" /\ UNCHANGED row /\ a \subseteq Orders
      BY <1>6 DEF ReadLocal, AtBroker, db
    <2> HIDE DEF x, a
    <2>2. ReconOK(broker, q)
      BY <1>1, <2>1 DEF ReconOK, ReconFields
    <2> HIDE DEF q
    <2> QED BY <1>4, <2>1, <2>2
  <1>7. CASE Advance(p)
    <2> DEFINE o == CHOOSE x \in r.left : TRUE
               q == [r EXCEPT !.pc = "commit", !.order = o]
    <2>1. o \in Orders /\ r.pc = "loop"
      BY <1>1, <1>7 DEF Advance, ReconOK
    <2>2. /\ UNCHANGED row
          /\ \/ recon' = [recon EXCEPT ![p] = Compared(r, o)]
             \/ recon' = [recon EXCEPT ![p] = [NoRecon EXCEPT !.pc = "raised"]]
             \/ recon' = [recon EXCEPT ![p] = q]
      BY <1>7 DEF Advance, db
    <2> HIDE DEF o
    <2>3. ReconOK(broker, q)
      BY <1>1, <2>1 DEF ReconOK, ReconFields
    <2>4. ReconOK(broker, Compared(r, o))
      BY <1>1, <2>1, ComparedOK
    <2> HIDE DEF q
    <2> QED BY <1>1, <1>4, <2>2, <2>3, <2>4
  <1>8. CASE CommitAdvance(p)
    <2> DEFINE o == r.order
               b == r.snap[o]
    <2>1. /\ r.pc = "commit" /\ o \in Orders
          /\ b.status \in Status /\ b.filled \in Nat /\ Truth(broker, o, b.status, b.filled)
      BY <1>1, <1>8 DEF CommitAdvance, ReconOK, Views
    <2>2. CASE UNCHANGED row /\ recon' = [recon EXCEPT ![p] = [NoRecon EXCEPT !.pc = "raised"]]
      BY <1>1, <1>4, <2>2
    <2>3. CASE /\ row' = [row EXCEPT ![o] = [state |-> StateFor(b.status), filled |-> b.filled]]
               /\ recon' = [recon EXCEPT ![p] = Compared(r, o)]
      <3>1. RowInv' /\ Kept(row, row')
        BY <1>2, <2>1, <2>3, TrueRow
      <3>2. ReconOK(broker, Compared(r, o))
        BY <1>1, <2>1, ComparedOK
      <3>3. ReconInv'
        BY <1>2, <2>3, <3>2, OneRecon
      <3> QED BY <1>3, <3>1, <3>3
    <2> QED BY <1>8, <2>2, <2>3 DEF CommitAdvance, Moves
  <1>9. CASE Repair(p)
    <2> DEFINE q == [r EXCEPT !.pc = "loop", !.order = "", !.delta = 0]
    <2>1. recon' = [recon EXCEPT ![p] = q] /\ r.pc = "repair" /\ UNCHANGED row
      BY <1>9 DEF Repair
    <2>2. ReconOK(broker, q)
      BY <1>1, <2>1 DEF ReconOK, ReconFields
    <2> HIDE DEF q
    <2> QED BY <1>4, <2>1, <2>2
  <1>10. CASE Finish(p)
    <2> DEFINE q == [NoRecon EXCEPT !.pc = "done", !.blocking = r.blocking]
    <2>1. /\ UNCHANGED row
          /\ recon' = [recon EXCEPT ![p] = q] \/ recon' = [recon EXCEPT ![p] = NoRecon]
      BY <1>10 DEF Finish
    <2>2. ReconOK(broker, q)
      BY ResetOK
    <2> HIDE DEF q
    <2> QED BY <1>1, <1>4, <2>1, <2>2
  <1>11. CASE MonitorFailed(p)
    BY <1>1, <1>4, <1>11 DEF MonitorFailed, db
  <1>12. CASE ReadAccount(p)
    BY <1>4, <1>12, ResetOK DEF ReadAccount, db
  <1>13. CASE RecordAccount(p)
    BY <1>1, <1>4, <1>13 DEF RecordAccount
  <1> QED BY <1>5, <1>6, <1>7, <1>8, <1>9, <1>10, <1>11, <1>12, <1>13 DEF ReconStep
-----------------------------------------------------------------------------
(***************************************************************************)
(* The broker and the faults.                                              *)
(***************************************************************************)
\* An open order trades or ends, and an update says so.
LEMMA MarketKeeps ==
  ASSUME LiveInv, NEW o \in Orders, Trade(o) \/ End(o)
  PROVE  LiveInv'
  <1>1. UNCHANGED <<row, main, upd, recon>> /\ broker[o].status \in {"new", "partially_filled"}
    BY DEF Trade, End, Open, db
  <1>2. broker \in Books /\ broker[o].filled \in Nat
    BY DEF LiveInv, BrokerInv, Books
  <1>3. PICK s \in Status \ {"absent"}, f \in Nat :
          /\ broker' = [broker EXCEPT ![o].status = s, ![o].filled = f]
          /\ stream' = Append(stream, Update(o, s, f))
    <2>1. CASE Trade(o)
      <3> DEFINE f == broker[o].filled + 1
                 s == IF f = Qty[o] THEN "filled" ELSE "partially_filled"
      <3>1. s \in Status \ {"absent"} /\ f \in Nat
        BY <1>2 DEF Status, Ended
      <3> QED BY <2>1, <3>1 DEF Trade
    <2>2. CASE End(o)
      <3>1. "canceled" \in Status \ {"absent"}
        BY DEF Status, Ended
      <3>2. [broker EXCEPT ![o].status = "canceled"]
              = [broker EXCEPT ![o].status = "canceled", ![o].filled = broker[o].filled]
        BY <1>2 DEF Books
      <3> QED BY <1>2, <2>2, <3>1, <3>2 DEF End
    <2> QED BY <2>1, <2>2
  <1>4. /\ broker' \in Books /\ SameCalls(broker, broker')
        /\ broker'[o].status = s /\ broker'[o].filled = f
        /\ \A x \in Orders \ {o} : broker'[x] = broker[x]
    BY <1>2, <1>3 DEF Books, SameCalls
  <1>5. Forward(broker, broker')
    BY <1>1, <1>4 DEF Forward, Ended
  <1>6. RowInv' /\ UpdInv' /\ ReconInv' /\ stream \in Seq(Truthful(broker'))
    BY <1>1, <1>5, BrokerStep
  <1>7. StreamInv'
    <2>1. Update(o, s, f) \in Truthful(broker')
      BY <1>4 DEF Update, Truthful, Updates, Truth
    <2> QED BY <1>3, <1>6, <2>1, StreamGrows
  <1>8. BrokerInv'
    <2>1. \A x \in Orders : broker'[x].calls = broker[x].calls
      BY <1>4 DEF SameCalls
    <2>2. \A x \in Orders : broker'[x].calls = 0 => broker'[x].status = "absent"
      BY <1>1, <1>4, <2>1 DEF LiveInv, BrokerInv
    <2>3. BuysAfterSells'
      BY <1>5, <2>1 DEF LiveInv, BrokerInv, BuysAfterSells, Forward, Orders
    <2>4. SubmittedOnce' /\ \A x \in Orders : row'[x] = NoRow => broker'[x].calls = 0
      BY <1>1, <2>1 DEF LiveInv, BrokerInv, SubmittedOnce
    <2> QED BY <1>4, <2>2, <2>3, <2>4 DEF BrokerInv
  <1>9. MainInv'
    <2>1. Kept(row, row) /\ Sells \subseteq Orders
      BY DEF Kept, Orders
    <2>2. MainOK(broker', row, main)
      BY <1>4, <1>5, <2>1, MainForward DEF LiveInv, MainInv
    <2> QED BY <1>1, <2>2 DEF MainInv
  <1> QED BY <1>6, <1>7, <1>8, <1>9 DEF LiveInv

\* Updates are lost or repeated, and the daemon is started again.
LEMMA FaultKeeps == ASSUME LiveInv, Disconnect \/ Repeat \/ Crash PROVE LiveInv'
  <1>1. UNCHANGED <<row, broker>>
    BY DEF Disconnect, Repeat, Crash, db
  <1>2. RowInv' /\ Kept(row, row') /\ BrokerInv'
    BY <1>1, SameRows, QuietStep
  <1>3. StreamInv'
    <2>1. stream \in Seq(Truthful(broker))
      BY DEF LiveInv, StreamInv
    <2>2. <<>> \in Seq(Truthful(broker))
      BY EmptySeq
    <2>3. stream # <<>> => Append(stream, Head(stream)) \in Seq(Truthful(broker))
      BY <2>1, HeadTailProperties, AppendProperties
    <2> QED BY <1>1, <2>2, <2>3 DEF StreamInv, Disconnect, Repeat, Crash
  <1>4. UpdInv' /\ ReconInv' /\ MainInv'
    <2>1. CASE Disconnect \/ Repeat
      BY <1>1, <1>2, <2>1, QuietStep DEF Disconnect, Repeat
    <2>2. CASE Crash
      <3>1. ReconInv'
        BY <1>1, <2>2, ReconCleared DEF Crash
      <3>2. UpdInv' /\ MainInv'
        BY <2>2, ResetOK, IdleOK DEF Crash, UpdInv, MainInv
      <3> QED BY <3>1, <3>2
    <2> QED BY <2>1, <2>2
  <1> QED BY <1>2, <1>3, <1>4 DEF LiveInv
-----------------------------------------------------------------------------
(***************************************************************************)
(* Theorems.                                                               *)
(***************************************************************************)
\* An authorized decision, and nothing sent.
LEMMA LiveInitially == Init => LiveInv
  <1> SUFFICES ASSUME Init PROVE LiveInv
    OBVIOUS
  <1>1. RowInv
    BY DEF Init, RowInv, Rows, NoRow, TerminalIsTrue, Terminal
  <1>2. BrokerInv
    BY DEF Init, BrokerInv, Books, Status, SubmittedOnce, BuysAfterSells, Orders
  <1>3. StreamInv /\ UpdInv
    BY EmptySeq, ResetOK DEF Init, StreamInv, UpdInv
  <1>4. ReconInv
    BY ResetOK DEF Init, ReconInv
  <1>5. MainInv
    <2>1. Idle \in Memory /\ Sells \in SUBSET Orders
      BY IdleOK DEF MainOK, Orders
    <2>2. /\ main \in Memory /\ main.pc = "next" /\ main.todo = Sells /\ main.buying = Idle.buying
      BY <2>1 DEF Init, Memory, MainPC
    <2>3. ~Idle.buying
      BY DEF Idle
    <2> QED BY <2>2, <2>3 DEF MainInv, MainOK, Holding
  <1> QED BY <1>1, <1>2, <1>3, <1>4, <1>5 DEF LiveInv

\* Every step keeps the invariant.
LEMMA LiveStep == LiveInv /\ [Next]_vars => LiveInv'
  <1> SUFFICES ASSUME LiveInv, [Next]_vars PROVE LiveInv'
    OBVIOUS
  <1>1. CASE UNCHANGED vars
    BY <1>1, MainFacts, SameRows, QuietStep DEF vars, LiveInv
  <1>2. CASE MainStep
    BY <1>2, ReserveKeeps, StartKeeps, CallKeeps, ValidateKeeps, WriteKeeps, LegKeeps, CycleKeeps
    DEF MainStep
  <1> QED BY <1>1, <1>2, UpdateKeeps, ReconKeeps, MarketKeeps, FaultKeeps DEF Next

\* The invariant holds in every state that the daemon's threads, command-line
\* processes, the broker and faults reach.
THEOREM LiveSafe == Spec => []LiveInv
  BY LiveInitially, LiveStep, PTL DEF Spec

\* submit_intent calls the broker at most once for an intent, whatever raises,
\* crashes or is resumed.
THEOREM LiveSubmittedOnce == Spec => []SubmittedOnce
  <1>1. LiveInv => SubmittedOnce
    BY DEF LiveInv, BrokerInv
  <1> QED BY <1>1, LiveSafe, PTL

\* A terminal row tells the truth, although transition_order checks and writes in
\* two steps that other processes may come between.
THEOREM LiveTerminalIsTrue == Spec => []TerminalIsTrue
  <1>1. LiveInv => TerminalIsTrue
    BY DEF LiveInv, RowInv
  <1> QED BY <1>1, LiveSafe, PTL

\* execute and _resume_pending_executions send no buy before all sells have ended
\* at the broker.
THEOREM LiveBuysAfterSells == Spec => []BuysAfterSells
  <1>1. LiveInv => BuysAfterSells
    BY DEF LiveInv, BrokerInv
  <1> QED BY <1>1, LiveSafe, PTL
-----------------------------------------------------------------------------
(***************************************************************************)
(* Sums over finite sets.                                                  *)
(***************************************************************************)
\* Induction on the natural numbers, for a set of them.
LEMMA Induction ==
  ASSUME NEW P \in SUBSET Nat, 0 \in P, \A n \in P : n + 1 \in P
  PROVE  \A n \in Nat : n \in P
  <1> DEFINE R == OpToRel(<, Nat)
  <1>1. R = {ss \in Nat \X Nat : ss[1] < ss[2]}
    BY DEF OpToRel
  <1>2. IsWellFoundedOn(R, Nat)
    BY NatLessThanWellFounded
  <1> HIDE DEF R
  <1> SUFFICES ASSUME Nat \ P # {} PROVE FALSE
    OBVIOUS
  <1>3. PICK m \in Nat \ P : \A r \in Nat \ P : ~(<<r, m>> \in R)
    <2>1. Nat \ P \in SUBSET Nat
      OBVIOUS
    <2> QED BY <1>2, <2>1, WFMin
  <1>4. m # 0 /\ m - 1 \in Nat /\ m - 1 < m
    BY <1>3
  <1>5. m - 1 \in P
    BY <1>1, <1>3, <1>4
  <1>6. (m - 1) + 1 \in P
    BY <1>5
  <1> QED BY <1>3, <1>6

\* The sum of the values of g, and the function that adds them up.
Total(g, S) == MapThenSumSet(LAMBDA x : g[x], S)
Adds(h, g, S) ==
  h = [s \in SUBSET S |-> IF s = {} THEN 0
                          ELSE LET x == CHOOSE x \in s : TRUE IN g[x] + h[s \ {x}]]

\* The element that is taken next from a set.
LEMMA Taken ==
  ASSUME NEW s, IsFiniteSet(s), s # {}
  PROVE  LET x == CHOOSE x \in s : TRUE
         IN /\ x \in s /\ IsFiniteSet(s \ {x}) /\ Cardinality(s) \in Nat \ {0}
            /\ Cardinality(s \ {x}) = Cardinality(s) - 1
  <1> DEFINE x == CHOOSE x \in s : TRUE
  <1>1. x \in s
    OBVIOUS
  <1> HIDE DEF x
  <1>2. /\ IsFiniteSet(s \ {x}) /\ Cardinality(s) \in Nat /\ Cardinality(s) # 0
        /\ Cardinality(s \ {x}) = Cardinality(s) - 1
    BY <1>1, FS_RemoveElement, FS_CardinalityType, FS_EmptySet
  <1> QED BY <1>1, <1>2 DEF x

\* It exists for every finite set.
LEMMA AddsExists ==
  ASSUME NEW S, IsFiniteSet(S), NEW g
  PROVE  \E h : Adds(h, g, S)
  <1> DEFINE Up(n) == {s \in SUBSET S : Cardinality(s) <= n}
             Val(h, s) == IF s = {} THEN 0
                          ELSE LET x == CHOOSE x \in s : TRUE IN g[x] + h[s \ {x}]
             Good(h, n) == h = [s \in Up(n) |-> Val(h, s)]
             P == {n \in Nat : \E h : Good(h, n)}
  <1>1. \A s \in SUBSET S : IsFiniteSet(s) /\ Cardinality(s) \in Nat
    BY FS_Subset, FS_CardinalityType
  <1>2. 0 \in P
    <2> DEFINE h == [s \in Up(0) |-> 0]
    <2>1. \A s \in Up(0) : s = {}
      BY <1>1, FS_EmptySet
    <2>2. Good(h, 0)
      BY <2>1
    <2> QED BY <2>2
  <1>3. ASSUME NEW n \in P PROVE n + 1 \in P
    <2>1. PICK h : Good(h, n)
      OBVIOUS
    <2> DEFINE k == [s \in Up(n + 1) |-> Val(h, s)]
    <2>2. Up(n) \subseteq Up(n + 1)
      BY <1>1
    <2>3. \A s \in Up(n) : k[s] = h[s]
      <3> TAKE s \in Up(n)
      <3>1. k[s] = Val(h, s)
        BY <2>2
      <3>2. h[s] = Val(h, s)
        BY <2>1
      <3> QED BY <3>1, <3>2
    <2>4. \A s \in Up(n + 1) : Val(h, s) = Val(k, s)
      <3> TAKE s \in Up(n + 1)
      <3> DEFINE x == CHOOSE x \in s : TRUE
      <3>1. CASE s = {}
        BY <3>1
      <3>2. CASE s # {}
        <4>1. s \ {x} \in Up(n)
          BY <1>1, <3>2, Taken
        <4>2. k[s \ {x}] = h[s \ {x}]
          BY <2>3, <4>1
        <4> QED BY <3>2, <4>2
      <3> QED BY <3>1, <3>2
    <2> HIDE DEF Val, Up
    <2>5. Good(k, n + 1)
      BY <2>4
    <2>6. n + 1 \in Nat
      OBVIOUS
    <2> HIDE DEF Good, k
    <2> QED BY <2>5, <2>6
  <1>4. \A n \in Nat : n \in P
    <2> HIDE DEF P
    <2>1. P \in SUBSET Nat
      BY DEF P
    <2> QED BY <1>2, <1>3, <2>1, Induction
  <1>5. Cardinality(S) \in Nat /\ Up(Cardinality(S)) = SUBSET S
    BY <1>1, FS_Subset, FS_CardinalityType
  <1>6. PICK h : Good(h, Cardinality(S))
    BY <1>4, <1>5
  <1> QED BY <1>5, <1>6 DEF Adds

\* Its value at a set depends on the values of g there alone.
LEMMA AddsUnique ==
  ASSUME NEW S, IsFiniteSet(S), NEW T \in SUBSET S, NEW g, NEW f, \A x \in T : g[x] = f[x],
         NEW h, NEW k, Adds(h, g, S), Adds(k, f, T)
  PROVE  \A s \in SUBSET T : h[s] = k[s]
  <1> DEFINE P == {n \in Nat : \A s \in SUBSET T : Cardinality(s) = n => h[s] = k[s]}
  <1>1. \A s \in SUBSET T : IsFiniteSet(s) /\ Cardinality(s) \in Nat
    BY FS_Subset, FS_CardinalityType
  <1>2. 0 \in P
    <2> SUFFICES ASSUME NEW s \in SUBSET T, Cardinality(s) = 0 PROVE h[s] = k[s]
      OBVIOUS
    <2>1. s = {}
      BY <1>1, FS_EmptySet
    <2> QED BY <2>1 DEF Adds
  <1>3. ASSUME NEW n \in P PROVE n + 1 \in P
    <2> SUFFICES ASSUME NEW s \in SUBSET T, Cardinality(s) = n + 1 PROVE h[s] = k[s]
      OBVIOUS
    <2> DEFINE x == CHOOSE x \in s : TRUE
    <2>0. n \in Nat /\ n + 1 # 0
      OBVIOUS
    <2>1. s # {}
      BY <2>0, FS_EmptySet
    <2>2. x \in s /\ s \ {x} \in SUBSET T /\ Cardinality(s \ {x}) = n
      BY <1>1, <2>1, Taken
    <2>3. h[s \ {x}] = k[s \ {x}]
      BY <2>2
    <2>4. h[s] = g[x] + h[s \ {x}] /\ k[s] = f[x] + k[s \ {x}]
      BY <2>1 DEF Adds
    <2> QED BY <2>2, <2>3, <2>4
  <1>4. \A n \in Nat : n \in P
    <2> HIDE DEF P
    <2>1. P \in SUBSET Nat
      BY DEF P
    <2> QED BY <1>2, <1>3, <2>1, Induction
  <1> QED BY <1>1, <1>4

\* A sum is its value, whichever larger set it adds over.
LEMMA TotalIs ==
  ASSUME NEW S, IsFiniteSet(S), NEW g, NEW h, Adds(h, g, S)
  PROVE  \A T \in SUBSET S : Total(g, T) = h[T]
  <1> TAKE T \in SUBSET S
  <1> DEFINE k == CHOOSE k : Adds(k, g, T)
  <1>1. IsFiniteSet(T)
    BY FS_Subset
  <1>2. Adds(k, g, T)
    BY <1>1, AddsExists
  <1>3. Total(g, T) = k[T]
    BY DEF Total, MapThenSumSet, MapThenFoldSet, Adds
  <1> HIDE DEF k
  <1>4. h[T] = k[T]
    BY <1>2, AddsUnique
  <1> QED BY <1>3, <1>4

\* One element more, anywhere in the order in which elements are taken.
LEMMA TotalAdd ==
  ASSUME NEW S, IsFiniteSet(S), NEW y, y \notin S, NEW g, \A x \in S \cup {y} : g[x] \in Int
  PROVE  Total(g, S) \in Int /\ Total(g, S \cup {y}) = Total(g, S) + g[y]
  <1> DEFINE U == S \cup {y}
  <1>1. IsFiniteSet(U) /\ \A s \in SUBSET U : IsFiniteSet(s) /\ Cardinality(s) \in Nat
    BY FS_AddElement, FS_Subset, FS_CardinalityType
  <1>2. PICK h : Adds(h, g, U)
    BY <1>1, AddsExists
  <1>3. /\ h[{}] = 0
        /\ \A s \in SUBSET U : s # {} => LET x == CHOOSE x \in s : TRUE IN h[s] = g[x] + h[s \ {x}]
    BY <1>2 DEF Adds
  <1> DEFINE Q(s) == h[s] \in Int /\ \A z \in U \ s : h[s \cup {z}] = h[s] + g[z]
             P == {n \in Nat : \A s \in SUBSET U : Cardinality(s) = n => Q(s)}
  <1>4. ASSUME NEW s \in SUBSET U, NEW z \in U \ s, h[s] \in Int,
               \A x \in s : /\ h[s \ {x}] \in Int
                            /\ \A w \in U \ (s \ {x}) : h[(s \ {x}) \cup {w}] = h[s \ {x}] + g[w]
        PROVE  h[s \cup {z}] = h[s] + g[z]
    <2> DEFINE t == s \cup {z}
               x == CHOOSE x \in t : TRUE
    <2>1. x \in t /\ h[t] = g[x] + h[t \ {x}]
      BY <1>3
    <2> HIDE DEF x
    <2>2. CASE x = z
      <3>1. t \ {x} = s
        BY <2>2
      <3>2. h[s] \in Int /\ g[z] \in Int
        BY <1>4
      <3>3. h[t] = g[z] + h[s]
        BY <2>1, <2>2, <3>1
      <3> QED BY <3>2, <3>3
    <2>3. CASE x # z
      <3>1. x \in s /\ t \ {x} = (s \ {x}) \cup {z} /\ s = (s \ {x}) \cup {x}
        BY <2>1, <2>3
      <3>2. h[t \ {x}] = h[s \ {x}] + g[z]
        BY <1>4, <3>1
      <3>3. h[s] = h[s \ {x}] + g[x]
        BY <1>4, <3>1
      <3>4. h[s \ {x}] \in Int /\ g[x] \in Int /\ g[z] \in Int
        BY <1>4, <3>1
      <3> QED BY <2>1, <3>2, <3>3, <3>4
    <2> QED BY <2>2, <2>3
  <1>5. 0 \in P
    <2> SUFFICES ASSUME NEW s \in SUBSET U, Cardinality(s) = 0 PROVE Q(s)
      <3> HIDE DEF Q, U
      <3> QED OBVIOUS
    <2>1. s = {}
      BY <1>1, FS_EmptySet
    <2> QED BY <1>3, <1>4, <2>1
  <1>6. ASSUME NEW n \in P PROVE n + 1 \in P
    <2>0. n \in Nat /\ n + 1 \in Nat
      OBVIOUS
    <2> SUFFICES ASSUME NEW s \in SUBSET U, Cardinality(s) = n + 1 PROVE Q(s)
      <3> HIDE DEF Q, U
      <3> QED BY <2>0
    <2>1. s # {} /\ \A x \in s : Cardinality(s \ {x}) = n /\ s \ {x} \in SUBSET U
      <3>1. Cardinality(s) # 0
        BY <2>0
      <3>2. \A x \in s : Cardinality(s \ {x}) = Cardinality(s) - 1
        BY <1>1, FS_RemoveElement
      <3>3. s # {}
        BY <3>1, FS_EmptySet
      <3>4. \A x \in s : Cardinality(s \ {x}) = n
        BY <2>0, <3>2
      <3> QED BY <3>3, <3>4
    <2>2. \A x \in s : /\ h[s \ {x}] \in Int
                       /\ \A w \in U \ (s \ {x}) : h[(s \ {x}) \cup {w}] = h[s \ {x}] + g[w]
      BY <2>1
    <2>3. PICK x \in s : TRUE
      BY <2>1
    <2>4. s = (s \ {x}) \cup {x} /\ x \in U \ (s \ {x})
      BY <2>3
    <2>5. h[s] = h[s \ {x}] + g[x] /\ g[x] \in Int
      BY <2>2, <2>4
    <2>6. h[s] \in Int
      <3>1. h[s \ {x}] \in Int
        BY <2>2
      <3> QED BY <2>5, <3>1
    <2> QED BY <1>4, <2>2, <2>6
  <1>7. \A n \in Nat : n \in P
    <2> HIDE DEF P
    <2>1. P \in SUBSET Nat
      BY DEF P
    <2> QED BY <1>5, <1>6, <2>1, Induction
  <1>8. h[S] \in Int /\ h[U] = h[S] + g[y]
    <2>1. S \in SUBSET U /\ y \in U \ S /\ Cardinality(S) \in Nat
      BY <1>1
    <2> QED BY <1>7, <2>1
  <1>9. Total(g, S) = h[S] /\ Total(g, U) = h[U]
    BY <1>1, <1>2, TotalIs
  <1> QED BY <1>8, <1>9

\* Sums of the same values.
LEMMA TotalSame ==
  ASSUME NEW S, IsFiniteSet(S), NEW g, NEW f, \A x \in S : g[x] = f[x]
  PROVE  Total(g, S) = Total(f, S)
  <1>1. PICK h : Adds(h, g, S)
    BY AddsExists
  <1>2. PICK k : Adds(k, f, S)
    BY AddsExists
  <1>3. S \in SUBSET S
    OBVIOUS
  <1>4. h[S] = k[S]
    BY <1>1, <1>2, <1>3, AddsUnique
  <1> QED BY <1>1, <1>2, <1>3, <1>4, TotalIs

\* Nothing to add.
LEMMA TotalZero ==
  ASSUME NEW S, IsFiniteSet(S), NEW g, \A x \in S : g[x] = 0
  PROVE  Total(g, S) = 0
  <1> DEFINE h == [s \in SUBSET S |-> 0]
             Val(s) == IF s = {} THEN 0 ELSE LET x == CHOOSE x \in s : TRUE IN g[x] + h[s \ {x}]
  <1>1. \A s \in SUBSET S : Val(s) = 0
    <2> TAKE s \in SUBSET S
    <2> DEFINE x == CHOOSE x \in s : TRUE
    <2>1. CASE s # {}
      <3>1. x \in s /\ s \ {x} \in SUBSET S
        BY <2>1
      <3>2. g[x] = 0 /\ h[s \ {x}] = 0
        BY <3>1
      <3> QED BY <2>1, <3>2
    <2> QED BY <2>1
  <1>2. h = [s \in SUBSET S |-> Val(s)]
    <2> HIDE DEF Val
    <2> QED BY <1>1
  <1>3. Adds(h, g, S)
    BY <1>2 DEF Adds
  <1>4. h[S] = 0
    OBVIOUS
  <1> HIDE DEF h
  <1> QED BY <1>3, <1>4, TotalIs
-----------------------------------------------------------------------------
(***************************************************************************)
(* The ledger.  What it holds is defined for any set of fills, so that it  *)
(* can be compared over a step.                                            *)
(***************************************************************************)
\* A fill is reported by an update or repaired by a reconciliation, and counts.
FillIds == {"execution", "reconciliation"} \X Nat
Fills == [order : Orders, id : FillIds, qty : Nat \ {0}]
LedgerOf(F, o) == MapThenSumSet(LAMBDA f : f.qty, {f \in F : f.order = o})

\* The fill of a repair names the quantity it was made for: once it is in the
\* ledger, the ledger holds that much, so a repair that finds it has nothing to add.
FillsOK(F) ==
  /\ IsFiniteSet(F) /\ F \subseteq Fills
  /\ \A o \in Orders : LedgerOf(F, o) \in Nat
  /\ \A f \in F : f.id[1] = "reconciliation" => LedgerOf(F, f.order) >= f.id[2]

\* What a reconciliation has compared is in the ledger, but for the order whose
\* deficit it is about to repair: that deficit it knows, or more.
ReconLedger(F, r) ==
  /\ r.pc \in {"local", "loop", "commit", "repair"} =>
       \A o \in Orders : r.snap[o].status = "absent" => r.snap[o].filled = 0
  /\ r.pc \in {"loop", "commit", "repair"} =>
       \A o \in Orders \ r.left :
         (r.pc = "repair" /\ o = r.order) \/ LedgerOf(F, o) >= r.snap[o].filled
  /\ r.pc = "repair" =>
       /\ r.order \in Orders /\ r.delta \in Nat \ {0}
       /\ LedgerOf(F, r.order) + r.delta >= r.snap[r.order].filled

\* The update thread adds what it read the row to lack.
UpdLedger ==
  /\ upd.pc # "idle" => upd.prior \in Nat
  /\ upd.pc = "fill" => Delta > 0

LedgerInv ==
  /\ FillsOK(fills) /\ UpdLedger
  /\ \A o \in Orders : broker[o].status = "absent" => broker[o].filled = 0
  /\ \A p \in Procs : ReconLedger(fills, recon[p])
-----------------------------------------------------------------------------
(***************************************************************************)
(* The ledger over a step.                                                 *)
(***************************************************************************)
\* A sum over records is a sum over a function of them.
LEMMA QtyTotal ==
  ASSUME NEW S
  PROVE  MapThenSumSet(LAMBDA f : f.qty, S) = Total([f \in S |-> f.qty], S)
  BY DEF MapThenSumSet, MapThenFoldSet, Total

\* A fill counts for its order, and for no other.
LEMMA LedgerAdds ==
  ASSUME NEW F, IsFiniteSet(F), F \subseteq Fills, NEW e \in Fills, e \notin F, NEW o
  PROVE  /\ LedgerOf(F, o) \in Int
         /\ e.order = o => LedgerOf(F \cup {e}, o) = LedgerOf(F, o) + e.qty
         /\ e.order # o => LedgerOf(F \cup {e}, o) = LedgerOf(F, o)
  <1> DEFINE S == {f \in F : f.order = o}
             g == [f \in F \cup {e} |-> f.qty]
  <1>1. IsFiniteSet(S) /\ e \notin S
    BY FS_Subset
  <1>2. \A f \in F \cup {e} : f.qty \in Int /\ g[f] = f.qty
    BY DEF Fills
  <1>3. ASSUME NEW T \in SUBSET (F \cup {e}), IsFiniteSet(T)
        PROVE  MapThenSumSet(LAMBDA f : f.qty, T) = Total(g, T)
    <2> DEFINE h == [f \in T |-> f.qty]
    <2>1. \A f \in T : h[f] = g[f]
      OBVIOUS
    <2> HIDE DEF g
    <2>2. MapThenSumSet(LAMBDA f : f.qty, T) = Total(h, T)
      BY QtyTotal
    <2> HIDE DEF h
    <2>3. Total(h, T) = Total(g, T)
      BY <1>3, <2>1, TotalSame
    <2> QED BY <2>2, <2>3
  <1>4. LedgerOf(F, o) = Total(g, S)
    <2>1. S \in SUBSET (F \cup {e})
      OBVIOUS
    <2> HIDE DEF g
    <2>2. MapThenSumSet(LAMBDA f : f.qty, S) = Total(g, S)
      <3> HIDE DEF S
      <3> QED BY <1>1, <1>3, <2>1
    <2> QED BY <2>2 DEF LedgerOf
  <1>5. Total(g, S) \in Int /\ Total(g, S \cup {e}) = Total(g, S) + g[e]
    <2>1. \A f \in S \cup {e} : g[f] \in Int
      BY <1>2
    <2> HIDE DEF S, g
    <2> QED BY <1>1, <2>1, TotalAdd
  <1>6. ASSUME e.order = o PROVE LedgerOf(F \cup {e}, o) = LedgerOf(F, o) + e.qty
    <2>1. {f \in F \cup {e} : f.order = o} = S \cup {e} /\ S \cup {e} \in SUBSET (F \cup {e})
      BY <1>6
    <2>2. IsFiniteSet(S \cup {e})
      BY <1>1, FS_AddElement
    <2>3. g[e] = e.qty
      BY <1>2
    <2> HIDE DEF S, g
    <2>4. LedgerOf(F \cup {e}, o) = Total(g, S \cup {e})
      BY <1>3, <2>1, <2>2 DEF LedgerOf
    <2> QED BY <1>4, <1>5, <2>3, <2>4
  <1>7. ASSUME e.order # o PROVE LedgerOf(F \cup {e}, o) = LedgerOf(F, o)
    <2>1. {f \in F \cup {e} : f.order = o} = S
      BY <1>7
    <2> QED BY <2>1 DEF LedgerOf
  <1> HIDE DEF S, g
  <1> QED BY <1>4, <1>5, <1>6, <1>7

\* The ledger of LiveOrders.
LEMMA LedgerIs == \A o : Ledger(o) = LedgerOf(fills, o)
  BY DEF Ledger, LedgerOf

\* The ledger holds as much of every order as before.
More(F, G) ==
  \A o \in Orders : /\ LedgerOf(F, o) \in Nat /\ LedgerOf(G, o) \in Nat
                    /\ LedgerOf(G, o) >= LedgerOf(F, o)

\* record_fill: a fill that is new counts, and a repair that is not was made.
LEMMA FillRecorded ==
  ASSUME FillsOK(fills), NEW o \in Orders, NEW id \in FillIds, NEW q \in Nat \ {0},
         id[1] = "reconciliation" => LedgerOf(fills, o) + q >= id[2]
  PROVE  /\ FillsOK(WithFill(o, id, q)) /\ More(fills, WithFill(o, id, q))
         /\ id[1] = "reconciliation" => LedgerOf(WithFill(o, id, q), o) >= id[2]
  <1> DEFINE e == [order |-> o, id |-> id, qty |-> q]
             G == fills \cup {e}
  <1>1. e \in Fills /\ e.order = o /\ e.id = id /\ e.qty = q
    BY DEF Fills
  <1>2. \A x \in Orders : LedgerOf(fills, x) \in Nat
    BY DEF FillsOK
  <1>3. CASE \E f \in fills : f.order = o /\ f.id = id
    <2>1. WithFill(o, id, q) = fills
      BY <1>3 DEF WithFill
    <2>2. More(fills, fills)
      BY <1>2 DEF More
    <2> QED BY <1>3, <2>1, <2>2 DEF FillsOK
  <1>4. CASE ~\E f \in fills : f.order = o /\ f.id = id
    <2>1. WithFill(o, id, q) = G
      BY <1>4 DEF WithFill
    <2>2. e \notin fills
      BY <1>1, <1>4
    <2>3. \A x \in Orders : /\ x = o => LedgerOf(G, x) = LedgerOf(fills, x) + q
                            /\ x # o => LedgerOf(G, x) = LedgerOf(fills, x)
      <3> HIDE DEF e
      <3> QED BY <1>1, <2>2, LedgerAdds DEF FillsOK
    <2>4. IsFiniteSet(G) /\ G \subseteq Fills
      <3> HIDE DEF e
      <3> QED BY <1>1, FS_AddElement DEF FillsOK
    <2> HIDE DEF e, G
    <2>5. More(fills, G)
      BY <1>2, <2>3 DEF More
    <2>6. id[1] = "reconciliation" => LedgerOf(G, o) >= id[2]
      BY <2>3
    <2>7. ASSUME NEW f \in G, f.id[1] = "reconciliation"
          PROVE  LedgerOf(G, f.order) >= f.id[2]
      <3>1. CASE f \in fills
        <4>1. /\ f.order \in Orders /\ f.id[2] \in Nat
              /\ LedgerOf(fills, f.order) >= f.id[2]
          BY <2>7, <3>1 DEF FillsOK, Fills, FillIds
        <4>2. /\ LedgerOf(G, f.order) \in Nat /\ LedgerOf(fills, f.order) \in Nat
              /\ LedgerOf(G, f.order) >= LedgerOf(fills, f.order)
          BY <2>5, <4>1 DEF More
        <4> QED BY <4>1, <4>2
      <3>2. CASE f = e
        BY <1>1, <2>6, <2>7, <3>2
      <3> QED BY <3>1, <3>2 DEF G
    <2>8. FillsOK(G)
      BY <2>4, <2>5, <2>7 DEF FillsOK, More
    <2> QED BY <2>1, <2>5, <2>6, <2>8
  <1> QED BY <1>3, <1>4

\* What was compared stays compared while the ledger grows.
LEMMA LedgerForward ==
  ASSUME NEW F, NEW G, More(F, G), NEW r, ReconOK(broker, r), ReconLedger(F, r)
  PROVE  ReconLedger(G, r)
  <1>1. ASSUME r.pc \in {"loop", "commit", "repair"}, NEW o \in Orders,
               LedgerOf(F, o) >= r.snap[o].filled
        PROVE  LedgerOf(G, o) >= r.snap[o].filled
    BY <1>1 DEF More, ReconOK, Views
  <1>2. ASSUME r.pc = "repair"
        PROVE  LedgerOf(G, r.order) + r.delta >= r.snap[r.order].filled
    <2>1. /\ r.order \in Orders /\ r.delta \in Nat
          /\ LedgerOf(F, r.order) + r.delta >= r.snap[r.order].filled
      BY <1>2 DEF ReconLedger
    <2>2. r.snap[r.order].filled \in Nat
      BY <1>2, <2>1 DEF ReconOK, Views
    <2> QED BY <2>1, <2>2 DEF More
  <1> QED BY <1>1, <1>2 DEF ReconLedger

\* A step that leaves the ledger alone.
LEMMA LedgerQuiet ==
  ASSUME LedgerInv, UNCHANGED fills, UpdLedger',
         \A o \in Orders : broker'[o].status = "absent" => broker'[o].filled = 0,
         \A p \in Procs : ReconLedger(fills, recon'[p])
  PROVE  LedgerInv'
  BY DEF LedgerInv

\* Reconcilers that nobody touches, and one that begins or gives up.
LEMMA LedgerRecons ==
  ASSUME LiveInv, LedgerInv, NEW q \in Procs,
         \/ UNCHANGED recon \/ BeginRecon(q)
         \/ \E r : recon' = [recon EXCEPT ![q] = r] /\ r.pc \in {"idle", "raised", "done", "account"}
  PROVE  \A p \in Procs : ReconLedger(fills, recon'[p])
  <1>1. DOMAIN recon = Procs /\ \A p \in Procs : ReconLedger(fills, recon[p])
    BY DEF LiveInv, ReconInv, LedgerInv
  <1>2. CASE BeginRecon(q)
    <2> DEFINE snap == [o \in Orders |-> View(o)]
               r == [NoRecon EXCEPT !.pc = "local", !.snap = snap]
    <2>1. \A o \in Orders : snap[o].status = "absent" => snap[o].filled = 0
      BY DEF LedgerInv, View
    <2>2. recon' = [recon EXCEPT ![q] = r]
      BY <1>2 DEF BeginRecon
    <2> HIDE DEF snap
    <2>3. ReconLedger(fills, r)
      BY <2>1 DEF NoRecon, ReconLedger
    <2> HIDE DEF r
    <2> QED BY <1>1, <2>2, <2>3
  <1>3. ASSUME NEW r, recon' = [recon EXCEPT ![q] = r], r.pc \in {"idle", "raised", "done", "account"}
        PROVE  \A p \in Procs : ReconLedger(fills, recon'[p])
    <2>1. ReconLedger(fills, r)
      BY <1>3 DEF ReconLedger
    <2> QED BY <1>1, <1>3, <2>1
  <1> QED BY <1>1, <1>2, <1>3

\* The pc of the memories that a process falls back to.
LEMMA ResetPCs ==
  /\ NoRecon.pc = "idle" /\ NoUpdate.pc = "idle"
  /\ [NoRecon EXCEPT !.pc = "raised"].pc = "raised"
  /\ \A x : [NoRecon EXCEPT !.pc = "done", !.blocking = x].pc = "done"
  /\ \A x : [NoRecon EXCEPT !.pc = "account", !.snap = x].pc = "account"
  BY DEF NoRecon, NoUpdate

\* The main thread and the broker leave the ledger to the others.
LEMMA MainLedger == ASSUME LiveInv, LedgerInv, MainStep PROVE LedgerInv'
  <1>1. UNCHANGED <<fills, upd>>
    BY DEF MainStep, Reserve, Start, CallAnswered, CallRaises, Validate, Check, Write,
           WriteUnknown, SellsSubmitted, AfterSells, Ambiguous, Close, CycleRaises, Resume,
           Resumed, Abandon, db
  <1>2. UpdLedger'
    BY <1>1 DEF LedgerInv, UpdLedger, Delta
  <1>3. \/ UNCHANGED recon \/ BeginRecon(Daemon) \/ recon' = [recon EXCEPT ![Daemon] = NoRecon]
    BY DEF MainStep, Reserve, Start, CallAnswered, CallRaises, Validate, Check, Write,
           WriteUnknown, SellsSubmitted, AfterSells, Ambiguous, Close, CycleRaises, Resume,
           Resumed, Abandon
  <1>4. \A p \in Procs : ReconLedger(fills, recon'[p])
    BY <1>3, MainFacts, ResetPCs, LedgerRecons
  <1>5. \A o \in Orders : broker'[o].status = "absent" => broker'[o].filled = 0
    <2>1. broker \in Books /\ \A o \in Orders : broker[o].status = "absent" => broker[o].filled = 0
      BY DEF LiveInv, BrokerInv, LedgerInv
    <2>2. CASE UNCHANGED broker
      BY <2>1, <2>2
    <2>3. CASE Accepted(main.order)
      BY <2>1, <2>3 DEF Accepted, Books
    <2>4. CASE broker' = [broker EXCEPT ![main.order].calls = @ + 1]
      BY <2>1, <2>4 DEF Books
    <2> QED BY <2>2, <2>3, <2>4
            DEF MainStep, Reserve, Start, CallAnswered, CallRaises, Validate, Check, Write,
                WriteUnknown, SellsSubmitted, AfterSells, Ambiguous, Close, CycleRaises, Resume,
                Resumed, Abandon
  <1> QED BY <1>1, <1>2, <1>4, <1>5, LedgerQuiet

\* Trades, ends and faults.
LEMMA OutsideLedger ==
  ASSUME LiveInv, LedgerInv, (\E o \in Orders : Trade(o) \/ End(o)) \/ Disconnect \/ Repeat \/ Crash
  PROVE  LedgerInv'
  <1>1. UNCHANGED fills
    BY DEF Trade, End, Disconnect, Repeat, Crash, db
  <1>2. UpdLedger'
    <2>1. UNCHANGED upd \/ upd' = NoUpdate
      BY DEF Trade, End, Disconnect, Repeat, Crash
    <2> QED BY <2>1, ResetPCs DEF LedgerInv, UpdLedger, Delta
  <1>3. \A p \in Procs : ReconLedger(fills, recon'[p])
    <2>1. UNCHANGED recon \/ recon' = [recon EXCEPT ![Daemon] = NoRecon]
      BY DEF Trade, End, Disconnect, Repeat, Crash
    <2> QED BY <2>1, MainFacts, ResetPCs, LedgerRecons
  <1>4. \A o \in Orders : broker'[o].status = "absent" => broker'[o].filled = 0
    <2>1. broker \in Books /\ \A o \in Orders : broker[o].status = "absent" => broker[o].filled = 0
      BY DEF LiveInv, BrokerInv, LedgerInv
    <2>2. CASE UNCHANGED broker
      BY <2>1, <2>2
    <2>3. ASSUME NEW o \in Orders, Trade(o) PROVE broker'[o].status # "absent"
      BY <2>1, <2>3 DEF Trade, Books
    <2>4. ASSUME NEW o \in Orders, End(o) PROVE broker'[o].status # "absent"
      BY <2>1, <2>4 DEF End, Books
    <2>5. ASSUME NEW o \in Orders, Trade(o) \/ End(o)
          PROVE  \A x \in Orders \ {o} : broker'[x] = broker[x]
      BY <2>1, <2>5 DEF Trade, End, Books
    <2> QED BY <2>1, <2>2, <2>3, <2>4, <2>5 DEF Disconnect, Repeat, Crash, db
  <1> QED BY <1>1, <1>2, <1>3, <1>4, LedgerQuiet

\* A step in which a fill is recorded.
LEMMA FillStep ==
  ASSUME LiveInv, LedgerInv, NEW o \in Orders, NEW id \in FillIds, NEW q \in Nat \ {0},
         id[1] = "reconciliation" => LedgerOf(fills, o) + q >= id[2],
         fills' = WithFill(o, id, q), UNCHANGED broker, UpdLedger',
         \A p \in Procs : ReconLedger(fills', recon'[p])
  PROVE  LedgerInv'
  <1>1. FillsOK(fills') /\ More(fills, fills')
    BY FillRecorded DEF LedgerInv
  <1> QED BY <1>1 DEF LedgerInv

\* process_trade_update: the fill is what the row lacked when it was read.
LEMMA UpdateLedger == ASSUME LiveInv, LedgerInv, UpdateStep PROVE LedgerInv'
  <1>1. UNCHANGED <<broker, recon>>
    BY DEF UpdateStep, Deliver, CheckUpdate, ApplyUpdate, RecordFill, db
  <1>2. UpdOK(broker, upd) /\ UpdLedger
    BY DEF LiveInv, UpdInv, LedgerInv
  <1>3. DOMAIN upd = {"pc", "u", "read", "prior"}
    BY <1>2 DEF UpdOK
  <1>4. \A p \in Procs : ReconLedger(fills, recon'[p])
    BY <1>1 DEF LedgerInv
  <1>5. \A o \in Orders : broker'[o].status = "absent" => broker'[o].filled = 0
    BY <1>1 DEF LedgerInv
  <1>6. CASE Deliver \/ CheckUpdate \/ ApplyUpdate
    <2>1. UNCHANGED fills
      BY <1>6 DEF Deliver, CheckUpdate, ApplyUpdate, db
    <2>2. UpdLedger'
      <3>1. CASE upd' = NoUpdate
        BY <3>1, ResetPCs DEF UpdLedger
      <3>2. CASE Deliver /\ upd' # NoUpdate
        <4> DEFINE u == Head(stream)
        <4>1. /\ stream # <<>> /\ stream \in Seq(Truthful(broker))
              /\ upd' = [pc |-> "write", u |-> u, read |-> row[u.order].state,
                         prior |-> row[u.order].filled]
          BY <3>2 DEF Deliver, LiveInv, StreamInv
        <4>2. u \in Truthful(broker)
          BY <4>1, HeadTailProperties
        <4>3. u.order \in Orders
          BY <4>2 DEF Truthful, Updates
        <4>4. row[u.order].filled \in Nat
          BY <4>3 DEF LiveInv, RowInv, Rows, Row, NoRow
        <4> HIDE DEF u
        <4>5. upd'.pc = "write" /\ upd'.prior \in Nat
          BY <4>1, <4>4
        <4> QED BY <4>5 DEF UpdLedger
      <3>3. CASE CheckUpdate /\ upd' # NoUpdate
        <4>1. upd.pc = "write" /\ upd' = [upd EXCEPT !.pc = "commit"]
          BY <3>3 DEF CheckUpdate
        <4>2. upd'.pc = "commit" /\ upd'.prior = upd.prior
          BY <1>3, <4>1
        <4> QED BY <1>2, <4>1, <4>2 DEF UpdLedger
      <3>4. CASE ApplyUpdate /\ upd' # NoUpdate
        <4>1. upd.pc = "commit" /\ upd' = [upd EXCEPT !.pc = "fill"] /\ Delta > 0
          BY <3>4 DEF ApplyUpdate
        <4>2. upd'.pc = "fill" /\ upd'.prior = upd.prior /\ upd'.u = upd.u
          BY <1>3, <4>1
        <4> QED BY <1>2, <4>1, <4>2 DEF UpdLedger, Delta
      <3> QED BY <1>6, <3>1, <3>2, <3>3, <3>4
    <2> QED BY <1>1, <1>4, <1>5, <2>1, <2>2, LedgerQuiet
  <1>7. CASE RecordFill
    <2>1. upd.pc = "fill" /\ upd.u \in Truthful(broker) /\ upd.prior \in Nat /\ Delta > 0
      BY <1>2, <1>7 DEF RecordFill, UpdOK, UpdLedger
    <2>2. upd.u.order \in Orders /\ upd.u.filled \in Nat
      BY <2>1 DEF Truthful, Updates
    <2>3. Delta \in Nat \ {0}
      BY <2>1, <2>2 DEF Delta
    <2>4. PICK o \in Orders, n \in Nat, q \in Nat \ {0} :
            o = upd.u.order /\ n = upd.u.filled /\ q = Delta
      BY <2>2, <2>3
    <2> DEFINE id == <<"execution", n>>
    <2>5. fills' = WithFill(o, id, q)
      BY <1>7, <2>4 DEF RecordFill
    <2>6. id \in FillIds /\ id[1] # "reconciliation"
      BY DEF FillIds
    <2>7. UpdLedger'
      BY <1>7, ResetPCs DEF RecordFill, UpdLedger
    <2> HIDE DEF id
    <2>8. More(fills, fills')
      BY <2>5, <2>6, FillRecorded DEF LedgerInv
    <2>9. ASSUME NEW p \in Procs PROVE ReconLedger(fills', recon'[p])
      <3>1. ReconOK(broker, recon[p]) /\ ReconLedger(fills, recon[p])
        BY DEF LiveInv, ReconInv, LedgerInv
      <3> QED BY <1>1, <2>8, <3>1, LedgerForward
    <2> QED BY <1>1, <2>5, <2>6, <2>7, <2>9, FillStep
  <1> QED BY <1>6, <1>7 DEF UpdateStep

\* The comparison of one order: what it lacks is repaired next.
LEMMA ComparedLedger ==
  ASSUME LedgerInv, NEW r, NEW o \in Orders, ReconOK(broker, r), ReconLedger(fills, r),
         r.pc \in {"loop", "commit"}
  PROVE  ReconLedger(fills, Compared(r, o))
  <1> DEFINE n == r.snap[o].filled
             d == n - Ledger(o)
             pc == IF d > 0 THEN "repair" ELSE "loop"
             x == IF d > 0 THEN o ELSE ""
             y == IF d > 0 THEN d ELSE 0
             z == r.blocking \/ d < 0 \/ Conflicts(r.rows[o], r.snap[o])
             q == [r EXCEPT !.pc = pc, !.left = @ \ {o}, !.order = x, !.delta = y,
                            !.blocking = z]
  <1>1. Compared(r, o) = q
    BY DEF Compared
  <1>2. PICK a \in Nat : a = LedgerOf(fills, o) /\ a = Ledger(o)
    BY LedgerIs DEF LedgerInv, FillsOK
  <1>3. n \in Nat
    BY DEF ReconOK, Views
  <1>4. d > 0 => d \in Nat \ {0} /\ a + d >= n
    BY <1>2, <1>3
  <1>5. ~(d > 0) => a >= n
    BY <1>2, <1>3
  <1> HIDE DEF z
  <1>6. /\ q.pc = pc /\ q.left = r.left \ {o} /\ q.order = x /\ q.delta = y /\ q.snap = r.snap
    <2> HIDE DEF pc, x, y
    <2> QED BY DEF ReconOK, ReconFields
  <1> HIDE DEF q
  <1>7. /\ \A k \in Orders : r.snap[k].status = "absent" => r.snap[k].filled = 0
        /\ \A k \in Orders \ r.left : LedgerOf(fills, k) >= r.snap[k].filled
    BY DEF ReconLedger
  <1>8. r.snap[o].filled = n
    OBVIOUS
  <1>9. CASE d > 0
    <2>1. q.pc = "repair" /\ q.order = o /\ q.delta = d
      BY <1>6, <1>9
    <2> HIDE DEF d, n, pc, x, y
    <2> QED BY <1>1, <1>2, <1>4, <1>6, <1>7, <1>8, <1>9, <2>1 DEF ReconLedger
  <1>10. CASE ~(d > 0)
    <2>1. q.pc = "loop"
      BY <1>6, <1>10
    <2> HIDE DEF d, n, pc, x, y
    <2> QED BY <1>1, <1>2, <1>5, <1>6, <1>7, <1>8, <1>10, <2>1 DEF ReconLedger
  <1> QED BY <1>9, <1>10

\* Reconciler.run: every deficit of the snapshot is in the ledger when it ends.
LEMMA ReconcilerLedger ==
  ASSUME LiveInv, LedgerInv, NEW p \in Procs, Monitor(p) \/ ReadAccount(p) \/ ReconStep(p)
  PROVE  LedgerInv'
  <1>1. PICK r : r = recon[p] /\ ReconOK(broker, r) /\ ReconLedger(fills, r)
    BY DEF LiveInv, ReconInv, LedgerInv
  <1>2. UNCHANGED <<broker, upd>>
    BY DEF Monitor, ReadAccount, ReconStep, ReadLocal, Advance, CommitAdvance, Repair, Finish,
           RecordAccount, MonitorFailed
  <1>3. UpdLedger' /\ \A o \in Orders : broker'[o].status = "absent" => broker'[o].filled = 0
    BY <1>2 DEF LedgerInv, UpdLedger, Delta
  <1>4. DOMAIN recon = Procs /\ \A k \in Procs : ReconLedger(fills, recon[k])
    BY DEF LiveInv, ReconInv, LedgerInv
  <1>5. ASSUME NEW q, recon' = [recon EXCEPT ![p] = q], ReconLedger(fills, q)
        PROVE  \A k \in Procs : ReconLedger(fills, recon'[k])
    BY <1>4, <1>5
  <1>6. ASSUME UNCHANGED fills, \A k \in Procs : ReconLedger(fills, recon'[k])
        PROVE  LedgerInv'
    BY <1>3, <1>6, LedgerQuiet
  <1>7. ReconLedger(fills, NoRecon) /\ ReconLedger(fills, [NoRecon EXCEPT !.pc = "raised"])
    BY ResetPCs DEF ReconLedger
  <1>8. DOMAIN r = ReconFields
    BY <1>1 DEF ReconOK
  <1>9. CASE Monitor(p)
    <2>1. UNCHANGED fills /\ BeginRecon(p)
      BY <1>9 DEF Monitor, db
    <2> QED BY <1>6, <2>1, LedgerRecons
  <1>10. CASE ReadLocal(p)
    <2> DEFINE x == Missing(r, row) \/ Moved(r)
               a == AtBroker(r)
               q == [r EXCEPT !.pc = "loop", !.rows = row, !.left = a, !.blocking = x]
    <2>1. recon' = [recon EXCEPT ![p] = q] /\ r.pc = "local" /\ UNCHANGED fills
      BY <1>1, <1>10 DEF ReadLocal, db
    <2>2. \A o \in Orders \ a : r.snap[o].status = "absent"
      BY DEF AtBroker
    <2> HIDE DEF x, a
    <2>3. q.pc = "loop" /\ q.left = a /\ q.snap = r.snap
      BY <1>8 DEF ReconFields
    <2>4. \A o \in Orders : LedgerOf(fills, o) \in Nat
      BY DEF LedgerInv, FillsOK
    <2> HIDE DEF q
    <2>5. \A o \in Orders : r.snap[o].status = "absent" => r.snap[o].filled = 0
      BY <1>1, <2>1 DEF ReconLedger
    <2>6. \A o \in Orders \ a : LedgerOf(fills, o) >= r.snap[o].filled
      BY <2>2, <2>4, <2>5
    <2>7. ReconLedger(fills, q)
      BY <2>3, <2>5, <2>6 DEF ReconLedger
    <2> QED BY <1>5, <1>6, <2>1, <2>7
  <1>11. CASE Advance(p)
    <2> DEFINE o == CHOOSE x \in r.left : TRUE
               q == [r EXCEPT !.pc = "commit", !.order = o]
    <2>1. o \in Orders /\ r.pc = "loop"
      BY <1>1, <1>11 DEF Advance, ReconOK
    <2>2. /\ UNCHANGED fills
          /\ \/ recon' = [recon EXCEPT ![p] = Compared(r, o)]
             \/ recon' = [recon EXCEPT ![p] = [NoRecon EXCEPT !.pc = "raised"]]
             \/ recon' = [recon EXCEPT ![p] = q]
      BY <1>1, <1>11 DEF Advance, db
    <2> HIDE DEF o
    <2>3. ReconLedger(fills, q)
      <3>1. q.pc = "commit" /\ q.left = r.left /\ q.snap = r.snap
        BY <1>8 DEF ReconFields
      <3> HIDE DEF q
      <3> QED BY <1>1, <2>1, <3>1 DEF ReconLedger
    <2>4. ReconLedger(fills, Compared(r, o))
      BY <1>1, <2>1, ComparedLedger
    <2> HIDE DEF q
    <2> QED BY <1>5, <1>6, <1>7, <2>2, <2>3, <2>4
  <1>12. CASE CommitAdvance(p)
    <2>1. /\ r.pc = "commit" /\ r.order \in Orders /\ UNCHANGED fills
          /\ \/ recon' = [recon EXCEPT ![p] = Compared(r, r.order)]
             \/ recon' = [recon EXCEPT ![p] = [NoRecon EXCEPT !.pc = "raised"]]
      BY <1>1, <1>12 DEF CommitAdvance, ReconOK
    <2>2. ReconLedger(fills, Compared(r, r.order))
      BY <1>1, <2>1, ComparedLedger
    <2> QED BY <1>5, <1>6, <1>7, <2>1, <2>2
  <1>13. CASE Repair(p)
    <2>1. PICK o \in Orders, q \in Nat \ {0}, n \in Nat :
            /\ o = r.order /\ q = r.delta /\ n = r.snap[o].filled /\ r.pc = "repair"
            /\ LedgerOf(fills, o) + q >= n
      <3>1. r.pc = "repair"
        BY <1>1, <1>13 DEF Repair
      <3>2. /\ r.order \in Orders /\ r.delta \in Nat \ {0}
            /\ LedgerOf(fills, r.order) + r.delta >= r.snap[r.order].filled
        BY <1>1, <3>1 DEF ReconLedger
      <3>3. r.snap[r.order].filled \in Nat
        BY <1>1, <3>1, <3>2 DEF ReconOK, Views
      <3> QED BY <3>1, <3>2, <3>3
    <2> DEFINE id == <<"reconciliation", n>>
               s == [r EXCEPT !.pc = "loop", !.order = "", !.delta = 0]
    <2>2. /\ fills' = WithFill(o, id, q)
          /\ recon' = [recon EXCEPT ![p] = s]
      BY <1>1, <1>13, <2>1 DEF Repair
    <2>3. id \in FillIds /\ id[1] = "reconciliation" /\ id[2] = n
      BY DEF FillIds
    <2>4. s.pc = "loop" /\ s.left = r.left /\ s.snap = r.snap
      BY <1>8 DEF ReconFields
    <2> HIDE DEF id, s
    <2>5. More(fills, fills') /\ LedgerOf(fills', o) >= n
      BY <2>1, <2>2, <2>3, FillRecorded DEF LedgerInv
    <2>6. ReconLedger(fills', s)
      <3>1. \A k \in Orders : r.snap[k].status = "absent" => r.snap[k].filled = 0
        BY <1>1, <2>1 DEF ReconLedger
      <3>2. ReconLedger(fills', r)
        BY <1>1, <2>5, LedgerForward
      <3>3. ASSUME NEW k \in Orders \ r.left PROVE LedgerOf(fills', k) >= r.snap[k].filled
        BY <2>1, <2>5, <3>2 DEF ReconLedger
      <3> QED BY <2>4, <3>1, <3>3 DEF ReconLedger
    <2>7. ASSUME NEW k \in Procs PROVE ReconLedger(fills', recon'[k])
      <3>1. k # p => recon'[k] = recon[k]
        BY <1>4, <2>2
      <3>2. recon'[p] = s
        BY <1>4, <2>2
      <3>3. ReconOK(broker, recon[k]) /\ ReconLedger(fills, recon[k])
        BY DEF LiveInv, ReconInv, LedgerInv
      <3> QED BY <2>5, <2>6, <3>1, <3>2, <3>3, LedgerForward
    <2> QED BY <1>2, <1>3, <2>1, <2>2, <2>3, <2>7, FillStep
  <1>14. CASE Finish(p)
    <2> DEFINE q == [NoRecon EXCEPT !.pc = "done", !.blocking = r.blocking]
    <2>1. /\ UNCHANGED fills
          /\ recon' = [recon EXCEPT ![p] = q] \/ recon' = [recon EXCEPT ![p] = NoRecon]
      BY <1>1, <1>14 DEF Finish
    <2>2. ReconLedger(fills, q)
      BY ResetPCs DEF ReconLedger
    <2> HIDE DEF q
    <2> QED BY <1>5, <1>6, <1>7, <2>1, <2>2
  <1>15. CASE MonitorFailed(p)
    <2>1. UNCHANGED fills /\ recon' = [recon EXCEPT ![p] = NoRecon]
      BY <1>15 DEF MonitorFailed, db
    <2> QED BY <1>5, <1>6, <1>7, <2>1
  <1>16. CASE ReadAccount(p)
    <2> DEFINE q == [NoRecon EXCEPT !.pc = "account", !.snap = [o \in Orders |-> View(o)]]
    <2>1. UNCHANGED fills /\ recon' = [recon EXCEPT ![p] = q] /\ q.pc = "account"
      BY <1>16, ResetPCs DEF ReadAccount, db
    <2> HIDE DEF q
    <2> QED BY <1>6, <2>1, LedgerRecons
  <1>17. CASE RecordAccount(p)
    BY <1>5, <1>6, <1>7, <1>17 DEF RecordAccount
  <1> QED BY <1>9, <1>10, <1>11, <1>12, <1>13, <1>14, <1>15, <1>16, <1>17 DEF ReconStep

\* Nothing traded and nothing recorded.
LEMMA LedgerInitially == Init => LedgerInv
  <1> SUFFICES ASSUME Init PROVE LedgerInv
    OBVIOUS
  <1>1. \A o : LedgerOf({}, o) = 0
    <2> TAKE o
    <2> DEFINE g == [f \in {} |-> f.qty]
    <2>1. {f \in {} : f.order = o} = {}
      OBVIOUS
    <2>2. LedgerOf({}, o) = Total(g, {})
      BY <2>1, QtyTotal DEF LedgerOf
    <2>3. Total(g, {}) = 0
      BY FS_EmptySet, TotalZero
    <2> QED BY <2>2, <2>3
  <1>2. FillsOK(fills)
    BY <1>1, FS_EmptySet DEF Init, FillsOK
  <1>3. UpdLedger
    BY ResetPCs DEF Init, UpdLedger
  <1>4. \A p \in Procs : ReconLedger(fills, recon[p])
    BY ResetPCs DEF Init, ReconLedger
  <1> QED BY <1>2, <1>3, <1>4 DEF Init, LedgerInv

\* Every step keeps the ledger's invariant.
LEMMA LedgerStep == LiveInv /\ LedgerInv /\ [Next]_vars => LedgerInv'
  <1> SUFFICES ASSUME LiveInv, LedgerInv, [Next]_vars PROVE LedgerInv'
    OBVIOUS
  <1>1. CASE UNCHANGED vars
    <2>1. UNCHANGED <<fills, broker, upd, recon>>
      BY <1>1 DEF vars
    <2>2. UpdLedger' /\ \A p \in Procs : ReconLedger(fills, recon'[p])
      BY <2>1 DEF LedgerInv, UpdLedger, Delta
    <2>3. \A o \in Orders : broker'[o].status = "absent" => broker'[o].filled = 0
      BY <2>1 DEF LedgerInv
    <2> QED BY <2>1, <2>2, <2>3, LedgerQuiet
  <1> QED BY <1>1, MainLedger, UpdateLedger, ReconcilerLedger, OutsideLedger DEF Next

\* The ledger counts every fill once for its order, however many processes repair
\* it, and a repair that finds its fill recorded has nothing left to add.
THEOREM LiveLedgerSafe == Spec => []LedgerInv
  BY LiveSafe, LedgerInitially, LedgerStep, PTL DEF Spec

\* When Reconciler.run has compared its last order, fill_ledger_totals holds every
\* fill of its snapshot, although each repair is a transaction of its own and the
\* update thread and other processes record fills between the comparison and the repair.
THEOREM LiveLedgerRepaired == Spec => []LedgerRepaired
  <1>1. ASSUME LedgerInv PROVE LedgerRepaired
    <2> SUFFICES ASSUME NEW p \in Procs, recon[p].pc = "loop", recon[p].left = {},
                        NEW o \in Orders
                 PROVE  Ledger(o) >= recon[p].snap[o].filled
      BY DEF LedgerRepaired
    <2>1. LedgerOf(fills, o) >= recon[p].snap[o].filled
      BY <1>1 DEF LedgerInv, ReconLedger
    <2> QED BY <2>1, LedgerIs
  <1> QED BY <1>1, LiveLedgerSafe, PTL
=============================================================================
