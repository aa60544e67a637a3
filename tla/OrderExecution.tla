--------------------------- MODULE OrderExecution ---------------------------
(***************************************************************************)
(* Submission of one execution plan's orders to the broker: the            *)
(* ExecutionService (platform/execution/service.py) over the durable       *)
(* ledger (platform/storage/execution.py) and the Alpaca paper adapter.    *)
(*                                                                         *)
(* A ledger method is one transaction under the experiment's advisory      *)
(* lock, hence one action; a broker call is not, so a request may arrive   *)
(* late or never, an answer may be lost, and the process may stop before   *)
(* it records what it learnt.  Quantities are whole units, executions of   *)
(* an order are numbered, and every order has a symbol of its own, so what *)
(* the ledger and the broker hold of an order is a count of units.         *)
(***************************************************************************)
EXTENDS Integers, FiniteSets

CONSTANTS
  Exits,    \* client order IDs of the plan's exit intents
  Entries,  \* client order IDs of its entry intents, which open exposure
  Procs,    \* processes that call the service
  Qty,      \* the quantity of each intent
  MaxQty,   \* bound: the largest of them
  MaxTime   \* bound: time of the model

Orders == Exits \cup Entries

ASSUME ExecutionAssumption ==
  /\ Exits \cap Entries = {} /\ Orders # {}
  /\ MaxQty \in Nat /\ Qty \in [Orders -> 1..MaxQty] /\ MaxTime \in Nat

VARIABLES
  now,       \* real time; the broker's clock and the processes' clocks agree
  order,     \* the ledger's projection of each order, with its event history
  latch,     \* some risk latch of the experiment is active
  inflight,  \* submissions on their way to the broker
  book,      \* what the broker holds (external)
  proc,      \* the memory of each process
  sends      \* history: how often broker.submit was called for an order
vars == <<now, order, latch, inflight, book, proc, sends>>

Terminal  == {"FILLED", "CANCELED", "REJECTED", "EXPIRED"}
Reported  == {"SUBMITTED", "ACCEPTED", "PENDING", "PARTIALLY_FILLED"} \cup Terminal
Ambiguous == {"SUBMISSION_UNKNOWN", "RECONCILIATION_REQUIRED"}
Unsettled == {"SUBMISSION_STARTED"} \cup Ambiguous
OrderState == {"PLANNED", "INTENT_COMMITTED", "CANCEL_REQUESTED"} \cup Unsettled \cup Reported

\* _TRANSITIONS: the closed graph of order states.
Transitions ==
  LET doubt == {"RECONCILIATION_REQUIRED"}
      live == {"CANCEL_REQUESTED"} \cup doubt IN
  [PLANNED |-> {"INTENT_COMMITTED"},
   INTENT_COMMITTED |-> {"SUBMISSION_STARTED"},
   SUBMISSION_STARTED |-> Reported \cup Ambiguous,
   SUBMITTED |-> (Reported \ {"SUBMITTED"}) \cup live,
   ACCEPTED |-> (Reported \ {"SUBMITTED", "ACCEPTED"}) \cup live,
   PENDING |-> (Reported \ {"SUBMITTED", "ACCEPTED", "PENDING"}) \cup live,
   PARTIALLY_FILLED |-> {"PARTIALLY_FILLED", "FILLED", "CANCELED", "EXPIRED"} \cup live,
   CANCEL_REQUESTED |-> {"PARTIALLY_FILLED", "FILLED", "CANCELED"} \cup doubt,
   SUBMISSION_UNKNOWN |-> Reported \cup doubt,
   RECONCILIATION_REQUIRED |-> Reported,
   FILLED |-> {}, CANCELED |-> {}, REJECTED |-> {}, EXPIRED |-> {}]

\* One broker response: the SDK's order with all its executions.  Its time is the
\* broker's own updated_at, and its broker_event_id a hash of these fields.
Update == [state : Reported, filled : 0..MaxQty, at : 0..MaxTime]

\* An order the ledger or the broker does not know.
NoOrder   == [state |-> "PLANNED", filled |-> 0, updated |-> 0, known |-> FALSE, seen |-> {}]
NoBooking == [state |-> "NONE", filled |-> 0, at |-> 0]

OrderRow == [state : OrderState, filled : 0..MaxQty, updated : 0..MaxTime,
             known : BOOLEAN,       \* broker_order_id is assigned
             seen : SUBSET Update]  \* the broker events in aqa_order_events
Booking  == Update \cup {NoBooking}

\* pc: "authorized" holds an authority snapshot; "started" has recorded the
\* submission; "calling" waits for the broker; "applying" holds a response;
\* "missing" found no order; "canceling" and "canceled" are in broker.cancel.
PC == {"idle", "authorized", "started", "calling", "applying", "missing",
       "canceling", "canceled"}
Idle == [pc |-> "idle", order |-> CHOOSE c \in Orders : TRUE, at |-> 0,
         current |-> FALSE, latched |-> FALSE, update |-> NoBooking]
Proc == [pc : PC, order : Orders, at : 0..MaxTime,
         current : BOOLEAN,  \* no order changed since the authority snapshot
         latched : BOOLEAN,  \* the snapshot's latch state
         update : Booking]
At(pc, c, t) == [Idle EXCEPT !.pc = pc, !.order = c, !.at = t]
Response(c) == [Idle EXCEPT !.pc = "applying", !.order = c, !.update = book[c]]
-----------------------------------------------------------------------------
(***************************************************************************)
(* The ledger.                                                             *)
(***************************************************************************)
\* BrokerOrder.evolve: a permitted edge, and time does not move backward.
Evolves(c, state, t) ==
  /\ state \in Transitions[order[c].state]
  /\ t >= order[c].updated

\* _record_local_transition and what it refuses.
Moved(c, state, t) == [order[c] EXCEPT !.state = state, !.updated = t]

\* _validate_broker_update, evolve and the UNIQUE broker_event_id.
Acceptable(c, u) ==
  LET o == order[c] IN
  /\ o.state # "INTENT_COMMITTED"
  /\ u.state = "FILLED" => u.filled = Qty[c]
  /\ u.state = "PARTIALLY_FILLED" => u.filled \in 1..(Qty[c] - 1)
  /\ u.state \in {"SUBMITTED", "ACCEPTED", "PENDING", "REJECTED"} => u.filled = 0
  /\ o.filled <= u.filled  \* the unique executions add up to the cumulative fill
  /\ Evolves(c, u.state, u.at)
  /\ u \notin o.seen
\* Mutant of Applied: the cumulative fill is added to the fills so far.
AppliedOnTop(c, u) ==
  [state |-> u.state, filled |-> order[c].filled + u.filled, updated |-> u.at, known |-> TRUE,
   seen |-> order[c].seen \cup {u}]
Applied(c, u) ==
  [state |-> u.state, filled |-> u.filled, updated |-> u.at, known |-> TRUE,
   seen |-> order[c].seen \cup {u}]

\* Commit a row; every authority snapshot taken before is stale now.
Commit(p, c, row, memory) ==
  /\ order' = [order EXCEPT ![c] = row]
  /\ proc' = [q \in Procs |-> IF q = p THEN memory ELSE [proc[q] EXCEPT !.current = FALSE]]
  /\ UNCHANGED <<now, latch, inflight, book, sends>>

Becomes(p, memory) ==
  /\ proc' = [proc EXCEPT ![p] = memory]
  /\ UNCHANGED <<now, order, latch, inflight, book, sends>>
-----------------------------------------------------------------------------
Init ==
  /\ now = 0
  /\ order = [c \in Orders |-> NoOrder]
  /\ latch = FALSE
  /\ inflight = {}
  /\ book = [c \in Orders |-> NoBooking]
  /\ proc = [p \in Procs |-> Idle]
  /\ sends = [c \in Orders |-> 0]

Tick == now < MaxTime /\ now' = now + 1
        /\ UNCHANGED <<order, latch, inflight, book, proc, sends>>

\* persist_plan_and_intents: all intents or none; repeating it changes nothing.
Persist ==
  /\ \A c \in Orders : order[c].state = "PLANNED"
  /\ order' = [c \in Orders |-> [NoOrder EXCEPT !.state = "INTENT_COMMITTED", !.updated = now]]
  /\ UNCHANGED <<now, latch, inflight, book, proc, sends>>

\* Mutant of ExitsComplete: any end of an exit will do.
ExitsEnded(c) == c \in Entries => \A x \in Exits : order[x].state \in Terminal

\* submit_plan: an entry is reached only when every exit came back FILLED.
ExitsComplete(c) == c \in Entries => \A x \in Exits : order[x].state = "FILLED"

\* _submission_authority: the broker's positions, cash and open orders are the
\* ones that the ledger accounts for.
BrokerAgrees ==
  /\ \A c \in Orders : book[c].filled = order[c].filled
  /\ {c \in Orders : book[c].state \notin Terminal \cup {"NONE"}}
       = {c \in Orders : order[c].known /\ order[c].state \notin Terminal}

\* _safety_reasons: no order in doubt, and no latch where exposure is opened.
Safe(c) ==
  /\ \A d \in Orders : order[d].state \notin Unsettled
  /\ c \in Entries => ~latch

\* submit_one up to the claim: authorize_intent and _submission_authority.  A
\* ledger that changes between its snapshot and the claim makes the claim fail,
\* so the comparisons are made here, in the ledger the claim must still find.
Authorize(p, c) ==
  /\ proc[p].pc = "idle"
  /\ order[c].state = "INTENT_COMMITTED" /\ ExitsComplete(c)
  /\ Safe(c) /\ BrokerAgrees
  /\ Becomes(p, [At("authorized", c, now) EXCEPT !.current = TRUE, !.latched = latch])

\* Mutant of Start: the authority snapshot is not compared with the ledger.
StartUnchecked(p) ==
  LET c == proc[p].order  t == proc[p].at IN
  /\ proc[p].pc = "authorized"
  /\ order[c].state = "INTENT_COMMITTED" /\ Evolves(c, "SUBMISSION_STARTED", t)
  /\ Commit(p, c, Moved(c, "SUBMISSION_STARTED", t), At("started", c, t))

\* record_submission_started under a snapshot that is still the ledger's.
Start(p) ==
  LET c == proc[p].order  t == proc[p].at IN
  /\ proc[p].pc = "authorized"
  /\ proc[p].current /\ proc[p].latched = latch
  /\ order[c].state = "INTENT_COMMITTED" /\ Evolves(c, "SUBMISSION_STARTED", t)
  /\ Commit(p, c, Moved(c, "SUBMISSION_STARTED", t), At("started", c, t))

\* broker.submit leaves the process.
Send(p) ==
  LET c == proc[p].order IN
  /\ proc[p].pc = "started"
  /\ inflight' = inflight \cup {c}
  /\ sends' = [sends EXCEPT ![c] = @ + 1]
  /\ proc' = [proc EXCEPT ![p].pc = "calling"]
  /\ UNCHANGED <<now, order, latch, book>>

\* The broker's answer to the submission.
Answer(p) ==
  LET c == proc[p].order IN
  /\ proc[p].pc = "calling" /\ book[c].state # "NONE"
  /\ Becomes(p, Response(c))

\* Mutant of RecordUnknown: at the time of the exception.
RecordUnknownLate(p) ==
  LET c == proc[p].order IN
  /\ proc[p].pc = "calling"
  /\ order[c].state = "SUBMISSION_STARTED" /\ Evolves(c, "SUBMISSION_UNKNOWN", now)
  /\ Commit(p, c, Moved(c, "SUBMISSION_UNKNOWN", now), Idle)

\* Any exception of broker.submit: record_submission_unknown, at the time of
\* the safety snapshot.
RecordUnknown(p) ==
  LET c == proc[p].order  t == proc[p].at IN
  /\ proc[p].pc = "calling"
  /\ order[c].state = "SUBMISSION_STARTED" /\ Evolves(c, "SUBMISSION_UNKNOWN", t)
  /\ Commit(p, c, Moved(c, "SUBMISSION_UNKNOWN", t), Idle)

\* Mutant of Lookup: an order that was not found is submitted again.
LookupOrResubmit(p, c) ==
  /\ proc[p].pc = "idle"
  /\ order[c].state \notin {"PLANNED", "INTENT_COMMITTED"} \cup Terminal
  /\ Becomes(p, IF book[c].state = "NONE" THEN At("started", c, now) ELSE Response(c))

\* resolve_ambiguous and refresh_nonterminal: look the order up by client ID.
Lookup(p, c) ==
  /\ proc[p].pc = "idle"
  /\ order[c].state \notin {"PLANNED", "INTENT_COMMITTED"} \cup Terminal
  /\ Becomes(p, IF book[c].state = "NONE" THEN At("missing", c, now)
                ELSE Response(c))

\* Mutant of Doubt: an order that was not found counts as rejected.
DoubtIsRejection(p) ==
  LET c == proc[p].order  t == proc[p].at IN
  /\ proc[p].pc \in {"missing", "canceling", "canceled"}
  /\ order[c].state \notin Terminal /\ Evolves(c, "REJECTED", t)
  /\ Commit(p, c, Moved(c, "REJECTED", t), Idle)

\* record_reconciliation_required: no order found, or cancel's outcome unknown.
Doubt(p) ==
  LET c == proc[p].order  t == proc[p].at IN
  /\ proc[p].pc \in {"missing", "canceling", "canceled"}
  /\ order[c].state \notin Terminal /\ Evolves(c, "RECONCILIATION_REQUIRED", t)
  /\ Commit(p, c, Moved(c, "RECONCILIATION_REQUIRED", t), Idle)

\* apply_broker_update.
Apply(p) ==
  LET c == proc[p].order  u == proc[p].update IN
  /\ proc[p].pc = "applying" /\ Acceptable(c, u)
  /\ Commit(p, c, Applied(c, u), Idle)

\* cancel_one: record_cancel_requested, which a repeated request leaves as it is.
RequestCancel(p, c) ==
  /\ proc[p].pc = "idle"
  /\ \/ /\ Evolves(c, "CANCEL_REQUESTED", now)
        /\ Commit(p, c, Moved(c, "CANCEL_REQUESTED", now), At("canceling", c, now))
     \/ /\ order[c].state = "CANCEL_REQUESTED"
        /\ Becomes(p, At("canceling", c, now))

\* cancel_order_by_id succeeds only on an open order; then it is fetched again.
CancelReaches(p, state) ==
  LET c == proc[p].order IN
  /\ proc[p].pc = "canceling" /\ state \in {"PENDING", "CANCELED"}
  /\ book[c].state \in Reported \ Terminal
  /\ book' = [book EXCEPT ![c].state = state, ![c].at = now]
  /\ proc' = [proc EXCEPT ![p].pc = "canceled"]
  /\ UNCHANGED <<now, order, latch, inflight, sends>>
CancelAnswer(p) ==
  LET c == proc[p].order IN
  /\ proc[p].pc = "canceled"
  /\ Becomes(p, Response(c))

\* The call returns without a change (refused authority, unchanged projection,
\* rejected update, failed lookup), or the process dies.
Abort(p) == proc[p].pc # "idle" /\ Becomes(p, Idle)

\* Risk latches are engaged by reconciliation and risk, cleared by an operator.
ToggleLatch == latch' = ~latch /\ UNCHANGED <<now, order, inflight, book, proc, sends>>
-----------------------------------------------------------------------------
(***************************************************************************)
(* The broker and the network to it (external).                            *)
(***************************************************************************)
Arrive(c, state) ==
  /\ c \in inflight /\ state \in {"ACCEPTED", "PENDING", "REJECTED"}
  /\ inflight' = inflight \ {c}
  /\ book' = [book EXCEPT ![c] = IF @ = NoBooking
                                 THEN [state |-> state, filled |-> 0, at |-> now] ELSE @]
  /\ UNCHANGED <<now, order, latch, proc, sends>>

Lose(c) ==
  /\ c \in inflight /\ inflight' = inflight \ {c}
  /\ UNCHANGED <<now, order, latch, book, proc, sends>>

\* An open order trades, waits, or ends; an ended order stays as it is.
Trade(c, state, filled) ==
  /\ book[c].state \in Reported \ Terminal
  /\ filled >= book[c].filled /\ filled <= Qty[c]
  /\ state = "FILLED" <=> filled = Qty[c]
  /\ state = "PARTIALLY_FILLED" => filled > book[c].filled
  /\ state # "SUBMITTED"
  /\ state \in {"ACCEPTED", "PENDING"} => state # book[c].state
  /\ state \in {"ACCEPTED", "REJECTED"} => filled = 0
  /\ state \in {"PENDING", "CANCELED", "EXPIRED"} => filled = book[c].filled
  /\ book' = [book EXCEPT ![c] = [state |-> state, filled |-> filled, at |-> now]]
  /\ UNCHANGED <<now, order, latch, inflight, proc, sends>>

ProcStep(p) ==
  \/ \E c \in Orders : Authorize(p, c) \/ Lookup(p, c) \/ RequestCancel(p, c)
  \/ Start(p) \/ Send(p) \/ Answer(p) \/ RecordUnknown(p) \/ Doubt(p) \/ Apply(p)
  \/ \E state \in Reported : CancelReaches(p, state)
  \/ CancelAnswer(p) \/ Abort(p)

BrokerStep(c) ==
  \/ \E state \in Reported : Arrive(c, state) \/ \E filled \in 0..MaxQty : Trade(c, state, filled)
  \/ Lose(c)

Next ==
  \/ Tick \/ Persist \/ ToggleLatch
  \/ \E p \in Procs : ProcStep(p)
  \/ \E c \in Orders : BrokerStep(c)

Spec == Init /\ [][Next]_vars
-----------------------------------------------------------------------------
(***************************************************************************)
(* Properties.                                                             *)
(***************************************************************************)

\* The ledger, the book and every process's memory hold values of their type.
TypeOK ==
  /\ now \in 0..MaxTime
  /\ order \in [Orders -> OrderRow]
  /\ latch \in BOOLEAN
  /\ inflight \subseteq Orders
  /\ book \in [Orders -> Booking]
  /\ proc \in [Procs -> Proc]
  /\ sends \in [Orders -> Nat]

\* broker.submit is called at most once for an intent, whatever crashes, lost
\* answers and concurrent processes do.
SubmittedOnce == \A c \in Orders : sends[c] <= 1

\* No submission starts while the outcome of another is open, and none that
\* opens exposure starts under an active latch, although both were checked in
\* an earlier step than the one that claims the submission.
Starts(c) == order'[c].state = "SUBMISSION_STARTED" /\ order[c].state # "SUBMISSION_STARTED"
StartsInTheClear ==
  [][\A c \in Orders : Starts(c) =>
       /\ \A d \in Orders : order[d].state \notin Unsettled
       /\ c \in Entries => ~latch]_vars

\* When an entry is at the broker, every exit has traded in full there: the
\* plan never holds the old and the new exposure together.
EntriesWaitForExits ==
  (\E e \in Entries : book[e].state # "NONE") => \A x \in Exits : book[x].state = "FILLED"

\* The ledger never says more than the broker did: an end it records is the
\* broker's, and it counts no execution the broker does not have.
LedgerIsTrue ==
  \A c \in Orders :
    /\ order[c].filled <= book[c].filled
    /\ order[c].state \in Terminal =>
         order[c].state = book[c].state /\ order[c].filled = book[c].filled

\* What the broker finally did with an order can be learnt by a lookup.
Learnable(c) ==
  book[c].state \in Terminal =>
    \/ order[c].state = book[c].state
    \/ Acceptable(c, book[c])

\* It can while no cancellation was asked for, however a submission ended:
\* the times the service records never overtake the broker's.
OutcomeLearnable ==
  \A c \in Orders :
    order[c].state \notin {"CANCEL_REQUESTED", "RECONCILIATION_REQUIRED"} => Learnable(c)

\* Ambiguity is resolved by client-ID lookup: an order that is in doubt and
\* that the broker has ended takes the broker's answer.
AmbiguityResolvable ==
  \A c \in Orders : order[c].state \in Unsettled => Learnable(c)
=============================================================================
