-------------------------- MODULE LiveSessionProofs --------------------------
(***************************************************************************)
(* Proofs about LiveSession, for any number of sessions, decisions, halts, *)
(* moves of the account and faults, and any position and order limit.      *)
(***************************************************************************)
EXTENDS LiveSession, FiniteSetTheorems, TLAPS

Plans == [side : {"none", "sell", "buy"}, qty : Int]
Live == {"late", "open", "canceling"}
OrderRow == [side : {"none", "sell", "buy"}, qty : Int, state : {"none"} \cup Ended \cup Live]
Status == {"none", "claimed", "observed", "deferred", "no_positions", "submission_authorized",
           "submitted", "submission_unknown", "rejected", "execution_pending", "buy_leg_abandoned"}
Decision == [status : Status, plan : Plans, receipt : Plans]
Halts == [manual : [id : 0..MaxHalts, flatten : BOOLEAN, canceled : BOOLEAN],
          daily : 0..Sessions, hard : BOOLEAN]
Requests == {Request(i) : i \in 1..MaxHalts}
AllSeries == {HardStop(s) : s \in 1..Sessions} \cup Requests

\* A process that claimed a decision holds its key until the decision is sent.
InCycle == {"reconcile", "target", "plan", "resume"}
Holding == InCycle \cup {"orders", "submit"}
Memory == [pc : {"idle", "cancel", "flatten", "sent", "monitor", "reduce", "attempt", "claim"} \cup Holding,
           series : SUBSET Keys, key : Keys \cup {<<>>}, halted : BOOLEAN, latched : BOOLEAN,
           want : {"none", "sell", "buy"}, pos : Int, plan : Plans]

(***************************************************************************)
(* The inductive invariant.                                                *)
(***************************************************************************)
TableTypes ==
  /\ session \in 1..Sessions /\ pos \in Int /\ asked \in 0..MaxHalts
  /\ account \in [breach : SUBSET Limits, fit : BOOLEAN]
  /\ halts \in Halts /\ (halts.manual.flatten => halts.manual.id > 0)
  /\ dec \in [Keys -> Decision] /\ local \in [Keys -> {"none", "sent", "ended"}]
  /\ book \in [Keys -> OrderRow] /\ mem \in [Procs -> Memory]

\* An order that was sent was claimed first and is known locally; one that may still
\* arrive is not known to have ended, and its decision has the plan.  A decision
\* whose buys wait keeps them.
BookOK(d, l, b) ==
  \A k \in Keys : /\ b[k].state # "none" => d[k].status # "none" /\ l[k] # "none"
                  /\ b[k].state = "late" => l[k] = "sent" /\ d[k].plan # NoPlan
                  /\ d[k].status = "execution_pending" =>
                       d[k].plan = d[k].receipt /\ d[k].plan.side = "buy"

\* The command line runs no cycle and no monitor; what it reduces is a request.
CliOK(m) ==
  /\ m.pc \notin InCycle \cup {"monitor", "reduce"}
  /\ m.pc \in {"claim", "orders", "submit", "sent"} => m.key[1] = "flatten"
  /\ m.pc \in {"flatten", "attempt"} => m.series \in Requests
  /\ m.pc = "submit" => m.plan.side = "sell"

\* A process sends only what its decision says, for a key whose order was not sent.
MemOK(p, m, d, b) ==
  /\ m.pc \in Holding => /\ m.key \in Keys /\ d[m.key].status # "none"
                         /\ m.pc # "resume" => b[m.key].state = "none"
  /\ m.pc \in {"resume", "submit"} => /\ d[m.key].receipt = m.plan /\ d[m.key].plan = m.plan
                                      /\ m.plan # NoPlan /\ m.plan.side # "none"
  /\ m.pc \in InCycle => m.key[1] = "cycle"
  /\ m.pc \in {"claim", "orders"} => m.key \in Keys /\ m.key[1] # "cycle"
  /\ m.pc \in {"flatten", "attempt"} => m.series \in AllSeries
  /\ m.pc = "cancel" => m.series \in Requests \cup {{}}
  /\ m.pc = "sent" => m.key \in Keys
  /\ p = "cli" => CliOK(m)
  /\ p = "daemon" => m.pc \notin {"cancel", "flatten", "sent"}

\* Two processes hold two keys.
FreeKey(p, k) == \A q \in Procs : q # p /\ mem[q].pc \in Holding => mem[q].key # k
OwnersDistinct == \A p \in Procs : mem[p].pc \in Holding => FreeKey(p, mem[p].key)

SessionInv ==
  /\ TableTypes /\ BookOK(dec, local, book) /\ \A p \in Procs : MemOK(p, mem[p], dec, book)
  /\ OwnersDistinct /\ ReceiptFirst

(***************************************************************************)
(* Only the daemon reduces for a hard stop: no order of the series may     *)
(* still arrive when it claims the next attempt, and none may trade when   *)
(* it sends it.                                                            *)
(***************************************************************************)
SameSeries(j, k) == j[1] = k[1] /\ j[2] = k[2]
HardStopKey(k) == k[1] = "hard_stop"
\* No order of the series of key k is in one of the states.
NoneOf(k, states) == \A j \in Keys : SameSeries(j, k) => book[j].state \notin states
Cleared(m) ==
  HardStopKey(m.key) => /\ m.pc \in {"claim", "orders"} => NoneOf(m.key, {"late"})
                        /\ m.pc = "submit" => NoneOf(m.key, Live)
OneReducer ==
  /\ Cleared(mem["daemon"])
  /\ \A j, k \in Keys :
       HardStopKey(j) /\ SameSeries(j, k) /\ book[j].state \in Live /\ book[k].state \in Live => j = k
-----------------------------------------------------------------------------
(***************************************************************************)
(* Keys.                                                                   *)
(***************************************************************************)
\* A key is a cycle's or an attempt's.
LEMMA KeyShape ==
  ASSUME NEW k \in Keys
  PROVE  \/ \E s \in 1..Sessions : k = <<"cycle", s, 0>>
         \/ \E s \in 1..Sessions, n \in 0..(MaxDecisions - 1) : k = <<"hard_stop", s, n>>
         \/ \E i \in 1..MaxHalts, n \in 0..(MaxDecisions - 1) : k = <<"flatten", i, n>>
  <1>1. CASE k \in {Cycle(s) : s \in 1..Sessions}
    BY <1>1 DEF Cycle
  <1>2. CASE k \in UNION {HardStop(s) : s \in 1..Sessions}
    <2>1. PICK s \in 1..Sessions : k \in HardStop(s)
      BY <1>2
    <2> QED BY <2>1 DEF HardStop, Series
  <1>3. CASE k \in UNION {Request(i) : i \in 1..MaxHalts}
    <2>1. PICK i \in 1..MaxHalts : k \in Request(i)
      BY <1>3
    <2> QED BY <2>1 DEF Request, Series
  <1> DEFINE A == {Cycle(s) : s \in 1..Sessions}
             B == UNION {HardStop(s) : s \in 1..Sessions}
             C == UNION {Request(i) : i \in 1..MaxHalts}
  <1>4. Keys = A \cup B \cup C
    BY DEF Keys
  <1> HIDE DEF A, B, C
  <1> QED BY <1>1, <1>2, <1>3, <1>4 DEF A, B, C

LEMMA CycleKey ==
  ASSUME TableTypes
  PROVE  Cycle(session) \in Keys /\ Cycle(session)[1] = "cycle"
  BY DEF Keys, Cycle, TableTypes

\* There are finitely many.
LEMMA KeysFinite == IsFiniteSet(Keys)
  <1> DEFINE A == {"cycle", "hard_stop", "flatten"}
             B == 0..(Sessions + MaxHalts)
             C == 0..MaxDecisions
             S == (A \X B) \X C
             f == [x \in S |-> <<x[1][1], x[1][2], x[2]>>]
             T == {f[x] : x \in S}
  <1>1. IsFiniteSet(A)
    <2>1. A = ({"cycle"} \cup {"hard_stop"}) \cup {"flatten"}
      OBVIOUS
    <2>2. IsFiniteSet({"cycle"}) /\ IsFiniteSet({"hard_stop"}) /\ IsFiniteSet({"flatten"})
      BY FS_Singleton
    <2>3. IsFiniteSet({"cycle"} \cup {"hard_stop"})
      BY <2>2, FS_Union
    <2>4. IsFiniteSet(({"cycle"} \cup {"hard_stop"}) \cup {"flatten"})
      BY <2>2, <2>3, FS_Union
    <2> QED BY <2>1, <2>4
  <1>2. IsFiniteSet(B) /\ IsFiniteSet(C)
    BY FS_Interval, LiveSessionAssumption
  <1>3. IsFiniteSet(A \X B) /\ IsFiniteSet(S)
    BY <1>1, <1>2, FS_Product
  <1>4. f \in Surjection(S, T)
    BY DEF Surjection
  <1>5. IsFiniteSet(T)
    <2> HIDE DEF S, T, f
    <2> QED BY <1>3, <1>4, FS_Surjection
  <1>6. Keys \subseteq T
    <2> SUFFICES ASSUME NEW k \in Keys PROVE k \in T
      OBVIOUS
    <2>1. PICK a \in A, b \in B, c \in C : k = <<a, b, c>>
      BY KeyShape, LiveSessionAssumption
    <2>2. << <<a, b>>, c>> \in S
      OBVIOUS
    <2>3. f[<< <<a, b>>, c>>] = k
      BY <2>1, <2>2
    <2> HIDE DEF f, S
    <2> QED BY <2>2, <2>3
  <1> QED BY <1>5, <1>6, FS_Subset

\* The series of the attempts that processes make.
LEMMA SeriesKeys ==
  ASSUME NEW S \in AllSeries
  PROVE  /\ S \subseteq Keys
         /\ \E a \in {"hard_stop", "flatten"}, i \in Nat :
              /\ S = {<<a, i, n>> : n \in 0..(MaxDecisions - 1)}
              /\ \A k \in Keys : k[1] = a /\ k[2] = i => k \in S
  <1>1. CASE \E s \in 1..Sessions : S = HardStop(s)
    <2>1. PICK s \in 1..Sessions : S = HardStop(s)
      BY <1>1
    <2>2. S = {<<"hard_stop", s, n>> : n \in 0..(MaxDecisions - 1)} /\ s \in Nat
      BY <2>1 DEF HardStop, Series
    <2>3. S \subseteq Keys
      BY <2>1 DEF Keys
    <2>4. \A k \in Keys : k[1] = "hard_stop" /\ k[2] = s => k \in S
      BY <2>2, KeyShape
    <2> QED BY <2>2, <2>3, <2>4
  <1>2. CASE \E i \in 1..MaxHalts : S = Request(i)
    <2>1. PICK i \in 1..MaxHalts : S = Request(i)
      BY <1>2
    <2>2. S = {<<"flatten", i, n>> : n \in 0..(MaxDecisions - 1)} /\ i \in Nat
      BY <2>1 DEF Request, Series
    <2>3. S \subseteq Keys
      <3> DEFINE R == {Request(j) : j \in 1..MaxHalts}
      <3>1. S \in R
        BY <2>1
      <3>2. Keys = {Cycle(s) : s \in 1..Sessions} \cup (UNION {HardStop(s) : s \in 1..Sessions})
                   \cup (UNION R)
        BY DEF Keys
      <3> HIDE DEF R
      <3> QED BY <3>1, <3>2
    <2>4. \A k \in Keys : k[1] = "flatten" /\ k[2] = i => k \in S
      BY <2>2, KeyShape
    <2> QED BY <2>2, <2>3, <2>4
  <1> QED BY <1>1, <1>2 DEF AllSeries, Requests

\* The keys of a request.
LEMMA RequestKeys ==
  /\ \A S \in Requests : S \in AllSeries /\ \A k \in S : k[1] = "flatten"
  /\ \A k \in Keys : k[1] = "flatten" => Request(k[2]) \in Requests
  <1>1. \A S \in Requests : S \in AllSeries /\ \A k \in S : k[1] = "flatten"
    BY DEF Requests, AllSeries, Request, Series
  <1>2. ASSUME NEW k \in Keys, k[1] = "flatten" PROVE Request(k[2]) \in Requests
    BY <1>2, KeyShape DEF Requests
  <1> QED BY <1>1, <1>2

\* While decisions are left, an attempt has a key of its own in its series.
NextKey(S) == CHOOSE k \in S : k[3] = Cardinality(Attempts(S))
LEMMA NextAttempt ==
  ASSUME NEW S \in AllSeries, ~Bounded
  PROVE  NextKey(S) \in S
  <1> DEFINE D == {k \in Keys : dec[k].status # "none"}
             n == Cardinality(Attempts(S))
  <1>1. S \subseteq Keys
    BY SeriesKeys
  <1>2. \E a \in {"hard_stop", "flatten"}, i \in Nat : S = {<<a, i, c>> : c \in 0..(MaxDecisions - 1)}
    BY SeriesKeys
  <1>a. PICK a, i : S = {<<a, i, c>> : c \in 0..(MaxDecisions - 1)}
    BY <1>2
  <1>3. IsFiniteSet(D) /\ Cardinality(D) \in Nat
    BY KeysFinite, FS_Subset, FS_CardinalityType
  <1>4. Attempts(S) \in SUBSET D
    BY <1>1 DEF Attempts
  <1>5. n \in Nat /\ n <= Cardinality(D)
    <2> HIDE DEF D
    <2> QED BY <1>3, <1>4, FS_Subset, FS_CardinalityType
  <1>6. Cardinality(D) < MaxDecisions
    <2>1. ~(Cardinality(D) >= MaxDecisions)
      BY DEF Bounded
    <2> HIDE DEF D
    <2> QED BY <2>1, <1>3, LiveSessionAssumption
  <1> HIDE DEF n, D
  <1>7. n \in 0..(MaxDecisions - 1)
    BY <1>3, <1>5, <1>6, LiveSessionAssumption
  <1>8. <<a, i, n>> \in S /\ <<a, i, n>>[3] = n
    BY <1>a, <1>7
  <1> QED BY <1>8 DEF NextKey, n
-----------------------------------------------------------------------------
(***************************************************************************)
(* What the parts of a step do.                                            *)
(***************************************************************************)
\* Orders go forward: none appears, and what is sent stays what it is.
Onward(b, c) ==
  \A k \in Keys : /\ b[k].state = "none" <=> c[k].state = "none"
                  /\ c[k].state \in Live =>
                       b[k].state \in Live /\ c[k].side = b[k].side /\ c[k].qty = b[k].qty
                  /\ c[k].state = "late" => b[k].state = "late"
\* A row follows the broker only when the order has ended there.
Follows(l, b, n) == \A k \in Keys : n[k] = l[k] \/ (b[k].state \in Ended /\ n[k] = "ended")

LEMMA IdleType ==
  /\ Idle \in Memory /\ Idle.pc = "idle" /\ NoPlan \in Plans
  BY DEF Idle, Memory, Plans, NoPlan

LEMMA LatchedType ==
  ASSUME TableTypes, NEW h \in Halts
  PROVE  LatchedHalts(h) \in Halts /\ LatchedHalts(h).manual = h.manual
  <1> DEFINE d == IF "daily_loss" \in account.breach /\ h.daily = 0 THEN session ELSE h.daily
             r == h.hard \/ "hard_stop" \in account.breach
  <1>1. d \in 0..Sessions /\ r \in BOOLEAN
    BY LiveSessionAssumption DEF TableTypes, Halts
  <1>2. LatchedHalts(h) = [h EXCEPT !.daily = d, !.hard = r]
    BY DEF LatchedHalts
  <1> HIDE DEF d, r
  <1> QED BY <1>1, <1>2 DEF Halts

LEMMA ExpiredType ==
  ASSUME TableTypes, NEW h \in Halts
  PROVE  Expired(h) \in Halts /\ Expired(h).manual = h.manual
  <1>1. 0 \in 0..Sessions
    BY LiveSessionAssumption
  <1> QED BY <1>1 DEF Expired, Halts

LEMMA SameBook ==
  ASSUME TableTypes
  PROVE  Onward(book, book) /\ Follows(local, book, local)
  BY DEF Onward, Follows

LEMMA CanceledType ==
  ASSUME TableTypes
  PROVE  CanceledAll \in [Keys -> OrderRow] /\ Onward(book, CanceledAll)
  <1> DEFINE c == CanceledAll
  <1>1. ASSUME NEW k \in Keys
        PROVE  /\ c[k] \in OrderRow /\ c[k].side = book[k].side /\ c[k].qty = book[k].qty
               /\ c[k].state = IF book[k].state = "open" THEN "canceling" ELSE book[k].state
    <2>1. book[k] \in OrderRow
      BY DEF TableTypes
    <2>2. c[k] = IF book[k].state = "open" THEN [book[k] EXCEPT !.state = "canceling"] ELSE book[k]
      BY DEF CanceledAll
    <2> HIDE DEF c
    <2> QED BY <2>1, <2>2 DEF OrderRow, Live
  <1>2. c = [k \in Keys |-> c[k]]
    BY DEF CanceledAll
  <1> HIDE DEF c
  <1>3. c \in [Keys -> OrderRow]
    BY <1>1, <1>2
  <1>4. Onward(book, c)
    BY <1>1 DEF Onward, Live, TableTypes, OrderRow
  <1> QED BY <1>3, <1>4 DEF c

LEMMA ReconciledType ==
  ASSUME TableTypes
  PROVE  /\ ReconciledLocal \in [Keys -> {"none", "sent", "ended"}]
         /\ Follows(local, book, ReconciledLocal)
  BY DEF ReconciledLocal, Follows, TableTypes

\* Orders that go forward keep what the invariant says of them.
LEMMA BookForward ==
  ASSUME SessionInv, NEW c, Onward(book, c), NEW l, Follows(local, book, l)
  PROVE  /\ BookOK(dec, l, c)
         /\ \A k \in Keys : c[k].state \in Live => dec[k].receipt = [side |-> c[k].side, qty |-> c[k].qty]
         /\ \A p, m : MemOK(p, m, dec, book) => MemOK(p, m, dec, c)
  <1>1. BookOK(dec, local, book) /\ ReceiptFirst
    BY DEF SessionInv
  <1>2. BookOK(dec, l, c)
    BY <1>1 DEF BookOK, Onward, Follows, Ended
  <1>3. \A k \in Keys : c[k].state \in Live => dec[k].receipt = [side |-> c[k].side, qty |-> c[k].qty]
    BY <1>1 DEF ReceiptFirst, Onward, Live
  <1>4. \A p, m : MemOK(p, m, dec, book) => MemOK(p, m, dec, c)
    BY DEF MemOK, Onward
  <1> QED BY <1>2, <1>3, <1>4

\* What one process holds after its step, and the other one before.
LEMMA OwnersStep ==
  ASSUME SessionInv, NEW p \in Procs, NEW n, mem' = [mem EXCEPT ![p] = n],
         n.pc \in Holding => FreeKey(p, n.key)
  PROVE  OwnersDistinct'
  <1>1. mem'[p] = n /\ \A q \in Procs : q # p => mem'[q] = mem[q]
    BY DEF SessionInv, TableTypes
  <1>2. OwnersDistinct
    BY DEF SessionInv
  <1> QED BY <1>1, <1>2 DEF OwnersDistinct, FreeKey

\* A step that decides nothing: one process p moves on, and orders go forward.
LEMMA QuietStep ==
  ASSUME SessionInv, NEW p \in Procs, NEW n, TableTypes', dec' = dec,
         mem' = [mem EXCEPT ![p] = n],
         Onward(book, book'), Follows(local, book, local'),
         MemOK(p, n, dec, book), n.pc \in Holding => FreeKey(p, n.key)
  PROVE  SessionInv'
  <1>1. /\ BookOK(dec, local', book')
        /\ \A k \in Keys : book'[k].state \in Live => dec[k].receipt = [side |-> book'[k].side, qty |-> book'[k].qty]
        /\ \A q, m : MemOK(q, m, dec, book) => MemOK(q, m, dec, book')
    BY BookForward
  <1>2. mem'[p] = n /\ \A q \in Procs : q # p => mem'[q] = mem[q]
    BY DEF SessionInv, TableTypes
  <1>3. \A q \in Procs : MemOK(q, mem'[q], dec', book')
    BY <1>1, <1>2 DEF SessionInv
  <1>4. OwnersDistinct'
    BY OwnersStep
  <1>5. ReceiptFirst'
    BY <1>1 DEF ReceiptFirst, Live
  <1> QED BY <1>1, <1>3, <1>4, <1>5 DEF SessionInv

\* A step that writes the decision of a key whose order was not sent, and that no
\* other process holds.
LEMMA DecideStep ==
  ASSUME SessionInv, NEW p \in Procs, NEW n, NEW k \in Keys, TableTypes',
         \A j \in Keys : j # k => dec'[j] = dec[j], book[k].state = "none",
         dec'[k].status \notin {"none", "execution_pending"},
         mem' = [mem EXCEPT ![p] = n], local' = local, Onward(book, book'),
         MemOK(p, n, dec', book), n.pc \in Holding => n.key = k, FreeKey(p, k)
  PROVE  SessionInv'
  <1>0. dec \in [Keys -> Decision] /\ mem \in [Procs -> Memory] /\ Follows(local, book, local')
    BY DEF SessionInv, TableTypes, Follows
  <1>1. /\ BookOK(dec, local', book')
        /\ \A j \in Keys : book'[j].state \in Live => dec[j].receipt = [side |-> book'[j].side, qty |-> book'[j].qty]
        /\ \A q, m : MemOK(q, m, dec, book) => MemOK(q, m, dec, book')
    BY <1>0, BookForward
  <1>2. mem'[p] = n /\ \A q \in Procs : q # p => mem'[q] = mem[q]
    BY <1>0
  <1>3. \A j \in Keys : j # k => dec'[j] = dec[j]
    OBVIOUS
  <1>4. book'[k].state = "none"
    BY DEF Onward
  <1>5. BookOK(dec', local', book')
    BY <1>1, <1>3, <1>4 DEF BookOK
  <1>6. ReceiptFirst'
    BY <1>1, <1>3, <1>4 DEF ReceiptFirst, Live
  <1>7. MemOK(p, n, dec', book')
    BY DEF MemOK, Onward
  <1>8. ASSUME NEW q \in Procs PROVE MemOK(q, mem'[q], dec', book')
    <2>1. CASE q = p
      BY <1>2, <1>7, <2>1
    <2>2. CASE q # p
      <3>1. mem'[q] = mem[q] /\ MemOK(q, mem[q], dec, book')
        BY <1>1, <1>2, <2>2 DEF SessionInv
      <3>2. mem[q].pc \in Holding => mem[q].key # k
        BY <2>2 DEF FreeKey
      <3> QED BY <3>1, <3>2, <1>3 DEF MemOK, Holding, InCycle
    <2> QED BY <2>1, <2>2
  <1>9. OwnersDistinct'
    BY OwnersStep
  <1> QED BY <1>5, <1>6, <1>8, <1>9 DEF SessionInv

\* A step that changes the status of a claimed decision, whose order and plan stay.
LEMMA StatusStep ==
  ASSUME SessionInv, NEW p \in Procs, NEW n, NEW k \in Keys, NEW st \in Status \ {"none"},
         dec[k].status # "none", dec' = [dec EXCEPT ![k].status = st],
         st = "execution_pending" => dec[k].plan = dec[k].receipt /\ dec[k].plan.side = "buy",
         UNCHANGED <<session, account, halts, asked, pos, book>>,
         mem' = [mem EXCEPT ![p] = n], n \in Memory, n.pc \notin Holding, MemOK(p, n, dec, book),
         local' \in [Keys -> {"none", "sent", "ended"}], Follows(local, book, local')
  PROVE  SessionInv'
  <1>0. TableTypes /\ dec \in [Keys -> Decision] /\ mem \in [Procs -> Memory]
    BY DEF SessionInv, TableTypes
  <1>1. /\ dec' \in [Keys -> Decision]
        /\ \A j \in Keys : /\ dec'[j].plan = dec[j].plan /\ dec'[j].receipt = dec[j].receipt
                           /\ dec'[j].status = IF j = k THEN st ELSE dec[j].status
    <2> DEFINE e == [dec[k] EXCEPT !.status = st]
    <2>1. dec[k] \in Decision
      BY <1>0
    <2>2. e \in Decision /\ e.plan = dec[k].plan /\ e.receipt = dec[k].receipt /\ e.status = st
      BY <2>1 DEF Decision
    <2>3. dec' = [dec EXCEPT ![k] = e]
      OBVIOUS
    <2> HIDE DEF e
    <2> QED BY <1>0, <2>2, <2>3
  <1>2. mem'[p] = n /\ (\A q \in Procs : q # p => mem'[q] = mem[q]) /\ mem' \in [Procs -> Memory]
    BY <1>0
  <1>3. TableTypes'
    BY <1>0, <1>1, <1>2 DEF TableTypes
  <1>4. Onward(book, book)
    BY <1>0, SameBook
  <1>5. BookOK(dec, local', book)
    BY <1>4, BookForward
  <1>6. BookOK(dec', local', book')
    BY <1>1, <1>5 DEF BookOK
  <1>7. \A q, m : MemOK(q, m, dec, book) => MemOK(q, m, dec', book')
    BY <1>1 DEF MemOK, Holding
  <1>8. \A q \in Procs : MemOK(q, mem'[q], dec', book')
    BY <1>2, <1>7 DEF SessionInv
  <1>9. ReceiptFirst'
    BY <1>1 DEF SessionInv, ReceiptFirst
  <1>10. OwnersDistinct'
    BY OwnersStep
  <1> QED BY <1>3, <1>6, <1>8, <1>9, <1>10 DEF SessionInv
-----------------------------------------------------------------------------
(***************************************************************************)
(* The daemon's cycle.                                                     *)
(***************************************************************************)
\* The tables before a step.
LEMMA Before ==
  ASSUME SessionInv, NEW p \in Procs
  PROVE  /\ TableTypes /\ mem[p] \in Memory /\ MemOK(p, mem[p], dec, book) /\ halts \in Halts
         /\ mem[p].pc \in Holding => FreeKey(p, mem[p].key)
  BY DEF SessionInv, TableTypes, OwnersDistinct

\* Nobody holds the key of a decision that was not claimed.
LEMMA Unclaimed ==
  ASSUME SessionInv, NEW k \in Keys, dec[k].status = "none"
  PROVE  book[k].state = "none" /\ \A p \in Procs : FreeKey(p, k)
  BY DEF SessionInv, BookOK, MemOK, FreeKey

LEMMA BeginCycleStep ==
  ASSUME SessionInv, BeginCycle
  PROVE  SessionInv'
  <1> DEFINE h == LatchedHalts(halts)
             k == Cycle(session)
             e == [dec[k] EXCEPT !.status = "claimed"]
             l == Latching(h)
             n == [Idle EXCEPT !.pc = "reconcile", !.key = k, !.latched = l]
  <1>0. "daemon" \in Procs /\ TableTypes
    BY Before DEF Procs
  <1>1. k \in Keys /\ k[1] = "cycle" /\ h \in Halts /\ h.manual = halts.manual
    BY <1>0, CycleKey, LatchedType, Before
  <1>2. /\ dec[k].status = "none" /\ halts' = h
        /\ mem' = [mem EXCEPT !["daemon"] = n] /\ local' = local
        /\ UNCHANGED <<session, account, asked, pos>>
        /\ book' = book \/ book' = CanceledAll
    BY DEF BeginCycle, Goes, Cancels
  <1>3. dec' = [dec EXCEPT ![k] = e]
    BY DEF BeginCycle
  <1>4. book' \in [Keys -> OrderRow] /\ Onward(book, book')
    BY <1>0, <1>2, CanceledType, SameBook DEF TableTypes
  <1>5. e \in Decision /\ e.status = "claimed"
    BY <1>0, <1>1 DEF TableTypes, Decision, Status
  <1> HIDE DEF h, k, e
  <1>6. n \in Memory /\ n.pc = "reconcile" /\ n.key = k
    <2>1. l \in BOOLEAN
      BY DEF Latching
    <2> HIDE DEF l
    <2> QED BY <1>1, <2>1, IdleType DEF Memory, Idle, Holding, InCycle
  <1> HIDE DEF n
  <1>7. TableTypes'
    BY <1>0, <1>1, <1>2, <1>3, <1>4, <1>5, <1>6 DEF TableTypes
  <1>8. dec'[k] = e /\ dec'[k].status # "none" /\ \A j \in Keys : j # k => dec'[j] = dec[j]
    BY <1>0, <1>1, <1>3, <1>5 DEF TableTypes
  <1>9. book[k].state = "none" /\ FreeKey("daemon", k)
    BY <1>0, <1>1, <1>2, Unclaimed
  <1>10. MemOK("daemon", n, dec', book) /\ e.status \notin {"none", "execution_pending"}
    BY <1>1, <1>5, <1>6, <1>8, <1>9 DEF MemOK
  <1> QED BY <1>0, <1>1, <1>2, <1>4, <1>6, <1>7, <1>8, <1>9, <1>10, DecideStep

LEMMA CycleReconcileStep ==
  ASSUME SessionInv, CycleReconcile
  PROVE  SessionInv'
  <1> DEFINE m == mem["daemon"]
             h == LatchedHalts(Expired(halts))
             l == Latching(h)
             b == halts.manual.id # 0
             n == [m EXCEPT !.pc = "target", !.halted = b, !.latched = l]
  <1>0. "daemon" \in Procs /\ TableTypes /\ m \in Memory /\ MemOK("daemon", m, dec, book)
    BY Before DEF Procs
  <1>1. h \in Halts /\ h.manual = halts.manual
    BY <1>0, LatchedType, ExpiredType DEF TableTypes
  <1>2. /\ m.pc = "reconcile" /\ halts' = h /\ dec' = dec
        /\ mem' = [mem EXCEPT !["daemon"] = n] /\ local' = ReconciledLocal
        /\ UNCHANGED <<session, account, asked, pos>>
        /\ book' = book \/ book' = CanceledAll
    BY DEF CycleReconcile, Goes, Cancels, At
  <1>3. /\ book' \in [Keys -> OrderRow] /\ Onward(book, book')
        /\ local' \in [Keys -> {"none", "sent", "ended"}] /\ Follows(local, book, local')
    BY <1>0, <1>2, CanceledType, SameBook, ReconciledType DEF TableTypes
  <1> HIDE DEF h
  <1>4. n \in Memory /\ n.pc = "target" /\ n.key = m.key
    <2>1. l \in BOOLEAN /\ b \in BOOLEAN
      BY DEF Latching
    <2> HIDE DEF l, b
    <2> QED BY <1>0, <2>1 DEF Memory, Holding, InCycle
  <1> HIDE DEF n
  <1>5. TableTypes'
    BY <1>0, <1>1, <1>2, <1>3, <1>4 DEF TableTypes
  <1>6. MemOK("daemon", n, dec, book) /\ m.pc \in Holding
    BY <1>0, <1>2, <1>4 DEF MemOK, Holding, InCycle
  <1>7. FreeKey("daemon", n.key)
    BY <1>0, <1>4, <1>6, Before
  <1> QED BY <1>0, <1>2, <1>3, <1>4, <1>5, <1>6, <1>7, QuietStep

LEMMA CycleTargetStep ==
  ASSUME SessionInv, NEW want \in {"sell", "buy"}, CycleTarget(want)
  PROVE  SessionInv'
  <1> DEFINE m == mem["daemon"]
             n == [m EXCEPT !.pc = "plan", !.want = want, !.pos = pos]
  <1>0. "daemon" \in Procs /\ TableTypes /\ m \in Memory /\ MemOK("daemon", m, dec, book)
    BY Before DEF Procs
  <1>1. /\ m.pc = "target" /\ mem' = [mem EXCEPT !["daemon"] = n]
        /\ UNCHANGED <<session, account, halts, asked, dec, local, pos, book>>
    BY DEF CycleTarget, Goes, At
  <1>2. n \in Memory /\ n.pc = "plan" /\ n.key = m.key
    BY <1>0 DEF Memory, Holding, InCycle, TableTypes
  <1> HIDE DEF n
  <1>3. TableTypes'
    BY <1>0, <1>1, <1>2 DEF TableTypes
  <1>4. MemOK("daemon", n, dec, book) /\ m.pc \in Holding
    BY <1>0, <1>1, <1>2 DEF MemOK, Holding, InCycle
  <1>5. FreeKey("daemon", n.key)
    BY <1>0, <1>2, <1>4, Before
  <1>6. Onward(book, book') /\ Follows(local, book, local')
    BY <1>0, <1>1, SameBook
  <1> QED BY <1>0, <1>1, <1>2, <1>3, <1>4, <1>5, <1>6, QuietStep

\* What the planner returns.
LEMMA PlannedType ==
  ASSUME NEW want \in {"sell", "buy"}, NEW held \in Int, NEW open \in BOOLEAN
  PROVE  /\ Planned(want, held, open) \in Plans
         /\ Planned(want, held, open) # NoPlan => Planned(want, held, open).side = want /\ ~open
  <1>1. CASE open \/ (want = "sell" /\ held <= 0)
    <2>1. Planned(want, held, open) = NoPlan
      BY <1>1 DEF Planned
    <2> QED BY <2>1, IdleType
  <1>2. CASE ~open /\ want = "sell" /\ ~(held <= 0)
    <2>1. held > 0 /\ Smaller(held, MaxOrder) \in Int
      BY <1>2, LiveSessionAssumption DEF Smaller
    <2>2. Planned(want, held, open) = [side |-> "sell", qty |-> Smaller(held, MaxOrder)]
      BY <1>2, <2>1 DEF Planned
    <2> QED BY <1>2, <2>1, <2>2 DEF Plans
  <1>3. CASE ~open /\ want = "buy"
    <2>1. Planned(want, held, open) = [side |-> "buy", qty |-> 1]
      BY <1>3 DEF Planned
    <2> QED BY <1>3, <2>1 DEF Plans
  <1> QED BY <1>1, <1>2, <1>3

LEMMA AuthorizedType ==
  ASSUME NEW plan \in Plans, NEW st \in Status
  PROVE  /\ Authorized(plan) \in Decision /\ NotSent(st) \in Decision
         /\ Authorized(plan).status = "submission_authorized" /\ NotSent(st).status = st
         /\ Authorized(plan).plan = plan /\ Authorized(plan).receipt = plan
  BY IdleType DEF Authorized, NotSent, Decision, Status

LEMMA SubmitsType ==
  ASSUME NEW plan \in Plans, NEW k \in Keys
  PROVE  /\ Submits(k, plan) \in Memory /\ Submits(k, plan).pc = "submit"
         /\ Submits(k, plan).key = k /\ Submits(k, plan).plan = plan
  BY IdleType DEF Submits, Memory, Idle, Holding

LEMMA CyclePlanStep ==
  ASSUME SessionInv, CyclePlan
  PROVE  SessionInv'
  <1> DEFINE m == mem["daemon"]
             h == LatchedHalts(halts)
             want == Permitted(h, m.want)
             held == IF Latching(h) /\ ~m.latched THEN pos ELSE m.pos
             open == OpenOrders # {}
             plan == IF want = "none" THEN NoPlan ELSE Planned(want, held, open)
             allowed == Fit /\ ~m.halted /\ plan # NoPlan
             e == IF allowed THEN Authorized(plan) ELSE NotSent("observed")
             n == IF allowed THEN Submits(m.key, plan) ELSE Idle
  <1>0. "daemon" \in Procs /\ TableTypes /\ m \in Memory /\ MemOK("daemon", m, dec, book)
    BY Before DEF Procs
  <1>1. h \in Halts /\ h.manual = halts.manual
    BY <1>0, LatchedType DEF TableTypes
  <1>2. /\ m.pc = "plan" /\ halts' = h /\ dec' = [dec EXCEPT ![m.key] = e]
        /\ mem' = [mem EXCEPT !["daemon"] = n]
        /\ UNCHANGED <<session, account, asked, local, pos>>
        /\ book' = book \/ book' = CanceledAll
    BY DEF CyclePlan, Goes, Cancels, At, Rest
  <1>3. book' \in [Keys -> OrderRow] /\ Onward(book, book')
    BY <1>0, <1>2, CanceledType, SameBook DEF TableTypes
  <1>4. m.key \in Keys /\ dec[m.key].status # "none" /\ book[m.key].state = "none" /\ m.pc \in Holding
    BY <1>0, <1>2 DEF MemOK, Holding, InCycle
  <1>5. want \in {"none", "sell", "buy"}
    BY <1>0 DEF Permitted, Memory
  <1>6. held \in Int /\ open \in BOOLEAN
    BY <1>0 DEF Memory, TableTypes
  <1> HIDE DEF h, want, held, open
  <1>7. plan \in Plans /\ (plan # NoPlan => plan.side = want /\ want # "none")
    BY <1>5, <1>6, PlannedType, IdleType
  <1> HIDE DEF plan
  <1>8. /\ e \in Decision /\ e.status \notin {"none", "execution_pending"}
        /\ allowed => e.plan = plan /\ e.receipt = plan
    BY <1>7, AuthorizedType DEF Status
  <1>9. /\ n \in Memory
        /\ \/ n.pc = "idle"
           \/ allowed /\ n.pc = "submit" /\ n.key = m.key /\ n.plan = plan /\ plan # NoPlan
    BY <1>4, <1>7, SubmitsType, IdleType
  <1> HIDE DEF e, n, allowed
  <1>10. TableTypes'
    BY <1>0, <1>1, <1>2, <1>3, <1>4, <1>8, <1>9 DEF TableTypes
  <1>11. dec'[m.key] = e /\ \A j \in Keys : j # m.key => dec'[j] = dec[j]
    BY <1>0, <1>2, <1>4, <1>8 DEF TableTypes
  <1>12. MemOK("daemon", n, dec', book) /\ (n.pc \in Holding => n.key = m.key)
    BY <1>4, <1>7, <1>8, <1>9, <1>11 DEF MemOK, Holding, InCycle
  <1>13. FreeKey("daemon", m.key)
    BY <1>0, <1>4, Before
  <1> HIDE DEF m
  <1> QED BY <1>0, <1>2, <1>3, <1>4, <1>8, <1>10, <1>11, <1>12, <1>13, DecideStep

\* execute: the order of a decision is sent, once, as the receipt says.
LEMMA SubmitStep ==
  ASSUME SessionInv, NEW p \in Procs, NEW outcome \in {"answered", "unknown", "raised"}, Submit(p, outcome)
  PROVE  SessionInv'
  <1> DEFINE m == mem[p]
             k == m.key
             failed == outcome = "raised" /\ dec[k].status # "execution_pending"
             st == CASE outcome = "answered" -> "submitted"
                     [] outcome = "unknown"  -> "submission_unknown"
                     [] outcome = "raised"   -> IF failed THEN "rejected" ELSE dec[k].status
             pl == IF failed THEN NoPlan ELSE dec[k].plan
             e == [dec[k] EXCEPT !.status = st, !.plan = pl]
             o == [side |-> m.plan.side, qty |-> m.plan.qty,
                   state |-> IF outcome = "unknown" THEN "late" ELSE "open"]
             n == IF p = "cli" /\ outcome = "answered" THEN [Idle EXCEPT !.pc = "sent", !.key = k] ELSE Idle
  <1>0. TableTypes /\ m \in Memory /\ MemOK(p, m, dec, book)
    BY Before
  <1>1. m.pc = "submit" /\ UNCHANGED <<session, account, halts, asked, pos>> /\ mem' = [mem EXCEPT ![p] = n]
    BY DEF Submit, At, Goes
  <1>2. /\ k \in Keys /\ dec[k].status # "none" /\ book[k].state = "none"
        /\ dec[k].receipt = m.plan /\ dec[k].plan = m.plan /\ m.plan # NoPlan /\ m.pc \in Holding
    BY <1>0, <1>1 DEF MemOK, Holding
  <1>3. /\ local' = [local EXCEPT ![k] = "sent"] /\ book' = [book EXCEPT ![k] = o]
    BY DEF Submit
  <1>4. dec' = [dec EXCEPT ![k] = e]
    <2>1. dec \in [Keys -> Decision]
      BY <1>0 DEF TableTypes
    <2>2. dec' = [dec EXCEPT ![k].status = st, ![k].plan = pl]
      BY DEF Submit
    <2> HIDE DEF st, pl, m
    <2> QED BY <1>2, <2>1, <2>2 DEF Decision
  <1>5. m.plan \in Plans /\ m.plan = [side |-> m.plan.side, qty |-> m.plan.qty]
    BY <1>0 DEF Memory, Plans
  <1>n. n \in Memory /\ n.pc \notin Holding /\ (n.pc = "sent" => p = "cli" /\ n.key = k) /\ n.pc \in {"idle", "sent"}
    BY <1>2, IdleType DEF Memory, Idle, Holding, InCycle
  <1>6. o \in OrderRow /\ o.state \in {"late", "open"} /\ (o.state = "late" <=> outcome = "unknown")
        /\ o.side = m.plan.side /\ o.qty = m.plan.qty
    BY <1>5 DEF Plans, OrderRow, Live
  <1>7. /\ e \in Decision /\ e.status # "none" /\ e.receipt = m.plan
        /\ outcome = "unknown" => e.plan # NoPlan
        /\ e.status = "execution_pending" => e.plan = m.plan /\ m.plan.side = "buy"
    <2>3. dec[k] \in Decision /\ dec[k].status \in Status
      BY <1>0, <1>2 DEF TableTypes, Decision
    <2>4. dec[k].status = "execution_pending" => dec[k].plan.side = "buy"
      BY <1>2 DEF SessionInv, BookOK
    <2>1. /\ st \in Status /\ st # "none"
          /\ st = "execution_pending" => ~failed /\ dec[k].status = "execution_pending"
      BY <1>2, <2>3 DEF Status
    <2>2. pl \in Plans /\ (~failed => pl = m.plan) /\ (outcome = "unknown" => ~failed)
      BY <1>2, <1>5, IdleType
    <2> HIDE DEF st, pl, m, k, failed
    <2> QED BY <1>2, <2>1, <2>2, <2>3, <2>4 DEF Decision
  <1> HIDE DEF o, e, st, pl, n, failed
  <1>8. /\ dec \in [Keys -> Decision] /\ local \in [Keys -> {"none", "sent", "ended"}]
        /\ book \in [Keys -> OrderRow] /\ mem \in [Procs -> Memory]
    BY <1>0 DEF TableTypes
  <1>9. /\ dec' \in [Keys -> Decision] /\ local' \in [Keys -> {"none", "sent", "ended"}]
        /\ book' \in [Keys -> OrderRow] /\ mem' \in [Procs -> Memory]
        /\ dec'[k] = e /\ local'[k] = "sent" /\ book'[k] = o /\ mem'[p] = n
        /\ \A j \in Keys : j # k => dec'[j] = dec[j] /\ local'[j] = local[j] /\ book'[j] = book[j]
        /\ \A q \in Procs : q # p => mem'[q] = mem[q]
    BY <1>1, <1>2, <1>3, <1>4, <1>6, <1>7, <1>8, <1>n
  <1>10. TableTypes'
    BY <1>0, <1>1, <1>9 DEF TableTypes
  <1>11. BookOK(dec', local', book')
    <2> SUFFICES ASSUME NEW j \in Keys
                 PROVE  /\ book'[j].state # "none" => dec'[j].status # "none" /\ local'[j] # "none"
                        /\ book'[j].state = "late" => local'[j] = "sent" /\ dec'[j].plan # NoPlan
                        /\ dec'[j].status = "execution_pending" =>
                             dec'[j].plan = dec'[j].receipt /\ dec'[j].plan.side = "buy"
      BY DEF BookOK
    <2>1. CASE j = k
      BY <2>1, <1>6, <1>7, <1>9
    <2>2. CASE j # k
      BY <2>2, <1>9 DEF SessionInv, BookOK
    <2> QED BY <2>1, <2>2
  <1>12. ReceiptFirst'
    <2> SUFFICES ASSUME NEW j \in Keys, book'[j].state \in Live
                 PROVE  dec'[j].receipt = [side |-> book'[j].side, qty |-> book'[j].qty]
      BY DEF ReceiptFirst, Live
    <2>1. CASE j = k
      BY <2>1, <1>5, <1>6, <1>7, <1>9
    <2>2. CASE j # k
      BY <2>2, <1>9 DEF SessionInv, ReceiptFirst, Live
    <2> QED BY <2>1, <2>2
  <1>13. ASSUME NEW q \in Procs PROVE MemOK(q, mem'[q], dec', book')
    <2>1. CASE q = p
      <3>1. p = "cli" => k[1] = "flatten"
        BY <1>0, <1>1 DEF MemOK, CliOK
      <3>2. CliOK(n) \/ p # "cli"
        BY <1>n, <3>1 DEF CliOK, Holding
      <3> QED BY <2>1, <1>2, <1>9, <1>n, <3>2 DEF MemOK, Holding, InCycle
    <2>2. CASE q # p
      <3>1. mem'[q] = mem[q] /\ MemOK(q, mem[q], dec, book)
        BY <1>9, <2>2 DEF SessionInv
      <3>2. mem[q].pc \in Holding => mem[q].key # k
        BY <1>2, <2>2, Before DEF FreeKey
      <3> QED BY <1>9, <3>1, <3>2 DEF MemOK, Holding, InCycle
    <2> QED BY <2>1, <2>2
  <1>14. OwnersDistinct'
    BY <1>1, <1>n, OwnersStep
  <1> QED BY <1>10, <1>11, <1>12, <1>13, <1>14 DEF SessionInv
-----------------------------------------------------------------------------
(***************************************************************************)
(* The reductions.                                                         *)
(***************************************************************************)
\* A step of one process that leaves every table alone.
LEMMA MemoryStep ==
  ASSUME SessionInv, NEW p \in Procs, NEW n \in Memory, mem' = [mem EXCEPT ![p] = n],
         UNCHANGED <<session, account, halts, asked, dec, local, pos, book>>,
         MemOK(p, n, dec, book), n.pc \in Holding => FreeKey(p, n.key)
  PROVE  SessionInv'
  <1>1. TableTypes /\ TableTypes'
    BY Before DEF TableTypes
  <1>2. Onward(book, book') /\ Follows(local, book, local')
    BY <1>1, SameBook
  <1> QED BY <1>1, <1>2, QuietStep

LEMMA AtIdle ==
  Idle.pc \notin Holding /\ \A p, d, b : MemOK(p, Idle, d, b)
  BY IdleType DEF MemOK, CliOK, Holding, InCycle

LEMMA AttemptStep ==
  ASSUME SessionInv, NEW p \in Procs, ReductionAttempt(p)
  PROVE  SessionInv'
  <1> DEFINE m == mem[p]
             key == NextKey(m.series)
             n == [Idle EXCEPT !.pc = "claim", !.key = key]
  <1>0. TableTypes /\ m \in Memory /\ MemOK(p, m, dec, book)
    BY Before
  <1>1. m.pc = "attempt" /\ UNCHANGED <<session, account, halts, asked, dec, local, pos, book>>
    BY DEF ReductionAttempt, At
  <1>2. CASE mem' = [mem EXCEPT ![p] = Idle]
    BY <1>1, <1>2, IdleType, AtIdle, MemoryStep
  <1>3. CASE ~Bounded /\ mem' = [mem EXCEPT ![p] = n]
    <2>1. m.series \in AllSeries
      BY <1>0, <1>1 DEF MemOK
    <2>2. key \in m.series /\ m.series \subseteq Keys
      BY <1>3, <2>1, NextAttempt, SeriesKeys
    <2>3. key[1] # "cycle"
      <3>1. PICK a \in {"hard_stop", "flatten"}, i \in Nat : m.series = {<<a, i, c>> : c \in 0..(MaxDecisions - 1)}
        BY <2>1, SeriesKeys
      <3> HIDE DEF key
      <3> QED BY <2>2, <3>1
    <2> HIDE DEF key
    <2>4. n \in Memory /\ n.pc = "claim" /\ n.key = key
      BY <2>2, IdleType DEF Memory, Idle
    <2>6. p = "cli" => key[1] = "flatten"
      BY <1>0, <1>1, <2>2, RequestKeys DEF MemOK, CliOK
    <2> HIDE DEF n
    <2>5. MemOK(p, n, dec, book) /\ n.pc \notin Holding
      BY <2>2, <2>3, <2>4, <2>6 DEF MemOK, CliOK, Holding, InCycle
    <2> QED BY <1>1, <1>3, <2>4, <2>5, MemoryStep
  <1> QED BY <1>2, <1>3 DEF ReductionAttempt, Goes, NextKey

LEMMA ClaimStep ==
  ASSUME SessionInv, NEW p \in Procs, ReductionClaim(p)
  PROVE  SessionInv'
  <1> DEFINE m == mem[p]
             k == m.key
             e == [dec[k] EXCEPT !.status = "claimed"]
             n == [m EXCEPT !.pc = "orders", !.pos = pos]
  <1>0. TableTypes /\ m \in Memory /\ MemOK(p, m, dec, book)
    BY Before
  <1>1. m.pc = "claim" /\ UNCHANGED <<session, account, halts, asked, local, pos, book>>
    BY DEF ReductionClaim, At
  <1>2. CASE dec[k].status # "none"
    <2>1. mem' = [mem EXCEPT ![p] = Idle] /\ dec' = dec
      BY <1>2 DEF ReductionClaim, Goes
    <2> QED BY <1>1, <2>1, IdleType, AtIdle, MemoryStep
  <1>3. CASE dec[k].status = "none"
    <2>1. dec' = [dec EXCEPT ![k] = e] /\ mem' = [mem EXCEPT ![p] = n]
      BY <1>3 DEF ReductionClaim, Goes
    <2>2. k \in Keys /\ k[1] # "cycle"
      BY <1>0, <1>1 DEF MemOK
    <2>3. e \in Decision /\ e.status = "claimed"
      BY <1>0, <2>2 DEF TableTypes, Decision, Status
    <2>4. n \in Memory /\ n.pc = "orders" /\ n.key = k
      BY <1>0 DEF Memory, TableTypes, Holding
    <2> HIDE DEF e, n
    <2>5. dec'[k] = e /\ \A j \in Keys : j # k => dec'[j] = dec[j]
      BY <1>0, <2>1, <2>2, <2>3 DEF TableTypes
    <2>6. TableTypes'
      BY <1>0, <1>1, <2>1, <2>2, <2>3, <2>4 DEF TableTypes
    <2>7. book[k].state = "none" /\ FreeKey(p, k)
      BY <1>3, <2>2, Unclaimed
    <2>9. p = "cli" => k[1] = "flatten"
      BY <1>0, <1>1 DEF MemOK, CliOK
    <2>8. MemOK(p, n, dec', book)
      BY <2>2, <2>3, <2>4, <2>5, <2>7, <2>9 DEF MemOK, CliOK, InCycle
    <2>10. Onward(book, book')
      BY <1>0, <1>1, SameBook
    <2> HIDE DEF k
    <2> QED BY <1>1, <2>1, <2>2, <2>3, <2>4, <2>5, <2>6, <2>7, <2>8, <2>10, DecideStep
  <1> QED BY <1>2, <1>3

LEMMA ReductionPlanStep ==
  ASSUME SessionInv, NEW p \in Procs, ReductionPlan(p)
  PROVE  SessionInv'
  <1> DEFINE m == mem[p]
             k == m.key
             open == OpenOrders # {}
             plan == Planned("sell", m.pos, open)
             e == CASE plan # NoPlan              -> Authorized(plan)
                    [] plan = NoPlan /\ m.pos > 0 -> NotSent("deferred")
                    [] plan = NoPlan /\ m.pos = 0 -> NotSent("no_positions")
                    [] OTHER                      -> NotSent("rejected")
             n == IF plan = NoPlan THEN Idle ELSE Submits(k, plan)
  <1>0. TableTypes /\ m \in Memory /\ MemOK(p, m, dec, book)
    BY Before
  <1>1. /\ m.pc = "orders" /\ UNCHANGED <<session, account, halts, asked, local, pos, book>>
        /\ dec' = [dec EXCEPT ![k] = e] /\ mem' = [mem EXCEPT ![p] = n]
    BY DEF ReductionPlan, At, Goes
  <1>2. k \in Keys /\ dec[k].status # "none" /\ book[k].state = "none" /\ m.pc \in Holding
    BY <1>0, <1>1 DEF MemOK, Holding
  <1>3. plan \in Plans /\ (plan # NoPlan => plan.side = "sell")
    <2>1. m.pos \in Int /\ open \in BOOLEAN
      BY <1>0 DEF Memory
    <2> HIDE DEF open
    <2> QED BY <2>1, PlannedType
  <1> HIDE DEF plan
  <1>4. e \in Decision /\ e.status \notin {"none", "execution_pending"} /\ (plan # NoPlan => e.plan = plan /\ e.receipt = plan)
    <2>1. CASE plan # NoPlan
      <3>1. e = Authorized(plan)
        BY <2>1
      <3> QED BY <2>1, <3>1, <1>3, AuthorizedType DEF Status
    <2>2. CASE plan = NoPlan
      <3>1. e \in {NotSent("deferred"), NotSent("no_positions"), NotSent("rejected")}
        BY <2>2
      <3>2. \A st \in {"deferred", "no_positions", "rejected"} : NotSent(st) \in Decision /\ NotSent(st).status = st
        BY <1>3, AuthorizedType DEF Status
      <3> HIDE DEF e
      <3> QED BY <2>2, <3>1, <3>2
    <2> QED BY <2>1, <2>2
  <1>5. /\ n \in Memory
        /\ \/ n.pc = "idle"
           \/ n.pc = "submit" /\ n.key = k /\ n.plan = plan /\ plan # NoPlan
    BY <1>2, <1>3, SubmitsType, IdleType
  <1> HIDE DEF e, n
  <1>6. dec'[k] = e /\ \A j \in Keys : j # k => dec'[j] = dec[j]
    BY <1>0, <1>1, <1>2, <1>4 DEF TableTypes
  <1>7. TableTypes'
    BY <1>0, <1>1, <1>2, <1>4, <1>5 DEF TableTypes
  <1>8. MemOK(p, n, dec', book) /\ (n.pc \in Holding => n.key = k)
    <2>1. p = "cli" => k[1] = "flatten"
      BY <1>0, <1>1 DEF MemOK, CliOK
    <2>2. CliOK(n) \/ p # "cli"
      BY <1>3, <1>5, <2>1 DEF CliOK, InCycle
    <2> QED BY <1>2, <1>3, <1>4, <1>5, <1>6, <2>2 DEF MemOK, Holding, InCycle
  <1>9. FreeKey(p, k)
    BY <1>2, Before
  <1>11. Onward(book, book')
    BY <1>0, <1>1, SameBook
  <1> HIDE DEF k, m
  <1> QED BY <1>1, <1>2, <1>4, <1>6, <1>7, <1>8, <1>9, <1>11, DecideStep
-----------------------------------------------------------------------------
(***************************************************************************)
(* The risk monitor, the command line and the world.                       *)
(***************************************************************************)
\* A step that touches halts, rows, orders and positions, and leaves one process
\* where it holds nothing, or what it held.
LEMMA WorldStep ==
  ASSUME SessionInv, NEW p \in Procs, NEW n \in Memory, mem' = [mem EXCEPT ![p] = n], dec' = dec,
         session' \in 1..Sessions, pos' \in Int, asked' \in 0..MaxHalts,
         account' \in [breach : SUBSET Limits, fit : BOOLEAN],
         halts' \in Halts, halts'.manual.flatten => halts'.manual.id > 0,
         book' \in [Keys -> OrderRow], Onward(book, book'),
         local' \in [Keys -> {"none", "sent", "ended"}], Follows(local, book, local'),
         MemOK(p, n, dec, book), n.pc \in Holding => FreeKey(p, n.key)
  PROVE  SessionInv'
  <1>1. TableTypes'
    BY Before DEF TableTypes
  <1> QED BY <1>1, QuietStep

\* The tables as they are.
LEMMA SameTables ==
  ASSUME TableTypes
  PROVE  /\ session \in 1..Sessions /\ pos \in Int /\ asked \in 0..MaxHalts
         /\ account \in [breach : SUBSET Limits, fit : BOOLEAN]
         /\ halts \in Halts /\ (halts.manual.flatten => halts.manual.id > 0)
         /\ book \in [Keys -> OrderRow] /\ Onward(book, book)
         /\ local \in [Keys -> {"none", "sent", "ended"}] /\ Follows(local, book, local)
         /\ "daemon" \in Procs /\ "cli" \in Procs
  BY SameBook DEF TableTypes, Procs

LEMMA BeginMonitorStep ==
  ASSUME SessionInv, BeginMonitor
  PROVE  SessionInv'
  <1> DEFINE h == LatchedHalts(Expired(LatchedHalts(halts)))
             want == IF h.hard THEN "sell" ELSE "none"
             n == [Idle EXCEPT !.pc = "monitor", !.want = want]
  <1>0. TableTypes
    BY DEF SessionInv
  <1>1. h \in Halts /\ h.manual = halts.manual
    BY <1>0, LatchedType, ExpiredType DEF TableTypes
  <1>2. /\ halts' = h /\ mem' = [mem EXCEPT !["daemon"] = n] /\ local' = ReconciledLocal
        /\ UNCHANGED <<session, account, asked, dec, pos>>
        /\ book' = book \/ book' = CanceledAll
    BY DEF BeginMonitor, Goes
  <1>3. book' \in [Keys -> OrderRow] /\ Onward(book, book')
    BY <1>0, <1>2, CanceledType, SameTables
  <1>4. n \in Memory /\ n.pc = "monitor"
    <2>1. want \in {"none", "sell"}
      OBVIOUS
    <2> HIDE DEF want
    <2> QED BY <2>1, IdleType DEF Memory, Idle
  <1> HIDE DEF n, h
  <1>5. MemOK("daemon", n, dec, book) /\ n.pc \notin Holding
    BY <1>4 DEF MemOK, Holding, InCycle
  <1>6. /\ session' \in 1..Sessions /\ pos' \in Int /\ asked' \in 0..MaxHalts
        /\ account' \in [breach : SUBSET Limits, fit : BOOLEAN]
        /\ halts' \in Halts /\ (halts'.manual.flatten => halts'.manual.id > 0)
        /\ local' \in [Keys -> {"none", "sent", "ended"}] /\ Follows(local, book, local')
        /\ dec' = dec /\ "daemon" \in Procs
    BY <1>0, <1>1, <1>2, SameTables, ReconciledType
  <1> QED BY <1>2, <1>3, <1>4, <1>5, <1>6, WorldStep

\* The evidence that everything was canceled.
LEMMA EvidenceType ==
  ASSUME TableTypes
  PROVE  LET h == [halts EXCEPT !.manual.canceled = TRUE]
         IN h \in Halts /\ h.manual.flatten = halts.manual.flatten /\ h.manual.id = halts.manual.id
  BY DEF TableTypes, Halts

LEMMA MonitorCancelsStep ==
  ASSUME SessionInv, NEW ok \in BOOLEAN, MonitorCancels(ok)
  PROVE  SessionInv'
  <1>0. TableTypes /\ mem \in [Procs -> Memory]
    BY DEF SessionInv, TableTypes
  <1>1. UNCHANGED <<session, account, asked, dec, local, pos>>
    BY DEF MonitorCancels
  <1>2. CASE ok
    <2>1. /\ book' = CanceledAll /\ halts' = [halts EXCEPT !.manual.canceled = TRUE]
          /\ mem' = mem
      BY <1>2 DEF MonitorCancels
    <2>2. /\ mem' = [mem EXCEPT !["daemon"] = mem["daemon"]] /\ mem["daemon"] \in Memory
          /\ MemOK("daemon", mem["daemon"], dec, book)
          /\ mem["daemon"].pc \in Holding => FreeKey("daemon", mem["daemon"].key)
      BY <1>0, <2>1, Before DEF Procs
    <2>3. halts' \in Halts /\ (halts'.manual.flatten => halts'.manual.id > 0)
      BY <1>0, <2>1, EvidenceType, SameTables
    <2>4. book' \in [Keys -> OrderRow] /\ Onward(book, book')
      BY <1>0, <2>1, CanceledType
    <2> QED BY <1>0, <1>1, <2>2, <2>3, <2>4, SameTables, WorldStep
  <1>3. CASE ~ok
    <2> DEFINE n == [mem["daemon"] EXCEPT !.pc = "reduce"]
    <2>1. UNCHANGED <<book, halts>> /\ mem' = [mem EXCEPT !["daemon"] = n]
      BY <1>3 DEF MonitorCancels, Goes
    <2>2. n \in Memory /\ n.pc = "reduce"
      BY <1>0 DEF Memory, Procs
    <2> HIDE DEF n
    <2>3. MemOK("daemon", n, dec, book) /\ n.pc \notin Holding
      BY <2>2 DEF MemOK, Holding, InCycle
    <2> QED BY <1>0, <1>1, <2>1, <2>2, <2>3, SameTables, MemoryStep
  <1> QED BY <1>2, <1>3

LEMMA MonitorReducesStep ==
  ASSUME SessionInv, MonitorReduces
  PROVE  SessionInv'
  <1> DEFINE a == [Idle EXCEPT !.pc = "attempt", !.series = Chosen]
  <1>0. TableTypes
    BY DEF SessionInv
  <1>1. /\ UNCHANGED <<session, account, asked, dec, pos, book>>
        /\ halts' = halts \/ halts' = LatchedHalts(halts)
        /\ local' = local \/ local' = ReconciledLocal
        /\ mem' = [mem EXCEPT !["daemon"] = a] \/ mem' = [mem EXCEPT !["daemon"] = Idle]
    BY DEF MonitorReduces, Goes
  <1>2. Chosen \in AllSeries
    <2>1. halts.manual.flatten => halts.manual.id \in 1..MaxHalts
      <3>1. halts.manual.id \in 0..MaxHalts /\ (halts.manual.flatten => halts.manual.id > 0) /\ MaxHalts \in Nat
        BY <1>0, LiveSessionAssumption DEF TableTypes, Halts
      <3> QED BY <3>1
    <2> QED BY <1>0, <2>1 DEF Chosen, Flattens, AllSeries, Requests, TableTypes
  <1>3. Chosen \subseteq Keys
    BY <1>2, SeriesKeys
  <1>4. a \in Memory /\ a.pc = "attempt" /\ a.series = Chosen
    BY <1>3, IdleType DEF Memory, Idle
  <1> HIDE DEF a
  <1>5. MemOK("daemon", a, dec, book)
    BY <1>2, <1>4 DEF MemOK, Holding, InCycle
  <1>6. PICK n \in {a, Idle} : mem' = [mem EXCEPT !["daemon"] = n]
    BY <1>1
  <1>7. n \in Memory /\ MemOK("daemon", n, dec, book) /\ n.pc \notin Holding
    BY <1>4, <1>5, IdleType, AtIdle DEF Holding, InCycle
  <1>8. /\ local' \in [Keys -> {"none", "sent", "ended"}] /\ Follows(local, book, local')
        /\ halts' \in Halts /\ (halts'.manual.flatten => halts'.manual.id > 0)
    BY <1>0, <1>1, ReconciledType, SameTables, LatchedType
  <1> QED BY <1>0, <1>1, <1>6, <1>7, <1>8, SameTables, WorldStep

LEMMA HaltStep ==
  ASSUME SessionInv, NEW flatten \in BOOLEAN, Halt(flatten)
  PROVE  SessionInv'
  <1> DEFINE i == asked + 1
             s == IF flatten THEN Request(i) ELSE {}
             n == [Idle EXCEPT !.pc = "cancel", !.series = s]
  <1>0. TableTypes /\ MaxHalts \in Nat
    BY LiveSessionAssumption DEF SessionInv
  <1>1. /\ asked < MaxHalts /\ asked' = i /\ mem' = [mem EXCEPT !["cli"] = n]
        /\ halts' = [halts EXCEPT !.manual = [id |-> i, flatten |-> flatten, canceled |-> FALSE]]
        /\ UNCHANGED <<session, account, dec, local, pos, book>>
    BY DEF Halt, Goes
  <1>2. asked \in 0..MaxHalts
    BY <1>0 DEF TableTypes
  <1>3. i \in 1..MaxHalts /\ i \in 0..MaxHalts /\ i > 0
    BY <1>0, <1>1, <1>2
  <1>4. s \in Requests \cup {{}}
    BY <1>3 DEF Requests
  <1>5. s \subseteq Keys
    BY <1>4, SeriesKeys, RequestKeys
  <1> HIDE DEF i, s
  <1>6. n \in Memory /\ n.pc = "cancel" /\ n.series = s
    BY <1>5, IdleType DEF Memory, Idle
  <1> HIDE DEF n
  <1>7. MemOK("cli", n, dec, book) /\ n.pc \notin Holding
    BY <1>4, <1>6 DEF MemOK, CliOK, Holding, InCycle
  <1>8. halts' \in Halts /\ (halts'.manual.flatten => halts'.manual.id > 0)
    BY <1>0, <1>1, <1>3 DEF TableTypes, Halts
  <1>9. asked' \in 0..MaxHalts
    BY <1>1, <1>3
  <1> QED BY <1>0, <1>1, <1>6, <1>7, <1>8, <1>9, SameTables, WorldStep

LEMMA HaltCancelsStep ==
  ASSUME SessionInv, NEW ok \in BOOLEAN, HaltCancels(ok)
  PROVE  SessionInv'
  <1> DEFINE m == mem["cli"]
             a == [m EXCEPT !.pc = "flatten"]
  <1>0. TableTypes /\ m \in Memory /\ MemOK("cli", m, dec, book)
    BY Before DEF Procs
  <1>1. m.pc = "cancel" /\ UNCHANGED <<session, account, asked, dec, local, pos>>
    BY DEF HaltCancels, At
  <1>2. CASE ~ok
    <2>1. UNCHANGED <<book, halts>> /\ mem' = [mem EXCEPT !["cli"] = Idle]
      BY <1>2 DEF HaltCancels, Goes
    <2> QED BY <1>0, <1>1, <2>1, SameTables, IdleType, AtIdle, MemoryStep
  <1>3. CASE ok
    <2>1. /\ book' = CanceledAll
          /\ halts' = [halts EXCEPT !.manual.canceled = TRUE] \/ halts' = halts
          /\ mem' = [mem EXCEPT !["cli"] = Idle] \/ (m.series # {} /\ mem' = [mem EXCEPT !["cli"] = a])
      BY <1>3 DEF HaltCancels, Goes
    <2>2. a \in Memory /\ a.pc = "flatten" /\ a.series = m.series
      BY <1>0 DEF Memory
    <2> HIDE DEF a
    <2>3. m.series # {} => MemOK("cli", a, dec, book) /\ a.pc \notin Holding
      <3> SUFFICES ASSUME m.series # {} PROVE MemOK("cli", a, dec, book) /\ a.pc \notin Holding
        OBVIOUS
      <3>1. m.series \in Requests
        BY <1>0, <1>1 DEF MemOK
      <3> QED BY <2>2, <3>1, RequestKeys DEF MemOK, CliOK, Holding, InCycle
    <2>4. PICK n \in {a, Idle} : mem' = [mem EXCEPT !["cli"] = n] /\ (n = Idle \/ m.series # {})
      BY <2>1
    <2>5. n \in Memory /\ MemOK("cli", n, dec, book) /\ n.pc \notin Holding
      BY <2>2, <2>3, <2>4, IdleType, AtIdle
    <2>6. book' \in [Keys -> OrderRow] /\ Onward(book, book')
      BY <1>0, <2>1, CanceledType
    <2>7. halts' \in Halts /\ (halts'.manual.flatten => halts'.manual.id > 0)
      BY <1>0, <2>1, EvidenceType, SameTables
    <2> QED BY <1>0, <1>1, <2>4, <2>5, <2>6, <2>7, SameTables, WorldStep
  <1> QED BY <1>2, <1>3

LEMMA FlattenStep ==
  ASSUME SessionInv, NEW outcome \in {"allowed", "refused", "raised"}, Flatten(outcome)
  PROVE  SessionInv'
  <1> DEFINE m == mem["cli"]
             a == [m EXCEPT !.pc = "attempt"]
  <1>0. TableTypes /\ m \in Memory /\ MemOK("cli", m, dec, book)
    BY Before DEF Procs
  <1>1. /\ m.pc = "flatten" /\ UNCHANGED <<session, account, asked, dec, pos, book>>
        /\ local' = ReconciledLocal /\ (halts' = halts \/ halts' = LatchedHalts(halts))
        /\ mem' = [mem EXCEPT !["cli"] = a] \/ mem' = [mem EXCEPT !["cli"] = Idle]
    BY DEF Flatten, Goes, At
  <1>2. a \in Memory /\ a.pc = "attempt" /\ a.series = m.series
    BY <1>0 DEF Memory
  <1> HIDE DEF a
  <1>3. m.series \in AllSeries /\ m.series \in Requests
    BY <1>0, <1>1 DEF MemOK, CliOK
  <1>4. MemOK("cli", a, dec, book) /\ a.pc \notin Holding
    BY <1>2, <1>3 DEF MemOK, CliOK, Holding, InCycle
  <1>5. PICK n \in {a, Idle} : mem' = [mem EXCEPT !["cli"] = n]
    BY <1>1
  <1>6. n \in Memory /\ MemOK("cli", n, dec, book) /\ n.pc \notin Holding
    BY <1>2, <1>4, IdleType, AtIdle
  <1>7. /\ local' \in [Keys -> {"none", "sent", "ended"}] /\ Follows(local, book, local')
        /\ halts' \in Halts /\ (halts'.manual.flatten => halts'.manual.id > 0)
    BY <1>0, <1>1, ReconciledType, SameTables, LatchedType
  <1> QED BY <1>0, <1>1, <1>5, <1>6, <1>7, SameTables, WorldStep

LEMMA FlattenAgainStep ==
  ASSUME SessionInv, FlattenAgain
  PROVE  SessionInv'
  <1> DEFINE m == mem["cli"]
             S == Request(m.key[2])
             a == [Idle EXCEPT !.pc = "flatten", !.series = S]
  <1>0. TableTypes /\ m \in Memory /\ MemOK("cli", m, dec, book) /\ "cli" \in Procs
    BY Before DEF Procs
  <1>1. /\ m.pc = "sent" /\ UNCHANGED <<session, account, halts, asked, dec, local, pos, book>>
        /\ mem' = [mem EXCEPT !["cli"] = a] \/ mem' = [mem EXCEPT !["cli"] = Idle]
    BY DEF FlattenAgain, Goes, At
  <1>2. m.key \in Keys /\ m.key[1] = "flatten"
    BY <1>0, <1>1 DEF MemOK, CliOK
  <1>3. S \in Requests /\ S \in AllSeries /\ S \subseteq Keys
    BY <1>2, RequestKeys, SeriesKeys
  <1> HIDE DEF S
  <1>4. a \in Memory /\ a.pc = "flatten" /\ a.series = S
    BY <1>3, IdleType DEF Memory, Idle
  <1> HIDE DEF a
  <1>5. MemOK("cli", a, dec, book) /\ a.pc \notin Holding
    BY <1>3, <1>4 DEF MemOK, CliOK, Holding, InCycle
  <1> QED BY <1>0, <1>1, <1>4, <1>5, IdleType, AtIdle, MemoryStep

LEMMA ResumeStep ==
  ASSUME SessionInv, Resume
  PROVE  SessionInv'
  <1>0. /\ TableTypes /\ mem \in [Procs -> Memory] /\ mem["cli"] \in Memory
        /\ MemOK("cli", mem["cli"], dec, book)
        /\ mem["cli"].pc \in Holding => FreeKey("cli", mem["cli"].key)
    BY Before DEF SessionInv, TableTypes, Procs
  <1>1. /\ UNCHANGED <<session, account, asked, dec, pos, book, mem>> /\ local' = ReconciledLocal
        /\ halts' = [halts EXCEPT !.manual = NoHalt, !.hard = FALSE]
    BY DEF Resume
  <1>2. halts' \in Halts /\ (halts'.manual.flatten => halts'.manual.id > 0)
    <2>1. NoHalt \in [id : 0..MaxHalts, flatten : BOOLEAN, canceled : BOOLEAN] /\ ~NoHalt.flatten
      BY LiveSessionAssumption DEF NoHalt
    <2> QED BY <1>0, <1>1, <2>1 DEF TableTypes, Halts
  <1>3. local' \in [Keys -> {"none", "sent", "ended"}] /\ Follows(local, book, local')
    BY <1>0, <1>1, ReconciledType
  <1>4. mem' = [mem EXCEPT !["cli"] = mem["cli"]]
    BY <1>0, <1>1
  <1> QED BY <1>0, <1>1, <1>2, <1>3, <1>4, SameTables, WorldStep

\* The broker's orders go forward by themselves.
LEMMA BrokerStep ==
  ASSUME SessionInv, NEW c, book' = c, c \in [Keys -> OrderRow], Onward(book, c),
         pos' \in Int, session' \in 1..Sessions,
         account' \in [breach : SUBSET Limits, fit : BOOLEAN],
         UNCHANGED <<halts, asked, dec, local, mem>>
  PROVE  SessionInv'
  <1>0. /\ TableTypes /\ mem \in [Procs -> Memory] /\ mem["cli"] \in Memory
        /\ MemOK("cli", mem["cli"], dec, book)
        /\ mem["cli"].pc \in Holding => FreeKey("cli", mem["cli"].key)
    BY Before DEF SessionInv, TableTypes, Procs
  <1>1. mem' = [mem EXCEPT !["cli"] = mem["cli"]]
    BY <1>0
  <1> QED BY <1>0, <1>1, SameTables, WorldStep

\* An order that ended, or that goes on in another state.
LEMMA OrderForward ==
  ASSUME TableTypes, NEW k \in Keys, book[k].state \in Live, NEW o \in OrderRow,
         \/ o.state \in Ended
         \/ o.state = "open" /\ o.side = book[k].side /\ o.qty = book[k].qty
  PROVE  [book EXCEPT ![k] = o] \in [Keys -> OrderRow] /\ Onward(book, [book EXCEPT ![k] = o])
  <1> DEFINE c == [book EXCEPT ![k] = o]
  <1>1. c \in [Keys -> OrderRow] /\ c[k] = o /\ \A j \in Keys : j # k => c[j] = book[j]
    BY DEF TableTypes
  <1> HIDE DEF c
  <1>2. Onward(book, c)
    BY <1>1 DEF Onward, Live, Ended
  <1> QED BY <1>1, <1>2 DEF c

LEMMA EndedType ==
  \A st \in Ended : /\ EndedOrder(st) \in OrderRow /\ EndedOrder(st).state = st
                   /\ st # "none" /\ st \notin Live
  BY DEF EndedOrder, NoOrder, OrderRow, Ended, Live

LEMMA OrderOnward ==
  ASSUME TableTypes, NEW k \in Keys, Arrive(k) \/ Fill(k) \/ Cancel(k)
  PROVE  book' \in [Keys -> OrderRow] /\ Onward(book, book')
  <1>0. book[k] \in OrderRow
    BY DEF TableTypes
  <1>1. CASE Arrive(k)
    <2> DEFINE o == [book[k] EXCEPT !.state = "open"]
    <2>1. book[k].state \in Live /\ book' = [book EXCEPT ![k] = o]
      BY <1>1 DEF Arrive, Live
    <2>2. o \in OrderRow /\ o.state = "open" /\ o.side = book[k].side /\ o.qty = book[k].qty
      BY <1>0 DEF OrderRow, Live
    <2> HIDE DEF o
    <2> QED BY <2>1, <2>2, OrderForward
  <1>2. CASE Fill(k) \/ Cancel(k)
    <2>1. PICK st \in Ended : book' = [book EXCEPT ![k] = EndedOrder(st)]
      BY <1>2 DEF Fill, Cancel, Ended
    <2>2. book[k].state \in Live
      BY <1>2 DEF Fill, Cancel, Live
    <2> QED BY <2>1, <2>2, EndedType, OrderForward
  <1> QED BY <1>1, <1>2

LEMMA OrderStep ==
  ASSUME SessionInv, NEW k \in Keys, Arrive(k) \/ Fill(k) \/ Cancel(k)
  PROVE  SessionInv'
  <1>0. TableTypes /\ book[k] \in OrderRow
    BY DEF SessionInv, TableTypes
  <1>1. UNCHANGED <<session, account, halts, asked, dec, local, mem>>
    BY DEF Arrive, Fill, Cancel
  <1>2. pos' \in Int
    BY <1>0 DEF Arrive, Fill, Cancel, TableTypes, OrderRow
  <1>3. book' \in [Keys -> OrderRow] /\ Onward(book, book')
    BY <1>0, OrderOnward
  <1> QED BY <1>0, <1>1, <1>2, <1>3, SameTables, BrokerStep

LEMMA NewSessionOnward ==
  ASSUME TableTypes, NewSession
  PROVE  book' \in [Keys -> OrderRow] /\ Onward(book, book')
  <1>1. book' = [k \in Keys |-> IF k \in OpenOrders THEN EndedOrder("canceled") ELSE book[k]]
    BY DEF NewSession
  <1>2. /\ book' \in [Keys -> OrderRow]
        /\ \A k \in Keys : book'[k] = IF k \in OpenOrders THEN EndedOrder("canceled") ELSE book[k]
    BY <1>1, EndedType DEF TableTypes, Ended
  <1> QED BY <1>2, EndedType DEF Onward, OpenOrders, Live, Ended

LEMMA NewSessionStep ==
  ASSUME SessionInv, NewSession
  PROVE  SessionInv'
  <1>0. TableTypes
    BY DEF SessionInv
  <1>1. UNCHANGED <<halts, asked, dec, local, pos, mem>>
    BY DEF NewSession
  <1>4. account' \in [breach : SUBSET Limits, fit : BOOLEAN]
    <2>1. account' = [account EXCEPT !.breach = account.breach \ {"daily_loss"}]
      BY DEF NewSession
    <2> QED BY <1>0, <2>1, SameTables
  <1>2. book' \in [Keys -> OrderRow] /\ Onward(book, book')
    BY <1>0, NewSessionOnward
  <1>3. session' \in 1..Sessions
    <2>1. session \in 1..Sessions /\ session < Sessions /\ session' = session + 1 /\ Sessions \in Nat
      BY <1>0, LiveSessionAssumption DEF NewSession, TableTypes
    <2> QED BY <2>1
  <1> QED BY <1>0, <1>1, <1>2, <1>3, <1>4, SameTables, BrokerStep

LEMMA MoveStep ==
  ASSUME SessionInv, NEW breach \in SUBSET Limits, NEW fit \in BOOLEAN, Move(breach, fit)
  PROVE  SessionInv'
  <1>0. TableTypes
    BY DEF SessionInv
  <1>1. UNCHANGED <<session, halts, asked, dec, local, pos, book, mem>>
        /\ account' \in [breach : SUBSET Limits, fit : BOOLEAN]
    BY DEF Move
  <1> QED BY <1>0, <1>1, SameTables, BrokerStep

LEMMA CrashStep ==
  ASSUME SessionInv, NEW p \in Procs, Crash(p)
  PROVE  SessionInv'
  BY IdleType, AtIdle, MemoryStep DEF Crash, Goes
-----------------------------------------------------------------------------
(***************************************************************************)
(* Buys that wait for sells.                                               *)
(***************************************************************************)
LEMMA HoldBuysStep ==
  ASSUME SessionInv, HoldBuys
  PROVE  SessionInv'
  <1> DEFINE m == mem["daemon"]
  <1>0. /\ "daemon" \in Procs /\ TableTypes /\ m.pc = "submit" /\ m.pc \in Holding
        /\ MemOK("daemon", m, dec, book)
    BY Before DEF Procs, HoldBuys, At, Holding
  <1>1. /\ m.key \in Keys /\ dec[m.key].status # "none"
        /\ dec[m.key].plan = dec[m.key].receipt /\ dec[m.key].plan.side = "buy"
    BY <1>0 DEF MemOK, HoldBuys
  <1>2. /\ dec' = [dec EXCEPT ![m.key].status = "execution_pending"]
        /\ mem' = [mem EXCEPT !["daemon"] = Idle]
        /\ UNCHANGED <<session, account, halts, asked, local, pos, book>>
    BY DEF HoldBuys, Goes
  <1> HIDE DEF m
  <1>3. local' \in [Keys -> {"none", "sent", "ended"}] /\ Follows(local, book, local')
    BY <1>0, <1>2, SameTables
  <1> QED BY <1>0, <1>1, <1>2, <1>3, IdleType, AtIdle, StatusStep DEF Status

LEMMA ResumeBuysStep ==
  ASSUME SessionInv, ResumeBuys
  PROVE  SessionInv'
  <1> DEFINE k == Cycle(session)
             plan == dec[k].plan
             n == [Idle EXCEPT !.pc = "resume", !.key = k, !.plan = plan]
  <1>0. "daemon" \in Procs /\ TableTypes /\ k \in Keys /\ k[1] = "cycle"
    BY Before, CycleKey DEF Procs
  <1>1. /\ dec[k].status = "execution_pending" /\ mem' = [mem EXCEPT !["daemon"] = n]
        /\ UNCHANGED <<session, account, halts, asked, dec, local, pos, book>>
    BY DEF ResumeBuys, Goes
  <1> HIDE DEF k
  <1>2. plan = dec[k].receipt /\ plan.side = "buy" /\ plan # NoPlan /\ plan \in Plans
    BY <1>0, <1>1 DEF SessionInv, BookOK, NoPlan, TableTypes, Decision
  <1>3. n \in Memory /\ n.pc = "resume" /\ n.key = k /\ n.plan = plan
    <2> HIDE DEF plan
    <2> QED BY <1>0, <1>2, IdleType DEF Memory, Idle, Holding, InCycle
  <1>4. MemOK("daemon", n, dec, book)
    <2> HIDE DEF n
    <2> QED BY <1>0, <1>1, <1>2, <1>3 DEF MemOK
  <1>5. FreeKey("daemon", k)
    <2>1. mem["cli"].pc \in Holding => mem["cli"].key[1] = "flatten"
      BY Before DEF Procs, MemOK, CliOK, Holding
    <2> QED BY <1>0, <2>1 DEF FreeKey, Procs
  <1> HIDE DEF n
  <1> QED BY <1>0, <1>1, <1>3, <1>4, <1>5, MemoryStep

LEMMA ResumeGateStep ==
  ASSUME SessionInv, NEW enough \in BOOLEAN, ResumeGate(enough)
  PROVE  SessionInv'
  <1> DEFINE m == mem["daemon"]
             k == m.key
             n == [m EXCEPT !.pc = "submit"]
  <1>0. /\ "daemon" \in Procs /\ TableTypes /\ m \in Memory /\ MemOK("daemon", m, dec, book)
        /\ m.pc = "resume" /\ m.pc \in Holding /\ FreeKey("daemon", k)
    BY Before DEF Procs, ResumeGate, At, Holding, InCycle
  <1>1. k \in Keys /\ dec[k].status # "none"
    BY <1>0 DEF MemOK
  <1>2. /\ UNCHANGED <<session, account, halts, asked, pos, book>> /\ local' = ReconciledLocal
        /\ \/ dec' = dec /\ mem' = [mem EXCEPT !["daemon"] = Idle]
           \/ dec' = dec /\ local[k] = "none" /\ mem' = [mem EXCEPT !["daemon"] = n]
           \/ dec' = [dec EXCEPT ![k].status = "submitted"] /\ mem' = [mem EXCEPT !["daemon"] = Idle]
    BY DEF ResumeGate, Goes
  <1>3. local' \in [Keys -> {"none", "sent", "ended"}] /\ Follows(local, book, local')
    BY <1>0, <1>2, ReconciledType
  <1>4. n \in Memory /\ n.pc = "submit" /\ n.key = k /\ n.plan = m.plan
    BY <1>0 DEF Memory, Holding
  <1> HIDE DEF n, k
  <1>5. CASE dec' = dec /\ mem' = [mem EXCEPT !["daemon"] = Idle]
    BY <1>0, <1>2, <1>3, <1>5, SameTables, IdleType, AtIdle, WorldStep
  <1>6. CASE dec' = dec /\ local[k] = "none" /\ mem' = [mem EXCEPT !["daemon"] = n]
    <2>1. book[k].state = "none"
      BY <1>1, <1>6 DEF SessionInv, BookOK
    <2>2. MemOK("daemon", n, dec, book)
      BY <1>0, <1>1, <1>4, <2>1 DEF MemOK, InCycle, k
    <2> QED BY <1>0, <1>2, <1>3, <1>4, <1>6, <2>2, SameTables, WorldStep
  <1>7. CASE dec' = [dec EXCEPT ![k].status = "submitted"] /\ mem' = [mem EXCEPT !["daemon"] = Idle]
    BY <1>0, <1>1, <1>2, <1>3, <1>7, IdleType, AtIdle, StatusStep DEF Status
  <1> QED BY <1>2, <1>5, <1>6, <1>7 DEF k

LEMMA AbandonBuysStep ==
  ASSUME SessionInv, NEW i \in 1..Sessions, AbandonBuys(i)
  PROVE  SessionInv'
  <1> DEFINE k == Cycle(i)
             m == mem["daemon"]
  <1>0. /\ "daemon" \in Procs /\ TableTypes /\ mem \in [Procs -> Memory]
        /\ m \in Memory /\ MemOK("daemon", m, dec, book)
    BY Before DEF Procs, TableTypes
  <1>1. k \in Keys
    BY DEF Keys
  <1>2. /\ m.pc = "idle" /\ dec[k].status # "none"
        /\ dec' = [dec EXCEPT ![k].status = "buy_leg_abandoned"]
        /\ UNCHANGED <<session, account, halts, asked, local, pos, book, mem>>
    BY DEF AbandonBuys, At
  <1>3. mem' = [mem EXCEPT !["daemon"] = m] /\ m.pc \notin Holding
    BY <1>0, <1>2 DEF Holding, InCycle
  <1>4. local' \in [Keys -> {"none", "sent", "ended"}] /\ Follows(local, book, local')
    BY <1>0, <1>2, SameTables
  <1> HIDE DEF k, m
  <1> QED BY <1>0, <1>1, <1>2, <1>3, <1>4, StatusStep DEF Status
-----------------------------------------------------------------------------
(***************************************************************************)
(* The invariant.                                                          *)
(***************************************************************************)
LEMMA InitSession == Init => SessionInv
  <1> SUFFICES ASSUME Init PROVE SessionInv
    OBVIOUS
  <1>1. \A p \in Procs : mem[p] = Idle
    BY DEF Init
  <1>2. \A k \in Keys : book[k].state = "none"
    BY DEF Init, NoOrder
  <1>3. TableTypes
    <2>1. NotSent("none") \in Decision
      BY IdleType, AuthorizedType DEF Status
    <2>2. NoOrder \in OrderRow
      BY DEF NoOrder, OrderRow
    <2>3. halts \in Halts /\ ~halts.manual.flatten
      BY LiveSessionAssumption DEF Init, Halts, NoHalt
    <2>4. account \in [breach : SUBSET Limits, fit : BOOLEAN]
      BY DEF Init
    <2>5. session \in 1..Sessions /\ pos \in Int /\ asked \in 0..MaxHalts
      BY LiveSessionAssumption DEF Init
    <2>6. /\ dec \in [Keys -> Decision] /\ local \in [Keys -> {"none", "sent", "ended"}]
          /\ book \in [Keys -> OrderRow] /\ mem \in [Procs -> Memory]
      BY <2>1, <2>2, IdleType DEF Init
    <2> QED BY <2>3, <2>4, <2>5, <2>6 DEF TableTypes
  <1>4. BookOK(dec, local, book) /\ ReceiptFirst
    <2>1. \A k \in Keys : dec[k].status = "none"
      BY DEF Init, NotSent
    <2> QED BY <1>2, <2>1 DEF BookOK, ReceiptFirst
  <1>5. \A p \in Procs : MemOK(p, mem[p], dec, book)
    BY <1>1, AtIdle
  <1>6. OwnersDistinct
    BY <1>1, AtIdle DEF OwnersDistinct
  <1> QED BY <1>3, <1>4, <1>5, <1>6 DEF SessionInv

LEMMA NextSession == SessionInv /\ [Next]_vars => SessionInv'
  <1> SUFFICES ASSUME SessionInv, [Next]_vars PROVE SessionInv'
    OBVIOUS
  <1>1. CASE UNCHANGED vars
    BY <1>1 DEF vars, SessionInv, TableTypes, BookOK, MemOK, OwnersDistinct, FreeKey, ReceiptFirst
  <1>2. CASE CycleStep \/ BuyStep \/ MonitorStep \/ CliStep
    BY <1>2, CycleReconcileStep, CycleTargetStep, CyclePlanStep, HoldBuysStep, ResumeBuysStep, ResumeGateStep,
       AbandonBuysStep, MonitorReducesStep, MonitorCancelsStep, HaltStep, HaltCancelsStep, FlattenStep,
       FlattenAgainStep, ResumeStep DEF CycleStep, BuyStep, MonitorStep, CliStep
  <1>3. ASSUME NEW p \in Procs, ReductionStep(p) \/ Crash(p) PROVE SessionInv'
    BY <1>3, AttemptStep, ClaimStep, ReductionPlanStep, SubmitStep, CrashStep DEF ReductionStep
  <1> QED BY <1>1, <1>2, <1>3, BeginCycleStep, BeginMonitorStep, MoveStep, NewSessionStep, OrderStep
          DEF Next

\* Decisions, orders and processes keep the invariant, for one reducer or two.
THEOREM SessionSafe == Spec => []SessionInv
  BY InitSession, NextSession, PTL DEF Spec

\* Every order at the broker is named by the receipt of its decision, whatever
\* crashes, halts and two processes do.
THEOREM ReceiptSafe == Spec => []ReceiptFirst
  <1>1. SessionInv => ReceiptFirst
    BY DEF SessionInv
  <1> QED BY <1>1, SessionSafe, PTL
-----------------------------------------------------------------------------
(***************************************************************************)
(* No buy under a latch.                                                   *)
(***************************************************************************)
\* Only a submission makes an order of nothing.
LEMMA Appears ==
  ASSUME SessionInv, Next, NEW k \in Keys, Sent(k)
  PROVE  \E p \in Procs, outcome \in {"answered", "unknown", "raised"} :
           Submit(p, outcome) /\ mem[p].key = k
  <1>0. TableTypes /\ book \in [Keys -> OrderRow] /\ book[k].state = "none" /\ book'[k].state # "none"
    BY DEF SessionInv, TableTypes, Sent
  <1>1. ~Onward(book, book')
    BY <1>0 DEF Onward
  <1>2. book' # book /\ book' # CanceledAll
    BY <1>0, <1>1, SameBook, CanceledType
  <1>3. ~BeginCycle /\ ~BeginMonitor /\ ~CycleStep /\ ~MonitorStep
    BY <1>2 DEF BeginCycle, BeginMonitor, CycleStep, MonitorStep, CycleReconcile, CycleTarget, CyclePlan,
                Cancels, MonitorReduces, MonitorCancels
  <1>a. ~CliStep /\ ~BuyStep
    BY <1>2 DEF CliStep, BuyStep, Halt, HaltCancels, Flatten, FlattenAgain, Resume, HoldBuys, ResumeBuys,
                ResumeGate, AbandonBuys
  <1>4. ASSUME NEW j \in Keys, Arrive(j) \/ Fill(j) \/ Cancel(j) PROVE FALSE
    BY <1>0, <1>1, <1>4, OrderOnward
  <1>5. ~NewSession
    BY <1>0, <1>1, NewSessionOnward
  <1>6. \A p \in Procs : ~Crash(p) /\ ~ReductionAttempt(p) /\ ~ReductionClaim(p) /\ ~ReductionPlan(p)
    BY <1>2 DEF Crash, ReductionAttempt, ReductionClaim, ReductionPlan
  <1>7. \A breach \in SUBSET Limits, fit \in BOOLEAN : ~Move(breach, fit)
    BY <1>2 DEF Move
  <1>8. PICK p \in Procs, outcome \in {"answered", "unknown", "raised"} : Submit(p, outcome)
    BY <1>3, <1>a, <1>4, <1>5, <1>6, <1>7 DEF Next, ReductionStep
  <1>9. mem[p].key = k
    BY <1>0, <1>8 DEF Submit
  <1> QED BY <1>8, <1>9

\* A buy that is sent was in the daemon's hand, and is not after it.
LEMMA BuySent ==
  ASSUME SessionInv, Next, NEW k \in Keys, Sent(k), book'[k].side = "buy"
  PROVE  Buying /\ ~Buying'
  <1>1. PICK p \in Procs, outcome \in {"answered", "unknown", "raised"} : Submit(p, outcome) /\ mem[p].key = k
    BY Appears
  <1>2. mem[p].pc = "submit" /\ book'[k].side = mem[p].plan.side
    BY <1>1 DEF Submit, At, SessionInv, TableTypes
  <1>3. p = "daemon"
    <2>1. p # "cli"
      BY <1>2, Before DEF MemOK, CliOK
    <2> QED BY <2>1 DEF Procs
  <1>4. mem'["daemon"] = Idle
    BY <1>1, <1>3 DEF Submit, Goes, SessionInv, TableTypes
  <1> QED BY <1>2, <1>3, <1>4 DEF Buying, Idle, NoPlan

\* A daemon that takes a buy in hand reads the latches with the plan, or before it
\* resumes one.
LEMMA BuyTaken ==
  ASSUME SessionInv, Next, ~Buying, Buying'
  PROVE  ~Latched'
  <1> DEFINE m == mem["daemon"]
  <1>0. "daemon" \in Procs /\ mem \in [Procs -> Memory] /\ m \in Memory
    BY Before DEF Procs, SessionInv, TableTypes
  <1>1. \A n : Goes("daemon", n) => n.plan.side = "buy"
    BY <1>0 DEF Goes, Buying
  <1>2. mem'["daemon"].plan # m.plan /\ mem'["daemon"] # Idle
    BY DEF Buying, Idle, NoPlan
  <1>3. Idle.plan.side # "buy" /\ NoPlan.side # "buy"
    BY DEF Idle, NoPlan
  <1>4. CASE CyclePlan
    <2> DEFINE h == LatchedHalts(halts)
               want == Permitted(h, m.want)
               held == IF Latching(h) /\ ~m.latched THEN pos ELSE m.pos
               open == OpenOrders # {}
               plan == IF want = "none" THEN NoPlan ELSE Planned(want, held, open)
    <2>1. halts' = h /\ (Goes("daemon", Submits(m.key, plan)) \/ Goes("daemon", Idle))
      BY <1>4 DEF CyclePlan, Rest
    <2>2. want = "buy" => ~Latching(h)
      BY DEF Permitted, Latching
    <2>3. want \in {"none", "sell", "buy"} /\ held \in Int /\ open \in BOOLEAN
      BY <1>0, Before DEF Permitted, Memory, TableTypes
    <2> HIDE DEF h, want, held, open
    <2>4. plan.side = "buy" => want = "buy"
      BY <1>3, <2>3, PlannedType
    <2>5. plan.side = "buy"
      <3>1. Submits(m.key, plan).plan = plan
        BY DEF Submits, Idle
      <3> HIDE DEF plan
      <3> QED BY <1>1, <1>3, <2>1, <3>1
    <2> QED BY <2>1, <2>2, <2>4, <2>5 DEF Latched
  <1>5. CASE ResumeBuys
    BY <1>5 DEF ResumeBuys, Latched
  <1>6. CASE BeginCycle \/ BeginMonitor \/ CycleReconcile \/ (\E want \in {"sell", "buy"} : CycleTarget(want))
    <2> DEFINE A(a, b, c) == [Idle EXCEPT !.pc = a, !.key = b, !.latched = c]
               B(a, b) == [Idle EXCEPT !.pc = a, !.want = b]
               C(a, b, c) == [m EXCEPT !.pc = a, !.halted = b, !.latched = c]
               D(a, b, c) == [m EXCEPT !.pc = a, !.want = b, !.pos = c]
    <2>1. \/ \E a, b, c : Goes("daemon", A(a, b, c))
          \/ \E a, b : Goes("daemon", B(a, b))
          \/ \E a, b, c : Goes("daemon", C(a, b, c))
          \/ \E a, b, c : Goes("daemon", D(a, b, c))
      BY <1>6 DEF BeginCycle, BeginMonitor, CycleReconcile, CycleTarget
    <2>2. \A a, b, c : /\ A(a, b, c).plan = NoPlan /\ B(a, b).plan = NoPlan
                       /\ C(a, b, c).plan = m.plan /\ D(a, b, c).plan = m.plan
      BY <1>0 DEF Memory, Idle
    <2>3. m.plan.side # "buy"
      BY DEF Buying
    <2> HIDE DEF m, A, B, C, D
    <2> QED BY <1>1, <1>3, <2>1, <2>2, <2>3
  <1>7. CASE HoldBuys \/ (\E enough \in BOOLEAN : ResumeGate(enough)) \/ (\E i \in 1..Sessions : AbandonBuys(i))
    <2>1. mem' = mem \/ Goes("daemon", Idle) \/ Goes("daemon", [m EXCEPT !.pc = "submit"])
      BY <1>7 DEF HoldBuys, ResumeGate, AbandonBuys
    <2>2. [m EXCEPT !.pc = "submit"].plan = m.plan
      BY <1>0 DEF Memory
    <2> QED BY <1>1, <1>2, <1>3, <2>1, <2>2 DEF Buying
  <1>8. CASE MonitorStep
    <2>1. \/ mem' = mem \/ Goes("daemon", Idle) \/ Goes("daemon", [m EXCEPT !.pc = "reduce"])
          \/ Goes("daemon", [Idle EXCEPT !.pc = "attempt", !.series = Chosen])
      BY <1>8 DEF MonitorStep, MonitorCancels, MonitorReduces
    <2>2. /\ [m EXCEPT !.pc = "reduce"].plan = m.plan
          /\ [Idle EXCEPT !.pc = "attempt", !.series = Chosen].plan = NoPlan
      BY <1>0 DEF Memory, Idle
    <2> QED BY <1>1, <1>2, <1>3, <2>1, <2>2 DEF Buying
  <1>9. ASSUME NEW p \in Procs, ReductionStep(p) \/ Crash(p) PROVE FALSE
    <2> DEFINE plan == Planned("sell", m.pos, OpenOrders # {})
               a == [Idle EXCEPT !.pc = "claim", !.key = NextKey(m.series)]
               o == [m EXCEPT !.pc = "orders", !.pos = pos]
    <2>1. p = "daemon"
      <3>1. p # "daemon" => mem'["daemon"] = m
        BY <1>0, <1>9 DEF ReductionStep, ReductionAttempt, ReductionClaim, ReductionPlan, Submit, Crash, Goes
      <3> QED BY <1>2, <3>1
    <2>2. \/ Goes("daemon", Idle) \/ Goes("daemon", a) \/ Goes("daemon", o)
          \/ Goes("daemon", Submits(m.key, plan)) /\ plan # NoPlan
      BY <1>9, <2>1 DEF ReductionStep, ReductionAttempt, ReductionClaim, ReductionPlan, Submit, Crash, NextKey
    <2>3. a.plan = NoPlan /\ o.plan = m.plan /\ Submits(m.key, plan).plan = plan
      BY <1>0 DEF Memory, Idle, Submits
    <2>4. plan # NoPlan => plan.side = "sell"
      <3>1. m.pos \in Int /\ (OpenOrders # {}) \in BOOLEAN
        BY <1>0 DEF Memory
      <3> QED BY <3>1, PlannedType
    <2> HIDE DEF plan, a, o
    <2> QED BY <1>1, <1>3, <2>2, <2>3, <2>4 DEF Buying
  <1>10. CASE CliStep
    <2>1. mem' = mem \/ \E n : Goes("cli", n)
      BY <1>10 DEF CliStep, Halt, HaltCancels, Flatten, FlattenAgain, Resume
    <2> QED BY <1>0, <1>2, <2>1 DEF Goes
  <1>11. CASE \/ \E breach \in SUBSET Limits, fit \in BOOLEAN : Move(breach, fit)
              \/ NewSession
              \/ \E k \in Keys : Arrive(k) \/ Fill(k) \/ Cancel(k)
    BY <1>2, <1>11 DEF Move, NewSession, Arrive, Fill, Cancel
  <1> QED BY <1>4, <1>5, <1>6, <1>7, <1>8, <1>9, <1>10, <1>11 DEF Next, CycleStep, BuyStep

\* No buy is taken in hand under a risk latch, whoever sets it and when, and each is
\* sent once: one buy at most, of an instant without a latch, is sent after it.
THEOREM BuysSafe == Spec => BuysTakenUnlatched
  <1>1. SessionInv /\ [Next]_vars =>
          [/\ ~Buying /\ Buying' => ~Latched'
           /\ \A k \in Keys : Sent(k) /\ book'[k].side = "buy" => Buying /\ ~Buying']_vars
    BY BuySent, BuyTaken
  <1> QED BY <1>1, SessionSafe, PTL DEF Spec, BuysTakenUnlatched
-----------------------------------------------------------------------------
(***************************************************************************)
(* One reducer of a hard stop.                                             *)
(***************************************************************************)
\* A step that sends nothing: the daemon stays, goes where it holds no attempt, or
\* goes on with what it has seen of the series.
LEMMA ReducerKept ==
  ASSUME OneReducer, Onward(book, book'), NEW n, mem'["daemon"] = n,
         \/ n = mem["daemon"] \/ n.pc \notin {"claim", "orders", "submit"}
         \/ ~HardStopKey(n.key)
         \/ n.pc = "submit" /\ NoneOf(n.key, Live)
         \/ n.pc \in {"claim", "orders"} /\ NoneOf(n.key, {"late"})
  PROVE  OneReducer'
  <1>1. Cleared(n)
    BY DEF OneReducer, Cleared
  <1>2. \A j \in Keys : /\ book'[j].state \in Live => book[j].state \in Live
                        /\ book'[j].state = "late" => book[j].state = "late"
    BY DEF Onward
  <1>3. Cleared(mem["daemon"])'
    BY <1>1, <1>2 DEF Cleared, NoneOf
  <1>4. \A j, k \in Keys :
          HardStopKey(j) /\ SameSeries(j, k) /\ book'[j].state \in Live /\ book'[k].state \in Live => j = k
    BY <1>2 DEF OneReducer
  <1> QED BY <1>3, <1>4 DEF OneReducer

\* The parts of the step.
LEMMA Moved ==
  ASSUME SessionInv, NEW p \in Procs, NEW n, Goes(p, n)
  PROVE  mem'[p] = n /\ \A q \in Procs : q # p => mem'[q] = mem[q]
  BY DEF SessionInv, TableTypes, Goes

LEMMA BookOnward ==
  ASSUME SessionInv, book' = book \/ book' = CanceledAll
  PROVE  Onward(book, book')
  BY SameBook, CanceledType DEF SessionInv

\* What blocks an attempt: an order of the series that may still arrive.
LEMMA AttemptClear ==
  ASSUME SessionInv, ReductionAttempt("daemon"), mem'["daemon"].pc = "claim"
  PROVE  NoneOf(mem'["daemon"].key, {"late"})
  <1> DEFINE S == mem["daemon"].series
             key == NextKey(S)
             n == [Idle EXCEPT !.pc = "claim", !.key = key]
  <1>0. "daemon" \in Procs /\ S \in AllSeries
    <2>1. "daemon" \in Procs
      BY DEF Procs
    <2> QED BY <2>1, Before DEF ReductionAttempt, At, MemOK
  <1>1. mem' # [mem EXCEPT !["daemon"] = Idle]
    <2> SUFFICES ASSUME mem' = [mem EXCEPT !["daemon"] = Idle] PROVE FALSE
      OBVIOUS
    <2>1. mem'["daemon"] = Idle
      BY <1>0, Moved DEF Goes
    <2> QED BY <2>1, IdleType
  <1>2. ~(\E k \in Attempts(S) : Blocks(k)) /\ ~Bounded /\ mem' = [mem EXCEPT !["daemon"] = n]
    BY <1>1 DEF ReductionAttempt, Goes, NextKey
  <1>3. mem'["daemon"].key = key
    <2>1. mem'["daemon"] = n
      BY <1>0, <1>2, Moved DEF Goes
    <2> QED BY <2>1 DEF Idle
  <1>4. key \in S
    BY <1>0, <1>2, NextAttempt
  <1> HIDE DEF S, key, n
  <1>5. PICK a \in {"hard_stop", "flatten"}, i \in Nat :
          /\ S = {<<a, i, c>> : c \in 0..(MaxDecisions - 1)}
          /\ \A k \in Keys : k[1] = a /\ k[2] = i => k \in S
    BY <1>0, SeriesKeys
  <1>6. key[1] = a /\ key[2] = i
    BY <1>4, <1>5
  <1> SUFFICES ASSUME NEW j \in Keys, SameSeries(j, key), book[j].state = "late" PROVE FALSE
    BY <1>3 DEF NoneOf
  <1>7. j \in S
    BY <1>5, <1>6 DEF SameSeries
  <1>8. dec[j].status # "none" /\ local[j] = "sent" /\ dec[j].plan # NoPlan
    BY DEF SessionInv, BookOK
  <1>9. j \in Attempts(S) /\ Blocks(j)
    BY <1>7, <1>8 DEF Attempts, Blocks
  <1> QED BY <1>2, <1>9

\* A plan is made while no order is open; with none that may arrive, none may trade.
LEMMA PlanClear ==
  ASSUME SessionInv, OneReducer, ReductionPlan("daemon"), mem'["daemon"].pc = "submit"
  PROVE  HardStopKey(mem'["daemon"].key) => NoneOf(mem'["daemon"].key, Live)
  <1> DEFINE m == mem["daemon"]
             open == OpenOrders # {}
             plan == Planned("sell", m.pos, open)
             n == IF plan = NoPlan THEN Idle ELSE Submits(m.key, plan)
  <1>0. "daemon" \in Procs /\ m \in Memory /\ m.pc = "orders" /\ m.key \in Keys
    <2>1. "daemon" \in Procs
      BY DEF Procs
    <2> QED BY <2>1, Before DEF ReductionPlan, At, MemOK, Holding
  <1>1. mem'["daemon"] = n
    BY <1>0, Moved DEF ReductionPlan
  <1>2. plan # NoPlan
    BY <1>1, IdleType
  <1>3. plan \in Plans /\ ~open
    <2>1. m.pos \in Int /\ open \in BOOLEAN
      BY <1>0 DEF Memory
    <2> HIDE DEF open, m
    <2> QED BY <1>2, <2>1, PlannedType
  <1>4. mem'["daemon"].key = m.key
    <2> HIDE DEF plan, m
    <2> QED BY <1>0, <1>1, <1>2, <1>3, SubmitsType
  <1>5. /\ HardStopKey(m.key) => NoneOf(m.key, {"late"})
        /\ \A j \in Keys : book[j].state \notin {"open", "canceling"}
    BY <1>0, <1>3 DEF OneReducer, Cleared, OpenOrders
  <1> HIDE DEF m
  <1> QED BY <1>4, <1>5 DEF NoneOf, Live

\* The order of a hard stop's attempt is the only one of its series; the command line
\* sends none.
LEMMA SubmitAlone ==
  ASSUME SessionInv, OneReducer, NEW p \in Procs, NEW outcome \in {"answered", "unknown", "raised"},
         Submit(p, outcome)
  PROVE  OneReducer'
  <1> DEFINE k == mem[p].key
             d == mem["daemon"]
  <1>0. "daemon" \in Procs /\ mem[p].pc = "submit" /\ k \in Keys /\ MemOK(p, mem[p], dec, book)
    <2>1. mem[p].pc = "submit" /\ "daemon" \in Procs
      BY DEF Submit, At, Procs
    <2> QED BY <2>1, Before DEF MemOK, Holding
  <1>1. mem'["daemon"] = d \/ mem'["daemon"] = Idle
    <2>1. p = "daemon" => mem'["daemon"] = Idle
      BY <1>0, Moved DEF Submit
    <2>2. p # "daemon" => mem'["daemon"] = d
      BY <1>0, Moved DEF Submit
    <2> QED BY <2>1, <2>2
  <1>2. \A j \in Keys : j # k => book'[j] = book[j]
    BY DEF Submit, SessionInv, TableTypes
  <1>3. HardStopKey(k) => p = "daemon" /\ NoneOf(k, Live)
    <2>1. HardStopKey(k) => p # "cli"
      BY <1>0 DEF MemOK, CliOK, HardStopKey
    <2> QED BY <1>0, <2>1 DEF OneReducer, Cleared, Procs
  <1>4. Cleared(mem["daemon"])'
    <2>1. CASE mem'["daemon"] = Idle
      BY <2>1, IdleType DEF Cleared
    <2>2. CASE mem'["daemon"] = d /\ p = "daemon"
      <3>1. mem'["daemon"] = Idle
        BY <1>0, <2>2, Moved DEF Submit
      <3> QED BY <3>1, IdleType DEF Cleared
    <2>3. CASE mem'["daemon"] = d /\ p # "daemon"
      <3>1. \A j \in Keys : HardStopKey(d.key) /\ SameSeries(j, d.key) => book'[j] = book[j]
        BY <1>2, <1>3, <2>3 DEF HardStopKey, SameSeries
      <3>2. Cleared(d)
        BY DEF OneReducer
      <3> HIDE DEF d, k
      <3> QED BY <2>3, <3>1, <3>2 DEF Cleared, NoneOf
    <2> QED BY <1>1, <2>1, <2>2, <2>3 DEF Procs
  <1> HIDE DEF k, d
  <1>5. ASSUME NEW i \in Keys, NEW j \in Keys, HardStopKey(i), SameSeries(i, j),
               book'[i].state \in Live, book'[j].state \in Live
        PROVE  i = j
    <2>1. CASE i # k /\ j # k
      BY <1>2, <1>5, <2>1 DEF OneReducer
    <2>2. CASE i = k /\ j # k
      <3>1. SameSeries(j, k) /\ HardStopKey(k) /\ book[j].state \in Live
        BY <1>2, <1>5, <2>2 DEF SameSeries
      <3> QED BY <1>3, <3>1 DEF NoneOf
    <2>3. CASE i # k /\ j = k
      <3>1. SameSeries(i, k) /\ HardStopKey(k) /\ book[i].state \in Live
        BY <1>2, <1>5, <2>3 DEF SameSeries, HardStopKey
      <3> QED BY <1>3, <3>1 DEF NoneOf
    <2> QED BY <2>1, <2>2, <2>3
  <1> QED BY <1>4, <1>5 DEF OneReducer

LEMMA InitReducer == Init => OneReducer
  <1> SUFFICES ASSUME Init PROVE OneReducer
    OBVIOUS
  <1>1. mem["daemon"] = Idle /\ mem["cli"] = Idle
    BY DEF Init, Procs
  <1>2. \A k \in Keys : book[k].state = "none"
    BY DEF Init, NoOrder
  <1> QED BY <1>1, <1>2, IdleType DEF OneReducer, Cleared, Live

\* What the daemon does on its own.
LEMMA DaemonAlone ==
  ASSUME SessionInv, OneReducer,
         \/ BeginCycle \/ CycleStep \/ BuyStep \/ BeginMonitor \/ MonitorStep
         \/ ReductionAttempt("daemon") \/ ReductionClaim("daemon") \/ ReductionPlan("daemon")
  PROVE  OneReducer'
  <1> DEFINE m == mem["daemon"]
  <1>0. "daemon" \in Procs /\ m \in Memory /\ MemOK("daemon", m, dec, book)
    <2>1. "daemon" \in Procs
      BY DEF Procs
    <2> QED BY <2>1, Before
  <1>1. ASSUME NEW n, Goes("daemon", n), book' = book \/ book' = CanceledAll,
               \/ n = m \/ n.pc \notin {"claim", "orders", "submit"}
               \/ ~HardStopKey(n.key)
               \/ n.pc = "submit" /\ NoneOf(n.key, Live)
               \/ n.pc \in {"claim", "orders"} /\ NoneOf(n.key, {"late"})
        PROVE  OneReducer'
    <2>1. mem'["daemon"] = n
      BY <1>0, <1>1, Moved
    <2>2. Onward(book, book')
      BY <1>1, BookOnward
    <2> QED BY <1>1, <2>1, <2>2, ReducerKept
  <1>a. \A k : k[1] = "cycle" => ~HardStopKey(k)
    BY DEF HardStopKey
  <1>2. CASE BeginCycle
    <2> DEFINE n == [Idle EXCEPT !.pc = "reconcile", !.key = Cycle(session),
                                 !.latched = Latching(LatchedHalts(halts))]
    <2>1. Goes("daemon", n) /\ (book' = book \/ book' = CanceledAll) /\ n.pc = "reconcile"
      BY <1>2 DEF BeginCycle, Cancels, Idle
    <2> HIDE DEF n
    <2> QED BY <1>1, <2>1
  <1>3. CASE CycleReconcile
    <2> DEFINE n == [m EXCEPT !.pc = "target", !.halted = halts.manual.id # 0,
                              !.latched = Latching(LatchedHalts(Expired(halts)))]
    <2>1. Goes("daemon", n) /\ (book' = book \/ book' = CanceledAll)
      BY <1>3 DEF CycleReconcile, Cancels
    <2>2. n.pc = "target"
      BY <1>0 DEF Memory
    <2> HIDE DEF n
    <2> QED BY <1>1, <2>1, <2>2
  <1>4. CASE \E want \in {"sell", "buy"} : CycleTarget(want)
    <2>1. PICK want \in {"sell", "buy"} : CycleTarget(want)
      BY <1>4
    <2> DEFINE n == [m EXCEPT !.pc = "plan", !.want = want, !.pos = pos]
    <2>2. Goes("daemon", n) /\ book' = book
      BY <2>1 DEF CycleTarget
    <2>3. n.pc = "plan"
      BY <1>0 DEF Memory
    <2> HIDE DEF n
    <2> QED BY <1>1, <2>2, <2>3
  <1>5. CASE CyclePlan
    <2>1. m.pc = "plan" /\ m.key[1] = "cycle" /\ (book' = book \/ book' = CanceledAll)
      BY <1>0, <1>5 DEF CyclePlan, At, Cancels, MemOK, InCycle
    <2>2. \/ Goes("daemon", Idle)
          \/ \E plan : Goes("daemon", Submits(m.key, plan))
      BY <1>5 DEF CyclePlan
    <2>3. \A plan : Submits(m.key, plan).pc = "submit" /\ Submits(m.key, plan).key[1] = "cycle"
      BY <2>1 DEF Submits, Idle
    <2> QED BY <1>1, <1>a, <2>1, <2>2, <2>3, IdleType
  <1>12. CASE BuyStep
    <2> DEFINE n == [m EXCEPT !.pc = "submit"]
               r == [Idle EXCEPT !.pc = "resume", !.key = Cycle(session), !.plan = dec[Cycle(session)].plan]
    <2>1. /\ book' = book
          /\ \/ mem' = mem \/ Goes("daemon", Idle) \/ Goes("daemon", r)
             \/ m.pc = "resume" /\ Goes("daemon", n)
      BY <1>12 DEF BuyStep, HoldBuys, ResumeBuys, ResumeGate, AbandonBuys, At
    <2>2. mem' = mem => Goes("daemon", m)
      BY DEF Goes, SessionInv, TableTypes
    <2>3. r.pc = "resume" /\ (m.pc = "resume" => n.key[1] = "cycle")
      BY <1>0 DEF Memory, Idle, MemOK, InCycle
    <2> HIDE DEF n, r
    <2> QED BY <1>1, <1>a, <2>1, <2>2, <2>3, IdleType
  <1>6. CASE BeginMonitor
    <2> DEFINE n == [Idle EXCEPT !.pc = "monitor",
                                 !.want = IF LatchedHalts(Expired(LatchedHalts(halts))).hard THEN "sell" ELSE "none"]
    <2>1. Goes("daemon", n) /\ (book' = book \/ book' = CanceledAll) /\ n.pc = "monitor"
      BY <1>6 DEF BeginMonitor, Idle
    <2> HIDE DEF n
    <2> QED BY <1>1, <2>1
  <1>7. CASE MonitorReduces
    <2> DEFINE n == [Idle EXCEPT !.pc = "attempt", !.series = Chosen]
    <2>1. (Goes("daemon", n) \/ Goes("daemon", Idle)) /\ book' = book /\ n.pc = "attempt"
      BY <1>7 DEF MonitorReduces, Idle
    <2> HIDE DEF n
    <2> QED BY <1>1, <2>1, IdleType
  <1>8. CASE \E succeeds \in BOOLEAN : MonitorCancels(succeeds)
    <2> DEFINE n == [m EXCEPT !.pc = "reduce"]
    <2>1. (mem' = mem \/ Goes("daemon", n)) /\ (book' = book \/ book' = CanceledAll)
      BY <1>8 DEF MonitorCancels
    <2>2. (mem' = mem => Goes("daemon", m)) /\ n.pc = "reduce"
      BY <1>0 DEF Goes, SessionInv, TableTypes, Memory
    <2> HIDE DEF n
    <2> QED BY <1>1, <2>1, <2>2
  <1>9. CASE ReductionAttempt("daemon")
    <2> DEFINE n == [Idle EXCEPT !.pc = "claim", !.key = NextKey(m.series)]
    <2>1. (Goes("daemon", n) \/ Goes("daemon", Idle)) /\ book' = book /\ n.pc = "claim"
      BY <1>9 DEF ReductionAttempt, NextKey, Idle
    <2> HIDE DEF n
    <2>2. Goes("daemon", n) => NoneOf(n.key, {"late"})
      <3> SUFFICES ASSUME Goes("daemon", n) PROVE NoneOf(n.key, {"late"})
        OBVIOUS
      <3>1. mem'["daemon"] = n
        BY <1>0, Moved
      <3> QED BY <1>9, <2>1, <3>1, AttemptClear
    <2> QED BY <1>1, <2>1, <2>2, IdleType
  <1>10. CASE ReductionClaim("daemon")
    <2> DEFINE n == [m EXCEPT !.pc = "orders", !.pos = pos]
    <2>1. (Goes("daemon", n) \/ Goes("daemon", Idle)) /\ book' = book /\ m.pc = "claim"
      BY <1>10 DEF ReductionClaim, At
    <2>2. n.pc = "orders" /\ n.key = m.key
      BY <1>0 DEF Memory
    <2>3. HardStopKey(n.key) => NoneOf(n.key, {"late"})
      BY <2>1, <2>2 DEF OneReducer, Cleared
    <2> HIDE DEF n
    <2> QED BY <1>1, <2>1, <2>2, <2>3, IdleType
  <1>11. CASE ReductionPlan("daemon")
    <2> DEFINE plan == Planned("sell", m.pos, OpenOrders # {})
               n == IF plan = NoPlan THEN Idle ELSE Submits(m.key, plan)
    <2>1. Goes("daemon", n) /\ book' = book
      BY <1>11 DEF ReductionPlan
    <2>2. mem'["daemon"] = n
      BY <1>0, <2>1, Moved
    <2>3. n.pc \in {"idle", "submit"}
      <3> HIDE DEF plan
      <3> QED BY IdleType DEF Submits, Idle
    <2> HIDE DEF n
    <2>4. n.pc = "submit" /\ HardStopKey(n.key) => NoneOf(n.key, Live)
      BY <1>11, <2>2, PlanClear
    <2> QED BY <1>1, <2>1, <2>3, <2>4
  <1> QED BY <1>2, <1>3, <1>4, <1>5, <1>6, <1>7, <1>8, <1>9, <1>10, <1>11, <1>12 DEF CycleStep, MonitorStep

LEMMA NextReducer == SessionInv /\ OneReducer /\ [Next]_vars => OneReducer'
  <1> SUFFICES ASSUME SessionInv, OneReducer, [Next]_vars PROVE OneReducer'
    OBVIOUS
  <1>0. "daemon" \in Procs /\ "cli" \in Procs /\ "cli" # "daemon" /\ TableTypes
    BY DEF Procs, SessionInv
  <1>1. CASE UNCHANGED vars
    BY <1>1 DEF vars, OneReducer, Cleared, NoneOf
  \* The processes stay where they are.
  <1>2. ASSUME mem' = mem, Onward(book, book') PROVE OneReducer'
    BY <1>2, ReducerKept
  \* Only the command line moves.
  <1>3. ASSUME NEW n, Goes("cli", n), book' = book \/ book' = CanceledAll PROVE OneReducer'
    <2>1. mem'["daemon"] = mem["daemon"]
      BY <1>0, <1>3, Moved
    <2>2. Onward(book, book')
      BY <1>3, BookOnward
    <2> QED BY <2>1, <2>2, ReducerKept
  <1>4. CASE CliStep
    <2>1. /\ book' = book \/ book' = CanceledAll
          /\ mem' = mem \/ \E n : Goes("cli", n)
      BY <1>4 DEF CliStep, Halt, HaltCancels, Flatten, FlattenAgain, Resume
    <2>2. Onward(book, book')
      BY <2>1, BookOnward
    <2> QED BY <1>2, <1>3, <2>1, <2>2
  <1>5. ASSUME NEW p \in Procs, ReductionAttempt(p) \/ ReductionClaim(p) \/ ReductionPlan(p)
        PROVE  OneReducer'
    <2>1. CASE p = "daemon"
      BY <1>5, <2>1, DaemonAlone
    <2>2. CASE p = "cli"
      <3>1. book' = book /\ \E n : Goes("cli", n)
        BY <1>5, <2>2 DEF ReductionAttempt, ReductionClaim, ReductionPlan
      <3> QED BY <1>3, <3>1
    <2> QED BY <2>1, <2>2 DEF Procs
  <1>6. ASSUME NEW p \in Procs, NEW outcome \in {"answered", "unknown", "raised"}, Submit(p, outcome)
        PROVE  OneReducer'
    BY <1>6, SubmitAlone
  <1>7. ASSUME NEW p \in Procs, Crash(p) PROVE OneReducer'
    <2>1. Goes(p, Idle) /\ book' = book
      BY <1>7 DEF Crash
    <2>2. CASE p = "cli"
      BY <1>3, <2>1, <2>2
    <2>3. CASE p = "daemon"
      <3>1. mem'["daemon"] = Idle
        BY <1>0, <2>1, <2>3, Moved
      <3> QED BY <1>0, <2>1, <3>1, SameBook, IdleType, ReducerKept
    <2> QED BY <2>2, <2>3 DEF Procs
  <1>8. ASSUME NEW breach \in SUBSET Limits, NEW fit \in BOOLEAN, Move(breach, fit) PROVE OneReducer'
    BY <1>0, <1>2, <1>8, SameBook DEF Move
  <1>9. CASE NewSession
    BY <1>0, <1>2, <1>9, NewSessionOnward DEF NewSession
  <1>10. ASSUME NEW k \in Keys, Arrive(k) \/ Fill(k) \/ Cancel(k) PROVE OneReducer'
    <2>1. mem' = mem
      BY <1>10 DEF Arrive, Fill, Cancel
    <2> QED BY <1>0, <1>2, <1>10, <2>1, OrderOnward
  <1> QED BY <1>1, <1>4, <1>5, <1>6, <1>7, <1>8, <1>9, <1>10, DaemonAlone DEF Next, ReductionStep

\* Two attempts of a session's hard stop are never open together: an attempt that
\* may still arrive blocks the next, whatever crashes, timeouts, a command line that
\* flattens and the broker do.
THEOREM HardStopsSafe == Spec => []HardStopsDisjoint
  <1>1. OneReducer => HardStopsDisjoint
    BY DEF OneReducer, HardStopsDisjoint, OpenOrders, SameSeries, HardStopKey, Live
  <1> QED BY <1>1, NextReducer, InitReducer, SessionSafe, PTL DEF Spec
=============================================================================
