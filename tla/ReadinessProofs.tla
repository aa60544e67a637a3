-------------------------- MODULE ReadinessProofs --------------------------
(***************************************************************************)
(* Proofs about the two components that a trading decision waits for: the  *)
(* slots of the schedule that are claimed and decided (DecisionSlots), for *)
(* any timetable, lease, number of schedulers, strategies and workers, and *)
(* any lag of the instants that they pass, and the readiness of the data   *)
(* (DerivedData), for any number of symbols, sessions, processes and       *)
(* batches of intake, any minutes traded, and any takeovers.               *)
(***************************************************************************)
EXTENDS DecisionSlots, DerivedData, FiniteSetTheorems, WellFoundedInduction,
        NaturalsInduction, TLAPS

(***************************************************************************)
(* The inductive invariant of the slots.                                   *)
(***************************************************************************)
\* Nobody passes an instant that is still to come.
CyclesPast == \A p \in Schedulers : sched[p].at <= now
MindsPast == \A p \in Minds : mind[p].at <= now

\* A cycle that works on a slot works on one of the schedule.
CursorInSchedule ==
  \A p \in Schedulers : sched[p].pc \notin {"idle", "recovering"} => sched[p].cursor \in Slots

\* A slot that is decided, or that a process is about to decide, was claimed and
\* does not go back to waiting.
Engaged == {"CLAIMED"} \cup Terminal
DecidedIsEngaged ==
  \A s \in Slots : Decided(s) \/ (\E p \in Minds : mind[p].slot = s) => slot[s].state \in Engaged

SlotsInv == /\ TypeOK /\ CyclesPast /\ MindsPast /\ CursorInSchedule
            /\ DecidedIsEngaged /\ CompletedInTime

InTime(s, t) == IF s \in Forced THEN t <= RequiredAt[s] ELSE t < DeadlineAt[s]

\* What a transaction may make of the row of a slot.
Allowed(s, row) ==
  /\ row \in SlotRow /\ ValidRow(row)
  /\ slot[s].state \in Engaged => row.state \in Engaged
  /\ row.state = "COMPLETED" => Decided(s) /\ InTime(s, row.completed)
  /\ Live(s, now) /\ row.state = "CLAIMED" =>
       row.owner = slot[s].owner /\ row.attempt = slot[s].attempt
  /\ s \notin Forced /\ Decided(s) => row.attempt = slot[s].attempt
-----------------------------------------------------------------------------
(***************************************************************************)
(* The timetable.                                                          *)
(***************************************************************************)
\* The least-number principle.
LEMMA LeastNatural ==
  ASSUME NEW S \in SUBSET Nat, S # {}
  PROVE  \E s \in S : \A r \in S : s <= r
  <1> DEFINE R == OpToRel(<, Nat)
  <1>1. R = {ss \in Nat \X Nat : ss[1] < ss[2]}
    BY DEF OpToRel
  <1>2. IsWellFoundedOn(R, Nat)
    BY NatLessThanWellFounded, ZenonT(30)
  <1> HIDE DEF R
  <1>3. PICK s \in S : \A r \in S : ~(<<r, s>> \in R)
    BY <1>2, WFMin
  <1>4. \A r \in S : ~(r < s)
    BY <1>1, <1>3
  <1> QED BY <1>4

\* A cycle that goes on looks at a slot of the schedule, at the same instant.
LEMMA AdvancedCycle ==
  ASSUME NEW c \in Cycle
  PROVE  /\ Advanced(c) \in Cycle /\ NoCycle \in Cycle
         /\ Advanced(c) # NoCycle => Advanced(c).at = c.at
         /\ Advanced(c).pc \notin {"idle", "recovering"} => Advanced(c).cursor \in Slots
         /\ NoCycle.at = 0 /\ NoCycle.pc = "idle"
  <1>1. NoCycle \in Cycle /\ NoCycle.at = 0 /\ NoCycle.pc = "idle"
    BY SlotsAssumption DEF SlotsAssumption, NoCycle, Cycle, Time
  <1>2. CASE After(c.cursor) = {}
    BY <1>1, <1>2 DEF Advanced
  <1>3. CASE After(c.cursor) # {}
    <2> DEFINE F == First(After(c.cursor))
    <2>1. After(c.cursor) \in SUBSET Slots /\ Slots \in SUBSET Nat
      BY SlotsAssumption DEF SlotsAssumption, After
    <2>2. \E s \in After(c.cursor) : \A r \in After(c.cursor) : s <= r
      BY <1>3, <2>1, LeastNatural
    <2>3. F \in After(c.cursor)
      BY <2>2 DEF First
    <2>4. F \in Slots /\ F \in Nat
      BY <2>1, <2>3
    <2>5. Advanced(c) = [c EXCEPT !.pc = "looking", !.cursor = F]
      BY <1>3 DEF Advanced
    <2> HIDE DEF F
    <2> QED BY <1>1, <2>4, <2>5 DEF Cycle
  <1> QED BY <1>2, <1>3
-----------------------------------------------------------------------------
(***************************************************************************)
(* Rows: what the repository's methods write is allowed.                   *)
(***************************************************************************)
\* The types of a row's columns, and of the instants in the timetable.
LEMMA RowTypes ==
  ASSUME TypeOK, NEW s \in Slots
  PROVE  /\ slot[s] \in SlotRow /\ ValidRow(slot[s])
         /\ slot[s].state \in SlotState /\ slot[s].attempt \in Nat
         /\ slot[s].state = "CLAIMED" => slot[s].expires \in Nat
         /\ ReadyAt[s] \in Nat /\ DeadlineAt[s] \in Nat /\ RequiredAt[s] \in Nat
         /\ now \in Nat /\ s \in Nat /\ s # None
  BY SlotsAssumption DEF SlotsAssumption, TypeOK, SlotRow, ValidRow, Time, None

\* A row that is left as it is.
LEMMA KeptAllowed ==
  ASSUME TypeOK, CompletedInTime, NEW s \in Slots
  PROVE  Allowed(s, slot[s])
  BY RowTypes DEF Allowed, CompletedInTime, InTime

\* A row without a lease that has not ended.
LEMMA MovedAllowed ==
  ASSUME TypeOK, NEW s \in Slots, slot[s].state \in {"ABSENT"} \cup Unclaimed,
         NEW state \in Unclaimed, NEW k \in Nat, Decided(s) => k = slot[s].attempt
  PROVE  Allowed(s, Row(state, k))
  BY RowTypes
  DEF Allowed, Row, SlotRow, ValidRow, SlotState, Unclaimed, Terminal, Engaged, Live, None

\* A row that has ended: not COMPLETED, or decided and in time.
LEMMA EndedAllowed ==
  ASSUME TypeOK, NEW s \in Slots, NEW state \in Terminal, NEW t \in Time,
         state = "COMPLETED" => Decided(s) /\ InTime(s, t)
  PROVE  Allowed(s, EndedRow(s, state, t))
  <1>1. EndedRow(s, state, t) = [state |-> state, owner |-> NoOwner, expires |-> None,
                                 attempt |-> slot[s].attempt, completed |-> t]
    BY DEF EndedRow, MovedRow, Row
  <1> QED BY <1>1, RowTypes
          DEF Allowed, SlotRow, ValidRow, SlotState, Terminal, Engaged, Live, None, Time

\* A lease for its owner, or for whoever finds the old one lapsed.
LEMMA LeasedAllowed ==
  ASSUME TypeOK, NEW s \in Slots, NEW o \in Owners, NEW t \in Time, NEW k \in Nat,
         Live(s, now) => o = slot[s].owner /\ k = slot[s].attempt,
         s \notin Forced /\ Decided(s) => k = slot[s].attempt
  PROVE  Allowed(s, LeasedRow(o, t, k))
  <1> DEFINE end == t + Lease
  <1>1. end \in Nat /\ end # None /\ o # NoOwner
    BY SlotsAssumption DEF SlotsAssumption, Time, None
  <1>2. LeasedRow(o, t, k) = [Row("CLAIMED", k) EXCEPT !.owner = o, !.expires = end]
    BY DEF LeasedRow
  <1> HIDE DEF end
  <1>3. LeasedRow(o, t, k) = [state |-> "CLAIMED", owner |-> o, expires |-> end,
                              attempt |-> k, completed |-> None]
    BY <1>2 DEF Row
  <1> QED BY <1>1, <1>3, RowTypes
          DEF Allowed, SlotRow, ValidRow, SlotState, Terminal, Engaged, None

\* _expire_locked.
LEMMA ExpiredAllowed ==
  ASSUME TypeOK, NEW s \in Slots, NEW t \in Time
  PROVE  Allowed(s, ExpiredRow(s, t))
  BY EndedAllowed DEF ExpiredRow, Terminal

\* _claim_locked, at an instant that is not in the future.
LEMMA ClaimAllowed ==
  ASSUME TypeOK, DecidedIsEngaged, CompletedInTime,
         NEW s \in Slots, NEW o \in Owners, NEW t \in Time, t <= now
  PROVE  Allowed(s, Claimed(s, o, t))
  <1> DEFINE e == Elapsed(s, t)
             m == Materialized(s, t)
             g == Grantable(s, t)
  <1>1. CASE e
    <2>1. Claimed(s, o, t) = ExpiredRow(s, t)
      BY <1>1 DEF Claimed
    <2> QED BY <2>1, ExpiredAllowed
  <1>2. CASE ~e /\ m
    <2>1. Claimed(s, o, t) = EndedRow(s, "COMPLETED", t)
      BY <1>2 DEF Claimed
    <2>2. Decided(s) /\ InTime(s, t)
      BY <1>2, RowTypes DEF Elapsed, Materialized, Lapsed, Missed, InTime, Time
    <2> QED BY <2>1, <2>2, EndedAllowed DEF Terminal
  <1>3. CASE ~e /\ ~m /\ g
    <2>1. Claimed(s, o, t) = LeasedRow(o, t, slot[s].attempt + 1)
      BY <1>3 DEF Claimed
    <2>2. ~Live(s, now)
      BY <1>3, RowTypes DEF Grantable, Lapsed, Live, Time
    <2>3. ~(s \notin Forced /\ Decided(s))
      BY <1>3 DEF Grantable, Materialized, Lapsed, DecidedIsEngaged, Engaged, Terminal
    <2>4. slot[s].attempt + 1 \in Nat
      BY RowTypes
    <2> QED BY <2>1, <2>2, <2>3, <2>4, LeasedAllowed
  <1>4. CASE ~e /\ ~m /\ ~g
    <2>1. Claimed(s, o, t) = slot[s]
      BY <1>4 DEF Claimed
    <2> QED BY <2>1, KeptAllowed
  <1> QED BY <1>1, <1>2, <1>3, <1>4

\* evaluate_readiness.
LEMMA EvaluateAllowed ==
  ASSUME TypeOK, CompletedInTime, NEW s \in Slots, NEW t \in Time, NEW covered \in BOOLEAN
  PROVE  Allowed(s, Evaluated(s, t, covered))
  <1> DEFINE done    == s \in Forced \/ slot[s].state \in Terminal
             late    == s \notin Forced /\ slot[s].state \in Unclaimed /\ t >= DeadlineAt[s]
             due     == /\ s \notin Forced /\ slot[s].state \in Unclaimed
                        /\ ReadyAt[s] <= t /\ t < DeadlineAt[s]
             row     == MovedRow(s, IF covered THEN "READY" ELSE "WAITING_FOR_DATA")
  <1>1. t \in Nat /\ DeadlineAt[s] \in Nat /\ Unclaimed \cap Terminal = {}
    BY RowTypes DEF Time, Unclaimed, Terminal
  <1>2. CASE late
    <2>1. Evaluated(s, t, covered) = ExpiredRow(s, t)
      BY <1>1, <1>2 DEF Evaluated
    <2> QED BY <2>1, ExpiredAllowed
  <1>3. CASE due
    <2>1. Evaluated(s, t, covered) = row
      BY <1>1, <1>3 DEF Evaluated
    <2>2. Allowed(s, row)
      BY <1>3, RowTypes, MovedAllowed DEF MovedRow, Unclaimed
    <2> QED BY <2>1, <2>2
  <1>4. CASE ~late /\ ~due
    <2>1. Evaluated(s, t, covered) = slot[s]
      BY <1>4 DEF Evaluated
    <2> QED BY <2>1, KeptAllowed
  <1> QED BY <1>2, <1>3, <1>4
-----------------------------------------------------------------------------
(***************************************************************************)
(* Steps: what they do to the rows, the decisions and the memories.        *)
(***************************************************************************)
RowMoves ==
  /\ slot' = [s \in Slots |-> slot'[s]]
  /\ \A s \in Slots : Allowed(s, slot'[s])

\* A decision is made once, by a process that meant to make it.
SignalMoves ==
  /\ signal' \in [Slots -> Time \cup {None}]
  /\ \A s \in Slots : Decided(s) => signal'[s] = signal[s]
  /\ \A s \in Slots : signal'[s] # None => Decided(s) \/ \E p \in Minds : mind[p].slot = s

CycleMoves ==
  /\ sched' \in [Schedulers -> Cycle]
  /\ CyclesPast'
  /\ CursorInSchedule'

\* A process that sets out to decide a slot finds it claimed.
MindMoves ==
  /\ mind' \in [Minds -> Mind]
  /\ MindsPast'
  /\ \A p \in Minds : mind'[p].slot \in Slots =>
       mind'[p].slot = mind[p].slot \/ slot'[mind'[p].slot].state \in Engaged

Moves ==
  /\ now' \in Time /\ crashes' \in 0..MaxCrashes
  /\ RowMoves /\ SignalMoves /\ CycleMoves /\ MindMoves

\* Such a step keeps the invariant.
LEMMA MovesKeepInv == ASSUME SlotsInv, Moves PROVE SlotsInv'
  <1> USE DEF SlotsInv, Moves
  <1>1. TypeOK'
    BY DEF TypeOK, RowMoves, SignalMoves, CycleMoves, MindMoves, Allowed
  <1>2. DecidedIsEngaged'
    <2> SUFFICES ASSUME NEW s \in Slots, signal'[s] # None \/ \E p \in Minds : mind'[p].slot = s
                 PROVE  slot'[s].state \in Engaged
      BY DEF DecidedIsEngaged, Decided
    <2>1. CASE Decided(s) \/ \E p \in Minds : mind[p].slot = s
      BY <2>1 DEF DecidedIsEngaged, RowMoves, Allowed
    <2>2. CASE \E p \in Minds : mind'[p].slot = s /\ mind[p].slot # s
      BY <2>2 DEF MindMoves
    <2> QED BY <2>1, <2>2 DEF SignalMoves
  <1>3. CompletedInTime'
    BY DEF CompletedInTime, InTime, Decided, RowMoves, SignalMoves, Allowed
  <1> QED BY <1>1, <1>2, <1>3 DEF CycleMoves, MindMoves

\* A step that writes no row.
LEMMA NoRow == ASSUME SlotsInv, UNCHANGED slot PROVE RowMoves
  BY KeptAllowed DEF SlotsInv, TypeOK, RowMoves

\* A step that writes one row.
LEMMA OneRow ==
  ASSUME SlotsInv, NEW s \in Slots, NEW row, Allowed(s, row), slot' = [slot EXCEPT ![s] = row]
  PROVE  RowMoves
  BY KeptAllowed DEF SlotsInv, TypeOK, RowMoves

\* A step that leaves the decisions alone.
LEMMA NoSignal == ASSUME SlotsInv, UNCHANGED signal PROVE SignalMoves
  BY DEF SlotsInv, TypeOK, SignalMoves, Decided

\* A step that no scheduler takes.
LEMMA NoCycleMove ==
  ASSUME SlotsInv, UNCHANGED sched, now' \in Time, now <= now' PROVE CycleMoves
  BY DEF SlotsInv, TypeOK, CycleMoves, CyclesPast, CursorInSchedule, Cycle, Time

\* A step of one scheduler.
LEMMA OneCycle ==
  ASSUME SlotsInv, NEW p \in Schedulers, NEW c \in Cycle, c.at <= now,
         c.pc \notin {"idle", "recovering"} => c.cursor \in Slots,
         sched' = [sched EXCEPT ![p] = c], UNCHANGED now
  PROVE  CycleMoves
  BY DEF SlotsInv, TypeOK, CycleMoves, CyclesPast, CursorInSchedule

\* A scheduler goes on to the next slot, or its cycle is over.
LEMMA GoesOn ==
  ASSUME SlotsInv, NEW p \in Schedulers, UNCHANGED now,
         sched' = [sched EXCEPT ![p] = Advanced(sched[p])] \/ sched' = [sched EXCEPT ![p] = NoCycle]
  PROVE  CycleMoves
  <1>1. sched[p] \in Cycle /\ sched[p].at <= now /\ 0 <= now
    BY DEF SlotsInv, TypeOK, CyclesPast, Time
  <1> DEFINE a == Advanced(sched[p])
  <1>2. /\ a \in Cycle /\ NoCycle \in Cycle /\ a.at <= now /\ NoCycle.at <= now
        /\ a.pc \notin {"idle", "recovering"} => a.cursor \in Slots
        /\ NoCycle.pc = "idle"
    BY <1>1, AdvancedCycle
  <1> HIDE DEF a
  <1>3. CASE sched' = [sched EXCEPT ![p] = a]
    BY <1>2, <1>3, OneCycle
  <1>4. CASE sched' = [sched EXCEPT ![p] = NoCycle]
    BY <1>2, <1>4, OneCycle
  <1> QED BY <1>3, <1>4 DEF a

\* A step that no strategy and no worker takes.
LEMMA NoMind ==
  ASSUME SlotsInv, UNCHANGED mind, now' \in Time, now <= now' PROVE MindMoves
  BY DEF SlotsInv, TypeOK, MindMoves, MindsPast, Mind, Time

\* A process that remembers nothing new, or a slot that is claimed.
LEMMA OneMind ==
  ASSUME SlotsInv, UNCHANGED now, NEW p \in Minds, NEW s \in Slots \cup {None}, NEW t \in Time,
         t <= now, mind' = [mind EXCEPT ![p] = [slot |-> s, at |-> t]],
         s \in Slots => s = mind[p].slot \/ slot'[s].state \in Engaged
  PROVE  MindMoves
  BY DEF SlotsInv, TypeOK, MindMoves, MindsPast, Mind
-----------------------------------------------------------------------------
\* The database before the first schedule, all processes idle.
LEMMA SlotsInitially == Init => SlotsInv
  <1> SUFFICES ASSUME Init PROVE SlotsInv
    OBVIOUS
  <1>1. /\ NoCycle \in Cycle /\ NoCycle.at = 0 /\ NoCycle.pc = "idle"
        /\ 0 \in Time /\ None \notin Slots /\ 0 \in 0..MaxCrashes
    BY SlotsAssumption DEF SlotsAssumption, NoCycle, Cycle, Time, None
  <1>2. Row("ABSENT", 0) \in SlotRow /\ ValidRow(Row("ABSENT", 0))
    BY DEF Row, SlotRow, ValidRow, SlotState, Terminal, None
  <1>3. TypeOK
    BY <1>1, <1>2 DEF Init, TypeOK, Mind, None
  <1>4. CyclesPast /\ MindsPast /\ CursorInSchedule
    BY <1>1 DEF Init, CyclesPast, MindsPast, CursorInSchedule
  <1>5. DecidedIsEngaged /\ CompletedInTime
    BY <1>1 DEF Init, DecidedIsEngaged, CompletedInTime, Decided, Row, None
  <1> QED BY <1>3, <1>4, <1>5 DEF SlotsInv

\* The steps of a scheduler cycle.
LEMMA CycleStepMoves ==
  ASSUME SlotsInv, NEW p \in Schedulers,
         (\E b \in Watermark : Begin(p, b)) \/ CycleStep(p) \/ Crash(p)
  PROVE  Moves
  <1>1. /\ TypeOK /\ DecidedIsEngaged /\ CompletedInTime
        /\ sched[p] \in Cycle /\ sched[p].at \in Time /\ sched[p].at <= now
        /\ now \in Time /\ now \in Nat /\ StrategyOwner \in Owners
    BY SlotsAssumption
    DEF SlotsAssumption, SlotsInv, TypeOK, CyclesPast, Cycle, Time, Owners
  <1>2. sched[p].pc \in {"looking", "evaluating", "claiming"} => sched[p].cursor \in Slots
    BY DEF SlotsInv, CursorInSchedule
  <1>3. ASSUME UNCHANGED <<now, signal, mind>>, crashes' \in 0..MaxCrashes, RowMoves, CycleMoves
        PROVE  Moves
    BY <1>1, <1>3, NoSignal, NoMind DEF Moves
  <1>4. UNCHANGED crashes => crashes' \in 0..MaxCrashes
    BY <1>1 DEF TypeOK
  <1>5. ASSUME NEW b \in Watermark, Begin(p, b) PROVE Moves
    <2> DEFINE c == [pc |-> "recovering", at |-> now, basket |-> b, cursor |-> 0,
                     abandoned |-> {s \in Slots : Lapsed(s, now)}]
    <2>1. b \in Nat
      BY SlotsAssumption DEF SlotsAssumption, Watermark
    <2>2. c \in Cycle /\ c.at <= now /\ c.pc = "recovering"
      BY <1>1, <2>1 DEF Cycle
    <2>3. sched' = [sched EXCEPT ![p] = c] /\ UNCHANGED <<now, slot, signal, mind, crashes>>
      BY <1>5 DEF Begin
    <2> HIDE DEF c
    <2>4. CycleMoves
      BY <2>2, <2>3, OneCycle
    <2> QED BY <1>3, <1>4, <2>3, <2>4, NoRow
  <1>6. ASSUME NEW s \in Slots, Recover(p, s) PROVE Moves
    <2> DEFINE c == [sched[p] EXCEPT !.abandoned = @ \ {s}]
               row == Claimed(s, StrategyOwner, sched[p].at)
    <2>1. Allowed(s, row)
      BY <1>1, ClaimAllowed
    <2>2. c \in Cycle /\ c.at <= now /\ c.pc = "recovering"
      BY <1>1, <1>6 DEF Recover, Cycle
    <2>3. /\ UNCHANGED slot \/ slot' = [slot EXCEPT ![s] = row]
          /\ sched' = [sched EXCEPT ![p] = c]
          /\ UNCHANGED <<now, signal, mind, crashes>>
      BY <1>6 DEF Recover
    <2> HIDE DEF c, row
    <2>4. RowMoves
      BY <2>1, <2>3, NoRow, OneRow
    <2>5. CycleMoves
      BY <2>2, <2>3, OneCycle
    <2> QED BY <1>3, <1>4, <2>3, <2>4, <2>5
  <1>7. CASE CreateSchedule(p)
    <2>1. ASSUME NEW s \in Slots, slot[s].state = "ABSENT" PROVE Allowed(s, InitialRow(s))
      <3>1. ~Decided(s)
        BY <1>1, <2>1 DEF DecidedIsEngaged, Engaged, Terminal
      <3> QED BY <1>1, <2>1, <3>1, MovedAllowed DEF InitialRow, Unclaimed
    <2>2. RowMoves
      BY <1>1, <1>7, <2>1, KeptAllowed DEF CreateSchedule, RowMoves
    <2>3. CycleMoves
      BY <1>7, GoesOn DEF CreateSchedule
    <2> QED BY <1>3, <1>4, <1>7, <2>2, <2>3 DEF CreateSchedule
  <1>8. CASE Look(p)
    <2> DEFINE e == [sched[p] EXCEPT !.pc = "evaluating"]
               c == [sched[p] EXCEPT !.pc = "claiming"]
    <2>1. /\ e \in Cycle /\ e.at <= now /\ e.cursor \in Slots
          /\ c \in Cycle /\ c.at <= now /\ c.cursor \in Slots
      BY <1>1, <1>2, <1>8 DEF Look, Cycle
    <2>2. /\ \/ sched' = [sched EXCEPT ![p] = Advanced(sched[p])]
             \/ sched' = [sched EXCEPT ![p] = e]
             \/ sched' = [sched EXCEPT ![p] = c]
          /\ UNCHANGED <<now, slot, signal, mind, crashes>>
      BY <1>8 DEF Look
    <2> HIDE DEF e, c
    <2>3. CycleMoves
      BY <2>1, <2>2, OneCycle, GoesOn
    <2> QED BY <1>3, <1>4, <2>2, <2>3, NoRow
  <1>9. CASE Evaluate(p)
    <2> DEFINE s == sched[p].cursor
               covered == s <= sched[p].basket
               row == Evaluated(s, sched[p].at, covered)
               c == [sched[p] EXCEPT !.pc = "claiming"]
    <2>1. s \in Slots /\ c \in Cycle /\ c.at <= now /\ c.cursor \in Slots
      BY <1>1, <1>2, <1>9 DEF Evaluate, Cycle
    <2>2. Allowed(s, row)
      <3>1. covered \in BOOLEAN
        OBVIOUS
      <3> HIDE DEF covered
      <3> QED BY <1>1, <2>1, <3>1, EvaluateAllowed, Zenon
    <2>3. /\ UNCHANGED slot \/ slot' = [slot EXCEPT ![s] = row]
          /\ \/ sched' = [sched EXCEPT ![p] = Advanced(sched[p])]
             \/ sched' = [sched EXCEPT ![p] = NoCycle]
             \/ sched' = [sched EXCEPT ![p] = c]
          /\ UNCHANGED <<now, signal, mind, crashes>>
      BY <1>9 DEF Evaluate
    <2> HIDE DEF s, row, c
    <2>4. RowMoves
      BY <2>1, <2>2, <2>3, NoRow, OneRow
    <2>5. CycleMoves
      BY <2>1, <2>3, OneCycle, GoesOn
    <2> QED BY <1>3, <1>4, <2>3, <2>4, <2>5
  <1>10. CASE ClaimSlot(p)
    <2> DEFINE s == sched[p].cursor
               row == Claimed(s, StrategyOwner, sched[p].at)
    <2>1. s \in Slots
      BY <1>2, <1>10 DEF ClaimSlot
    <2>2. Allowed(s, row)
      BY <1>1, <2>1, ClaimAllowed
    <2>3. /\ slot' = [slot EXCEPT ![s] = row]
          /\ sched' = [sched EXCEPT ![p] = Advanced(sched[p])]
          /\ UNCHANGED <<now, signal, mind, crashes>>
      BY <1>10 DEF ClaimSlot
    <2> HIDE DEF s, row
    <2>4. RowMoves
      BY <2>1, <2>2, <2>3, OneRow
    <2> QED BY <1>3, <1>4, <2>3, <2>4, GoesOn
  <1>11. CASE Crash(p)
    <2>1. crashes' \in 0..MaxCrashes
      BY <1>1, <1>11, SlotsAssumption DEF SlotsAssumption, TypeOK, Crash
    <2> QED BY <1>3, <1>11, <2>1, NoRow, GoesOn DEF Crash
  <1> QED BY <1>5, <1>6, <1>7, <1>8, <1>9, <1>10, <1>11 DEF CycleStep

\* propose_once, persist_once, and a process that gives up.
LEMMA DecisionMoves ==
  ASSUME SlotsInv, NEW p \in Minds,
         (\E s \in Slots : Propose(p, s)) \/ PersistSignal(p) \/ Forget(p)
  PROVE  Moves
  <1>1. /\ mind[p] \in Mind /\ mind[p].slot \in Slots \cup {None} /\ mind[p].at \in Time
        /\ mind[p].at <= now /\ now \in Time /\ now \in Nat /\ crashes \in 0..MaxCrashes
        /\ mind[p] = [slot |-> mind[p].slot, at |-> mind[p].at]
    BY DEF SlotsInv, TypeOK, MindsPast, Mind, Time
  <1>2. ASSUME UNCHANGED <<now, slot, sched, crashes>>, SignalMoves, MindMoves PROVE Moves
    BY <1>1, <1>2, NoRow, NoCycleMove DEF Moves
  <1>3. ASSUME NEW s \in Slots, Propose(p, s) PROVE Moves
    <2>1. /\ mind' = [mind EXCEPT ![p] = [slot |-> s, at |-> now]]
          /\ UNCHANGED <<now, slot, signal, sched, crashes>>
          /\ slot'[s].state \in Engaged
      BY <1>3 DEF Propose, Live, Engaged
    <2>2. s \in Slots \cup {None} /\ now <= now
      BY <1>1
    <2>3. MindMoves
      BY <1>1, <2>1, <2>2, OneMind
    <2> QED BY <1>2, <2>1, <2>3, NoSignal
  <1>4. ASSUME mind' = [mind EXCEPT ![p].slot = None], UNCHANGED now PROVE MindMoves
    <2>1. [mind[p] EXCEPT !.slot = None] = [slot |-> None, at |-> mind[p].at]
      BY <1>1 DEF Mind
    <2>2. mind' = [mind EXCEPT ![p] = [slot |-> None, at |-> mind[p].at]]
      BY <1>4, <2>1
    <2>3. None \notin Slots
      BY SlotsAssumption DEF SlotsAssumption, None
    <2> QED BY <1>1, <1>4, <2>2, <2>3, OneMind
  <1>5. CASE PersistSignal(p)
    <2>1. SignalMoves
      BY <1>1, <1>5 DEF PersistSignal, SignalMoves, SlotsInv, TypeOK, Decided
    <2> QED BY <1>2, <1>4, <1>5, <2>1 DEF PersistSignal
  <1>6. CASE Forget(p)
    BY <1>2, <1>4, <1>6, NoSignal DEF Forget
  <1> QED BY <1>3, <1>5, <1>6

\* The calls of a worker under its own name, at an instant that may lag.
LEMMA WorkerStepMoves ==
  ASSUME SlotsInv, NEW w \in Workers, WorkerStep(w)
  PROVE  Moves
  <1>1. PICK t \in mind[w].at..now :
          \/ \E s \in Slots : \/ WorkerClaim(w, s, t) \/ ClaimNext(w, s, t) \/ RenewLease(w, s, t)
                              \/ Complete(w, s, t) \/ Fail(w, s, t)
          \/ RecoverClaims(w, t)
    BY DEF WorkerStep
  <1>2. /\ TypeOK /\ DecidedIsEngaged /\ CompletedInTime /\ w \in Minds /\ w \in Owners
        /\ now \in Time /\ now \in Nat /\ crashes \in 0..MaxCrashes
        /\ mind[w].slot \in Slots \cup {None} /\ mind[w].at \in Time
    BY DEF SlotsInv, TypeOK, Minds, Owners, Mind, Time
  <1>3. t \in Time /\ t \in Nat /\ t <= now /\ None \notin Slots
    BY <1>1, <1>2, SlotsAssumption DEF SlotsAssumption, Time, None
  <1>4. ASSUME UNCHANGED <<now, signal, sched, crashes>>, RowMoves, MindMoves PROVE Moves
    BY <1>2, <1>4, NoSignal, NoCycleMove DEF Moves
  <1>5. ASSUME NEW s \in Slots, NEW row, Allowed(s, row), Writes(s, row),
               NEW r \in {None, mind[w].slot} \cup (IF row.state = "CLAIMED" THEN {s} ELSE {}),
               Remember(w, r, t)
        PROVE  Moves
    <2>1. UNCHANGED <<now, signal, sched, crashes>> /\ slot' = [slot EXCEPT ![s] = row]
      BY <1>5 DEF Writes
    <2>2. mind' = [mind EXCEPT ![w] = [slot |-> r, at |-> t]]
      BY <1>5 DEF Remember
    <2>3. slot'[s] = row
      BY <1>2, <2>1 DEF TypeOK
    <2>4. r \in Slots \cup {None} /\ (r \in Slots => r = mind[w].slot \/ slot'[r].state \in Engaged)
      BY <1>2, <1>3, <1>5, <2>3 DEF Engaged
    <2>5. RowMoves
      BY <1>5, <2>1, OneRow
    <2>6. MindMoves
      BY <1>2, <1>3, <2>1, <2>2, <2>4, OneMind
    <2> QED BY <1>4, <2>1, <2>5, <2>6
  <1>6. \A s \in Slots : Allowed(s, Claimed(s, w, t))
    BY <1>2, <1>3, ClaimAllowed
  <1>7. \A s \in Slots : Allowed(s, ExpiredRow(s, t))
    BY <1>2, <1>3, ExpiredAllowed
  <1>8. ASSUME NEW s \in Slots, WorkerClaim(w, s, t) PROVE Moves
    <2> DEFINE row == Claimed(s, w, t)
               r == IF row # slot[s] /\ row.state = "CLAIMED" THEN s ELSE None
    <2>1. Writes(s, row) /\ Remember(w, r, t)
      BY <1>8 DEF WorkerClaim
    <2> HIDE DEF row
    <2> QED BY <1>5, <1>6, <2>1 DEF row
  <1>9. ASSUME NEW s \in Slots, ClaimNext(w, s, t) PROVE Moves
    <2> DEFINE row == Claimed(s, w, t)
               r == IF row.state = "CLAIMED" THEN s ELSE None
    <2>1. Writes(s, row) /\ Remember(w, r, t)
      BY <1>9 DEF ClaimNext
    <2> QED BY <1>5, <1>6, <2>1
  <1>10. ASSUME NEW s \in Slots, RenewLease(w, s, t) PROVE Moves
    <2> DEFINE row == IF Missed(s, t) THEN ExpiredRow(s, t) ELSE LeasedRow(w, t, slot[s].attempt)
    <2>1. Writes(s, row) /\ Remember(w, mind[w].slot, t) /\ slot[s].owner = w
      BY <1>10 DEF RenewLease, Owned
    <2>2. Allowed(s, LeasedRow(w, t, slot[s].attempt))
      BY <1>2, <1>3, <2>1, LeasedAllowed, RowTypes
    <2>3. Allowed(s, row)
      BY <1>7, <2>2
    <2> HIDE DEF row
    <2> QED BY <1>5, <2>1, <2>3
  <1>11. ASSUME NEW s \in Slots, Complete(w, s, t) PROVE Moves
    <2>1. CASE Writes(s, ExpiredRow(s, t)) /\ Remember(w, None, t)
      BY <1>5, <1>7, <2>1
    <2>2. CASE /\ ~Missed(s, t) /\ Decided(s)
               /\ Writes(s, EndedRow(s, "COMPLETED", t)) /\ Remember(w, None, t)
      <3>1. InTime(s, t)
        BY <1>2, <1>3, <2>2, RowTypes DEF Missed, InTime
      <3>2. Allowed(s, EndedRow(s, "COMPLETED", t))
        BY <1>2, <1>3, <2>2, <3>1, EndedAllowed DEF Terminal
      <3> QED BY <1>5, <2>2, <3>2
    <2> QED BY <1>11, <2>1, <2>2 DEF Complete
  <1>12. ASSUME NEW s \in Slots, Fail(w, s, t) PROVE Moves
    <2>1. Allowed(s, EndedRow(s, "FAILED", t))
      BY <1>2, <1>3, EndedAllowed DEF Terminal
    <2> QED BY <1>5, <1>12, <2>1 DEF Fail
  <1>13. CASE RecoverClaims(w, t)
    <2>1. PICK ss \in SUBSET Slots, s \in Slots :
            /\ slot' = [q \in Slots |-> IF q \in ss THEN Claimed(q, w, t) ELSE slot[q]]
            /\ Remember(w, IF slot'[s].state = "CLAIMED" THEN s ELSE None, t)
            /\ UNCHANGED <<now, signal, sched, crashes>>
      BY <1>13 DEF RecoverClaims
    <2>2. RowMoves
      BY <1>2, <1>6, <2>1, KeptAllowed DEF RowMoves
    <2>3. MindMoves
      <3> DEFINE r == IF slot'[s].state = "CLAIMED" THEN s ELSE None
      <3>1. mind' = [mind EXCEPT ![w] = [slot |-> r, at |-> t]]
        BY <2>1 DEF Remember
      <3>2. r \in Slots \cup {None} /\ (r \in Slots => slot'[r].state \in Engaged)
        BY <1>3, <2>1 DEF Engaged
      <3> HIDE DEF r
      <3> QED BY <1>2, <1>3, <2>1, <3>1, <3>2, OneMind
    <2> QED BY <1>4, <2>1, <2>2, <2>3
  <1> QED BY <1>1, <1>8, <1>9, <1>10, <1>11, <1>12, <1>13

\* Every step of the system.
LEMMA StepMoves == ASSUME SlotsInv, [Next]_vars PROVE Moves
  <1>1. now \in Time /\ now \in Nat /\ crashes \in 0..MaxCrashes
    BY DEF SlotsInv, TypeOK, Time
  <1>2. CASE UNCHANGED vars
    BY <1>1, <1>2, NoRow, NoSignal, NoCycleMove, NoMind DEF vars, Moves
  <1>3. CASE Tick
    <2>1. now' \in Time /\ now <= now' /\ UNCHANGED <<slot, signal, sched, mind, crashes>>
      BY <1>1, <1>3, SlotsAssumption DEF SlotsAssumption, Tick, Time
    <2> QED BY <1>1, <2>1, NoRow, NoSignal, NoCycleMove, NoMind DEF Moves
  <1>4. ASSUME NEW s \in Slots, Skip(s) PROVE Moves
    <2>1. Allowed(s, EndedRow(s, "SKIPPED", now))
      BY <1>1, EndedAllowed DEF SlotsInv, Terminal
    <2>2. /\ slot' = [slot EXCEPT ![s] = EndedRow(s, "SKIPPED", now)]
          /\ UNCHANGED <<now, signal, sched, mind, crashes>>
      BY <1>4 DEF Skip, Writes
    <2>3. RowMoves
      BY <2>1, <2>2, OneRow
    <2> QED BY <1>1, <2>2, <2>3, NoSignal, NoCycleMove, NoMind DEF Moves
  <1> QED BY <1>2, <1>3, <1>4, CycleStepMoves, DecisionMoves, WorkerStepMoves DEF Next, Minds
-----------------------------------------------------------------------------
(***************************************************************************)
(* Theorems.                                                               *)
(***************************************************************************)
\* The invariant holds in every reachable state.
THEOREM SlotsSafe == Spec => []SlotsInv
  <1>1. SlotsInv /\ [Next]_vars => SlotsInv'
    BY StepMoves, MovesKeepInv
  <1> QED BY SlotsInitially, <1>1, PTL DEF Spec

\* Every row that a transaction writes passes the validation of DecisionSlot,
\* and every value has its type.
THEOREM SlotTypes == Spec => []TypeOK
  <1>1. SlotsInv => TypeOK
    BY DEF SlotsInv
  <1> QED BY <1>1, SlotsSafe, PTL

\* A slot is COMPLETED only when its decision was materialized, and at an
\* instant within its limit: by complete, or by a claim that finds the decision.
THEOREM CompletedSafe == Spec => []CompletedInTime
  <1>1. SlotsInv => CompletedInTime
    BY DEF SlotsInv
  <1> QED BY <1>1, SlotsSafe, PTL

\* No call takes a slot from an owner whose lease has not run out, however far
\* the instant that it passes lags behind.
THEOREM LeaseSafe == Spec => LiveLeaseRespected
  <1>1. SlotsInv /\ [Next]_vars =>
          [\A s \in Slots : Live(s, now) /\ slot'[s].state = "CLAIMED" =>
             slot'[s].owner = slot[s].owner /\ slot'[s].attempt = slot[s].attempt]_vars
    BY StepMoves DEF Moves, RowMoves, Allowed
  <1> QED BY <1>1, SlotsSafe, PTL DEF Spec, LiveLeaseRespected

\* No call claims an entry slot again once its decision is materialized.
THEOREM ReclaimSafe == Spec => DecidedNotReclaimed
  <1>1. SlotsInv /\ [Next]_vars =>
          [\A s \in Slots \ Forced : Decided(s) => slot'[s].attempt = slot[s].attempt]_vars
    BY StepMoves DEF Moves, RowMoves, Allowed
  <1> QED BY <1>1, SlotsSafe, PTL DEF Spec, DecidedNotReclaimed
-----------------------------------------------------------------------------
(***************************************************************************)
(* The calendar of DerivedData.                                            *)
(***************************************************************************)
\* The sizes of a session, of a bucket and of the whole calendar.
LEMMA Sizes ==
  /\ SessionMinutes \in Nat \ {0} /\ Days \in Nat \ {0} /\ DayLength \in Nat /\ DayLength = SessionMinutes + 1
  /\ BucketMinutes \in Nat \ {0} /\ BucketMinutes <= SessionMinutes
  /\ \A f \in Frames : Length(f) \in Nat \ {0} /\ Length(f) <= SessionMinutes
  /\ Horizon \in Nat /\ Horizon = Days * DayLength
  /\ Length("1Min") = 1 /\ Length("15Min") = BucketMinutes
BY DerivedAssumption DEF DayLength, Length, Frames, Horizon

\* Quotient and remainder.
LEMMA DivMod ==
  ASSUME NEW t \in Nat, NEW l \in Nat \ {0}
  PROVE  /\ t \div l \in Nat /\ t % l \in 0..(l - 1)
         /\ t = l * (t \div l) + (t % l)
<1>1. t = l * (t \div l) + (t % l)
  BY SMTT(30)
<1>2. t % l \in 0..(l - 1)
  BY SMTT(30)
<1>3. t \div l \in Nat
  BY SMTT(30)
<1> QED
  BY <1>1, <1>2, <1>3

\* The quotient and the remainder that a sum was made of.
LEMMA DivIs ==
  ASSUME NEW d \in Nat, NEW l \in Nat \ {0}, NEW x \in 0..(l - 1)
  PROVE  (d * l + x) \div l = d /\ (d * l + x) % l = x
<1>1. (d * l + x) \div l = d
  BY SMTT(30)
<1>2. d * l + x \in Nat
  BY SMTT(30)
<1>3. d * l + x = l * d + ((d * l + x) % l)
  BY <1>1, <1>2, DivMod
<1>4. (d * l + x) % l \in Nat /\ d * l \in Nat /\ l * d = d * l
  BY <1>2, DivMod, SMTT(30)
<1> QED
  BY <1>1, <1>3, <1>4

\* A session opens, closes, and is followed by the next day.
LEMMA OpenFacts ==
  ASSUME NEW d \in Nat \ {0}
  PROVE  /\ Open(d) \in Nat /\ Close(d) = Open(d) + SessionMinutes /\ Close(d) \in Nat
         /\ Open(d + 1) = Open(d) + DayLength /\ Open(d + 1) = Close(d) + 1
<1> DEFINE L == DayLength
<1>1. L \in Nat /\ L = SessionMinutes + 1 /\ SessionMinutes \in Nat
  BY Sizes
<1> HIDE DEF L
<1>2. (d - 1) * L \in Nat /\ ((d + 1) - 1) * L = (d - 1) * L + L
  BY <1>1, SMTT(30)
<1> QED
  BY <1>1, <1>2 DEF Open, Close, L

\* The first session opens at 0.
LEMMA FirstOpen == Open(1) = 0
<1>1. DayLength \in Nat
  BY Sizes
<1>2. 0 * DayLength = 0
  BY <1>1, SMTT(30)
<1> QED
  BY <1>2 DEF Open

\* Sessions do not overlap.
LEMMA OpenMono ==
  ASSUME NEW d \in Nat \ {0}, NEW e \in Nat \ {0}, d < e
  PROVE  Close(d) + 1 <= Open(e)
<1> DEFINE L == DayLength
<1>1. L \in Nat /\ L = SessionMinutes + 1 /\ SessionMinutes \in Nat
  BY Sizes
<1> HIDE DEF L
<1>2. (d - 1) * L \in Nat /\ (e - 1) * L \in Nat /\ (d - 1) * L + L <= (e - 1) * L
  BY <1>1, SMTT(30)
<1> QED
  BY <1>1, <1>2 DEF Open, Close, L

\* Every moment lies in its day.
LEMMA DayFacts ==
  ASSUME NEW t \in Nat
  PROVE  /\ Day(t) \in Nat \ {0} /\ Open(Day(t)) <= t /\ t <= Close(Day(t))
         /\ t % DayLength = t - Open(Day(t))
<1> DEFINE L == DayLength
<1>1. L \in Nat \ {0} /\ L = SessionMinutes + 1 /\ SessionMinutes \in Nat
  BY Sizes
<1>2. t \div L \in Nat /\ t % L \in 0..(L - 1) /\ t = L * (t \div L) + (t % L)
  BY <1>1, DivMod
<1> HIDE DEF L
<1>3. ((t \div L + 1) - 1) * L = L * (t \div L) /\ L * (t \div L) \in Nat
  BY <1>1, <1>2, SMTT(30)
<1> QED
  BY <1>1, <1>2, <1>3 DEF Day, Open, Close, L

\* A moment between the open and the close of a day is of that day.
LEMMA DayIs ==
  ASSUME NEW d \in Nat \ {0}, NEW t \in Nat, Open(d) <= t, t <= Close(d)
  PROVE  Day(t) = d
<1>0. /\ Day(t) \in Nat \ {0} /\ Open(Day(t)) <= t /\ t <= Close(Day(t))
      /\ Open(Day(t)) \in Nat /\ Close(Day(t)) \in Nat /\ Open(d) \in Nat /\ Close(d) \in Nat
  BY DayFacts, OpenFacts
<1>1. ~(Day(t) < d)
  <2> SUFFICES ASSUME Day(t) < d PROVE FALSE
    OBVIOUS
  <2>1. Close(Day(t)) + 1 <= Open(d)
    BY <1>0, OpenMono
  <2> QED
    BY <1>0, <2>1
<1>2. ~(d < Day(t))
  <2> SUFFICES ASSUME d < Day(t) PROVE FALSE
    OBVIOUS
  <2>1. Close(d) + 1 <= Open(Day(t))
    BY <1>0, OpenMono
  <2> QED
    BY <1>0, <2>1
<1> QED
  BY <1>0, <1>1, <1>2

\* A later moment is of no earlier day.
LEMMA DayMono ==
  ASSUME NEW t \in Nat, NEW u \in Nat, t <= u
  PROVE  Day(t) <= Day(u)
<1>0. /\ Day(t) \in Nat \ {0} /\ Open(Day(t)) <= t /\ Open(Day(t)) \in Nat
      /\ Day(u) \in Nat \ {0} /\ u <= Close(Day(u)) /\ Close(Day(u)) \in Nat
  BY DayFacts, OpenFacts
<1> SUFFICES ASSUME Day(u) < Day(t) PROVE FALSE
  BY <1>0
<1>1. Close(Day(u)) + 1 <= Open(Day(t))
  BY <1>0, OpenMono
<1> QED
  BY <1>0, <1>1

\* The calendar is the days 1 to Days.
LEMMA LastDay ==
  /\ \A d \in 1..Days : Open(d + 1) <= Horizon
  /\ Open(Days + 1) = Horizon
  /\ \A t \in Nat : t < Horizon => Day(t) \in 1..Days
<1>1. ((Days + 1) - 1) * DayLength = Horizon
  BY Sizes, SMTT(30)
<1>2. Open(Days + 1) = Horizon
  BY <1>1 DEF Open
<1>3. \A d \in 1..Days : Open(d + 1) <= Horizon
  <2> TAKE d \in 1..Days
  <2>1. CASE d = Days
    BY <2>1, <1>2, Sizes
  <2>2. CASE d < Days
    <3>1. d + 1 \in Nat \ {0} /\ Days + 1 \in Nat \ {0} /\ d + 1 < Days + 1
      BY <2>2, Sizes
    <3>2. Close(d + 1) + 1 <= Open(Days + 1)
      BY <3>1, OpenMono
    <3>3. Close(d + 1) = Open(d + 1) + SessionMinutes /\ Open(d + 1) \in Nat /\ Horizon \in Nat
      BY <3>1, OpenFacts, Sizes
    <3> QED
      BY <3>2, <3>3, <1>2, Sizes
  <2> QED
    BY <2>1, <2>2, Sizes
<1>4. \A t \in Nat : t < Horizon => Day(t) \in 1..Days
  <2> SUFFICES ASSUME NEW t \in Nat, t < Horizon, ~(Day(t) \in 1..Days) PROVE FALSE
    OBVIOUS
  <2>1. Day(t) \in Nat \ {0} /\ Open(Day(t)) <= t /\ Open(Day(t)) \in Nat
    BY DayFacts, OpenFacts
  <2>2. Day(t) > Days
    BY <2>1, Sizes
  <2>3. Close(Days) + 1 <= Open(Day(t))
    BY <2>1, <2>2, OpenMono, Sizes
  <2>4. Close(Days) + 1 = Horizon
    BY <1>2, OpenFacts, Sizes
  <2> QED
    BY <2>1, <2>3, <2>4, Sizes
<1> QED
  BY <1>2, <1>3, <1>4

(***************************************************************************)
(* Its sets of numbers, queue rows, intervals and ranges.                  *)
(***************************************************************************)
\* The least of a set of numbers.
LEMMA LeastIs ==
  ASSUME NEW S \in SUBSET Nat, S # {}
  PROVE  Least(S) \in S /\ \A y \in S : Least(S) <= y
  <1> DEFINE R == OpToRel(<, Nat)
  <1>1. R = {ss \in Nat \X Nat : ss[1] < ss[2]}
    BY DEF OpToRel
  <1>2. IsWellFoundedOn(R, Nat)
    BY NatLessThanWellFounded, ZenonT(30)
  <1> HIDE DEF R
  <1>3. PICK m \in S : \A r \in S : ~(<<r, m>> \in R)
    BY <1>2, WFMin
  <1>4. \A r \in S : m <= r
    <2> TAKE r \in S
    <2>1. <<r, m>> \in Nat \X Nat
      OBVIOUS
    <2> QED BY <1>1, <1>3, <2>1
  <1> QED BY <1>4 DEF Least

\* The greatest of a bounded set of numbers.
LEMMA MostIs ==
  ASSUME NEW n \in Nat, NEW S \in SUBSET (0..n), S # {}
  PROVE  Most(S) \in S /\ \A y \in S : y <= Most(S)
  <1> DEFINE T == {n - y : y \in S}
  <1>0. \A y \in S : n - y \in Nat
    OBVIOUS
  <1>1. T \in SUBSET Nat /\ T # {}
    BY <1>0
  <1>2. PICK m \in T : \A y \in T : m <= y
    <2> HIDE DEF T
    <2> QED BY <1>1, LeastIs
  <1>3. PICK x \in S : m = n - x
    BY <1>2
  <1>4. \A y \in S : y <= x
    <2> TAKE y \in S
    <2>1. n - y \in T
      OBVIOUS
    <2>2. m <= n - y
      BY <1>2, <2>1
    <2> QED BY <1>3, <2>2
  <1>5. \A y \in S : x >= y
    BY <1>4
  <1>6. Most(S) \in S /\ \A y \in S : Most(S) >= y
    BY <1>5 DEF Most
  <1> QED BY <1>6

\* The greater of two numbers.
LEMMA MostOfTwo ==
  ASSUME NEW a \in Nat, NEW b \in Nat
  PROVE  Most({a, b}) = IF a >= b THEN a ELSE b
  <1>1. PICK n \in Nat : a <= n /\ b <= n
    <2>1. a + b \in Nat /\ a <= a + b /\ b <= a + b
      OBVIOUS
    <2> QED BY <2>1
  <1>2. {a, b} \in SUBSET (0..n)
    BY <1>1
  <1>3. Most({a, b}) \in {a, b} /\ \A y \in {a, b} : y <= Most({a, b})
    BY <1>2, MostIs
  <1> QED BY <1>3

\* The lesser of two numbers.
LEMMA LeastOfTwo ==
  ASSUME NEW a \in Nat, NEW b \in Nat
  PROVE  Least({a, b}) = IF a <= b THEN a ELSE b
  <1>1. {a, b} \in SUBSET Nat
    OBVIOUS
  <1>2. Least({a, b}) \in {a, b} /\ \A y \in {a, b} : Least({a, b}) <= y
    BY <1>1, LeastIs
  <1> QED BY <1>2

\* Every set of queue rows has a first and, if it is finite in days, a last one.
QueueRow(i) == i.sym \in Symbols /\ i.day \in 1..Days

\* The first of a set of queue rows is one of them, and none is before it.
LEMMA FirstIs ==
  ASSUME NEW S, S # {}, \A i \in S : QueueRow(i)
  PROVE  FirstOf(S) \in S /\ \A j \in S : ~Before(j, FirstOf(S))
  <1> DEFINE D == {i.day : i \in S}
             d == Least(D)
             Q == {i.sym : i \in {j \in S : j.day = d}}
             q == Least(Q)
  <1>1. Symbols \subseteq Nat
    BY DerivedAssumption
  <1>2. D \in SUBSET Nat /\ D # {}
    BY DEF QueueRow
  <1>3. d \in D /\ \A y \in D : d <= y
    <2> HIDE DEF D
    <2> QED BY <1>2, LeastIs
  <1> HIDE DEF d
  <1>4. Q \in SUBSET Nat /\ Q # {}
    BY <1>1, <1>3 DEF QueueRow
  <1>5. q \in Q /\ \A y \in Q : q <= y
    <2> HIDE DEF Q
    <2> QED BY <1>4, LeastIs
  <1> HIDE DEF q
  <1>6. PICK i \in S : i.day = d /\ i.sym = q
    BY <1>5
  <1>7. \A j \in S : ~Before(j, i)
    <2> SUFFICES ASSUME NEW j \in S, Before(j, i) PROVE FALSE
      OBVIOUS
    <2>1. j.day \in D /\ j.day \in Nat /\ d \in Nat /\ j.sym \in Nat /\ q \in Nat
      BY <1>1, <1>2, <1>3, <1>4, <1>5 DEF QueueRow
    <2>2. j.day = d /\ j.sym < q
      <3>1. j.day < d \/ (j.day = d /\ j.sym < q)
        BY <1>6 DEF Before
      <3>2. d <= j.day
        BY <1>3, <2>1
      <3> HIDE DEF D, Q
      <3> QED BY <2>1, <3>1, <3>2
    <2>3. j.sym \in Q
      BY <2>2
    <2> HIDE DEF Q
    <2>4. q <= j.sym
      BY <1>5, <2>3
    <2> QED BY <2>1, <2>2, <2>4
  <1> QED BY <1>7 DEF FirstOf

\* The last row of a symbol is one of its rows.
LEMMA LastIs ==
  ASSUME NEW m, Its(m) # {}, \A i \in m.items : QueueRow(i)
  PROVE  LastItem(m) \in Its(m)
  <1> DEFINE S == Its(m)
             D == {i.day : i \in S}
             d == Most(D)
  <1>1. \A i \in S : QueueRow(i) /\ i.sym = m.sym
    BY DEF Its
  <1>0. Days \in Nat /\ Symbols \subseteq Nat
    BY DerivedAssumption
  <1>2. D \in SUBSET (0..Days) /\ D # {}
    BY <1>0, <1>1 DEF QueueRow
  <1>2a. \A y \in D : y \in Nat
    BY <1>0, <1>1 DEF QueueRow
  <1>3. d \in D /\ \A y \in D : y <= d
    <2> HIDE DEF D
    <2> QED BY <1>0, <1>2, MostIs
  <1> HIDE DEF d
  <1>4. PICK i \in S : i.day = d
    BY <1>3
  <1>5. \A j \in S : ~Before(i, j)
    <2> SUFFICES ASSUME NEW j \in S, Before(i, j) PROVE FALSE
      OBVIOUS
    <2>a. j.day \in D
      OBVIOUS
    <2> HIDE DEF D, S
    <2>0. QueueRow(j) /\ QueueRow(i) /\ j.sym = i.sym /\ j.day \in D
      BY <1>1, <2>a
    <2>1. j.day <= d
      BY <2>0, <1>3
    <2>2. j.day \in Nat /\ d \in Nat
      BY <2>0, <1>2a, <1>3
    <2>3. i.sym \in Nat
      BY <2>0, <1>0 DEF QueueRow
    <2> QED BY <1>4, <2>0, <2>1, <2>2, <2>3 DEF Before
  <1> QED BY <1>4, <1>5 DEF LastItem

On(f, d) == {t \in Intervals[f] : Day(t) = d}

\* An interval lies in the session of its day.
LEMMA IntervalFacts ==
  ASSUME NEW f \in Frames, NEW t \in Intervals[f]
  PROVE  /\ t \in Nat /\ t < Horizon /\ Day(t) \in 1..Days
         /\ Open(Day(t)) <= t /\ t + Length(f) <= Close(Day(t)) /\ t + Length(f) <= Horizon
         /\ (t - Open(Day(t))) % Length(f) = 0
  <1>1. /\ t \in 0..(Horizon - 1) /\ (t % DayLength) % Length(f) = 0
        /\ (t % DayLength) + Length(f) <= SessionMinutes
    BY DEF Intervals
  <1>2. t \in Nat /\ t < Horizon /\ Horizon \in Nat
    BY <1>1, Sizes
  <1>3. Day(t) \in 1..Days
    BY <1>2, LastDay
  <1>4. /\ Open(Day(t)) <= t /\ t <= Close(Day(t)) /\ t % DayLength = t - Open(Day(t))
        /\ Close(Day(t)) = Open(Day(t)) + SessionMinutes /\ Open(Day(t)) \in Nat
        /\ Close(Day(t)) + 1 <= Horizon
    BY <1>2, <1>3, DayFacts, OpenFacts, LastDay
  <1>5. Length(f) \in Nat /\ SessionMinutes \in Nat
    BY Sizes
  <1>6. t + Length(f) <= Close(Day(t))
    BY <1>1, <1>2, <1>4, <1>5
  <1>7. t + Length(f) <= Horizon
    BY <1>2, <1>4, <1>5, <1>6
  <1> QED BY <1>1, <1>2, <1>3, <1>4, <1>6, <1>7

\* An interval is wholly before, in, or after a session.
LEMMA Sides ==
  ASSUME NEW f \in Frames, NEW t \in Intervals[f], NEW d \in Nat \ {0}
  PROVE  /\ Day(t) < d => t + Length(f) < Open(d)
         /\ d < Day(t) => Close(d) < t
         /\ t < Open(d) => Day(t) < d
         /\ Open(d) <= t => d <= Day(t)
         /\ t + Length(f) <= Close(d) => Day(t) <= d
         /\ Day(t) <= d => t + Length(f) <= Close(d)
  <1> DEFINE e == Day(t)  x == Length(f)
  <1>1. /\ t \in Nat /\ e \in Nat \ {0} /\ Open(e) <= t /\ t + x <= Close(e) /\ x \in Nat \ {0}
        /\ Open(d) \in Nat /\ Close(d) \in Nat /\ Open(e) \in Nat /\ Close(e) \in Nat
        /\ Close(d) = Open(d) + SessionMinutes /\ SessionMinutes \in Nat
    BY IntervalFacts, OpenFacts, Sizes
  <1>2. e < d => Close(e) + 1 <= Open(d)
    BY <1>1, OpenMono
  <1>3. d < e => Close(d) + 1 <= Open(e)
    BY <1>1, OpenMono
  <1>4. e = d => Close(e) = Close(d) /\ Open(e) = Open(d)
    OBVIOUS
  <1> HIDE DEF e, x
  <1>5. e < d => t + x < Open(d)
    BY <1>1, <1>2
  <1>6. d < e => Close(d) < t
    BY <1>1, <1>3
  <1>7. t < Open(d) => e < d
    BY <1>1, <1>4, <1>6
  <1>8. Open(d) <= t => d <= e
    BY <1>1, <1>5
  <1>9. t + x <= Close(d) => e <= d
    BY <1>1, <1>6
  <1>10. e <= d => t + x <= Close(d)
    BY <1>1, <1>4, <1>5
  <1> QED BY <1>5, <1>6, <1>7, <1>8, <1>9, <1>10 DEF e, x

\* The expected intervals of a part of a session.
LEMMA ExpectedOn ==
  ASSUME NEW f \in Frames, NEW d \in 1..Days, NEW e \in Nat, e <= Close(d)
  PROVE  /\ Expected(f, Open(d), e) = {t \in On(f, d) : t + Length(f) <= e}
  <1>1. /\ d \in Nat \ {0} /\ Close(d) \in Nat /\ \A t \in Intervals[f] : t + Length(f) \in Nat
    BY OpenFacts, IntervalFacts, Sizes
  <1>2. ASSUME NEW t \in Intervals[f], Open(d) <= t, t + Length(f) <= e PROVE Day(t) = d
    <2>1. t + Length(f) <= Close(d)
      BY <1>1, <1>2
    <2>2. d <= Day(t) /\ Day(t) <= d /\ Day(t) \in Nat
      BY <1>1, <1>2, <2>1, Sides, IntervalFacts
    <2> QED BY <1>1, <2>2
  <1>3. ASSUME NEW t \in Intervals[f], Day(t) = d PROVE Open(d) <= t
    BY <1>3, IntervalFacts
  <1> QED BY <1>2, <1>3 DEF Expected, On

\* The expected intervals up to the start of a session, and up to a later moment.
LEMMA ExpectedUpTo ==
  ASSUME NEW f \in Frames, NEW d \in Nat \ {0}, NEW e \in Nat, Open(d) <= e
  PROVE  /\ Expected(f, 0, Open(d)) = {t \in Expected(f, 0, e) : t < Open(d)}
         /\ Expected(f, 0, Open(d)) = {t \in Intervals[f] : Day(t) < d}
         /\ Expected(f, 0, e) = Expected(f, 0, Open(d)) \cup Expected(f, Open(d), e)
  <1>1. Open(d) \in Nat /\ \A t \in Intervals[f] : t \in Nat /\ t + Length(f) \in Nat /\ t < t + Length(f)
    BY OpenFacts, IntervalFacts, Sizes
  <1>2. \A t \in Intervals[f] : t < Open(d) => t + Length(f) < Open(d)
    BY Sides
  <1>3. \A t \in Intervals[f] : t < Open(d) <=> Day(t) < d
    <2> TAKE t \in Intervals[f]
    <2>1. Day(t) < d => t + Length(f) < Open(d)
      BY Sides
    <2>2. t < Open(d) => Day(t) < d
      BY Sides
    <2> QED BY <1>1, <2>1, <2>2
  <1>4. \A t \in Intervals[f] : t + Length(f) <= Open(d) <=> t < Open(d)
    BY <1>1, <1>2
  <1>5. \A t \in Intervals[f] : t + Length(f) <= Open(d) => t + Length(f) <= e
    BY <1>1
  <1>6. \A t \in Intervals[f] : 0 <= t
    BY <1>1
  <1>7. \A t \in Intervals[f] : ~(t < Open(d)) <=> Open(d) <= t
    BY <1>1
  <1> QED BY <1>3, <1>4, <1>5, <1>6, <1>7 DEF Expected

\* The minutes of a bucket are intervals of its session.
LEMMA Minutes ==
  ASSUME NEW b \in Intervals["15Min"], NEW i \in 1..BucketMinutes
  PROVE  /\ b + i - 1 \in Intervals["1Min"] /\ Day(b + i - 1) = Day(b)
         /\ b + i - 1 < b + BucketMinutes
  <1> DEFINE u == b + i - 1  d == Day(b)
  <1>1. /\ b \in Nat /\ d \in 1..Days /\ Open(d) <= b /\ b + BucketMinutes <= Close(d)
        /\ b + BucketMinutes <= Horizon
    BY IntervalFacts, Sizes DEF Frames
  <1>2. BucketMinutes \in Nat /\ Horizon \in Nat /\ DayLength \in Nat /\ SessionMinutes \in Nat /\ Days \in Nat
    BY Sizes
  <1>3. Open(d) \in Nat /\ Close(d) = Open(d) + SessionMinutes
    BY <1>1, <1>2, OpenFacts
  <1> HIDE DEF d
  <1>4. u \in Nat /\ Open(d) <= u /\ u + 1 <= Close(d) /\ u + 1 <= Horizon /\ d \in Nat \ {0}
    BY <1>1, <1>2, <1>3
  <1> HIDE DEF u
  <1>5. Day(u) = d
    BY <1>2, <1>3, <1>4, DayIs
  <1>6. u % DayLength = u - Open(d)
    BY <1>4, <1>5, DayFacts
  <1>7. (u % DayLength) % 1 = 0 /\ u % DayLength \in Nat
    <2>1. u - Open(d) \in Nat
      BY <1>3, <1>4
    <2>2. (u - Open(d)) % 1 = 0
      BY <2>1, SMTT(30)
    <2> QED BY <1>6, <2>1, <2>2
  <1>8. (u % DayLength) + 1 <= SessionMinutes
    BY <1>2, <1>3, <1>4, <1>6
  <1>9. u \in 0..(Horizon - 1)
    BY <1>2, <1>4
  <1>10. "1Min" \in Frames /\ Length("1Min") = 1
    BY Sizes DEF Frames
  <1>11. u \in Intervals["1Min"]
    BY <1>7, <1>8, <1>9, <1>10 DEF Intervals
  <1>12. u < b + BucketMinutes
    BY <1>1, <1>2 DEF u
  <1> QED BY <1>5, <1>11, <1>12 DEF u, d

\* Intervals of a session are the length of the timeframe apart.
LEMMA Aligned ==
  ASSUME NEW f \in Frames, NEW a \in Intervals[f], NEW b \in Intervals[f],
         Day(a) = Day(b), a < b + Length(f)
  PROVE  a <= b
  <1> DEFINE n == Length(f)  o == Open(Day(a))
  <1>1. /\ a \in Nat /\ b \in Nat /\ n \in Nat \ {0} /\ o \in Nat /\ o <= a /\ o <= b
        /\ (a - o) % n = 0 /\ (b - o) % n = 0
    BY IntervalFacts, OpenFacts, Sizes
  <1> HIDE DEF n, o
  <1>2. a - o \in Nat /\ b - o \in Nat
    BY <1>1
  <1>3. a - o = n * ((a - o) \div n) + 0 /\ (a - o) \div n \in Nat
    BY <1>1, <1>2, DivMod
  <1>4. b - o = n * ((b - o) \div n) + 0 /\ (b - o) \div n \in Nat
    BY <1>1, <1>2, DivMod
  <1>5. PICK i \in Nat : a - o = n * i
    BY <1>3, <1>1
  <1>6. PICK j \in Nat : b - o = n * j
    <2>1. PICK j \in Nat : b - o = n * j + 0
      BY <1>4
    <2>2. n * j + 0 = n * j
      BY <1>1
    <2> QED BY <2>1, <2>2
  <1>7. n * i < n * j + n
    BY <1>1, <1>2, <1>5, <1>6 DEF n
  <1>8. i <= j
    <2> SUFFICES ASSUME j + 1 <= i PROVE FALSE
      OBVIOUS
    <2>1. n * j + n <= n * i
      BY <1>1, SMTT(30)
    <2>2. n * i \in Int /\ n * j \in Int
      BY <1>1
    <2> QED BY <1>1, <1>7, <2>1, <2>2
  <1>9. n * i <= n * j
    BY <1>1, <1>8, SMTT(30)
  <1> QED BY <1>1, <1>2, <1>5, <1>6, <1>9

\* A gap's range is of one session, and over each interval in it.
LEMMA RangeFacts ==
  ASSUME NEW f \in Frames, NEW r \in Ranges[f]
  PROVE  /\ r = <<r[1], r[2]>> /\ r[1] \in Intervals[f] /\ r[2] - Length(f) \in Intervals[f]
         /\ r[1] \in Nat /\ r[2] \in Nat /\ r[1] < r[2] /\ r[1] + Length(f) <= r[2]
         /\ Day(r[1]) \in 1..Days /\ Open(Day(r[1])) <= r[1] /\ r[2] <= Close(Day(r[1]))
         /\ Day(r[2] - Length(f)) = Day(r[1])
         /\ r[1] \in Expected(f, r[1], r[2])
         /\ \A t \in Expected(f, r[1], r[2]) : t \in On(f, Day(r[1])) /\ r \in Over(f, t, {r})
  <1>1. PICK a \in Intervals[f], b \in Intervals[f] : r = <<a, b + Length(f)>>
    BY DEF Ranges
  <1>2. r[1] < r[2] /\ Day(r[1]) = Day(r[2] - 1)
    BY DEF Ranges
  <1>3. Length(f) \in Nat \ {0}
    BY Sizes
  <1>4. /\ a \in Nat /\ b \in Nat /\ Day(a) \in 1..Days /\ Day(b) \in 1..Days
        /\ Open(Day(a)) <= a /\ Open(Day(b)) <= b /\ b + Length(f) <= Close(Day(b))
    BY IntervalFacts
  <1>5. r[1] = a /\ r[2] = b + Length(f)
    BY <1>1
  <1>6. Day(r[2] - 1) = Day(b)
    <2> DEFINE u == r[2] - 1  d == Day(b)
    <2>0. d \in Nat \ {0} /\ Close(d) \in Nat /\ Open(d) \in Nat /\ b + Length(f) <= Close(d) /\ Open(d) <= b
      BY <1>4, OpenFacts, DerivedAssumption
    <2> HIDE DEF d
    <2>1. u \in Nat /\ Open(d) <= u /\ u <= Close(d)
      BY <1>3, <1>4, <1>5, <2>0
    <2> HIDE DEF u
    <2>2. Day(u) = d
      BY <2>0, <2>1, DayIs
    <2> QED BY <2>2 DEF u, d
  <1>7. Day(a) = Day(b) /\ a < b + Length(f)
    BY <1>2, <1>5, <1>6
  <1>8. a <= b
    BY <1>7, Aligned
  <1>9. r[2] - Length(f) = b
    BY <1>3, <1>4, <1>5
  <1>10. r[1] + Length(f) <= r[2] /\ r[2] \in Nat
    BY <1>3, <1>4, <1>5, <1>8
  <1>11. r[1] \in Expected(f, r[1], r[2])
    BY <1>3, <1>4, <1>5, <1>10 DEF Expected
  <1>12. ASSUME NEW t \in Expected(f, r[1], r[2]) PROVE t \in On(f, Day(r[1])) /\ r \in Over(f, t, {r})
    <2>1. t \in Intervals[f] /\ a <= t /\ t + Length(f) <= b + Length(f) /\ t \in Nat
      BY <1>5, IntervalFacts DEF Expected
    <2>2. Day(a) <= Day(t) /\ Day(t) <= Day(b) /\ Day(t) \in Nat
      BY <1>3, <1>4, <2>1, DayMono, IntervalFacts
    <2>3. Day(t) = Day(a)
      BY <1>4, <1>7, <2>2, DerivedAssumption
    <2>4. r[1] < t + Length(f) /\ r[2] > t
      BY <1>3, <1>4, <1>5, <2>1
    <2> QED BY <1>5, <2>1, <2>3, <2>4 DEF On, Over
  <1>13. r[2] <= Close(Day(r[1]))
    BY <1>4, <1>5, <1>7
  <1>14. r = <<r[1], r[2]>> /\ r[1] \in Intervals[f] /\ r[2] - Length(f) \in Intervals[f]
    BY <1>1, <1>5, <1>9
  <1>15. r[1] \in Nat /\ r[2] \in Nat /\ r[1] < r[2] /\ Day(r[1]) \in 1..Days /\ Open(Day(r[1])) <= r[1]
    BY <1>2, <1>4, <1>5, <1>10
  <1>16. Day(r[2] - Length(f)) = Day(r[1])
    BY <1>5, <1>7, <1>9
  <1> QED BY <1>10, <1>11, <1>12, <1>13, <1>14, <1>15, <1>16

\* A gap of another session is not over an interval.
LEMMA OtherDay ==
  ASSUME NEW f \in Frames, NEW t \in Intervals[f], NEW r \in Ranges[f], Day(r[1]) # Day(t)
  PROVE  ~(r[1] < t + Length(f) /\ r[2] > t)
  <1> DEFINE d == Day(r[1])  e == Day(t)  x == t + Length(f)
  <1>1. /\ r[1] \in Nat /\ r[2] \in Nat /\ d \in Nat \ {0} /\ Open(d) <= r[1] /\ r[2] <= Close(d)
        /\ Open(d) \in Nat /\ Close(d) \in Nat
    <2>1. r[1] \in Nat /\ r[2] \in Nat /\ d \in 1..Days /\ Open(d) <= r[1] /\ r[2] <= Close(d)
      BY RangeFacts
    <2> HIDE DEF d
    <2>2. d \in Nat \ {0}
      BY <2>1, DerivedAssumption
    <2> QED BY <2>1, <2>2, OpenFacts
  <1>2. t \in Nat /\ x \in Nat /\ e \in Nat \ {0}
    BY IntervalFacts, Sizes
  <1>3. e < d => x < Open(d)
    BY <1>1, Sides
  <1>4. d < e => Close(d) < t
    BY <1>1, Sides
  <1>5. d < e \/ e < d
    BY <1>1, <1>2
  <1> HIDE DEF d, e, x
  <1>6. CASE e < d
    BY <1>1, <1>2, <1>3, <1>6 DEF x
  <1>7. CASE d < e
    BY <1>1, <1>2, <1>4, <1>7 DEF x
  <1> QED BY <1>5, <1>6, <1>7

\* The range from one interval of a session to another.
LEMMA RangeOf ==
  ASSUME NEW f \in Frames, NEW a \in Intervals[f], NEW b \in Intervals[f], Day(a) = Day(b), a <= b
  PROVE  <<a, b + Length(f)>> \in Ranges[f]
  <1>1. Length(f) \in Nat \ {0}
    BY Sizes
  <1>2. /\ a \in Nat /\ b \in Nat /\ Day(b) \in 1..Days /\ Open(Day(b)) <= b /\ b + Length(f) <= Close(Day(b))
    BY IntervalFacts
  <1>3. Day(b + Length(f) - 1) = Day(b)
    <2> DEFINE u == b + Length(f) - 1  d == Day(b)
    <2>0. d \in Nat \ {0} /\ Close(d) \in Nat /\ Open(d) \in Nat /\ b + Length(f) <= Close(d) /\ Open(d) <= b
      BY <1>2, OpenFacts, DerivedAssumption
    <2> HIDE DEF d
    <2>1. u \in Nat /\ Open(d) <= u /\ u <= Close(d)
      BY <1>1, <1>2, <2>0
    <2> HIDE DEF u
    <2>2. Day(u) = d
      BY <2>0, <2>1, DayIs
    <2> QED BY <2>2 DEF u, d
  <1>4. <<a, b + Length(f)>>[1] = a /\ <<a, b + Length(f)>>[2] = b + Length(f)
    OBVIOUS
  <1>5. a < b + Length(f)
    BY <1>1, <1>2
  <1>6. <<a, b + Length(f)>> \in {<<x, y + Length(f)>> : x \in Intervals[f], y \in Intervals[f]}
    OBVIOUS
  <1>7. Day(a) = Day(b + Length(f) - 1)
    BY <1>3
  <1> DEFINE r == <<a, b + Length(f)>>
  <1>8. r[1] < r[2] /\ Day(r[1]) = Day(r[2] - 1)
    <2>1. r[1] = a /\ r[2] = b + Length(f)
      OBVIOUS
    <2> HIDE DEF r
    <2>2. r[2] - 1 = b + Length(f) - 1
      BY <1>1, <1>2, <2>1
    <2>3. Day(r[2] - 1) = Day(a) /\ Day(r[1]) = Day(a)
      BY <1>7, <2>1, <2>2, Zenon
    <2> QED BY <1>5, <2>1, <2>3
  <1> HIDE DEF r
  <1>9. r \in Ranges[f]
    BY <1>6, <1>8 DEF Ranges, r
  <1> QED BY <1>9 DEF r

(***************************************************************************)
(* What is stored of a symbol, as one value: the lemmas about a step are   *)
(* about the values x before and y after it.                               *)
(***************************************************************************)
Store == [s \in Symbols |->
  [event |-> event[s], ckpt |-> ckpt[s], work |-> work[s], gap |-> gap[s], mark |-> mark[s]]]

\* _inspected_through and the unresolved gaps, of a value.
Arrived(x) == {t + 1 : t \in {u \in Intervals["1Min"] : x.event["1Min"][u] # Missing}}
Known(x, through) == Most({through, x.ckpt} \cup Arrived(x))
In(x) == Known(x, 0)
Unsolved(x, f) == {r \in Ranges[f] : x.gap[f][r] \in {"open", "repairing"}}
Now(x, f, t) == Component(f, t, x.event[f][t], Unsolved(x, f))
Dirty(x, d) == x.work[d] # NoWork

(***************************************************************************)
(* What is published and tracked, day by day: right, or the day is queued. *)
(***************************************************************************)
\* A bucket whose minutes are there is made of them.
Aggregated(x, d) ==
  \A b \in On("15Min", d) :
    (\A i \in 1..BucketMinutes : x.event["1Min"][b + i - 1] # Missing) =>
      x.event["15Min"][b] = Constituents(x.event["1Min"], b)
\* A gap over every interval that is lacking, and none over what is there.
Tracked(x, f, d) ==
  \A t \in On(f, d) : t + Length(f) <= x.ckpt /\ x.event[f][t] = Missing =>
    Over(f, t, Unsolved(x, f)) # {}
Lacking(x, f, d) ==
  \A r \in Unsolved(x, f) : Day(r[1]) = d =>
    \E t \in Expected(f, r[1], r[2]) : x.event[f][t] = Missing
Synced(x, d) == Aggregated(x, d) /\ \A f \in Frames : Tracked(x, f, d) /\ Lacking(x, f, d)

\* The watermark's components are those of now, and reach the last day inspected.
Exact(x, f, d) == \A t \in On(f, d) : t \in DOMAIN x.mark[f] => x.mark[f][t] = Now(x, f, t)
Reaches(x, f, d) ==
  In(x) > 0 /\ Day(In(x) - 1) = d => DOMAIN x.mark[f] = Expected(f, 0, In(x))
Shown(x, f, d) == Exact(x, f, d) /\ Reaches(x, f, d)
DaysDone(x) ==
  \A d \in 1..Days : Dirty(x, d) \/ (Synced(x, d) /\ \A f \in Frames : Shown(x, f, d))

SymbolTypes(x) ==
  /\ x.ckpt \in 0..Horizon
  /\ x.work \in [1..Days -> [gen : Nat, through : Nat]]
  /\ \A d \in 1..Days : x.work[d].gen = 0 => x.work[d] = NoWork
  /\ DOMAIN x.event = Frames /\ DOMAIN x.mark = Frames /\ DOMAIN x.gap = Frames
  /\ \A f \in Frames :
       /\ DOMAIN x.event[f] = Intervals[f]
       /\ x.gap[f] \in [Ranges[f] -> {"none", "open", "repairing", "resolved"}]
       /\ x.mark[f] = [t \in DOMAIN x.mark[f] |-> x.mark[f][t]]
       /\ DOMAIN x.mark[f] \subseteq Expected(f, 0, In(x))

\* No queue row and no gap goes past what is known, and a resolved gap is filled.
Bounded(x) ==
  /\ \A d \in 1..Days : x.work[d].through <= In(x)
  /\ \A f \in Frames : \A r \in Unsolved(x, f) : r[2] <= In(x)
  /\ \A f \in Frames : \A r \in Ranges[f] : x.gap[f][r] = "resolved" =>
       \A t \in Expected(f, r[1], r[2]) : x.event[f][t] # Missing

SymbolInv(x) == SymbolTypes(x) /\ Bounded(x) /\ DaysDone(x)

\* recompute_active_basket, of the values of the symbols.
BlockedIn(x, f) ==
  LET to == Through(f, x.mark[f])
  IN \/ to = 0
     \/ x.event[f][to - Length(f)] # x.mark[f][to - Length(f)].event
     \/ \E r \in Unsolved(x, f) : r[1] < to
BasketIn(X, f) ==
  IF \E s \in Symbols : BlockedIn(X[s], f) THEN [status |-> "blocked", through |-> 0]
  ELSE [status |-> "ready", through |-> Least({Through(f, X[s].mark[f]) : s \in Symbols})]
\* The basket is the one of now, or nothing was published.
Even(X, B, f) == B[f] = BasketIn(X, f) \/ \A s \in Symbols : X[s].mark[f] = <<>>
\* It is, or will be refreshed: a symbol that counts in it is queued.
BasketInv(X, B) ==
  \A f \in Frames : Even(X, B, f) \/ \E s \in Symbols, d \in 1..Days : X[s].mark[f] # <<>> /\ Dirty(X[s], d)

(***************************************************************************)
(* The drain of the lease's owner, the only one that is ever guarded.      *)
(***************************************************************************)
ItemPC == {"inspect", "read", "gaps", "aggregate"}
SymbolPC == {"fence", "start", "scan", "basket", "ack"}
Fields == {"pc", "items", "todo", "sym", "frame", "end", "obs", "fence", "at", "seen", "prefix"}
\* The queue row is of the generation selected still.
Current(X, i) == X[i.sym].work[i.day].gen = i.work.gen

DrainTypes(m) ==
  /\ DOMAIN m = Fields /\ m.pc \in {"idle"} \cup ItemPC \cup SymbolPC /\ m.frame \in Frames
  /\ m.pc \in {"idle", "inspect", "read", "aggregate", "ack"} => m.frame = "1Min"

\* What was selected is queued still, in the generation selected or a later one;
\* what was processed and has not changed since is in order.
DrainItems(m, X) ==
  /\ \A i \in m.items :
       /\ QueueRow(i) /\ i.work.gen \in Nat \ {0} /\ i.work.through \in Nat
       /\ i.work.through <= In(X[i.sym]) /\ X[i.sym].work[i.day].gen >= i.work.gen
  /\ \A i, j \in m.items : i.sym = j.sym /\ i.day = j.day => i = j
  /\ m.todo \subseteq m.items
  /\ m.pc \in ItemPC => m.todo # {}
  /\ m.pc \in SymbolPC => m.todo = {} /\ m.sym \in Symbols /\ Its(m) # {}
  /\ m.pc = "idle" => m.items = {}
  /\ \A i \in m.items \ m.todo : Current(X, i) => Synced(X[i.sym], i.day)

\* The part of the session that the item in hand is processed in.
InHand(m, i) == m.pc \in {"read", "gaps", "aggregate"} /\ i = FirstOf(m.todo)
ItemRange(x, d, end, current) ==
  /\ end \in Nat /\ Open(d) < end /\ end <= Close(d) /\ end <= In(x)
  /\ \A f \in Frames : \A r \in Unsolved(x, f) : Day(r[1]) = d => r[2] <= end
  /\ current =>
       /\ \A t \in On("1Min", d) : x.event["1Min"][t] # Missing => t + 1 <= end
       /\ \A f \in Frames : \A t \in On(f, d) : t + Length(f) <= x.ckpt => t + Length(f) <= end
DrainRange(m, X) ==
  \A i \in m.todo : InHand(m, i) => ItemRange(X[i.sym], i.day, m.end, Current(X, i))
\* What was read of it.
ItemObs(x, d, m, current) ==
  /\ DOMAIN m.obs = Expected(m.frame, Open(d), m.end)
  /\ \A t \in DOMAIN m.obs :
       /\ m.obs[t] # Missing => x.event[m.frame][t] # Missing
       /\ current \/ m.frame = "15Min" => m.obs[t] = x.event[m.frame][t]
DrainObs(m, X) ==
  \A i \in m.todo : InHand(m, i) /\ m.pc # "read" => ItemObs(X[i.sym], i.day, m, Current(X, i))
\* What was done of it.
MinutesDone(m) == m.pc = "aggregate" \/ (m.pc = "gaps" /\ m.frame = "15Min")
DrainPart(m, X) ==
  \A i \in m.todo : InHand(m, i) /\ Current(X, i) =>
    /\ MinutesDone(m) => Tracked(X[i.sym], "1Min", i.day) /\ Lacking(X[i.sym], "1Min", i.day)
    /\ m.pc = "gaps" /\ m.frame = "15Min" => Aggregated(X[i.sym], i.day)

\* The fence tells whether the symbol changed since, and the scan is right if not.
Same(m, x) == x.work = m.fence.work /\ x.ckpt = m.fence.ckpt
FenceInv(m, x) ==
  /\ \A d \in 1..Days : m.fence.work[d].gen \in Nat /\ m.fence.work[d].gen <= x.work[d].gen
  /\ m.fence.ckpt \in Nat /\ m.fence.ckpt <= x.ckpt
  /\ DOMAIN m.fence.gaps = Unsolved(x, m.frame)
DrainFence(m, X) == m.pc \in {"start", "scan"} => FenceInv(m, X[m.sym])
ScanInv(m, x) ==
  /\ m.at \in Nat /\ m.end \in Nat /\ m.at <= m.end
  /\ m.at = m.end \/ \E d \in Nat \ {0} : m.at = Open(d)
  /\ m.seen = [t \in Expected(m.frame, 0, m.at) |-> m.seen[t]]
  /\ Expected(m.frame, 0, m.end) # {}
  /\ Same(m, x) => /\ m.end = In(x)
                   /\ \A t \in Expected(m.frame, 0, m.at) : m.seen[t] = Now(x, m.frame, t)
DrainScan(m, X) == m.pc = "scan" => ScanInv(m, X[m.sym])

\* What was published and has not changed since is in order.
DoneFrames(m) ==
  {f \in Frames : \/ m.pc = "ack"
                  \/ m.pc = "basket" /\ f = m.frame
                  \/ m.pc \in {"fence", "start", "scan", "basket"} /\ m.frame = "15Min" /\ f = "1Min"}
DrainShown(m, X) ==
  \A f \in DoneFrames(m) : \A i \in Its(m) : Current(X, i) => Shown(X[m.sym], f, i.day)
DrainMark(m, X) ==
  m.pc = "basket" =>
    /\ m.end \in Nat /\ X[m.sym].mark[m.frame] = m.seen
    /\ DOMAIN m.seen = Expected(m.frame, 0, m.end) /\ DOMAIN m.seen # {}
\* Its basket is the one of now, or another queue row says that it is not.
Owed(m, X, f) ==
  \E s \in Symbols, d \in 1..Days :
    /\ X[s].mark[f] # <<>> /\ Dirty(X[s], d)
    /\ \A i \in Its(m) : i.sym = s /\ i.day = d => ~Current(X, i)
DrainBasket(m, X, B) ==
  \A f \in DoneFrames(m) : (m.pc = "basket" /\ f = m.frame) \/ Even(X, B, f) \/ Owed(m, X, f)

\* A prefix in memory is part of what was published.
PrefixInv(pre, f, shown) ==
  pre = NoPrefix \/
    /\ \E d \in Nat \ {0} : pre.resume = Open(d)
    /\ DOMAIN pre.seen = Expected(f, 0, pre.resume) /\ DOMAIN pre.seen # {}
    /\ pre.seen = [t \in DOMAIN pre.seen |-> pre.seen[t]]
    /\ \A t \in DOMAIN pre.seen : t \in DOMAIN shown /\ pre.seen[t] = shown[t]
DrainPrefix(m, X) ==
  /\ DOMAIN m.prefix = Symbols
  /\ \A s \in Symbols : DOMAIN m.prefix[s] = Frames
  /\ \A s \in Symbols, f \in Frames : PrefixInv(m.prefix[s][f], f, X[s].mark[f])
  /\ m.pc \in {"scan", "basket"} => m.prefix[m.sym][m.frame] = NoPrefix

DrainInv(m, X, B) ==
  /\ DrainTypes(m) /\ DrainItems(m, X) /\ DrainRange(m, X) /\ DrainObs(m, X) /\ DrainPart(m, X)
  /\ DrainFence(m, X) /\ DrainScan(m, X) /\ DrainShown(m, X) /\ DrainMark(m, X)
  /\ DrainBasket(m, X, B) /\ DrainPrefix(m, X)

StateTypes ==
  /\ owner \in Procs /\ DOMAIN proc = Procs /\ DOMAIN basket = Frames
  /\ DOMAIN event = Symbols /\ DOMAIN ckpt = Symbols /\ DOMAIN work = Symbols
  /\ DOMAIN gap = Symbols /\ DOMAIN mark = Symbols
DataInv(m, X, B) == (\A s \in Symbols : SymbolInv(X[s])) /\ BasketInv(X, B) /\ DrainInv(m, X, B)
DerivedInv == StateTypes /\ DataInv(proc[owner], Store, basket)

(***************************************************************************)
(* What is known of a symbol.                                              *)
(***************************************************************************)
\* _inspected_through is the latest of its argument, the checkpoint and the bars.
LEMMA KnownIs ==
  ASSUME NEW x, x.ckpt \in 0..Horizon, NEW n \in 0..Horizon
  PROVE  /\ Known(x, n) \in 0..Horizon /\ n <= Known(x, n) /\ x.ckpt <= Known(x, n)
         /\ \A u \in Intervals["1Min"] : x.event["1Min"][u] # Missing => u + 1 <= Known(x, n)
         /\ \/ Known(x, n) = n \/ Known(x, n) = x.ckpt
            \/ \E u \in Intervals["1Min"] : x.event["1Min"][u] # Missing /\ Known(x, n) = u + 1
  <1> DEFINE S == {n, x.ckpt} \cup Arrived(x)
  <1>1. Horizon \in Nat
    BY Sizes
  <1>2. \A a \in Arrived(x) : a \in 0..Horizon
    <2> SUFFICES ASSUME NEW u \in Intervals["1Min"] PROVE u + 1 \in 0..Horizon
      BY DEF Arrived
    <2>1. u \in Nat /\ u + 1 <= Horizon
      BY IntervalFacts, Sizes DEF Frames
    <2> QED BY <1>1, <2>1
  <1>3. S \in SUBSET (0..Horizon) /\ S # {}
    BY <1>2
  <1>4. Most(S) \in S /\ \A y \in S : y <= Most(S)
    <2> HIDE DEF S
    <2> QED BY <1>1, <1>3, MostIs
  <1>5. Known(x, n) = Most(S)
    BY DEF Known
  <1>6. \A u \in Intervals["1Min"] : x.event["1Min"][u] # Missing => u + 1 \in S
    BY DEF Arrived
  <1>7. n \in S /\ x.ckpt \in S /\ Known(x, n) \in S /\ \A y \in S : y <= Known(x, n)
    BY <1>4, <1>5
  <1>8. Known(x, n) \in 0..Horizon
    BY <1>3, <1>7
  <1>9. \/ Known(x, n) = n \/ Known(x, n) = x.ckpt
        \/ \E u \in Intervals["1Min"] : x.event["1Min"][u] # Missing /\ Known(x, n) = u + 1
    BY <1>7 DEF Arrived
  <1> HIDE DEF S
  <1> QED BY <1>6, <1>7, <1>8, <1>9

\* The history reaches to the latest of the checkpoint and the bars.
LEMMA InIs ==
  ASSUME NEW x, x.ckpt \in 0..Horizon
  PROVE  /\ In(x) \in 0..Horizon /\ In(x) \in Nat /\ x.ckpt <= In(x)
         /\ \A u \in Intervals["1Min"] : x.event["1Min"][u] # Missing => u + 1 <= In(x)
         /\ \/ In(x) = 0 \/ In(x) = x.ckpt
            \/ \E u \in Intervals["1Min"] : x.event["1Min"][u] # Missing /\ In(x) = u + 1
  <1>1. 0 \in 0..Horizon /\ Horizon \in Nat
    BY Sizes
  <1> QED BY <1>1, KnownIs DEF In

\* A row's through_at within the history does not extend it.
LEMMA KnownSame ==
  ASSUME NEW x, x.ckpt \in 0..Horizon, NEW n \in Nat, n <= In(x)
  PROVE  Known(x, n) = In(x)
  <1>1. Horizon \in Nat /\ In(x) \in 0..Horizon /\ x.ckpt <= In(x)
        /\ \A u \in Intervals["1Min"] : x.event["1Min"][u] # Missing => u + 1 <= In(x)
    BY InIs, Sizes
  <1>2. n \in 0..Horizon
    BY <1>1
  <1>3. /\ Known(x, n) \in 0..Horizon /\ n <= Known(x, n) /\ x.ckpt <= Known(x, n)
        /\ \A u \in Intervals["1Min"] : x.event["1Min"][u] # Missing => u + 1 <= Known(x, n)
        /\ \/ Known(x, n) = n \/ Known(x, n) = x.ckpt
           \/ \E u \in Intervals["1Min"] : x.event["1Min"][u] # Missing /\ Known(x, n) = u + 1
    BY <1>2, KnownIs
  <1>4. Known(x, n) <= In(x)
    BY <1>1, <1>3
  <1>5. \/ In(x) = 0 \/ In(x) = x.ckpt
        \/ \E u \in Intervals["1Min"] : x.event["1Min"][u] # Missing /\ In(x) = u + 1
    BY InIs
  <1>6. In(x) <= Known(x, n)
    BY <1>1, <1>3, <1>5
  <1> QED BY <1>1, <1>3, <1>4, <1>6

\* A value with the same checkpoint and minutes reaches as far.
LEMMA InSame ==
  ASSUME NEW x, NEW y, y.ckpt = x.ckpt,
         \A u \in Intervals["1Min"] : y.event["1Min"][u] = Missing <=> x.event["1Min"][u] = Missing
  PROVE  In(y) = In(x)
  <1>1. Arrived(y) = Arrived(x)
    BY DEF Arrived
  <1> QED BY <1>1 DEF In, Known

(***************************************************************************)
(* A step that leaves a day alone leaves what was right of it right.       *)
(***************************************************************************)
Untouched(x, y, e) ==
  /\ y.mark = x.mark
  /\ \A f \in Frames : \A t \in On(f, e) :
       y.event[f][t] = x.event[f][t] /\ (t + Length(f) <= y.ckpt => t + Length(f) <= x.ckpt)
  /\ \A f \in Frames : \A r \in Ranges[f] : Day(r[1]) = e => y.gap[f][r] = x.gap[f][r]
  /\ In(y) > 0 /\ Day(In(y) - 1) = e =>
       /\ In(x) > 0 /\ Day(In(x) - 1) = e
       /\ \A f \in Frames : Expected(f, 0, In(y)) = Expected(f, 0, In(x))

\* The unresolved gaps over the intervals of a day left alone are the same.
LEMMA UntouchedGaps ==
  ASSUME NEW x, NEW y, NEW e, NEW f \in Frames, NEW t \in On(f, e),
         \A r \in Ranges[f] : Day(r[1]) = e => y.gap[f][r] = x.gap[f][r]
  PROVE  Over(f, t, Unsolved(y, f)) = Over(f, t, Unsolved(x, f))
  <1>1. t \in Intervals[f] /\ Day(t) = e
    BY DEF On
  <1>2. \A r \in Ranges[f] : r[1] < t + Length(f) /\ r[2] > t => Day(r[1]) = e
    BY <1>1, OtherDay
  <1>3. ASSUME NEW r PROVE r \in Over(f, t, Unsolved(y, f)) <=> r \in Over(f, t, Unsolved(x, f))
    BY <1>2 DEF Over, Unsolved
  <1> QED BY <1>3

\* What was right of a day left alone is right still.
LEMMA UntouchedKeeps ==
  ASSUME NEW x, NEW y, NEW e \in 1..Days, Untouched(x, y, e)
  PROVE  /\ Aggregated(x, e) => Aggregated(y, e)
         /\ \A f \in Frames : Tracked(x, f, e) => Tracked(y, f, e)
         /\ \A f \in Frames : Lacking(x, f, e) => Lacking(y, f, e)
         /\ Synced(x, e) => Synced(y, e)
         /\ \A f \in Frames : Shown(x, f, e) => Shown(y, f, e)
  <1>1. Aggregated(x, e) => Aggregated(y, e)
    <2> SUFFICES ASSUME Aggregated(x, e), NEW b \in On("15Min", e),
                        \A i \in 1..BucketMinutes : y.event["1Min"][b + i - 1] # Missing
                 PROVE  y.event["15Min"][b] = Constituents(y.event["1Min"], b)
      BY DEF Aggregated
    <2>1. \A i \in 1..BucketMinutes : b + i - 1 \in On("1Min", e)
      BY Minutes DEF On
    <2>2. \A i \in 1..BucketMinutes : y.event["1Min"][b + i - 1] = x.event["1Min"][b + i - 1]
      BY <2>1 DEF Untouched, Frames
    <2>3. x.event["15Min"][b] = Constituents(x.event["1Min"], b)
      BY <2>2 DEF Aggregated
    <2>4. y.event["15Min"][b] = x.event["15Min"][b]
      BY DEF Untouched, Frames
    <2>5. Constituents(x.event["1Min"], b) = Constituents(y.event["1Min"], b)
      BY <2>2 DEF Constituents
    <2> QED BY <2>3, <2>4, <2>5
  <1>2. ASSUME NEW f \in Frames, Tracked(x, f, e) PROVE Tracked(y, f, e)
    <2> SUFFICES ASSUME NEW t \in On(f, e), t + Length(f) <= y.ckpt, y.event[f][t] = Missing
                 PROVE  Over(f, t, Unsolved(y, f)) # {}
      BY DEF Tracked
    <2>1. t + Length(f) <= x.ckpt /\ x.event[f][t] = Missing
      BY DEF Untouched
    <2>2. Over(f, t, Unsolved(x, f)) # {}
      BY <1>2, <2>1 DEF Tracked
    <2>3. Over(f, t, Unsolved(y, f)) = Over(f, t, Unsolved(x, f))
      BY UntouchedGaps DEF Untouched
    <2> QED BY <2>2, <2>3
  <1>3. ASSUME NEW f \in Frames, Lacking(x, f, e) PROVE Lacking(y, f, e)
    <2> SUFFICES ASSUME NEW r \in Unsolved(y, f), Day(r[1]) = e
                 PROVE  \E t \in Expected(f, r[1], r[2]) : y.event[f][t] = Missing
      BY DEF Lacking
    <2>1. r \in Ranges[f] /\ r \in Unsolved(x, f)
      BY DEF Untouched, Unsolved
    <2>2. PICK t \in Expected(f, r[1], r[2]) : x.event[f][t] = Missing
      BY <1>3, <2>1 DEF Lacking
    <2>3. t \in On(f, e)
      BY <2>1, RangeFacts
    <2> QED BY <2>2, <2>3 DEF Untouched
  <1>4. ASSUME NEW f \in Frames, Shown(x, f, e) PROVE Shown(y, f, e)
    <2>1. Exact(y, f, e)
      <3> SUFFICES ASSUME NEW t \in On(f, e), t \in DOMAIN y.mark[f] PROVE y.mark[f][t] = Now(y, f, t)
        BY DEF Exact
      <3>1. y.mark = x.mark /\ y.event[f][t] = x.event[f][t]
        BY DEF Untouched
      <3>2. x.mark[f][t] = Now(x, f, t)
        BY <1>4, <3>1 DEF Shown, Exact
      <3>3. Over(f, t, Unsolved(y, f)) = Over(f, t, Unsolved(x, f))
        BY UntouchedGaps DEF Untouched
      <3>4. Now(y, f, t) = Now(x, f, t)
        BY <3>1, <3>3 DEF Now, Component
      <3> QED BY <3>1, <3>2, <3>4
    <2>2. Reaches(y, f, e)
      <3> SUFFICES ASSUME In(y) > 0, Day(In(y) - 1) = e PROVE DOMAIN y.mark[f] = Expected(f, 0, In(y))
        BY DEF Reaches
      <3>1. y.mark = x.mark /\ In(x) > 0 /\ Day(In(x) - 1) = e /\ Expected(f, 0, In(y)) = Expected(f, 0, In(x))
        BY DEF Untouched
      <3> QED BY <1>4, <3>1 DEF Shown, Reaches
    <2> QED BY <2>1, <2>2 DEF Shown
  <1>5. Synced(x, e) => Synced(y, e)
    BY <1>1, <1>2, <1>3 DEF Synced
  <1> QED BY <1>1, <1>2, <1>3, <1>4, <1>5

\* The basket of symbols whose readiness, events and gaps are the same, or that
\* have no readiness.
LEMMA BasketSame ==
  ASSUME NEW X, NEW Y, NEW f \in Frames,
         \A s \in Symbols : /\ Y[s].mark[f] = X[s].mark[f]
                            /\ \/ X[s].mark[f] = <<>>
                               \/ Y[s].event[f] = X[s].event[f] /\ Unsolved(Y[s], f) = Unsolved(X[s], f)
  PROVE  BasketIn(Y, f) = BasketIn(X, f)
  <1>1. Through(f, <<>>) = 0
    <2>1. Contiguous(f, <<>>) = {}
      BY DEF Contiguous
    <2>2. {0} \cup {t + Length(f) : t \in Contiguous(f, <<>>)} = {0}
      BY <2>1
    <2>3. {0} \in SUBSET (0..0)
      OBVIOUS
    <2>4. Most({0}) = 0
      BY <2>3, MostIs
    <2> QED BY <2>2, <2>4 DEF Through
  <1>2. ASSUME NEW s \in Symbols PROVE BlockedIn(Y[s], f) <=> BlockedIn(X[s], f)
    <2>1. CASE X[s].mark[f] = <<>>
      BY <1>1, <2>1 DEF BlockedIn
    <2>2. CASE X[s].mark[f] # <<>>
      BY <2>2 DEF BlockedIn
    <2> QED BY <2>1, <2>2
  <1>3. {Through(f, Y[s].mark[f]) : s \in Symbols} = {Through(f, X[s].mark[f]) : s \in Symbols}
    OBVIOUS
  <1> QED BY <1>2, <1>3 DEF BasketIn

(***************************************************************************)
(* Intake queues the days D that it touches.                               *)
(***************************************************************************)
Taken(x, y, D) ==
  /\ D \subseteq 1..Days
  /\ \A e \in (1..Days) \ D : Untouched(x, y, e) /\ y.work[e] = x.work[e]
  /\ \A d \in D : y.work[d].gen = x.work[d].gen + 1 /\ y.work[d].through <= In(y)
  /\ y.work \in [1..Days -> [gen : Nat, through : Nat]]
  /\ y.ckpt \in 0..Horizon /\ In(x) <= In(y) /\ x.ckpt <= y.ckpt
  /\ y = x \/ D # {} \/ (x.ckpt < y.ckpt /\ y.event = x.event)
  /\ y.gap = x.gap /\ y.mark = x.mark /\ y.event["15Min"] = x.event["15Min"]
  /\ DOMAIN y.event = Frames /\ \A f \in Frames : DOMAIN y.event[f] = Intervals[f]
  /\ \A t \in Intervals["1Min"] : x.event["1Min"][t] # Missing => y.event["1Min"][t] # Missing

\* An intake of another symbol.
LEMMA TakenNothing ==
  ASSUME NEW x, SymbolInv(x)
  PROVE  Taken(x, x, {})
  <1>1. x.ckpt \in 0..Horizon /\ Horizon \in Nat /\ In(x) \in Nat
    BY InIs, Sizes DEF SymbolInv, SymbolTypes
  <1>2. \A e \in 1..Days : Untouched(x, x, e)
    BY DEF Untouched
  <1>3. In(x) <= In(x) /\ x.ckpt <= x.ckpt
    BY <1>1
  <1> QED BY <1>1, <1>2, <1>3 DEF Taken, SymbolInv, SymbolTypes

\* Intake removes no event.
LEMMA TakenEvents ==
  ASSUME NEW x, NEW y, NEW D, Taken(x, y, D), NEW f \in Frames, NEW t \in Intervals[f],
         x.event[f][t] # Missing
  PROVE  y.event[f][t] # Missing
  BY DEF Taken, Frames

\* A longer history has no fewer intervals.
LEMMA ExpectedGrows ==
  ASSUME NEW f \in Frames, NEW a \in Nat, NEW b \in Nat, a <= b
  PROVE  Expected(f, 0, a) \subseteq Expected(f, 0, b)
  <1>1. \A t \in Intervals[f] : t + Length(f) \in Nat
    BY IntervalFacts, Sizes
  <1> QED BY <1>1 DEF Expected

\* Intake keeps the invariant of a symbol: the days it touches are queued.
LEMMA TakenSymbol ==
  ASSUME NEW x, NEW y, NEW D, SymbolInv(x), Taken(x, y, D)
  PROVE  SymbolInv(y)
  <1>1. x.ckpt \in 0..Horizon /\ y.ckpt \in 0..Horizon /\ Horizon \in Nat
        /\ In(x) \in Nat /\ In(y) \in Nat /\ In(x) <= In(y)
    BY InIs, Sizes DEF SymbolInv, SymbolTypes, Taken
  <1>2. \A f \in Frames : Unsolved(y, f) = Unsolved(x, f)
    BY DEF Taken, Unsolved
  <1>3. SymbolTypes(y)
    <2>1. \A d \in 1..Days : y.work[d].gen = 0 => y.work[d] = NoWork
      <3> SUFFICES ASSUME NEW d \in 1..Days, y.work[d].gen = 0 PROVE y.work[d] = NoWork
        OBVIOUS
      <3>1. x.work[d].gen \in Nat
        BY DEF SymbolInv, SymbolTypes
      <3>2. d \notin D
        BY <3>1 DEF Taken
      <3> QED BY <3>2 DEF Taken, SymbolInv, SymbolTypes
    <2>2. ASSUME NEW f \in Frames
          PROVE  /\ y.gap[f] \in [Ranges[f] -> {"none", "open", "repairing", "resolved"}]
                 /\ y.mark[f] = [t \in DOMAIN y.mark[f] |-> y.mark[f][t]]
                 /\ DOMAIN y.mark[f] \subseteq Expected(f, 0, In(y))
      <3>1. Expected(f, 0, In(x)) \subseteq Expected(f, 0, In(y))
        BY <1>1, ExpectedGrows
      <3> QED BY <3>1 DEF Taken, SymbolInv, SymbolTypes
    <2> QED BY <1>1, <2>1, <2>2 DEF Taken, SymbolInv, SymbolTypes
  <1>4. Bounded(y)
    <2>1. \A d \in 1..Days : y.work[d].through <= In(y)
      <3> TAKE d \in 1..Days
      <3>1. CASE d \in D
        BY <3>1 DEF Taken
      <3>2. CASE d \notin D
        <4>1. y.work[d] = x.work[d] /\ x.work[d].through <= In(x) /\ x.work[d].through \in Nat
          BY <3>2 DEF Taken, SymbolInv, Bounded, SymbolTypes
        <4> QED BY <1>1, <4>1
      <3> QED BY <3>1, <3>2
    <2>2. \A f \in Frames : \A r \in Unsolved(y, f) : r[2] <= In(y)
      <3> TAKE f \in Frames
      <3> TAKE r \in Unsolved(y, f)
      <3>1. r[2] <= In(x) /\ r \in Ranges[f]
        BY <1>2 DEF SymbolInv, Bounded, Unsolved
      <3>2. r[2] \in Nat
        BY <3>1, RangeFacts
      <3> QED BY <1>1, <3>1, <3>2
    <2>3. ASSUME NEW f \in Frames, NEW r \in Ranges[f], y.gap[f][r] = "resolved",
                 NEW t \in Expected(f, r[1], r[2])
          PROVE  y.event[f][t] # Missing
      <3>1. x.event[f][t] # Missing /\ t \in Intervals[f]
        BY <2>3 DEF Taken, SymbolInv, Bounded, Expected
      <3> QED BY <3>1, TakenEvents
    <2> QED BY <2>1, <2>2, <2>3 DEF Bounded
  <1>5. DaysDone(y)
    <2> SUFFICES ASSUME NEW d \in 1..Days, ~Dirty(y, d)
                 PROVE  Synced(y, d) /\ \A f \in Frames : Shown(y, f, d)
      BY DEF DaysDone
    <2>1. d \notin D
      <3> SUFFICES ASSUME d \in D PROVE FALSE
        OBVIOUS
      <3>1. y.work[d].gen = x.work[d].gen + 1 /\ x.work[d].gen \in Nat
        BY DEF Taken, SymbolInv, SymbolTypes
      <3>2. y.work[d].gen = 0
        BY DEF Dirty, NoWork
      <3> QED BY <3>1, <3>2
    <2>2. Untouched(x, y, d) /\ ~Dirty(x, d)
      BY <2>1 DEF Taken, Dirty
    <2>3. Synced(x, d) /\ \A f \in Frames : Shown(x, f, d)
      BY <2>2 DEF SymbolInv, DaysDone
    <2> QED BY <2>2, <2>3, UntouchedKeeps
  <1> QED BY <1>3, <1>4, <1>5 DEF SymbolInv

\* A queue row that is as it was selected is one that intake did not touch.
LEMMA TakenRow ==
  ASSUME NEW x, NEW y, NEW D, SymbolInv(x), Taken(x, y, D),
         NEW d \in 1..Days, NEW g \in Nat, x.work[d].gen >= g
  PROVE  /\ y.work[d].gen >= g /\ y.work[d].gen >= x.work[d].gen
         /\ y.work[d].gen = g => x.work[d].gen = g /\ Untouched(x, y, d)
         /\ Dirty(x, d) => Dirty(y, d)
  <1>1. x.work[d].gen \in Nat /\ (x.work[d].gen = 0 => x.work[d] = NoWork)
    BY DEF SymbolInv, SymbolTypes
  <1>2. CASE d \in D
    <2>1. y.work[d].gen = x.work[d].gen + 1
      BY <1>2 DEF Taken
    <2>2. Dirty(y, d)
      BY <1>1, <2>1 DEF Dirty, NoWork
    <2> QED BY <1>1, <2>1, <2>2
  <1>3. CASE d \notin D
    BY <1>1, <1>3 DEF Taken, Dirty
  <1> QED BY <1>2, <1>3

\* Intake keeps what is known of the range in hand.
LEMMA TakenRange ==
  ASSUME NEW x, NEW y, NEW D, SymbolInv(x), Taken(x, y, D), NEW d \in 1..Days, NEW end,
         NEW c \in BOOLEAN, NEW k \in BOOLEAN, k => c /\ Untouched(x, y, d), ItemRange(x, d, end, c)
  PROVE  ItemRange(y, d, end, k)
  <1>1. In(x) \in Nat /\ In(y) \in Nat /\ In(x) <= In(y)
    BY InIs DEF SymbolInv, SymbolTypes, Taken
  <1>2. end \in Nat /\ Open(d) < end /\ end <= Close(d) /\ end <= In(x)
    BY DEF ItemRange
  <1>3. \A f \in Frames : Unsolved(y, f) = Unsolved(x, f)
    BY DEF Taken, Unsolved
  <1>4. \A f \in Frames : \A r \in Unsolved(y, f) : Day(r[1]) = d => r[2] <= end
    BY <1>3 DEF ItemRange
  <1>5. ASSUME k
        PROVE  /\ \A t \in On("1Min", d) : y.event["1Min"][t] # Missing => t + 1 <= end
               /\ \A f \in Frames : \A t \in On(f, d) : t + Length(f) <= y.ckpt => t + Length(f) <= end
    BY <1>5 DEF ItemRange, Untouched, Frames
  <1> QED BY <1>1, <1>2, <1>4, <1>5 DEF ItemRange

\* Intake keeps what is known of the events that were read.
LEMMA TakenObs ==
  ASSUME NEW x, NEW y, NEW D, Taken(x, y, D), NEW d \in 1..Days, NEW m, m.frame \in Frames,
         NEW c \in BOOLEAN, NEW k \in BOOLEAN, k => c /\ Untouched(x, y, d), ItemObs(x, d, m, c),
         m.end \in Nat, m.end <= Close(d)
  PROVE  ItemObs(y, d, m, k)
  <1>1. DOMAIN m.obs = Expected(m.frame, Open(d), m.end)
    BY DEF ItemObs
  <1>2. \A t \in DOMAIN m.obs : t \in On(m.frame, d) /\ t \in Intervals[m.frame]
    BY <1>1, ExpectedOn DEF On
  <1>3. ASSUME NEW t \in DOMAIN m.obs
        PROVE  /\ m.obs[t] # Missing => y.event[m.frame][t] # Missing
               /\ k \/ m.frame = "15Min" => m.obs[t] = y.event[m.frame][t]
    <2>1. m.obs[t] # Missing => y.event[m.frame][t] # Missing
      BY <1>2, <1>3, TakenEvents DEF ItemObs
    <2>2. CASE m.frame = "15Min"
      BY <1>3, <2>1, <2>2 DEF ItemObs, Taken
    <2>3. CASE k
      BY <1>2, <1>3, <2>1, <2>3 DEF ItemObs, Untouched
    <2> QED BY <2>1, <2>2, <2>3
  <1> QED BY <1>1, <1>3 DEF ItemObs

\* Intake that changes a symbol changes its fence: every touch raises a generation
\* or the checkpoint.
LEMMA TakenFence ==
  ASSUME NEW x, NEW y, NEW D, SymbolInv(x), Taken(x, y, D), NEW m, m.frame \in Frames, FenceInv(m, x)
  PROVE  /\ FenceInv(m, y)
         /\ Same(m, y) => y = x
  <1>1. /\ x.ckpt \in Nat /\ y.ckpt \in Nat /\ x.ckpt <= y.ckpt
        /\ m.fence.ckpt \in Nat /\ m.fence.ckpt <= x.ckpt
    BY Sizes DEF SymbolInv, SymbolTypes, Taken, FenceInv
  <1>2. ASSUME NEW d \in 1..Days
        PROVE  /\ m.fence.work[d].gen \in Nat /\ m.fence.work[d].gen <= y.work[d].gen
               /\ d \in D => m.fence.work[d].gen < y.work[d].gen
    <2>1. /\ m.fence.work[d].gen \in Nat /\ m.fence.work[d].gen <= x.work[d].gen /\ x.work[d].gen \in Nat
      BY DEF FenceInv, SymbolInv, SymbolTypes
    <2>2. CASE d \in D
      <3>1. y.work[d].gen = x.work[d].gen + 1
        BY <2>2 DEF Taken
      <3> QED BY <2>1, <3>1
    <2>3. CASE d \notin D
      <3>1. y.work[d] = x.work[d]
        BY <2>3 DEF Taken
      <3> QED BY <2>1, <2>3, <3>1
    <2> QED BY <2>2, <2>3
  <1>3. Unsolved(y, m.frame) = Unsolved(x, m.frame)
    BY DEF Taken, Unsolved
  <1>4. FenceInv(m, y)
    <2>1. m.fence.ckpt <= y.ckpt
      BY <1>1
    <2>2. DOMAIN m.fence.gaps = Unsolved(y, m.frame)
      BY <1>3 DEF FenceInv
    <2> QED BY <1>1, <1>2, <2>1, <2>2 DEF FenceInv
  <1>5. ASSUME Same(m, y), y # x PROVE FALSE
    <2>1. D # {} \/ x.ckpt < y.ckpt
      BY <1>5 DEF Taken
    <2>2. CASE D # {}
      <3>1. PICK d \in D : d \in 1..Days
        BY <2>2 DEF Taken
      <3>2. m.fence.work[d].gen < y.work[d].gen /\ m.fence.work[d].gen \in Nat
        BY <1>2, <3>1
      <3> QED BY <1>5, <3>2 DEF Same
    <2>3. CASE x.ckpt < y.ckpt
      BY <1>1, <1>5, <2>3 DEF Same
    <2> QED BY <2>1, <2>2, <2>3
  <1> QED BY <1>4, <1>5

Intaken(X, Y) == \A s \in Symbols : \E D : Taken(X[s], Y[s], D)

\* A basket that intake leaves behind is owed a refresh.
LEMMA IntakeBasket ==
  ASSUME NEW X, NEW Y, NEW B, NEW m, Intaken(X, Y), \A s \in Symbols : SymbolInv(X[s]),
         DrainItems(m, X), NEW f \in Frames
  PROVE  /\ Owed(m, X, f) => Owed(m, Y, f)
         /\ Even(X, B, f) => Even(Y, B, f) \/ Owed(m, Y, f)
         /\ \A s \in Symbols, d \in 1..Days :
              X[s].mark[f] # <<>> /\ Dirty(X[s], d) => Y[s].mark[f] # <<>> /\ Dirty(Y[s], d)
  <1>1. \A s \in Symbols : Y[s].mark[f] = X[s].mark[f] /\ Unsolved(Y[s], f) = Unsolved(X[s], f)
    BY DEF Intaken, Taken, Unsolved
  <1>2. ASSUME NEW s \in Symbols, NEW d \in 1..Days, X[s].mark[f] # <<>>, Dirty(X[s], d)
        PROVE  Y[s].mark[f] # <<>> /\ Dirty(Y[s], d)
    <2>1. PICK D : Taken(X[s], Y[s], D)
      BY DEF Intaken
    <2>2. SymbolInv(X[s]) /\ X[s].work[d].gen \in Nat
      BY DEF SymbolInv, SymbolTypes
    <2>3. 0 \in Nat /\ X[s].work[d].gen >= 0
      BY <2>2
    <2>4. Dirty(Y[s], d)
      BY <1>2, <2>1, <2>2, <2>3, TakenRow
    <2> QED BY <1>1, <1>2, <2>4
  <1>3. ASSUME NEW i \in m.items, Current(Y, i) PROVE Current(X, i)
    <2>1. PICK D : Taken(X[i.sym], Y[i.sym], D)
      BY DEF Intaken, DrainItems, QueueRow
    <2>2. /\ i.sym \in Symbols /\ i.day \in 1..Days /\ i.work.gen \in Nat
          /\ X[i.sym].work[i.day].gen >= i.work.gen
      BY DEF DrainItems, QueueRow
    <2> QED BY <1>3, <2>1, <2>2, TakenRow DEF Current
  <1>4. Owed(m, X, f) => Owed(m, Y, f)
    <2> SUFFICES ASSUME Owed(m, X, f) PROVE Owed(m, Y, f)
      OBVIOUS
    <2>1. PICK s \in Symbols, d \in 1..Days :
            /\ X[s].mark[f] # <<>> /\ Dirty(X[s], d)
            /\ \A i \in Its(m) : i.sym = s /\ i.day = d => ~Current(X, i)
      BY DEF Owed
    <2>2. \A i \in Its(m) : i.sym = s /\ i.day = d => ~Current(Y, i)
      BY <1>3, <2>1 DEF Its
    <2> QED BY <1>2, <2>1, <2>2 DEF Owed
  <1>5. ASSUME Even(X, B, f) PROVE Even(Y, B, f) \/ Owed(m, Y, f)
    <2>1. CASE \A s \in Symbols : X[s].mark[f] = <<>> \/ Y[s].event[f] = X[s].event[f]
      <3>1. BasketIn(Y, f) = BasketIn(X, f)
        BY <1>1, <2>1, BasketSame
      <3> QED BY <1>1, <1>5, <3>1 DEF Even
    <2>2. CASE \E s \in Symbols : X[s].mark[f] # <<>> /\ Y[s].event[f] # X[s].event[f]
      <3>1. PICK s \in Symbols : X[s].mark[f] # <<>> /\ Y[s].event[f] # X[s].event[f]
        BY <2>2
      <3>2. PICK D : Taken(X[s], Y[s], D)
        BY DEF Intaken
      <3>3. Y[s] # X[s] /\ Y[s].event # X[s].event
        BY <3>1
      <3>4. PICK d \in D : d \in 1..Days
        BY <3>2, <3>3 DEF Taken
      <3>5. Y[s].work[d].gen = X[s].work[d].gen + 1 /\ X[s].work[d].gen \in Nat
        BY <3>2, <3>4 DEF Taken, SymbolInv, SymbolTypes
      <3>6. Dirty(Y[s], d)
        BY <3>5 DEF Dirty, NoWork
      <3>7. ASSUME NEW i \in Its(m), i.sym = s, i.day = d PROVE ~Current(Y, i)
        <4>1. i.work.gen \in Nat /\ X[s].work[d].gen >= i.work.gen
          BY <3>7 DEF Its, DrainItems
        <4> QED BY <3>5, <3>7, <4>1 DEF Current
      <3> QED BY <1>1, <3>1, <3>4, <3>6, <3>7 DEF Owed
    <2> QED BY <2>1, <2>2
  <1> QED BY <1>2, <1>4, <1>5

\* Intake keeps the invariant of the data and of the drain beside it.
LEMMA IntakeKeeps ==
  ASSUME NEW X, NEW Y, NEW B, NEW m, Intaken(X, Y), DataInv(m, X, B)
  PROVE  DataInv(m, Y, B)
  <1>1. \A s \in Symbols : SymbolInv(X[s])
    BY DEF DataInv
  <1>2. \A s \in Symbols : SymbolInv(Y[s])
    BY <1>1, TakenSymbol DEF Intaken
  <1>3. DrainTypes(m) /\ DrainItems(m, X)
    BY DEF DataInv, DrainInv
  <1>4. BasketInv(Y, B)
    <2> SUFFICES ASSUME NEW f \in Frames, ~Even(Y, B, f)
                 PROVE  \E s \in Symbols, d \in 1..Days : Y[s].mark[f] # <<>> /\ Dirty(Y[s], d)
      BY DEF BasketInv
    <2>1. /\ Even(X, B, f) => Even(Y, B, f) \/ Owed(m, Y, f)
          /\ \A s \in Symbols, d \in 1..Days :
               X[s].mark[f] # <<>> /\ Dirty(X[s], d) => Y[s].mark[f] # <<>> /\ Dirty(Y[s], d)
      BY <1>1, <1>3, IntakeBasket
    <2>2. Even(X, B, f) \/ \E s \in Symbols, d \in 1..Days : X[s].mark[f] # <<>> /\ Dirty(X[s], d)
      BY DEF DataInv, BasketInv
    <2> QED BY <2>1, <2>2 DEF Owed
  <1>5. ASSUME NEW i \in m.items
        PROVE  /\ i.sym \in Symbols /\ i.day \in 1..Days /\ i.work.gen \in Nat \ {0} /\ i.work.through \in Nat
               /\ i.work.through <= In(Y[i.sym]) /\ Y[i.sym].work[i.day].gen >= i.work.gen
               /\ Current(Y, i) => Current(X, i) /\ Untouched(X[i.sym], Y[i.sym], i.day)
    <2>1. /\ i.sym \in Symbols /\ i.day \in 1..Days /\ i.work.gen \in Nat \ {0} /\ i.work.through \in Nat
          /\ i.work.through <= In(X[i.sym]) /\ X[i.sym].work[i.day].gen >= i.work.gen
      BY <1>3 DEF DrainItems, QueueRow
    <2>2. PICK D : Taken(X[i.sym], Y[i.sym], D)
      BY <2>1, SMTT(30) DEF Intaken
    <2>3. In(X[i.sym]) \in Nat /\ In(Y[i.sym]) \in Nat /\ In(X[i.sym]) <= In(Y[i.sym])
      BY <1>1, <2>1, <2>2, InIs DEF SymbolInv, SymbolTypes, Taken
    <2>4. i.work.through <= In(Y[i.sym])
      BY <2>1, <2>3
    <2>5. /\ Y[i.sym].work[i.day].gen >= i.work.gen
          /\ Y[i.sym].work[i.day].gen = i.work.gen =>
               X[i.sym].work[i.day].gen = i.work.gen /\ Untouched(X[i.sym], Y[i.sym], i.day)
      BY <1>1, <2>1, <2>2, TakenRow
    <2> QED BY <2>1, <2>4, <2>5 DEF Current
  <1>6. DrainItems(m, Y)
    <2>1. ASSUME NEW i \in m.items \ m.todo, Current(Y, i) PROVE Synced(Y[i.sym], i.day)
      <3>1. Synced(X[i.sym], i.day)
        BY <1>3, <1>5, <2>1 DEF DrainItems
      <3> QED BY <1>5, <2>1, <3>1, UntouchedKeeps
    <2>2. \A i \in m.items : QueueRow(i)
      BY <1>5 DEF QueueRow
    <2> QED BY <1>3, <1>5, <2>1, <2>2 DEF DrainItems
  <1>7. DrainRange(m, Y)
    <2> SUFFICES ASSUME NEW i \in m.todo, InHand(m, i)
                 PROVE  ItemRange(Y[i.sym], i.day, m.end, Current(Y, i))
      BY DEF DrainRange
    <2>1. i \in m.items
      BY <1>3 DEF DrainItems
    <2>2. ItemRange(X[i.sym], i.day, m.end, Current(X, i))
      BY DEF DataInv, DrainInv, DrainRange
    <2>3. PICK D : Taken(X[i.sym], Y[i.sym], D)
      BY <1>5, <2>1 DEF Intaken
    <2>4. Current(X, i) \in BOOLEAN /\ Current(Y, i) \in BOOLEAN
      BY DEF Current
    <2> QED BY <1>1, <1>5, <2>1, <2>2, <2>3, <2>4, TakenRange
  <1>8. DrainObs(m, Y)
    <2> SUFFICES ASSUME NEW i \in m.todo, InHand(m, i), m.pc # "read"
                 PROVE  ItemObs(Y[i.sym], i.day, m, Current(Y, i))
      BY DEF DrainObs
    <2>1. i \in m.items /\ m.frame \in Frames
      BY <1>3 DEF DrainItems, DrainTypes
    <2>2. ItemObs(X[i.sym], i.day, m, Current(X, i)) /\ ItemRange(X[i.sym], i.day, m.end, Current(X, i))
      BY DEF DataInv, DrainInv, DrainObs, DrainRange
    <2>3. PICK D : Taken(X[i.sym], Y[i.sym], D)
      BY <1>5, <2>1 DEF Intaken
    <2>4. Current(X, i) \in BOOLEAN /\ Current(Y, i) \in BOOLEAN /\ m.end \in Nat /\ m.end <= Close(i.day)
      BY <2>2 DEF Current, ItemRange
    <2> QED BY <1>5, <2>1, <2>2, <2>3, <2>4, TakenObs
  <1>9. DrainPart(m, Y)
    <2> SUFFICES ASSUME NEW i \in m.todo, InHand(m, i), Current(Y, i)
                 PROVE  /\ MinutesDone(m) => Tracked(Y[i.sym], "1Min", i.day) /\ Lacking(Y[i.sym], "1Min", i.day)
                        /\ m.pc = "gaps" /\ m.frame = "15Min" => Aggregated(Y[i.sym], i.day)
      BY DEF DrainPart
    <2>1. i \in m.items
      BY <1>3 DEF DrainItems
    <2>2. Current(X, i) /\ Untouched(X[i.sym], Y[i.sym], i.day) /\ i.day \in 1..Days
      BY <1>5, <2>1
    <2>3. /\ MinutesDone(m) => Tracked(X[i.sym], "1Min", i.day) /\ Lacking(X[i.sym], "1Min", i.day)
          /\ m.pc = "gaps" /\ m.frame = "15Min" => Aggregated(X[i.sym], i.day)
      BY <2>2 DEF DataInv, DrainInv, DrainPart
    <2>4. "1Min" \in Frames
      BY DEF Frames
    <2> QED BY <2>2, <2>3, <2>4, UntouchedKeeps
  <1>10. ASSUME m.pc \in {"start", "scan"}
         PROVE  FenceInv(m, Y[m.sym]) /\ (Same(m, Y[m.sym]) => Y[m.sym] = X[m.sym])
    <2>1. m.sym \in Symbols /\ m.frame \in Frames /\ FenceInv(m, X[m.sym])
      BY <1>3, <1>10 DEF DrainItems, DrainTypes, SymbolPC, DataInv, DrainInv, DrainFence
    <2>2. PICK D : Taken(X[m.sym], Y[m.sym], D)
      BY <2>1 DEF Intaken
    <2> QED BY <1>1, <2>1, <2>2, TakenFence
  <1>11. DrainFence(m, Y)
    BY <1>10 DEF DrainFence
  <1>12. DrainScan(m, Y)
    <2> SUFFICES ASSUME m.pc = "scan" PROVE ScanInv(m, Y[m.sym])
      BY DEF DrainScan
    <2>1. ScanInv(m, X[m.sym])
      BY DEF DataInv, DrainInv, DrainScan
    <2>2. Same(m, Y[m.sym]) => Y[m.sym] = X[m.sym]
      BY <1>10
    <2> QED BY <2>1, <2>2 DEF ScanInv
  <1>13. DrainShown(m, Y)
    <2> SUFFICES ASSUME NEW f \in DoneFrames(m), NEW i \in Its(m), Current(Y, i) PROVE Shown(Y[m.sym], f, i.day)
      BY DEF DrainShown
    <2>1. i \in m.items /\ i.sym = m.sym /\ f \in Frames
      BY DEF Its, DoneFrames
    <2>2. Current(X, i) /\ Untouched(X[m.sym], Y[m.sym], i.day) /\ i.day \in 1..Days
      BY <1>5, <2>1
    <2>3. Shown(X[m.sym], f, i.day)
      BY <2>2 DEF DataInv, DrainInv, DrainShown
    <2> QED BY <2>1, <2>2, <2>3, UntouchedKeeps
  <1>14. \A s \in Symbols : Y[s].mark = X[s].mark
    BY DEF Intaken, Taken
  <1>15. DrainMark(m, Y)
    <2>1. m.pc = "basket" => m.sym \in Symbols
      BY <1>3 DEF DrainItems, SymbolPC
    <2> QED BY <1>14, <2>1 DEF DataInv, DrainInv, DrainMark
  <1>16. DrainBasket(m, Y, B)
    <2> SUFFICES ASSUME NEW f \in DoneFrames(m), ~(m.pc = "basket" /\ f = m.frame)
                 PROVE  Even(Y, B, f) \/ Owed(m, Y, f)
      BY DEF DrainBasket
    <2>1. f \in Frames /\ (Even(X, B, f) \/ Owed(m, X, f))
      BY DEF DataInv, DrainInv, DrainBasket, DoneFrames
    <2> QED BY <1>1, <1>3, <2>1, IntakeBasket
  <1>17. DrainPrefix(m, Y)
    BY <1>14 DEF DataInv, DrainInv, DrainPrefix
  <1> QED BY <1>2, <1>3, <1>4, <1>6, <1>7, <1>8, <1>9, <1>11, <1>12, <1>13, <1>15, <1>16, <1>17
          DEF DataInv, DrainInv

(***************************************************************************)
(* A gap recorded or repaired, or an aggregate made, in the part up to end *)
(* of the day d that is queued.                                            *)
(***************************************************************************)
Worked(x, y, d, end) ==
  /\ y.work = x.work /\ y.ckpt = x.ckpt /\ y.mark = x.mark /\ y.event["1Min"] = x.event["1Min"]
  /\ DOMAIN y.event = Frames /\ DOMAIN y.gap = Frames
  /\ DOMAIN y.event["15Min"] = Intervals["15Min"]
  /\ \A f \in Frames : y.gap[f] \in [Ranges[f] -> {"none", "open", "repairing", "resolved"}]
  /\ \A t \in Intervals["15Min"] :
       /\ Day(t) # d => y.event["15Min"][t] = x.event["15Min"][t]
       /\ x.event["15Min"][t] # Missing => y.event["15Min"][t] # Missing
  /\ \A f \in Frames : \A r \in Ranges[f] :
       /\ Day(r[1]) # d => y.gap[f][r] = x.gap[f][r]
       /\ y.gap[f][r] = "resolved" =>
            x.gap[f][r] = "resolved" \/ \A t \in Expected(f, r[1], r[2]) : x.event[f][t] # Missing
       /\ r \in Unsolved(y, f) => r \in Unsolved(x, f) \/ r[2] <= end

\* Work on a session leaves the other days alone.
LEMMA WorkedDays ==
  ASSUME NEW x, NEW y, NEW d, NEW end, Worked(x, y, d, end), NEW e \in 1..Days, e # d
  PROVE  In(y) = In(x) /\ Untouched(x, y, e)
  <1>1. In(y) = In(x)
    BY InSame DEF Worked
  <1>2. ASSUME NEW f \in Frames, NEW t \in On(f, e) PROVE y.event[f][t] = x.event[f][t]
    BY DEF Worked, On, Frames
  <1> QED BY <1>1, <1>2 DEF Worked, Untouched

\* Work on a queued session keeps the invariant of the symbol.
LEMMA WorkedSymbol ==
  ASSUME NEW x, NEW y, NEW d \in 1..Days, NEW end \in Nat, SymbolInv(x), Dirty(x, d),
         Worked(x, y, d, end), end <= In(x)
  PROVE  SymbolInv(y) /\ In(y) = In(x)
  <1>1. In(y) = In(x) /\ In(x) \in Nat
    BY InSame, InIs DEF Worked, SymbolInv, SymbolTypes
  <1>2. SymbolTypes(y)
    <2>1. \A f \in Frames : DOMAIN y.event[f] = Intervals[f]
      BY DEF Frames, Worked, SymbolInv, SymbolTypes
    <2> QED BY <1>1, <2>1 DEF Worked, SymbolInv, SymbolTypes
  <1>3. \A f \in Frames : \A t \in Intervals[f] : x.event[f][t] # Missing => y.event[f][t] # Missing
    BY DEF Worked, Frames
  <1>4. Bounded(y)
    <2>1. \A n \in 1..Days : y.work[n].through <= In(y)
      BY <1>1 DEF Worked, SymbolInv, Bounded
    <2>2. ASSUME NEW f \in Frames, NEW r \in Unsolved(y, f) PROVE r[2] <= In(y)
      <3>1. r \in Ranges[f] /\ r[2] \in Nat
        BY RangeFacts DEF Unsolved
      <3>2. r \in Unsolved(x, f) \/ r[2] <= end
        BY <2>2, <3>1 DEF Worked
      <3>3. r \in Unsolved(x, f) => r[2] <= In(x)
        BY DEF SymbolInv, Bounded
      <3> QED BY <1>1, <3>1, <3>2, <3>3
    <2>3. ASSUME NEW f \in Frames, NEW r \in Ranges[f], y.gap[f][r] = "resolved",
                 NEW t \in Expected(f, r[1], r[2])
          PROVE  y.event[f][t] # Missing
      <3>1. x.event[f][t] # Missing
        BY <2>3 DEF Worked, SymbolInv, Bounded
      <3> QED BY <1>3, <3>1 DEF Expected
    <2> QED BY <2>1, <2>2, <2>3 DEF Bounded
  <1>5. DaysDone(y)
    <2> SUFFICES ASSUME NEW e \in 1..Days, ~Dirty(y, e)
                 PROVE  Synced(y, e) /\ \A f \in Frames : Shown(y, f, e)
      BY DEF DaysDone
    <2>1. ~Dirty(x, e) /\ e # d
      BY DEF Worked, Dirty
    <2>2. Untouched(x, y, e)
      BY <2>1, WorkedDays
    <2>3. Synced(x, e) /\ \A f \in Frames : Shown(x, f, e)
      BY <2>1 DEF SymbolInv, DaysDone
    <2> QED BY <2>2, <2>3, UntouchedKeeps
  <1> QED BY <1>1, <1>2, <1>4, <1>5 DEF SymbolInv

\* The item in hand is of a queued session, and no other item is of it.
LEMMA FirstItem ==
  ASSUME NEW X, NEW m, DrainItems(m, X), m.todo # {}, \A s \in Symbols : SymbolInv(X[s])
  PROVE  LET i == FirstOf(m.todo)
         IN /\ i \in m.todo /\ i \in m.items /\ i.sym \in Symbols /\ i.day \in 1..Days
            /\ i.work.through \in Nat /\ i.work.through <= In(X[i.sym])
            /\ Dirty(X[i.sym], i.day)
            /\ \A j \in m.items \ m.todo : j.sym = i.sym => j.day # i.day
  <1> DEFINE i == FirstOf(m.todo)
  <1>1. i \in m.todo
    BY FirstIs DEF DrainItems
  <1> HIDE DEF i
  <1>2. /\ i \in m.items /\ i.sym \in Symbols /\ i.day \in 1..Days /\ i.work.gen \in Nat \ {0}
        /\ i.work.through \in Nat /\ i.work.through <= In(X[i.sym])
        /\ X[i.sym].work[i.day].gen >= i.work.gen
    BY <1>1 DEF DrainItems, QueueRow
  <1>3. X[i.sym].work[i.day].gen \in Nat
    BY <1>2 DEF SymbolInv, SymbolTypes
  <1>4. X[i.sym].work[i.day].gen # 0
    BY <1>2, <1>3
  <1>5. Dirty(X[i.sym], i.day)
    BY <1>4 DEF Dirty, NoWork
  <1>6. \A j \in m.items \ m.todo : j.sym = i.sym => j.day # i.day
    BY <1>1, <1>2 DEF DrainItems
  <1> QED BY <1>1, <1>2, <1>5, <1>6 DEF i

\* A gap or an aggregate written for the item in hand keeps the invariant.
LEMMA WorkedKeeps ==
  ASSUME NEW X, NEW Y, NEW B, NEW m, DataInv(m, X, B), m.pc \in {"gaps", "aggregate"},
         LET i == FirstOf(m.todo)
         IN /\ \A s \in Symbols : s # i.sym => Y[s] = X[s]
            /\ Worked(X[i.sym], Y[i.sym], i.day, m.end)
            /\ m.frame = "1Min" \/ Y[i.sym].event = X[i.sym].event
            /\ MinutesDone(m) => Y[i.sym].gap["1Min"] = X[i.sym].gap["1Min"]
  PROVE  DataInv(m, Y, B)
  <1> DEFINE i == FirstOf(m.todo)
  <1>1. (\A s \in Symbols : SymbolInv(X[s])) /\ DrainTypes(m) /\ DrainItems(m, X)
    BY DEF DataInv, DrainInv
  <1>2. m.todo # {}
    BY <1>1 DEF DrainItems, ItemPC
  <1>3. /\ i \in m.todo /\ i \in m.items /\ i.sym \in Symbols /\ i.day \in 1..Days
        /\ Dirty(X[i.sym], i.day)
        /\ \A j \in m.items \ m.todo : j.sym = i.sym => j.day # i.day
    BY <1>1, <1>2, FirstItem
  <1>4. InHand(m, i) /\ m.pc # "read"
    BY DEF InHand
  <1>5. /\ \A s \in Symbols : s # i.sym => Y[s] = X[s]
        /\ Worked(X[i.sym], Y[i.sym], i.day, m.end)
        /\ m.frame = "1Min" \/ Y[i.sym].event = X[i.sym].event
        /\ MinutesDone(m) => Y[i.sym].gap["1Min"] = X[i.sym].gap["1Min"]
    OBVIOUS
  <1>6. \A j \in m.todo : InHand(m, j) => j = i
    BY DEF InHand
  <1> HIDE DEF i
  <1>7. ItemRange(X[i.sym], i.day, m.end, Current(X, i)) /\ ItemObs(X[i.sym], i.day, m, Current(X, i))
    BY <1>3, <1>4 DEF DataInv, DrainInv, DrainRange, DrainObs
  <1>8. m.end \in Nat /\ m.end <= In(X[i.sym])
    BY <1>7 DEF ItemRange
  <1>9. SymbolInv(Y[i.sym]) /\ In(Y[i.sym]) = In(X[i.sym])
    BY <1>1, <1>3, <1>5, <1>8, WorkedSymbol
  <1>10. /\ \A s \in Symbols : SymbolInv(Y[s]) /\ In(Y[s]) = In(X[s])
         /\ \A s \in Symbols : Y[s].work = X[s].work /\ Y[s].mark = X[s].mark
    BY <1>1, <1>5, <1>9, ZenonT(30) DEF Worked
  <1>11. \A j \in m.items : QueueRow(j) /\ (Current(Y, j) <=> Current(X, j))
    BY <1>1, <1>10 DEF Current, DrainItems, QueueRow
  <1>12. DrainItems(m, Y)
    <2>1. ASSUME NEW j \in m.items \ m.todo, Current(Y, j) PROVE Synced(Y[j.sym], j.day)
      <3>1. Synced(X[j.sym], j.day) /\ j.sym \in Symbols /\ j.day \in 1..Days
        BY <1>1, <1>11, <2>1 DEF DrainItems, QueueRow
      <3>2. CASE j.sym # i.sym
        BY <1>5, <3>1, <3>2
      <3>3. CASE j.sym = i.sym
        <4>1. Untouched(X[i.sym], Y[i.sym], j.day)
          BY <1>3, <1>5, <3>1, <3>3, WorkedDays
        <4> QED BY <3>1, <3>3, <4>1, UntouchedKeeps
      <3> QED BY <3>2, <3>3
    <2>2. ASSUME NEW j \in m.items
          PROVE  /\ QueueRow(j) /\ j.work.gen \in Nat \ {0} /\ j.work.through \in Nat
                 /\ j.work.through <= In(Y[j.sym]) /\ Y[j.sym].work[j.day].gen >= j.work.gen
      BY <1>1, <1>10 DEF DrainItems, QueueRow
    <2> QED BY <1>1, <2>1, <2>2 DEF DrainItems
  <1>13. DrainRange(m, Y)
    <2>1. \A f \in Frames : \A r \in Unsolved(Y[i.sym], f) : Day(r[1]) = i.day => r[2] <= m.end
      BY <1>5, <1>7, ZenonT(30) DEF Worked, ItemRange, Unsolved
    <2>2. ItemRange(Y[i.sym], i.day, m.end, Current(Y, i))
      BY <1>3, <1>5, <1>7, <1>9, <1>11, <2>1, ZenonT(30) DEF ItemRange, Worked
    <2> QED BY <1>6, <2>2 DEF DrainRange
  <1>14. DrainObs(m, Y)
    <2>1. Y[i.sym].event[m.frame] = X[i.sym].event[m.frame]
      BY <1>5, ZenonT(30) DEF Worked
    <2>2. ItemObs(Y[i.sym], i.day, m, Current(Y, i))
      BY <1>3, <1>7, <1>11, <2>1 DEF ItemObs
    <2> QED BY <1>6, <2>2 DEF DrainObs
  <1>15. DrainPart(m, Y)
    <2>1. Current(X, i) =>
            /\ MinutesDone(m) => Tracked(X[i.sym], "1Min", i.day) /\ Lacking(X[i.sym], "1Min", i.day)
            /\ m.pc = "gaps" /\ m.frame = "15Min" => Aggregated(X[i.sym], i.day)
      BY <1>3, <1>4 DEF DataInv, DrainInv, DrainPart
    <2>2. ASSUME MinutesDone(m), Tracked(X[i.sym], "1Min", i.day), Lacking(X[i.sym], "1Min", i.day)
          PROVE  Tracked(Y[i.sym], "1Min", i.day) /\ Lacking(Y[i.sym], "1Min", i.day)
      <3>1. Unsolved(Y[i.sym], "1Min") = Unsolved(X[i.sym], "1Min")
        BY <1>5, <2>2 DEF Unsolved
      <3>2. Y[i.sym].ckpt = X[i.sym].ckpt /\ Y[i.sym].event["1Min"] = X[i.sym].event["1Min"]
        BY <1>5, ZenonT(30) DEF Worked
      <3>3. Tracked(Y[i.sym], "1Min", i.day)
        BY <2>2, <3>1, <3>2 DEF Tracked
      <3>4. Lacking(Y[i.sym], "1Min", i.day)
        BY <2>2, <3>1, <3>2 DEF Lacking
      <3> QED BY <3>3, <3>4
    <2>3. ASSUME m.frame = "15Min", Aggregated(X[i.sym], i.day) PROVE Aggregated(Y[i.sym], i.day)
      BY <1>5, <2>3 DEF Aggregated
    <2> QED BY <1>3, <1>6, <1>11, <2>1, <2>2, <2>3 DEF DrainPart
  <1>16. BasketInv(Y, B)
    <2> SUFFICES ASSUME NEW f \in Frames
                 PROVE  Even(Y, B, f) \/ \E s \in Symbols, d \in 1..Days : Y[s].mark[f] # <<>> /\ Dirty(Y[s], d)
      BY DEF BasketInv
    <2>1. Dirty(Y[i.sym], i.day)
      BY <1>3, <1>10 DEF Dirty
    <2>2. CASE Y[i.sym].mark[f] # <<>>
      BY <1>3, <2>1, <2>2
    <2>3. CASE Y[i.sym].mark[f] = <<>>
      <3>1. BasketIn(Y, f) = BasketIn(X, f)
        BY <1>5, <1>10, <2>3, BasketSame
      <3>2. Even(X, B, f) \/ \E s \in Symbols, d \in 1..Days : X[s].mark[f] # <<>> /\ Dirty(X[s], d)
        BY DEF DataInv, BasketInv
      <3>3. Even(X, B, f) => Even(Y, B, f)
        BY <1>10, <3>1 DEF Even
      <3> QED BY <1>10, <3>2, <3>3 DEF Dirty
    <2> QED BY <2>2, <2>3
  <1>17. DoneFrames(m) = {}
    BY DEF DoneFrames
  <1>18. DrainPrefix(m, Y)
    BY <1>10 DEF DataInv, DrainInv, DrainPrefix
  <1>19. /\ DrainFence(m, Y) /\ DrainScan(m, Y) /\ DrainShown(m, Y) /\ DrainMark(m, Y) /\ DrainBasket(m, Y, B)
    BY <1>17 DEF DrainFence, DrainScan, DrainShown, DrainMark, DrainBasket
  <1> QED BY <1>1, <1>10, <1>12, <1>13, <1>14, <1>15, <1>16, <1>18, <1>19 DEF DataInv, DrainInv

(***************************************************************************)
(* The gaps of a part of a day.                                            *)
(***************************************************************************)
Inside(f, obs) ==
  {r \in Ranges[f] : /\ r[1] \in DOMAIN obs /\ (r[2] - Length(f)) \in DOMAIN obs
                     /\ \A t \in DOMAIN obs : r[1] <= t /\ t < r[2] => obs[t] = Missing}

\* detect_data_gaps finds the maximal of the ranges without an event.
LEMMA RunsInside ==
  ASSUME NEW f, NEW obs
  PROVE  Runs(f, obs) = {r \in Inside(f, obs) : \A q \in Inside(f, obs) : q[1] <= r[1] /\ r[2] <= q[2] => q = r}
  BY DEF Runs, Inside

\* detect_data_gaps finds a run over every interval that is lacking.
LEMMA RunOver ==
  ASSUME NEW f \in Frames, NEW obs, DOMAIN obs \subseteq Intervals[f],
         NEW t \in DOMAIN obs, obs[t] = Missing, \A u \in DOMAIN obs : t <= u /\ u < t + Length(f) => u = t
  PROVE  \E r \in Runs(f, obs) : r[1] <= t /\ t + Length(f) <= r[2]
  <1> DEFINE n == Length(f)
             C == {r \in Inside(f, obs) : r[1] <= t /\ t + n <= r[2]}
             S == {r[2] - r[1] : r \in C}
             r0 == <<t, t + n>>
  <1>1. t \in Intervals[f] /\ t \in Nat /\ n \in Nat \ {0} /\ Horizon \in Nat
    BY IntervalFacts, Sizes
  <1>2. r0 \in C
    <2>1. r0 \in Ranges[f]
      BY <1>1, RangeOf
    <2>2. r0[1] = t /\ r0[2] = t + n
      OBVIOUS
    <2> HIDE DEF r0
    <2>3. r0[2] - Length(f) = t
      BY <1>1, <2>2
    <2>4. \A u \in DOMAIN obs : r0[1] <= u /\ u < r0[2] => obs[u] = Missing
      BY <2>2
    <2>5. r0[1] <= t /\ t + n <= r0[2]
      BY <1>1, <2>2
    <2>6. r0 \in Inside(f, obs)
      BY <2>1, <2>2, <2>3, <2>4 DEF Inside
    <2> QED BY <2>5, <2>6
  <1>3. \A r \in C : r[1] \in Nat /\ r[2] \in Nat /\ r[2] - r[1] \in 0..Horizon
    <2> TAKE r \in C
    <2>1. r \in Ranges[f]
      BY DEF Inside
    <2>2. /\ r[1] \in Nat /\ r[2] \in Nat /\ r[1] < r[2] /\ r[2] <= Close(Day(r[1])) /\ Day(r[1]) \in 1..Days
      BY <2>1, RangeFacts
    <2>3. Close(Day(r[1])) + 1 <= Horizon /\ Close(Day(r[1])) \in Nat
      <3>1. Day(r[1]) \in Nat \ {0}
        BY <2>2, DerivedAssumption
      <3> QED BY <2>2, <3>1, LastDay, OpenFacts
    <2> QED BY <1>1, <2>2, <2>3
  <1>4. S \in SUBSET (0..Horizon) /\ S # {}
    BY <1>2, <1>3
  <1>5. Most(S) \in S /\ \A k \in S : k <= Most(S)
    <2> HIDE DEF S
    <2> QED BY <1>1, <1>4, MostIs
  <1>6. PICK r \in C : Most(S) = r[2] - r[1]
    BY <1>5
  <1>7. ASSUME NEW q \in Inside(f, obs), q[1] <= r[1], r[2] <= q[2] PROVE q = r
    <2>1. q \in Ranges[f] /\ r \in Ranges[f]
      BY <1>7 DEF Inside
    <2>2. q = <<q[1], q[2]>> /\ r = <<r[1], r[2]>> /\ q[1] \in Nat /\ q[2] \in Nat /\ r[1] \in Nat /\ r[2] \in Nat
      BY <2>1, RangeFacts
    <2>3. r[1] <= t /\ t + n <= r[2]
      OBVIOUS
    <2>4. q[1] <= t /\ t + n <= q[2]
      BY <1>1, <1>7, <2>2, <2>3
    <2>5. q \in C
      BY <2>4
    <2>6. q[2] - q[1] \in S
      BY <2>5
    <2>7. q[2] - q[1] <= r[2] - r[1]
      BY <1>5, <1>6, <2>6
    <2>8. q[1] = r[1] /\ q[2] = r[2]
      BY <1>7, <2>2, <2>7
    <2> QED BY <2>2, <2>8
  <1>8. r \in Inside(f, obs) /\ r[1] <= t /\ t + n <= r[2]
    OBVIOUS
  <1>9. r \in Runs(f, obs)
    <2> HIDE DEF C
    <2> QED BY <1>7, <1>8, RunsInside
  <1> QED BY <1>8, <1>9

\* No interval but t starts in its length.
LEMMA Alone ==
  ASSUME NEW f \in Frames, NEW d, NEW t \in On(f, d), NEW u \in On(f, d), t <= u, u < t + Length(f)
  PROVE  u = t
  <1>1. t \in Intervals[f] /\ u \in Intervals[f] /\ Day(t) = Day(u) /\ t \in Nat /\ u \in Nat
    BY IntervalFacts DEF On
  <1>2. u <= t
    BY <1>1, Aligned
  <1> QED BY <1>1, <1>2

\* When every run is recorded and no unresolved gap is filled, the gaps of the
\* session are right (_synchronize_gaps).
LEMMA GapsRight ==
  ASSUME NEW x, NEW m, NEW d \in 1..Days, m.frame \in Frames, SymbolInv(x),
         ItemRange(x, d, m.end, TRUE), ItemObs(x, d, m, TRUE),
         \A r \in Runs(m.frame, m.obs) : x.gap[m.frame][r] # "none",
         \A r \in Unsolved(x, m.frame) : Open(d) <= r[1] /\ r[2] <= m.end =>
           \E t \in Expected(m.frame, r[1], r[2]) : m.obs[t] = Missing
  PROVE  Tracked(x, m.frame, d) /\ Lacking(x, m.frame, d)
  <1> DEFINE f == m.frame
  <1>1. m.end \in Nat /\ m.end <= Close(d) /\ Open(d) < m.end
    BY DEF ItemRange
  <1>2. DOMAIN m.obs = {t \in On(f, d) : t + Length(f) <= m.end}
    BY <1>1, ExpectedOn DEF ItemObs
  <1>3. \A t \in DOMAIN m.obs : m.obs[t] = x.event[f][t]
    BY DEF ItemObs
  <1>4. Tracked(x, f, d)
    <2> SUFFICES ASSUME NEW t \in On(f, d), t + Length(f) <= x.ckpt, x.event[f][t] = Missing
                 PROVE  Over(f, t, Unsolved(x, f)) # {}
      BY DEF Tracked
    <2>1. t \in DOMAIN m.obs /\ m.obs[t] = Missing
      BY <1>2, <1>3 DEF ItemRange
    <2>2. \A u \in DOMAIN m.obs : t <= u /\ u < t + Length(f) => u = t
      BY <1>2, Alone
    <2>3. DOMAIN m.obs \subseteq Intervals[f]
      BY <1>2 DEF On
    <2>4. PICK r \in Runs(f, m.obs) : r[1] <= t /\ t + Length(f) <= r[2]
      BY <2>1, <2>2, <2>3, RunOver
    <2>5. r \in Ranges[f] /\ x.gap[f][r] # "none"
      BY <2>4 DEF Runs
    <2>6. t \in Intervals[f] /\ t \in Nat /\ r[1] \in Nat /\ r[2] \in Nat /\ Length(f) \in Nat \ {0}
      BY <2>5, IntervalFacts, RangeFacts, Sizes DEF On
    <2>7. t \in Expected(f, r[1], r[2])
      BY <2>4, <2>6 DEF Expected
    <2>8. x.gap[f][r] # "resolved"
      BY <2>5, <2>7 DEF SymbolInv, Bounded
    <2>9. x.gap[f][r] \in {"none", "open", "repairing", "resolved"}
      BY <2>5 DEF SymbolInv, SymbolTypes
    <2>10. r \in Unsolved(x, f)
      BY <2>5, <2>8, <2>9 DEF Unsolved
    <2>11. r[1] < t + Length(f) /\ r[2] > t
      BY <2>4, <2>6
    <2> QED BY <2>10, <2>11 DEF Over
  <1>5. Lacking(x, f, d)
    <2> SUFFICES ASSUME NEW r \in Unsolved(x, f), Day(r[1]) = d
                 PROVE  \E t \in Expected(f, r[1], r[2]) : x.event[f][t] = Missing
      BY DEF Lacking
    <2>1. r \in Ranges[f] /\ r[2] <= m.end
      BY DEF Unsolved, ItemRange
    <2>2. Open(d) <= r[1] /\ r[2] \in Nat /\ r[1] \in Nat
      BY <2>1, RangeFacts
    <2>3. PICK t \in Expected(f, r[1], r[2]) : m.obs[t] = Missing
      BY <2>1, <2>2
    <2>4. t \in On(f, d)
      BY <2>1, RangeFacts
    <2>5. t + Length(f) <= r[2] /\ t + Length(f) \in Nat
      <3>1. t \in Intervals[f]
        BY <2>4 DEF On
      <3> QED BY <3>1, IntervalFacts, Sizes DEF Expected
    <2>6. t + Length(f) <= m.end
      BY <1>1, <2>1, <2>2, <2>5
    <2> QED BY <1>2, <1>3, <2>3, <2>4, <2>6
  <1> QED BY <1>4, <1>5

\* The earliest of some ranges is one of them.
LEMMA EarliestIs ==
  ASSUME NEW f \in Frames, NEW R \in SUBSET Ranges[f], R # {}
  PROVE  Earliest(R) \in R
  <1> DEFINE A == {r[1] : r \in R}
             a == Least(A)
             C == {r[2] : r \in {q \in R : q[1] = a}}
             c == Least(C)
  <1>1. \A r \in R : r[1] \in Nat /\ r[2] \in Nat
    BY RangeFacts
  <1>2. A \in SUBSET Nat /\ A # {}
    BY <1>1
  <1>3. a \in A /\ \A k \in A : a <= k
    <2> HIDE DEF A
    <2> QED BY <1>2, LeastIs
  <1>4. \A q \in R : q[1] \in A
    OBVIOUS
  <1>5. PICK r1 \in R : r1[1] = a
    BY <1>3
  <1> HIDE DEF a, A
  <1>6. C \in SUBSET Nat /\ C # {}
    BY <1>1, <1>5
  <1>7. c \in C /\ \A k \in C : c <= k
    <2> HIDE DEF C
    <2> QED BY <1>6, LeastIs
  <1>8. \A q \in R : q[1] = a => q[2] \in C
    OBVIOUS
  <1>9. PICK r \in R : r[1] = a /\ r[2] = c
    BY <1>7
  <1> HIDE DEF c, C
  <1>10. ASSUME NEW q \in R PROVE r[1] < q[1] \/ (r[1] = q[1] /\ r[2] <= q[2])
    <2>1. a <= q[1] /\ q[1] \in Nat /\ a \in Nat
      BY <1>1, <1>2, <1>3, <1>4
    <2>2. CASE q[1] = a
      BY <1>7, <1>8, <1>9, <2>2
    <2>3. CASE q[1] # a
      BY <1>9, <2>1, <2>3
    <2> QED BY <2>2, <2>3
  <1> QED BY <1>10 DEF Earliest

\* The item in hand and the part of its session.
LEMMA Hand ==
  ASSUME NEW X, NEW B, NEW m, DataInv(m, X, B), m.pc \in {"gaps", "aggregate"}
  PROVE  LET i == FirstOf(m.todo)
         IN /\ i \in m.todo /\ i \in m.items /\ i.sym \in Symbols /\ i.day \in 1..Days
            /\ Dirty(X[i.sym], i.day) /\ SymbolInv(X[i.sym]) /\ m.frame \in Frames
            /\ InHand(m, i)
            /\ ItemRange(X[i.sym], i.day, m.end, Current(X, i))
            /\ ItemObs(X[i.sym], i.day, m, Current(X, i))
            /\ DOMAIN m.obs = {t \in On(m.frame, i.day) : t + Length(m.frame) <= m.end}
            /\ m.end \in Nat /\ Open(i.day) < m.end /\ m.end <= Close(i.day) /\ Day(m.end - 1) = i.day
            /\ \A r \in Ranges[m.frame] : Open(i.day) <= r[1] /\ r[2] <= m.end =>
                 /\ Day(r[1]) = i.day
                 /\ \A t \in Expected(m.frame, r[1], r[2]) : t \in DOMAIN m.obs
  <1> DEFINE i == FirstOf(m.todo)
  <1>1. (\A s \in Symbols : SymbolInv(X[s])) /\ DrainTypes(m) /\ DrainItems(m, X)
    BY DEF DataInv, DrainInv
  <1>2. m.todo # {}
    BY <1>1 DEF DrainItems, ItemPC
  <1>3. /\ i \in m.todo /\ i \in m.items /\ i.sym \in Symbols /\ i.day \in 1..Days
        /\ Dirty(X[i.sym], i.day)
    BY <1>1, <1>2, FirstItem
  <1>4. InHand(m, i) /\ m.pc # "read"
    BY DEF InHand
  <1> HIDE DEF i
  <1>5. ItemRange(X[i.sym], i.day, m.end, Current(X, i)) /\ ItemObs(X[i.sym], i.day, m, Current(X, i))
    BY <1>3, <1>4 DEF DataInv, DrainInv, DrainRange, DrainObs
  <1>6. m.end \in Nat /\ Open(i.day) < m.end /\ m.end <= Close(i.day) /\ m.frame \in Frames
    BY <1>1, <1>5 DEF ItemRange, DrainTypes
  <1>7. DOMAIN m.obs = {t \in On(m.frame, i.day) : t + Length(m.frame) <= m.end}
    BY <1>3, <1>5, <1>6, ExpectedOn DEF ItemObs
  <1>8. i.day \in Nat \ {0} /\ Open(i.day) \in Nat /\ Close(i.day) \in Nat
    BY <1>3, OpenFacts, DerivedAssumption
  <1>9. Day(m.end - 1) = i.day
    <2> DEFINE u == m.end - 1
    <2>1. u \in Nat /\ Open(i.day) <= u /\ u <= Close(i.day)
      BY <1>6, <1>8
    <2> HIDE DEF u
    <2>2. Day(u) = i.day
      BY <1>8, <2>1, DayIs
    <2> QED BY <2>2 DEF u
  <1>10. ASSUME NEW r \in Ranges[m.frame], Open(i.day) <= r[1], r[2] <= m.end
         PROVE  Day(r[1]) = i.day /\ \A t \in Expected(m.frame, r[1], r[2]) : t \in DOMAIN m.obs
    <2>1. r[1] \in Nat /\ r[2] \in Nat /\ r[1] < r[2]
      BY <1>6, RangeFacts
    <2>2. r[1] <= Close(i.day)
      BY <1>6, <1>8, <1>10, <2>1
    <2>3. Day(r[1]) = i.day
      BY <1>8, <1>10, <2>1, <2>2, DayIs
    <2>4. ASSUME NEW t \in Expected(m.frame, r[1], r[2]) PROVE t \in DOMAIN m.obs
      <3>1. t \in On(m.frame, i.day) /\ t \in Intervals[m.frame] /\ t + Length(m.frame) <= r[2]
        BY <1>6, <2>3, RangeFacts DEF Expected
      <3>2. t + Length(m.frame) \in Nat
        BY <1>6, <3>1, IntervalFacts, Sizes
      <3>3. t + Length(m.frame) <= m.end
        BY <1>6, <1>10, <2>1, <3>1, <3>2
      <3> QED BY <1>7, <3>1, <3>3
    <2> QED BY <2>3, <2>4
  <1> QED BY <1>1, <1>3, <1>4, <1>5, <1>6, <1>7, <1>9, <1>10 DEF i

\* GapRepository.record, begin_repair and complete_repair.
SetTo(x, y, f, r, status) ==
  /\ y.event = x.event /\ y.ckpt = x.ckpt /\ y.work = x.work /\ y.mark = x.mark
  /\ y.gap = [x.gap EXCEPT ![f][r] = status]

\* A gap recorded, begun or completed keeps the invariant.
LEMMA SetKeeps ==
  ASSUME NEW X, NEW Y, NEW B, NEW m, DataInv(m, X, B), m.pc = "gaps",
         NEW r \in Ranges[m.frame], NEW status \in {"open", "repairing", "resolved"},
         LET i == FirstOf(m.todo)
         IN /\ \A s \in Symbols : s # i.sym => Y[s] = X[s]
            /\ SetTo(X[i.sym], Y[i.sym], m.frame, r, status)
            /\ Day(r[1]) = i.day /\ r[2] <= m.end
            /\ status = "resolved" =>
                 \A t \in Expected(m.frame, r[1], r[2]) : X[i.sym].event[m.frame][t] # Missing
  PROVE  DataInv(m, Y, B)
  <1> DEFINE i == FirstOf(m.todo)  x == X[i.sym]  y == Y[i.sym]  f == m.frame
  <1>1. SymbolInv(x) /\ f \in Frames
    BY Hand
  <1>2. SetTo(x, y, f, r, status) /\ Day(r[1]) = i.day /\ r[2] <= m.end
        /\ (status = "resolved" => \A t \in Expected(f, r[1], r[2]) : x.event[f][t] # Missing)
    OBVIOUS
  <1>9. \A s \in Symbols : s # i.sym => Y[s] = X[s]
    OBVIOUS
  <1> HIDE DEF i, x, y, f
  <1>3. DOMAIN x.gap = Frames /\ \A g \in Frames : x.gap[g] \in [Ranges[g] -> {"none", "open", "repairing", "resolved"}]
    BY <1>1 DEF SymbolInv, SymbolTypes
  <1>4. /\ DOMAIN y.gap = Frames /\ \A g \in Frames : g # f => y.gap[g] = x.gap[g]
        /\ y.gap[f] = [x.gap[f] EXCEPT ![r] = status]
    BY <1>1, <1>2, <1>3 DEF SetTo
  <1>5. /\ \A g \in Frames : y.gap[g] \in [Ranges[g] -> {"none", "open", "repairing", "resolved"}]
        /\ y.gap[f][r] = status /\ \A q \in Ranges[f] : q # r => y.gap[f][q] = x.gap[f][q]
    BY <1>1, <1>3, <1>4 DEF f
  <1>6. ASSUME NEW g \in Frames, NEW q \in Ranges[g]
        PROVE  /\ Day(q[1]) # i.day => y.gap[g][q] = x.gap[g][q]
               /\ y.gap[g][q] = "resolved" =>
                    x.gap[g][q] = "resolved" \/ \A t \in Expected(g, q[1], q[2]) : x.event[g][t] # Missing
               /\ q \in Unsolved(y, g) => q \in Unsolved(x, g) \/ q[2] <= m.end
    <2>1. CASE g = f /\ q = r
      BY <1>2, <1>5, <2>1
    <2>2. CASE ~(g = f /\ q = r)
      <3>1. y.gap[g][q] = x.gap[g][q]
        BY <1>4, <1>5, <2>2
      <3> QED BY <3>1 DEF Unsolved
    <2> QED BY <2>1, <2>2
  <1>7. Worked(x, y, i.day, m.end)
    BY <1>1, <1>2, <1>4, <1>5, <1>6, ZenonT(30) DEF Worked, SetTo, SymbolInv, SymbolTypes, Frames
  <1>8. /\ f = "1Min" \/ y.event = x.event
        /\ MinutesDone(m) => y.gap["1Min"] = x.gap["1Min"]
    BY <1>2, <1>4, ZenonT(30) DEF SetTo, MinutesDone, Frames, f
  <1> QED BY <1>7, <1>8, <1>9, WorkedKeeps DEF i, x, y, f

\* An aggregate materialized keeps the invariant.
LEMMA MaterializeKeeps ==
  ASSUME NEW X, NEW Y, NEW B, NEW m, DataInv(m, X, B), m.pc = "aggregate", NEW c, c # Missing,
         NEW b \in Expected("15Min", Open(Day(m.end - 1)), m.end),
         LET i == FirstOf(m.todo)  x == X[i.sym]  y == Y[i.sym]
         IN /\ \A s \in Symbols : s # i.sym => Y[s] = X[s]
            /\ y.gap = x.gap /\ y.ckpt = x.ckpt /\ y.work = x.work /\ y.mark = x.mark
            /\ y.event = [x.event EXCEPT !["15Min"][b] = c]
  PROVE  DataInv(m, Y, B)
  <1> DEFINE i == FirstOf(m.todo)  x == X[i.sym]  y == Y[i.sym]
  <1>1. SymbolInv(x) /\ Day(m.end - 1) = i.day /\ m.end \in Nat /\ m.end <= Close(i.day) /\ i.day \in 1..Days
    BY Hand
  <1>2. /\ y.gap = x.gap /\ y.ckpt = x.ckpt /\ y.work = x.work /\ y.mark = x.mark
        /\ y.event = [x.event EXCEPT !["15Min"][b] = c]
    OBVIOUS
  <1>3. \A s \in Symbols : s # i.sym => Y[s] = X[s]
    OBVIOUS
  <1> HIDE DEF i, x, y
  <1>4. b \in On("15Min", i.day)
    <2>1. "15Min" \in Frames
      BY DEF Frames
    <2> QED BY <1>1, <2>1, ExpectedOn
  <1>5. DOMAIN x.event = Frames /\ DOMAIN x.event["15Min"] = Intervals["15Min"]
    BY <1>1 DEF SymbolInv, SymbolTypes, Frames
  <1>6. /\ DOMAIN y.event = Frames /\ y.event["1Min"] = x.event["1Min"]
        /\ y.event["15Min"] = [x.event["15Min"] EXCEPT ![b] = c]
    BY <1>2, <1>5 DEF Frames
  <1>7. /\ DOMAIN y.event["15Min"] = Intervals["15Min"]
        /\ \A t \in Intervals["15Min"] : y.event["15Min"][t] = IF t = b THEN c ELSE x.event["15Min"][t]
    BY <1>5, <1>6
  <1>8. \A f \in Frames : Unsolved(y, f) = Unsolved(x, f)
    BY <1>2, SMTT(30) DEF Unsolved
  <1>9. Worked(x, y, i.day, m.end)
    BY <1>1, <1>2, <1>4, <1>6, <1>7, <1>8 DEF Worked, SymbolInv, SymbolTypes, On
  <1>10. m.frame = "1Min"
    BY DEF DataInv, DrainInv, DrainTypes
  <1> QED BY <1>2, <1>3, <1>9, <1>10, WorkedKeeps, ZenonT(30) DEF i, x, y

(***************************************************************************)
(* The steps of the drain's memory.                                        *)
(***************************************************************************)
LEMMA Between ==
  ASSUME NEW X, NEW B, NEW m, NEW n,
         \A s \in Symbols : SymbolInv(X[s]), BasketInv(X, B), DrainPrefix(m, X),
         DrainTypes(n), DrainItems(n, X),
         n.pc \in {"idle", "inspect", "fence"}, n.frame = "1Min", n.prefix = m.prefix
  PROVE  DataInv(n, X, B)
  <1>1. DrainRange(n, X) /\ DrainObs(n, X) /\ DrainPart(n, X)
    BY DEF DrainRange, DrainObs, DrainPart, InHand
  <1>2. DoneFrames(n) = {}
    BY DEF DoneFrames
  <1>3. DrainFence(n, X) /\ DrainScan(n, X) /\ DrainShown(n, X) /\ DrainMark(n, X) /\ DrainBasket(n, X, B)
    BY <1>2 DEF DrainFence, DrainScan, DrainShown, DrainMark, DrainBasket
  <1>4. DrainPrefix(n, X)
    BY DEF DrainPrefix
  <1> QED BY <1>1, <1>3, <1>4 DEF DataInv, DrainInv

\* Going on to the next item keeps the invariant if the item was put in order.
LEMMA NextItemKeeps ==
  ASSUME NEW X, NEW B, NEW m, DataInv(m, X, B), m.pc \in ItemPC,
         LET i == FirstOf(m.todo) IN Current(X, i) => Synced(X[i.sym], i.day)
  PROVE  DataInv(NextItem(m), X, B)
  <1> DEFINE i == FirstOf(m.todo)  n == NextItem(m)
  <1>1. (\A s \in Symbols : SymbolInv(X[s])) /\ DrainTypes(m) /\ DrainItems(m, X)
    BY DEF DataInv, DrainInv
  <1>2. m.todo # {} /\ DOMAIN m = Fields
    BY <1>1 DEF DrainItems, ItemPC, DrainTypes
  <1>3. i \in m.todo /\ i \in m.items
    BY <1>1, <1>2, FirstItem
  <1>4. Current(X, i) => Synced(X[i.sym], i.day)
    OBVIOUS
  <1>5. /\ DOMAIN n = Fields /\ n.items = m.items /\ n.todo = m.todo \ {i} /\ n.frame = "1Min"
        /\ n.prefix = m.prefix
        /\ IF m.todo \ {i} # {} THEN n.pc = "inspect" ELSE n.pc = "fence" /\ n.sym = FirstOf(m.items).sym
    BY <1>2 DEF NextItem, Fields
  <1> HIDE DEF n, i
  <1>6. DrainTypes(n)
    BY <1>5 DEF DrainTypes, ItemPC, SymbolPC, Frames
  <1>7. FirstOf(m.items) \in m.items /\ FirstOf(m.items).sym \in Symbols
    <2>1. \A j \in m.items : QueueRow(j)
      BY <1>1 DEF DrainItems
    <2>2. FirstOf(m.items) \in m.items
      BY <1>3, <2>1, FirstIs
    <2> QED BY <2>1, <2>2 DEF QueueRow
  <1>8. n.pc = "fence" => n.todo = {} /\ n.sym \in Symbols /\ Its(n) # {}
    BY <1>5, <1>7 DEF Its
  <1>9. n.pc = "inspect" => n.todo # {}
    BY <1>5
  <1>10. \A j \in n.items \ n.todo : Current(X, j) => Synced(X[j.sym], j.day)
    BY <1>1, <1>4, <1>5 DEF DrainItems
  <1>11. n.pc \in {"inspect", "fence"}
    BY <1>5
  <1>12. DrainItems(n, X)
    BY <1>1, <1>5, <1>8, <1>9, <1>10, <1>11 DEF DrainItems, ItemPC, SymbolPC
  <1>13. DataInv(n, X, B)
    BY <1>5, <1>6, <1>11, <1>12, Between DEF DataInv, DrainInv
  <1> QED BY <1>13 DEF n

\* A step within the item in hand.
LEMMA HandKeeps ==
  ASSUME NEW X, NEW B, NEW m, NEW n, DataInv(m, X, B), m.pc \in ItemPC, DrainTypes(n),
         n.items = m.items, n.todo = m.todo, n.prefix = m.prefix, n.pc \in {"read", "gaps", "aggregate"},
         LET i == FirstOf(m.todo)  x == X[i.sym]
         IN /\ ItemRange(x, i.day, n.end, Current(X, i))
            /\ n.pc # "read" => ItemObs(x, i.day, n, Current(X, i))
            /\ Current(X, i) =>
                 /\ MinutesDone(n) => Tracked(x, "1Min", i.day) /\ Lacking(x, "1Min", i.day)
                 /\ n.pc = "gaps" /\ n.frame = "15Min" => Aggregated(x, i.day)
  PROVE  DataInv(n, X, B)
  <1> DEFINE i == FirstOf(m.todo)  x == X[i.sym]
  <1>1. DrainItems(m, X)
    BY DEF DataInv, DrainInv
  <1>2. \A j \in n.todo : InHand(n, j) => j = i
    BY DEF InHand
  <1>3. /\ ItemRange(x, i.day, n.end, Current(X, i))
        /\ n.pc # "read" => ItemObs(x, i.day, n, Current(X, i))
        /\ Current(X, i) =>
             /\ MinutesDone(n) => Tracked(x, "1Min", i.day) /\ Lacking(x, "1Min", i.day)
             /\ n.pc = "gaps" /\ n.frame = "15Min" => Aggregated(x, i.day)
    OBVIOUS
  <1>4. DrainItems(n, X)
    BY <1>1 DEF DrainItems, ItemPC, SymbolPC
  <1> HIDE DEF i
  <1>5. DrainRange(n, X) /\ DrainObs(n, X) /\ DrainPart(n, X)
    BY <1>2, <1>3 DEF DrainRange, DrainObs, DrainPart
  <1>6. DoneFrames(n) = {}
    BY DEF DoneFrames
  <1>7. DrainFence(n, X) /\ DrainScan(n, X) /\ DrainShown(n, X) /\ DrainMark(n, X) /\ DrainBasket(n, X, B)
    BY <1>6 DEF DrainFence, DrainScan, DrainShown, DrainMark, DrainBasket
  <1>8. DrainPrefix(n, X)
    BY DEF DataInv, DrainInv, DrainPrefix
  <1> QED BY <1>4, <1>5, <1>7, <1>8 DEF DataInv, DrainInv

\* A day past everything known has nothing to do.
LEMMA NothingKnown ==
  ASSUME NEW x, NEW d \in 1..Days, SymbolInv(x), In(x) <= Open(d)
  PROVE  Synced(x, d)
  <1>1. x.ckpt \in Nat /\ In(x) \in Nat /\ x.ckpt <= In(x)
        /\ \A u \in Intervals["1Min"] : x.event["1Min"][u] # Missing => u + 1 <= In(x)
    BY InIs, Sizes DEF SymbolInv, SymbolTypes
  <1>2. d \in Nat \ {0} /\ Open(d) \in Nat
    BY OpenFacts, DerivedAssumption
  <1>3. \A f \in Frames : \A t \in On(f, d) :
          t \in Intervals[f] /\ t \in Nat /\ Open(d) <= t /\ Length(f) \in Nat \ {0}
    BY IntervalFacts, Sizes DEF On
  <1>4. Aggregated(x, d)
    <2> SUFFICES ASSUME NEW b \in On("15Min", d), \A i \in 1..BucketMinutes : x.event["1Min"][b + i - 1] # Missing
                 PROVE  FALSE
      BY DEF Aggregated
    <2>1. 1 \in 1..BucketMinutes /\ b \in Intervals["15Min"] /\ b \in Nat /\ Open(d) <= b
      BY <1>3, Sizes DEF On, Frames
    <2>2. b + 1 - 1 \in Intervals["1Min"] /\ b + 1 - 1 = b
      BY <2>1, Minutes
    <2>3. x.event["1Min"][b + 1 - 1] # Missing
      BY <2>1
    <2>4. x.event["1Min"][b] # Missing /\ b \in Intervals["1Min"]
      BY <2>2, <2>3, Zenon
    <2>5. b + 1 <= In(x)
      BY <1>1, <2>4
    <2> QED BY <1>1, <1>2, <2>1, <2>5
  <1>5. \A f \in Frames : Tracked(x, f, d)
    BY <1>1, <1>2, <1>3 DEF Tracked
  <1>6. ASSUME NEW f \in Frames PROVE Lacking(x, f, d)
    <2> SUFFICES ASSUME NEW r \in Unsolved(x, f), Day(r[1]) = d PROVE FALSE
      BY DEF Lacking
    <2>1. r \in Ranges[f] /\ r[2] <= In(x)
      BY DEF Unsolved, SymbolInv, Bounded
    <2>2. r[1] \in Nat /\ r[2] \in Nat /\ r[1] < r[2] /\ Open(d) <= r[1]
      BY <2>1, RangeFacts
    <2> QED BY <1>1, <1>2, <2>1, <2>2
  <1> QED BY <1>4, <1>5, <1>6 DEF Synced

\* The range that _process_session looks at.
LEMMA InspectKeeps ==
  ASSUME NEW X, NEW B, NEW m, DataInv(m, X, B), m.pc = "inspect", NEW end,
         LET i == FirstOf(m.todo) IN end = Least({Close(i.day), Known(X[i.sym], i.work.through)})
  PROVE  LET i == FirstOf(m.todo)
         IN DataInv(IF end <= Open(i.day) THEN NextItem(m) ELSE [m EXCEPT !.pc = "read", !.end = end], X, B)
  <1> DEFINE i == FirstOf(m.todo)  x == X[i.sym]  n == [m EXCEPT !.pc = "read", !.end = end]
  <1>1. (\A s \in Symbols : SymbolInv(X[s])) /\ DrainTypes(m) /\ DrainItems(m, X)
    BY DEF DataInv, DrainInv
  <1>2. m.todo # {} /\ DOMAIN m = Fields
    BY <1>1 DEF DrainItems, ItemPC, DrainTypes
  <1>3. /\ i \in m.todo /\ i.sym \in Symbols /\ i.day \in 1..Days
        /\ i.work.through \in Nat /\ i.work.through <= In(x)
    BY <1>1, <1>2, FirstItem
  <1>4. end = Least({Close(i.day), Known(x, i.work.through)})
    OBVIOUS
  <1> HIDE DEF i
  <1>5. SymbolInv(x) /\ x.ckpt \in 0..Horizon /\ In(x) \in Nat /\ x.ckpt \in Nat /\ x.ckpt <= In(x)
    <2>1. SymbolInv(x)
      BY <1>1, <1>3
    <2>2. x.ckpt \in 0..Horizon /\ Horizon \in Nat
      BY <2>1, Sizes DEF SymbolInv, SymbolTypes
    <2> HIDE DEF x
    <2> QED BY <2>1, <2>2, InIs
  <1>6. Known(x, i.work.through) = In(x)
    BY <1>3, <1>5, KnownSame
  <1>7. i.day \in Nat \ {0} /\ Open(i.day) \in Nat /\ Close(i.day) \in Nat /\ Open(i.day) <= Close(i.day)
        /\ Open(i.day) < Close(i.day)
    BY <1>3, OpenFacts, DerivedAssumption
  <1>8. end = IF Close(i.day) <= In(x) THEN Close(i.day) ELSE In(x)
    BY <1>4, <1>5, <1>6, <1>7, LeastOfTwo
  <1>9. CASE end <= Open(i.day)
    <2>1. In(x) <= Open(i.day)
      BY <1>5, <1>7, <1>8, <1>9
    <2>2. Synced(x, i.day)
      BY <1>3, <1>5, <2>1, NothingKnown
    <2>3. DataInv(NextItem(m), X, B)
      BY <2>2, NextItemKeeps DEF ItemPC, i
    <2> QED BY <1>9, <2>3 DEF i
  <1>10. CASE ~(end <= Open(i.day))
    <2>1. end \in Nat /\ Open(i.day) < end /\ end <= Close(i.day) /\ end <= In(x)
      BY <1>5, <1>7, <1>8, <1>10
    <2>2. /\ DOMAIN n = Fields /\ n.pc = "read" /\ n.end = end /\ n.items = m.items /\ n.todo = m.todo
          /\ n.prefix = m.prefix /\ n.frame = m.frame
      BY <1>2 DEF Fields
    <2> HIDE DEF n
    <2>3. DrainTypes(n)
      BY <1>1, <2>2 DEF DrainTypes, ItemPC, SymbolPC
    <2>4. ASSUME NEW f \in Frames, NEW r \in Unsolved(x, f), Day(r[1]) = i.day PROVE r[2] <= end
      <3>1. r \in Ranges[f] /\ r[2] <= In(x)
        BY <1>5 DEF Unsolved, SymbolInv, Bounded
      <3>2. r[2] \in Nat /\ r[2] <= Close(i.day)
        BY <2>4, <3>1, RangeFacts
      <3> QED BY <1>5, <1>7, <1>8, <3>1, <3>2
    <2>5. ASSUME NEW t \in On("1Min", i.day), x.event["1Min"][t] # Missing PROVE t + 1 <= end
      <3>1. t \in Intervals["1Min"] /\ t \in Nat /\ t + 1 <= Close(i.day)
        BY IntervalFacts, Sizes DEF On, Frames
      <3>2. t + 1 <= In(x)
        BY <1>5, <2>5, <3>1, InIs
      <3> QED BY <1>5, <1>7, <1>8, <3>1, <3>2
    <2>6. ASSUME NEW f \in Frames, NEW t \in On(f, i.day), t + Length(f) <= x.ckpt PROVE t + Length(f) <= end
      <3>1. t \in Nat /\ t + Length(f) \in Nat /\ t + Length(f) <= Close(i.day)
        BY IntervalFacts, Sizes DEF On
      <3> QED BY <1>5, <1>7, <1>8, <2>6, <3>1
    <2>7. ItemRange(x, i.day, n.end, Current(X, i))
      BY <2>1, <2>2, <2>4, <2>5, <2>6 DEF ItemRange
    <2>8. ~MinutesDone(n)
      BY <2>2 DEF MinutesDone
    <2>9. DataInv(n, X, B)
      BY <2>2, <2>3, <2>7, <2>8, HandKeeps DEF i, ItemPC
    <2> QED BY <1>10, <2>9 DEF i, n
  <1> QED BY <1>9, <1>10 DEF i

\* The minutes are read.
LEMMA ReadMinutesKeeps ==
  ASSUME NEW X, NEW B, NEW m, DataInv(m, X, B), m.pc = "read"
  PROVE  LET i == FirstOf(m.todo)
         IN DataInv([m EXCEPT !.pc = "gaps",
                       !.obs = Only(X[i.sym].event["1Min"], Expected("1Min", Open(i.day), m.end))], X, B)
  <1> DEFINE i == FirstOf(m.todo)  x == X[i.sym]
             n == [m EXCEPT !.pc = "gaps", !.obs = Only(x.event["1Min"], Expected("1Min", Open(i.day), m.end))]
  <1>1. (\A s \in Symbols : SymbolInv(X[s])) /\ DrainTypes(m) /\ DrainItems(m, X)
    BY DEF DataInv, DrainInv
  <1>2. m.todo # {} /\ DOMAIN m = Fields /\ m.frame = "1Min"
    BY <1>1 DEF DrainItems, ItemPC, DrainTypes
  <1>3. i \in m.todo /\ i.sym \in Symbols /\ i.day \in 1..Days
    BY <1>1, <1>2, FirstItem
  <1>4. InHand(m, i)
    BY DEF InHand
  <1> HIDE DEF i
  <1>5. ItemRange(x, i.day, m.end, Current(X, i))
    BY <1>3, <1>4 DEF DataInv, DrainInv, DrainRange
  <1>6. /\ DOMAIN n = Fields /\ n.pc = "gaps" /\ n.end = m.end /\ n.items = m.items /\ n.todo = m.todo
        /\ n.prefix = m.prefix /\ n.frame = "1Min"
        /\ n.obs = [t \in Expected("1Min", Open(i.day), m.end) |-> x.event["1Min"][t]]
    BY <1>2 DEF Fields, Only
  <1> HIDE DEF n
  <1>7. DrainTypes(n)
    BY <1>1, <1>6 DEF DrainTypes, ItemPC, SymbolPC
  <1>8. ItemObs(x, i.day, n, Current(X, i))
    BY <1>6 DEF ItemObs
  <1>9. ~MinutesDone(n)
    BY <1>6 DEF MinutesDone
  <1>10. DataInv(n, X, B)
    BY <1>5, <1>6, <1>7, <1>8, <1>9, HandKeeps DEF i, ItemPC
  <1> QED BY <1>10 DEF i, n

\* The gaps of a timeframe are done.
LEMMA GapsDoneKeeps ==
  ASSUME NEW X, NEW B, NEW m, DataInv(m, X, B), m.pc = "gaps",
         LET i == FirstOf(m.todo)  x == X[i.sym]
         IN /\ \A r \in Runs(m.frame, m.obs) : x.gap[m.frame][r] # "none"
            /\ \A r \in Unsolved(x, m.frame) : Open(i.day) <= r[1] /\ r[2] <= m.end =>
                 \E t \in Expected(m.frame, r[1], r[2]) : m.obs[t] = Missing
  PROVE  DataInv(IF m.frame = "1Min" THEN [m EXCEPT !.pc = "aggregate"] ELSE NextItem(m), X, B)
  <1> DEFINE i == FirstOf(m.todo)  x == X[i.sym]  n == [m EXCEPT !.pc = "aggregate"]
  <1>1. DrainTypes(m) /\ m.frame \in Frames /\ SymbolInv(x) /\ i.day \in 1..Days
        /\ i \in m.todo /\ InHand(m, i)
        /\ ItemRange(x, i.day, m.end, Current(X, i)) /\ ItemObs(x, i.day, m, Current(X, i))
    BY Hand DEF DataInv, DrainInv
  <1>2. /\ \A r \in Runs(m.frame, m.obs) : x.gap[m.frame][r] # "none"
        /\ \A r \in Unsolved(x, m.frame) : Open(i.day) <= r[1] /\ r[2] <= m.end =>
             \E t \in Expected(m.frame, r[1], r[2]) : m.obs[t] = Missing
    OBVIOUS
  <1> HIDE DEF i, x
  <1>3. Current(X, i) => Tracked(x, m.frame, i.day) /\ Lacking(x, m.frame, i.day)
    <2> SUFFICES ASSUME Current(X, i) PROVE Tracked(x, m.frame, i.day) /\ Lacking(x, m.frame, i.day)
      OBVIOUS
    <2>1. Current(X, i) = TRUE
      BY DEF Current
    <2>2. ItemRange(x, i.day, m.end, TRUE) /\ ItemObs(x, i.day, m, TRUE)
      BY <1>1, <2>1, Zenon
    <2> QED BY <1>1, <1>2, <2>2, GapsRight
  <1>4. CASE m.frame = "1Min"
    <2>1. /\ DOMAIN n = Fields /\ n.pc = "aggregate" /\ n.end = m.end /\ n.items = m.items /\ n.todo = m.todo
          /\ n.prefix = m.prefix /\ n.frame = m.frame /\ n.obs = m.obs
      BY <1>1 DEF Fields, DrainTypes
    <2> HIDE DEF n
    <2>2. DrainTypes(n)
      BY <1>1, <1>4, <2>1 DEF DrainTypes, ItemPC, SymbolPC
    <2>3. ItemObs(x, i.day, n, Current(X, i)) /\ ItemRange(x, i.day, n.end, Current(X, i))
      BY <1>1, <2>1 DEF ItemObs
    <2>4. DataInv(n, X, B)
      BY <1>3, <1>4, <2>1, <2>2, <2>3, HandKeeps DEF i, x, ItemPC
    <2> QED BY <1>4, <2>4 DEF n
  <1>5. CASE m.frame = "15Min"
    <2>1. Current(X, i) =>
            Tracked(x, "1Min", i.day) /\ Lacking(x, "1Min", i.day) /\ Aggregated(x, i.day)
      BY <1>1, <1>5 DEF DataInv, DrainInv, DrainPart, MinutesDone, i, x
    <2>2. Current(X, i) => Synced(x, i.day)
      BY <1>3, <1>5, <2>1 DEF Synced, Frames
    <2>3. DataInv(NextItem(m), X, B)
      BY <2>2, NextItemKeeps DEF i, x, ItemPC
    <2> QED BY <1>5, <2>3
  <1> QED BY <1>1, <1>4, <1>5 DEF Frames

\* The aggregates are read.
LEMMA ReadAggregatesKeeps ==
  ASSUME NEW X, NEW B, NEW m, DataInv(m, X, B), m.pc = "aggregate",
         LET i == FirstOf(m.todo)  x == X[i.sym]
         IN \A b \in Expected("15Min", Open(Day(m.end - 1)), m.end) :
              (\A k \in 1..BucketMinutes : m.obs[b + k - 1] # Missing) =>
                x.event["15Min"][b] = Constituents(m.obs, b)
  PROVE  LET i == FirstOf(m.todo)
         IN DataInv([m EXCEPT !.pc = "gaps", !.frame = "15Min",
                       !.obs = Only(X[i.sym].event["15Min"], Expected("15Min", Open(i.day), m.end))], X, B)
  <1> DEFINE i == FirstOf(m.todo)  x == X[i.sym]
             n == [m EXCEPT !.pc = "gaps", !.frame = "15Min",
                     !.obs = Only(x.event["15Min"], Expected("15Min", Open(i.day), m.end))]
  <1>1. /\ DrainTypes(m) /\ m.frame = "1Min" /\ SymbolInv(x) /\ i.day \in 1..Days
        /\ i \in m.todo /\ InHand(m, i) /\ Day(m.end - 1) = i.day
        /\ m.end \in Nat /\ m.end <= Close(i.day)
        /\ ItemRange(x, i.day, m.end, Current(X, i)) /\ ItemObs(x, i.day, m, Current(X, i))
        /\ DOMAIN m.obs = {t \in On("1Min", i.day) : t + Length("1Min") <= m.end}
    BY Hand DEF DataInv, DrainInv, DrainTypes
  <1>2. \A b \in Expected("15Min", Open(i.day), m.end) :
          (\A k \in 1..BucketMinutes : m.obs[b + k - 1] # Missing) =>
            x.event["15Min"][b] = Constituents(m.obs, b)
    BY <1>1
  <1>3. Current(X, i) => Tracked(x, "1Min", i.day) /\ Lacking(x, "1Min", i.day)
    BY <1>1 DEF DataInv, DrainInv, DrainPart, MinutesDone
  <1> HIDE DEF i, x
  <1>4. Current(X, i) => Aggregated(x, i.day)
    <2> SUFFICES ASSUME Current(X, i), NEW b \in On("15Min", i.day),
                        \A k \in 1..BucketMinutes : x.event["1Min"][b + k - 1] # Missing
                 PROVE  x.event["15Min"][b] = Constituents(x.event["1Min"], b)
      BY DEF Aggregated
    <2>1. b \in Intervals["15Min"] /\ Day(b) = i.day /\ b \in Nat /\ BucketMinutes \in Nat \ {0}
          /\ "15Min" \in Frames /\ "1Min" \in Frames
          /\ Length("15Min") = BucketMinutes /\ Length("1Min") = 1
      BY IntervalFacts, Sizes DEF On, Frames
    <2>2. \A t \in On("1Min", i.day) : x.event["1Min"][t] # Missing => t + 1 <= m.end
      BY <1>1 DEF ItemRange
    <2>3. ASSUME NEW k \in 1..BucketMinutes
          PROVE  b + k - 1 \in DOMAIN m.obs /\ m.obs[b + k - 1] = x.event["1Min"][b + k - 1]
      <3>1. b + k - 1 \in On("1Min", i.day)
        BY <2>1, Minutes DEF On
      <3>2. (b + k - 1) + 1 <= m.end
        BY <2>2, <3>1
      <3>3. b + k - 1 \in DOMAIN m.obs
        BY <1>1, <2>1, <3>1, <3>2
      <3> QED BY <1>1, <3>3 DEF ItemObs
    <2>4. BucketMinutes \in 1..BucketMinutes /\ b + BucketMinutes - 1 \in DOMAIN m.obs
      BY <2>1, <2>3
    <2>5. (b + BucketMinutes - 1) + 1 <= m.end
      BY <1>1, <2>1, <2>4
    <2>6. b + BucketMinutes <= m.end
      BY <1>1, <2>1, <2>5
    <2>7. b \in Expected("15Min", Open(i.day), m.end)
      BY <1>1, <2>1, <2>6, ExpectedOn
    <2>8. x.event["15Min"][b] = Constituents(m.obs, b)
      BY <1>2, <2>3, <2>7
    <2>9. Constituents(m.obs, b) = Constituents(x.event["1Min"], b)
      BY <2>3 DEF Constituents
    <2> QED BY <2>8, <2>9
  <1>5. /\ DOMAIN n = Fields /\ n.pc = "gaps" /\ n.end = m.end /\ n.items = m.items /\ n.todo = m.todo
        /\ n.prefix = m.prefix /\ n.frame = "15Min"
        /\ n.obs = [t \in Expected("15Min", Open(i.day), m.end) |-> x.event["15Min"][t]]
    BY <1>1 DEF Fields, Only, DrainTypes
  <1> HIDE DEF n
  <1>6. DrainTypes(n)
    BY <1>1, <1>5 DEF DrainTypes, ItemPC, SymbolPC, Frames
  <1>7. ItemObs(x, i.day, n, Current(X, i)) /\ ItemRange(x, i.day, n.end, Current(X, i))
    BY <1>1, <1>5 DEF ItemObs
  <1>8. DataInv(n, X, B)
    BY <1>3, <1>4, <1>5, <1>6, <1>7, HandKeeps DEF i, x, ItemPC
  <1> QED BY <1>8 DEF i, x, n

\* The symbol whose readiness is refreshed.
LEMMA Subject ==
  ASSUME NEW X, NEW B, NEW m, DataInv(m, X, B), m.pc \in SymbolPC
  PROVE  /\ m.sym \in Symbols /\ SymbolInv(X[m.sym]) /\ m.frame \in Frames /\ DOMAIN m = Fields
         /\ m.todo = {} /\ Its(m) # {} /\ X[m.sym].ckpt \in 0..Horizon /\ In(X[m.sym]) \in Nat
         /\ \A i \in Its(m) :
              /\ i \in m.items /\ i.sym = m.sym /\ i.day \in 1..Days
              /\ i.work.gen \in Nat \ {0} /\ i.work.through \in Nat /\ i.work.through <= In(X[m.sym])
              /\ Dirty(X[m.sym], i.day)
  <1>1. DrainItems(m, X) /\ DrainTypes(m) /\ \A s \in Symbols : SymbolInv(X[s])
    BY DEF DataInv, DrainInv
  <1>2. m.sym \in Symbols /\ m.frame \in Frames /\ DOMAIN m = Fields /\ m.todo = {} /\ Its(m) # {}
    BY <1>1 DEF DrainItems, DrainTypes
  <1>3. SymbolInv(X[m.sym])
    BY <1>1, <1>2
  <1>4. X[m.sym].ckpt \in 0..Horizon
    BY <1>3 DEF SymbolInv, SymbolTypes
  <1>5. In(X[m.sym]) \in Nat
    BY <1>4, InIs
  <1>6. ASSUME NEW i \in Its(m)
        PROVE  /\ i \in m.items /\ i.sym = m.sym /\ i.day \in 1..Days
               /\ i.work.gen \in Nat \ {0} /\ i.work.through \in Nat /\ i.work.through <= In(X[m.sym])
               /\ Dirty(X[m.sym], i.day)
    <2>1. /\ i \in m.items /\ i.sym = m.sym /\ i.day \in 1..Days
          /\ i.work.gen \in Nat \ {0} /\ i.work.through \in Nat /\ i.work.through <= In(X[m.sym])
          /\ X[m.sym].work[i.day].gen >= i.work.gen
      BY <1>1 DEF Its, DrainItems, QueueRow
    <2>2. X[m.sym].work[i.day].gen \in Nat
      BY <1>3, <2>1 DEF SymbolInv, SymbolTypes
    <2>3. X[m.sym].work[i.day].gen # 0
      BY <2>1, <2>2
    <2> QED BY <2>1, <2>3 DEF Dirty, NoWork
  <1> QED BY <1>2, <1>3, <1>4, <1>5, <1>6

\* A step from fence to start, start to scan, and within the scan.
LEMMA ScanStep ==
  ASSUME NEW X, NEW B, NEW m, NEW n, DataInv(m, X, B), m.pc \in {"fence", "start", "scan"},
         n.pc \in {"start", "scan"}, DOMAIN n = Fields, n.items = m.items, n.todo = m.todo,
         n.sym = m.sym, n.frame = m.frame, DrainFence(n, X), DrainScan(n, X), DrainPrefix(n, X)
  PROVE  DataInv(n, X, B)
  <1>1. DrainItems(m, X) /\ DrainTypes(m) /\ m.pc \in SymbolPC
    BY DEF DataInv, DrainInv, SymbolPC
  <1>2. DrainTypes(n)
    BY <1>1 DEF DrainTypes, SymbolPC
  <1>3. Its(n) = Its(m) /\ DoneFrames(n) = DoneFrames(m)
    BY DEF Its, DoneFrames
  <1>4. DrainItems(n, X)
    BY <1>1, <1>3 DEF DrainItems, SymbolPC, ItemPC
  <1>5. DrainRange(n, X) /\ DrainObs(n, X) /\ DrainPart(n, X) /\ DrainMark(n, X)
    BY DEF DrainRange, DrainObs, DrainPart, InHand, DrainMark
  <1>6. DrainShown(n, X)
    BY <1>3 DEF DataInv, DrainInv, DrainShown
  <1>7. \A f \in Frames : Owed(m, X, f) => Owed(n, X, f)
    BY <1>3 DEF Owed
  <1>8. DrainBasket(n, X, B)
    BY <1>3, <1>7 DEF DataInv, DrainInv, DrainBasket, DoneFrames
  <1> QED BY <1>2, <1>4, <1>5, <1>6, <1>8 DEF DataInv, DrainInv

\* The fence is taken.
LEMMA TakeFenceKeeps ==
  ASSUME NEW X, NEW B, NEW m, DataInv(m, X, B), m.pc = "fence", NEW fence,
         fence.work = X[m.sym].work, fence.ckpt = X[m.sym].ckpt,
         DOMAIN fence.gaps = Unsolved(X[m.sym], m.frame)
  PROVE  DataInv([m EXCEPT !.pc = "start", !.fence = fence], X, B)
  <1> DEFINE n == [m EXCEPT !.pc = "start", !.fence = fence]  x == X[m.sym]
  <1>1. DOMAIN m = Fields /\ SymbolInv(x) /\ m.sym \in Symbols
    BY Subject DEF SymbolPC
  <1>2. /\ DOMAIN n = Fields /\ n.pc = "start" /\ n.fence = fence /\ n.items = m.items /\ n.todo = m.todo
        /\ n.sym = m.sym /\ n.frame = m.frame /\ n.prefix = m.prefix
    BY <1>1 DEF Fields
  <1> HIDE DEF n
  <1>3. FenceInv(n, x)
    <2>1. \A d \in 1..Days : x.work[d].gen \in Nat
      BY <1>1 DEF SymbolInv, SymbolTypes
    <2>2. \A d \in 1..Days : x.work[d].gen <= x.work[d].gen
      BY <2>1
    <2>3. x.ckpt \in Nat
      BY <1>1, Sizes DEF SymbolInv, SymbolTypes
    <2>4. x.ckpt <= x.ckpt
      BY <2>3
    <2> QED BY <1>2, <2>1, <2>2, <2>3, <2>4 DEF FenceInv
  <1>4. DrainFence(n, X) /\ DrainScan(n, X)
    BY <1>2, <1>3 DEF DrainFence, DrainScan
  <1>5. DrainPrefix(n, X)
    BY <1>2 DEF DataInv, DrainInv, DrainPrefix
  <1>6. DataInv(n, X, B)
    BY <1>2, <1>4, <1>5, ScanStep
  <1> QED BY <1>6 DEF n

\* The next timeframe, or the acknowledgements.
LEMMA NextFrameKeeps ==
  ASSUME NEW X, NEW B, NEW C, NEW m, NEW pre, DataInv(m, X, B), m.pc \in {"start", "basket"},
         PrefixInv(pre, m.frame, X[m.sym].mark[m.frame]),
         \A i \in Its(m) : Current(X, i) => Shown(X[m.sym], m.frame, i.day),
         \A g \in Frames : g # m.frame => C[g] = B[g],
         Even(X, C, m.frame) \/ (C = B /\ Owed(m, X, m.frame))
  PROVE  DataInv(NextFrame([m EXCEPT !.prefix[m.sym][m.frame] = pre]), X, C)
  <1> DEFINE k == [m EXCEPT !.prefix[m.sym][m.frame] = pre]  n == NextFrame(k)
  <1>1. m.sym \in Symbols /\ m.frame \in Frames /\ DOMAIN m = Fields /\ m.todo = {} /\ Its(m) # {}
    BY Subject DEF SymbolPC
  <1>2. /\ k.items = m.items /\ k.sym = m.sym /\ k.frame = m.frame
        /\ k.prefix = [m.prefix EXCEPT ![m.sym][m.frame] = pre]
    BY <1>1 DEF Fields
  <1> HIDE DEF k
  <1>3. /\ DOMAIN n = Fields /\ n.items = m.items /\ n.sym = m.sym /\ n.todo = {} /\ n.prefix = k.prefix
        /\ IF m.frame = "1Min" THEN n.pc = "fence" /\ n.frame = "15Min" ELSE n.pc = "ack" /\ n.frame = "1Min"
    BY <1>2 DEF NextFrame, Rest, Fresh, Fields
  <1> HIDE DEF n
  <1>4. Its(n) = Its(m)
    BY <1>3 DEF Its
  <1>5. DrainTypes(n)
    BY <1>3 DEF DrainTypes, SymbolPC, Frames
  <1>6. n.pc \in {"fence", "ack"}
    BY <1>3
  <1>7. DrainItems(m, X)
    BY DEF DataInv, DrainInv
  <1>8. DrainItems(n, X)
    BY <1>1, <1>3, <1>4, <1>6, <1>7 DEF DrainItems, ItemPC, SymbolPC
  <1>9. DrainRange(n, X) /\ DrainObs(n, X) /\ DrainPart(n, X) /\ DrainMark(n, X)
        /\ DrainFence(n, X) /\ DrainScan(n, X)
    BY <1>6 DEF DrainRange, DrainObs, DrainPart, InHand, DrainMark, DrainFence, DrainScan
  <1>10. \A g \in DoneFrames(n) : g \in Frames /\ (g = m.frame \/ (g \in DoneFrames(m) /\ g # m.frame))
    <2> TAKE g \in DoneFrames(n)
    <2>1. g \in Frames
      BY DEF DoneFrames
    <2>2. CASE m.frame = "1Min"
      BY <1>3, <2>1, <2>2 DEF DoneFrames
    <2>3. CASE m.frame = "15Min"
      BY <2>1, <2>3 DEF DoneFrames, Frames
    <2> QED BY <1>1, <2>1, <2>2, <2>3 DEF Frames
  <1>11. DrainShown(n, X)
    BY <1>3, <1>4, <1>10 DEF DataInv, DrainInv, DrainShown
  <1>12. \A g \in Frames : Owed(m, X, g) => Owed(n, X, g)
    BY <1>4 DEF Owed
  <1>13. \A g \in Frames : g # m.frame /\ Even(X, B, g) => Even(X, C, g)
    BY DEF Even
  <1>14. DrainBasket(n, X, C)
    <2> SUFFICES ASSUME NEW g \in DoneFrames(n) PROVE Even(X, C, g) \/ Owed(n, X, g)
      BY DEF DrainBasket
    <2>1. CASE g = m.frame
      BY <1>1, <1>12, <2>1
    <2>2. CASE g # m.frame
      <3>1. g \in DoneFrames(m) /\ g \in Frames
        BY <1>10, <2>2
      <3>2. Even(X, B, g) \/ Owed(m, X, g)
        BY <2>2, <3>1 DEF DataInv, DrainInv, DrainBasket
      <3> QED BY <1>12, <1>13, <2>2, <3>1, <3>2
    <2> QED BY <2>1, <2>2
  <1>15. BasketInv(X, C)
    <2> SUFFICES ASSUME NEW g \in Frames
                 PROVE  Even(X, C, g) \/ \E s \in Symbols, d \in 1..Days : X[s].mark[g] # <<>> /\ Dirty(X[s], d)
      BY DEF BasketInv
    <2>1. Even(X, B, g) \/ \E s \in Symbols, d \in 1..Days : X[s].mark[g] # <<>> /\ Dirty(X[s], d)
      BY DEF DataInv, BasketInv
    <2>2. CASE g = m.frame
      BY <2>2 DEF Owed
    <2>3. CASE g # m.frame
      BY <1>13, <2>1, <2>3
    <2> QED BY <2>2, <2>3
  <1>16. DrainPrefix(n, X)
    <2>1. /\ DOMAIN m.prefix = Symbols /\ \A s \in Symbols : DOMAIN m.prefix[s] = Frames
          /\ \A s \in Symbols, g \in Frames : PrefixInv(m.prefix[s][g], g, X[s].mark[g])
      BY DEF DataInv, DrainInv, DrainPrefix
    <2>2. /\ DOMAIN n.prefix = Symbols /\ \A s \in Symbols : DOMAIN n.prefix[s] = Frames
          /\ \A s \in Symbols, g \in Frames :
               n.prefix[s][g] = IF s = m.sym /\ g = m.frame THEN pre ELSE m.prefix[s][g]
      BY <1>1, <1>2, <1>3, <2>1
    <2> QED BY <1>6, <2>1, <2>2 DEF DrainPrefix
  <1>17. DataInv(n, X, C)
    BY <1>5, <1>8, <1>9, <1>11, <1>14, <1>15, <1>16 DEF DataInv, DrainInv
  <1> QED BY <1>17 DEF n, k

\* An empty history has no interval.
LEMMA EmptyExpected ==
  ASSUME NEW f \in Frames
  PROVE  Expected(f, 0, 0) = {}
  <1>1. \A t \in Intervals[f] : t \in Nat /\ Length(f) \in Nat \ {0}
    BY IntervalFacts, Sizes, SMTT(30)
  <1> QED BY <1>1 DEF Expected

\* A scan starts, from a prefix in memory or from the beginning.
LEMMA StartScanKeeps ==
  ASSUME NEW X, NEW B, NEW m, DataInv(m, X, B), m.pc = "start", NEW end, NEW use,
         end = Known(X[m.sym], LastItem(m).work.through),
         use = IF Reusable(m.prefix[m.sym][m.frame], m.fence, end)
               THEN m.prefix[m.sym][m.frame] ELSE NoPrefix
  PROVE  LET popped == [m EXCEPT !.prefix[m.sym][m.frame] = NoPrefix]
         IN DataInv(IF Expected(m.frame, use.resume, end) = {} /\ use = NoPrefix THEN NextFrame(popped)
                    ELSE [popped EXCEPT !.pc = "scan", !.end = end, !.at = use.resume, !.seen = use.seen], X, B)
  <1> DEFINE f == m.frame  x == X[m.sym]  popped == [m EXCEPT !.prefix[m.sym][m.frame] = NoPrefix]
             n == [popped EXCEPT !.pc = "scan", !.end = end, !.at = use.resume, !.seen = use.seen]
  <1>1. /\ m.sym \in Symbols /\ SymbolInv(x) /\ f \in Frames /\ DOMAIN m = Fields
        /\ m.todo = {} /\ Its(m) # {} /\ x.ckpt \in 0..Horizon /\ In(x) \in Nat
        /\ \A i \in Its(m) :
             /\ i \in m.items /\ i.sym = m.sym /\ i.day \in 1..Days
             /\ i.work.through \in Nat /\ i.work.through <= In(x)
    BY Subject DEF SymbolPC
  <1>2. end = In(x)
    <2>1. LastItem(m) \in Its(m)
      <3>1. \A i \in m.items : QueueRow(i)
        BY DEF DataInv, DrainInv, DrainItems
      <3> QED BY <1>1, <3>1, LastIs
    <2>2. end = Known(x, LastItem(m).work.through)
      OBVIOUS
    <2> QED BY <1>1, <2>1, <2>2, KnownSame
  <1>3. /\ \A d \in Symbols : DOMAIN m.prefix[d] = Frames
        /\ DOMAIN m.prefix = Symbols
        /\ PrefixInv(m.prefix[m.sym][f], f, x.mark[f])
    BY <1>1 DEF DataInv, DrainInv, DrainPrefix
  <1>4. NoPrefix.resume = 0 /\ NoPrefix.seen = <<>>
    BY DEF NoPrefix
  <1>5. FenceInv(m, x)
    BY DEF DataInv, DrainInv, DrainFence
  <1>6. CASE Expected(f, use.resume, end) = {} /\ use = NoPrefix
    <2>1. Expected(f, 0, In(x)) = {}
      BY <1>2, <1>4, <1>6
    <2>2. DOMAIN x.mark[f] = {} /\ x.mark[f] = [t \in DOMAIN x.mark[f] |-> x.mark[f][t]]
      BY <1>1, <2>1 DEF SymbolInv, SymbolTypes
    <2>3. x.mark[f] = <<>>
      BY <2>2
    <2>4. \A i \in Its(m) : Current(X, i) => Shown(x, f, i.day)
      BY <2>1, <2>2 DEF Shown, Exact, Reaches
    <2>5. Even(X, B, f) \/ Owed(m, X, f)
      <3>1. CASE Even(X, B, f)
        BY <3>1
      <3>2. CASE ~Even(X, B, f)
        <4>1. PICK s \in Symbols, d \in 1..Days : X[s].mark[f] # <<>> /\ Dirty(X[s], d)
          BY <1>1, <3>2 DEF DataInv, BasketInv
        <4>2. s # m.sym
          BY <2>3, <4>1
        <4>3. \A i \in Its(m) : i.sym # s
          BY <1>1, <4>2
        <4> QED BY <4>1, <4>3 DEF Owed
      <3> QED BY <3>1, <3>2
    <2>6. PrefixInv(NoPrefix, f, x.mark[f])
      BY DEF PrefixInv
    <2>7. DataInv(NextFrame(popped), X, B)
      BY <2>4, <2>5, <2>6, NextFrameKeeps, SMTT(30)
    <2> QED BY <1>6, <2>7
  <1>7. CASE ~(Expected(f, use.resume, end) = {} /\ use = NoPrefix)
    <2>1. /\ DOMAIN n = Fields /\ n.pc = "scan" /\ n.end = end /\ n.at = use.resume /\ n.seen = use.seen
          /\ n.items = m.items /\ n.todo = m.todo /\ n.sym = m.sym /\ n.frame = m.frame /\ n.fence = m.fence
          /\ n.prefix = [m.prefix EXCEPT ![m.sym][m.frame] = NoPrefix]
      BY <1>1 DEF Fields
    <2> HIDE DEF n
    <2>2. DrainPrefix(n, X)
      <3>1. /\ DOMAIN n.prefix = Symbols /\ \A s \in Symbols : DOMAIN n.prefix[s] = Frames
            /\ \A s \in Symbols, g \in Frames :
                 n.prefix[s][g] = IF s = m.sym /\ g = f THEN NoPrefix ELSE m.prefix[s][g]
        BY <1>1, <1>3, <2>1
      <3>2. \A s \in Symbols, g \in Frames : PrefixInv(m.prefix[s][g], g, X[s].mark[g])
        BY DEF DataInv, DrainInv, DrainPrefix
      <3>3. \A s \in Symbols, g \in Frames : PrefixInv(n.prefix[s][g], g, X[s].mark[g])
        BY <3>1, <3>2 DEF PrefixInv
      <3> QED BY <1>1, <2>1, <3>1, <3>3 DEF DrainPrefix
    <2>3. DrainFence(n, X)
      BY <1>5, <2>1 DEF DrainFence, FenceInv
    <2>4. CASE use = NoPrefix
      <3>1. n.at = 0 /\ n.seen = <<>> /\ Expected(f, 0, n.end) # {} /\ n.end = In(x) /\ n.end \in Nat
        BY <1>1, <1>2, <1>4, <1>7, <2>1, <2>4
      <3>2. Expected(f, 0, 0) = {}
        BY <1>1, EmptyExpected
      <3>3. n.seen = [t \in Expected(n.frame, 0, n.at) |-> n.seen[t]]
        <4>1. Expected(n.frame, 0, n.at) = {}
          BY <2>1, <3>1, <3>2
        <4>2. n.seen = [t \in {} |-> n.seen[t]]
          BY <3>1
        <4> QED BY <4>1, <4>2
      <3>4. n.at = Open(1) /\ 1 \in Nat \ {0} /\ n.at \in Nat /\ n.at <= n.end
        BY <3>1, FirstOpen
      <3>5. \A t \in Expected(n.frame, 0, n.at) : n.seen[t] = Now(x, n.frame, t)
        BY <2>1, <3>1, <3>2
      <3>6. ScanInv(n, x)
        BY <2>1, <3>1, <3>3, <3>4, <3>5, ZenonT(30) DEF ScanInv
      <3>7. DrainScan(n, X)
        BY <2>1, <3>6 DEF DrainScan
      <3>8. DataInv(n, X, B)
        BY <2>1, <2>2, <2>3, <3>7, ScanStep
      <3> QED BY <1>7, <3>8, ZenonT(30) DEF n
    <2>5. CASE use # NoPrefix
      <3>1. use = m.prefix[m.sym][f] /\ Reusable(use, m.fence, end) /\ PrefixInv(use, f, x.mark[f])
        BY <1>3, <2>5
      <3>2. PICK d \in Nat \ {0} : use.resume = Open(d)
        BY <2>5, <3>1, ZenonT(30) DEF PrefixInv
      <3>3. /\ DOMAIN use.seen = Expected(f, 0, use.resume) /\ DOMAIN use.seen # {}
            /\ use.seen = [t \in DOMAIN use.seen |-> use.seen[t]]
            /\ \A t \in DOMAIN use.seen : t \in DOMAIN x.mark[f] /\ use.seen[t] = x.mark[f][t]
        BY <2>5, <3>1, ZenonT(30) DEF PrefixInv
      <3>4. use.resume \in Nat /\ use.resume <= end /\ end \in Nat /\ Day(use.resume) = d
        <4>1. Open(d) \in Nat /\ Open(d) <= Open(d) /\ Open(d) <= Close(d)
          BY OpenFacts, Sizes
        <4>2. Day(Open(d)) = d
          BY <4>1, DayIs
        <4> QED BY <1>1, <1>2, <3>1, <3>2, <4>1, <4>2 DEF Reusable
      <3>5. n.at \in Nat /\ n.end \in Nat /\ n.at <= n.end /\ n.end = In(x) /\ n.at = Open(d)
        BY <1>2, <2>1, <3>2, <3>4, ZenonT(30)
      <3>6. Expected(f, 0, n.end) # {}
        BY <1>1, <2>1, <3>3, <3>4, ExpectedGrows, ZenonT(30)
      <3>7. ASSUME Same(n, x), NEW t \in Expected(f, 0, n.at) PROVE n.seen[t] = Now(x, f, t)
        <4>1. t \in DOMAIN use.seen
          BY <2>1, <3>3, ZenonT(30)
        <4>2. Expected(f, 0, Open(d)) = {u \in Intervals[f] : Day(u) < d}
          BY <1>1, <3>2, <3>4, ExpectedUpTo
        <4>3. t \in Intervals[f] /\ Day(t) < d /\ Day(t) \in 1..Days /\ Days \in Nat
          BY <1>1, <3>5, <4>2, IntervalFacts, DerivedAssumption
        <4>4. ~Dirty(x, Day(t))
          <5> SUFFICES ASSUME Dirty(x, Day(t)) PROVE FALSE
            OBVIOUS
          <5>1. m.fence.work = x.work
            BY <2>1, <3>7 DEF Same
          <5>2. Day(t) \in EarliestDirty(m.fence)
            BY <4>3, <5>1 DEF EarliestDirty, Dirty
          <5>3. EarliestDirty(m.fence) \in SUBSET Nat /\ EarliestDirty(m.fence) # {}
            BY <4>3, <5>2 DEF EarliestDirty
          <5>4. Least(EarliestDirty(m.fence)) <= Day(t) /\ Least(EarliestDirty(m.fence)) \in Nat
            BY <5>2, <5>3, LeastIs
          <5>5. Least(EarliestDirty(m.fence)) >= d
            BY <3>1, <3>4, ZenonT(30) DEF Reusable
          <5> QED BY <4>3, <5>4, <5>5
        <4>5. Exact(x, f, Day(t))
          BY <1>1, <4>3, <4>4 DEF SymbolInv, DaysDone, Shown
        <4>6. x.mark[f][t] = Now(x, f, t)
          BY <3>3, <4>1, <4>3, <4>5, ZenonT(30) DEF Exact, On
        <4> QED BY <2>1, <3>3, <4>1, <4>6, ZenonT(30)
      <3>8. n.seen = [t \in Expected(n.frame, 0, n.at) |-> n.seen[t]]
        BY <2>1, <3>3, ZenonT(30)
      <3>9. ScanInv(n, x)
        BY <2>1, <3>5, <3>6, <3>7, <3>8, ZenonT(30) DEF ScanInv
      <3>10. DrainScan(n, X)
        BY <2>1, <3>9 DEF DrainScan
      <3>11. DataInv(n, X, B)
        BY <2>1, <2>2, <2>3, <3>10, ScanStep
      <3> QED BY <1>7, <3>11, ZenonT(30) DEF n
    <2> QED BY <2>4, <2>5
  <1> QED BY <1>6, <1>7

\* A scan reads one more day: what it has seen is right unless the fence changed.
LEMMA ScanKeeps ==
  ASSUME NEW X, NEW B, NEW m, DataInv(m, X, B), m.pc = "scan", m.at < m.end, NEW to, NEW seen,
         to = Least({Open(Day(m.at) + 1), m.end}),
         seen = [t \in DOMAIN m.seen \cup Expected(m.frame, m.at, to) |->
                   IF t \in DOMAIN m.seen THEN m.seen[t]
                   ELSE Component(m.frame, t, X[m.sym].event[m.frame][t], DOMAIN m.fence.gaps)]
  PROVE  DataInv([m EXCEPT !.at = to, !.seen = seen], X, B)
  <1> DEFINE f == m.frame  x == X[m.sym]  n == [m EXCEPT !.at = to, !.seen = seen]
  <1>1. m.sym \in Symbols /\ SymbolInv(x) /\ f \in Frames /\ DOMAIN m = Fields
    BY Subject DEF SymbolPC
  <1>2. ScanInv(m, x) /\ FenceInv(m, x)
    BY DEF DataInv, DrainInv, DrainScan, DrainFence
  <1>3. m.at \in Nat /\ m.end \in Nat
    BY <1>2 DEF ScanInv
  <1>4. PICK d \in Nat \ {0} : m.at = Open(d)
    BY <1>2, <1>3 DEF ScanInv
  <1>5. Day(m.at) = d
    <2>1. Open(d) \in Nat /\ Open(d) <= Open(d) /\ Open(d) <= Close(d)
      BY OpenFacts, Sizes
    <2>2. Day(Open(d)) = d
      BY <2>1, DayIs
    <2> QED BY <1>4, <2>2
  <1>6. Open(d + 1) \in Nat /\ Open(d) \in Nat /\ d + 1 \in Nat \ {0} /\ Open(d) < Open(d + 1)
    <2>1. d + 1 \in Nat \ {0} /\ Open(d) \in Nat /\ Open(d + 1) = Open(d) + DayLength
      BY OpenFacts
    <2>2. DayLength \in Nat \ {0}
      BY Sizes
    <2> QED BY <2>1, <2>2
  <1>7. to = IF Open(d + 1) <= m.end THEN Open(d + 1) ELSE m.end
    BY <1>3, <1>5, <1>6, LeastOfTwo
  <1>8. to \in Nat /\ to <= m.end /\ Open(d) <= to /\ (to = m.end \/ to = Open(d + 1))
    BY <1>3, <1>4, <1>6, <1>7
  <1>9. /\ Expected(f, 0, to) = Expected(f, 0, m.at) \cup Expected(f, m.at, to)
    BY <1>1, <1>4, <1>8, ExpectedUpTo
  <1>10. m.seen = [t \in Expected(f, 0, m.at) |-> m.seen[t]]
    BY <1>2 DEF ScanInv
  <1>11. DOMAIN m.seen = Expected(f, 0, m.at)
    BY <1>10
  <1>12. /\ DOMAIN n = Fields /\ n.pc = "scan" /\ n.end = m.end /\ n.at = to /\ n.seen = seen
         /\ n.items = m.items /\ n.todo = m.todo /\ n.sym = m.sym /\ n.frame = m.frame /\ n.fence = m.fence
         /\ n.prefix = m.prefix
    BY <1>1 DEF Fields
  <1> HIDE DEF n
  <1>13. DOMAIN seen = Expected(f, 0, to)
    BY <1>9, <1>11
  <1>14. seen = [t \in Expected(f, 0, to) |-> seen[t]]
    BY <1>9, <1>11
  <1>15. ASSUME Same(n, x) PROVE m.end = In(x) /\ \A t \in Expected(f, 0, to) : seen[t] = Now(x, f, t)
    <2>1. Same(m, x)
      BY <1>12, <1>15 DEF Same
    <2>2. m.end = In(x) /\ \A t \in Expected(f, 0, m.at) : m.seen[t] = Now(x, f, t)
      BY <1>2, <2>1 DEF ScanInv
    <2>3. DOMAIN m.fence.gaps = Unsolved(x, f)
      BY <1>2 DEF FenceInv
    <2>4. ASSUME NEW t \in Expected(f, 0, to) PROVE seen[t] = Now(x, f, t)
      <3>1. CASE t \in DOMAIN m.seen
        BY <1>11, <2>2, <3>1
      <3>2. CASE t \notin DOMAIN m.seen
        <4>1. seen[t] = Component(f, t, x.event[f][t], DOMAIN m.fence.gaps)
          BY <1>9, <1>11, <2>4, <3>2
        <4> QED BY <2>3, <4>1 DEF Now
      <3> QED BY <3>1, <3>2
    <2> QED BY <2>2, <2>4
  <1>16. ScanInv(n, x)
    <2>1. n.at = n.end \/ \E e \in Nat \ {0} : n.at = Open(e)
      BY <1>6, <1>8, <1>12
    <2>2. Expected(n.frame, 0, n.end) # {}
      BY <1>2, <1>12 DEF ScanInv
    <2> QED BY <1>3, <1>8, <1>12, <1>14, <1>15, <2>1, <2>2 DEF ScanInv
  <1>17. DrainScan(n, X) /\ DrainFence(n, X)
    BY <1>2, <1>12, <1>16 DEF DrainScan, DrainFence, FenceInv
  <1>18. DrainPrefix(n, X)
    BY <1>12 DEF DataInv, DrainInv, DrainPrefix
  <1>19. DataInv(n, X, B)
    BY <1>12, <1>17, <1>18, ScanStep
  <1> QED BY <1>19 DEF n

\* A value whose watermark of f is replaced.
MarkSet(x, y, f, seen) ==
  /\ y.event = x.event /\ y.ckpt = x.ckpt /\ y.work = x.work /\ y.gap = x.gap
  /\ y.mark = [x.mark EXCEPT ![f] = seen]

\* Publishing a watermark changes nothing else of a symbol.
LEMMA MarkSetSame ==
  ASSUME NEW x, NEW y, NEW f \in Frames, NEW seen, DOMAIN x.mark = Frames, MarkSet(x, y, f, seen)
  PROVE  /\ In(y) = In(x) /\ y.mark[f] = seen /\ \A g \in Frames : g # f => y.mark[g] = x.mark[g]
         /\ \A g \in Frames : Unsolved(y, g) = Unsolved(x, g)
         /\ \A g \in Frames : \A t \in Intervals[g] : Now(y, g, t) = Now(x, g, t)
         /\ \A d \in 1..Days : Synced(x, d) => Synced(y, d)
         /\ \A g \in Frames, d \in 1..Days : g # f /\ Shown(x, g, d) => Shown(y, g, d)
  <1>1. In(y) = In(x)
    BY InSame DEF MarkSet
  <1>2. y.mark[f] = seen /\ \A g \in Frames : g # f => y.mark[g] = x.mark[g]
    BY DEF MarkSet
  <1>3. \A g \in Frames : Unsolved(y, g) = Unsolved(x, g)
    BY DEF MarkSet, Unsolved
  <1>4. \A g \in Frames : \A t \in Intervals[g] : Now(y, g, t) = Now(x, g, t)
    BY <1>3 DEF MarkSet, Now
  <1>5. ASSUME NEW d \in 1..Days, Synced(x, d) PROVE Synced(y, d)
    BY <1>3, <1>5 DEF MarkSet, Synced, Aggregated, Tracked, Lacking
  <1>6. ASSUME NEW g \in Frames, NEW d \in 1..Days, g # f, Shown(x, g, d) PROVE Shown(y, g, d)
    BY <1>1, <1>2, <1>4, <1>6 DEF Shown, Exact, Reaches, On
  <1> QED BY <1>1, <1>2, <1>3, <1>4, <1>5, <1>6

\* A watermark of the whole history as it is now shows every day.
LEMMA MarkSetSymbol ==
  ASSUME NEW x, NEW y, NEW f \in Frames, NEW seen, SymbolInv(x), MarkSet(x, y, f, seen),
         seen = [t \in Expected(f, 0, In(x)) |-> Now(x, f, t)]
  PROVE  SymbolInv(y) /\ \A d \in 1..Days : Shown(y, f, d)
  <1>1. DOMAIN x.mark = Frames
    BY DEF SymbolInv, SymbolTypes
  <1>2. /\ In(y) = In(x) /\ y.mark[f] = seen /\ \A g \in Frames : g # f => y.mark[g] = x.mark[g]
        /\ \A g \in Frames : Unsolved(y, g) = Unsolved(x, g)
        /\ \A g \in Frames : \A t \in Intervals[g] : Now(y, g, t) = Now(x, g, t)
        /\ \A d \in 1..Days : Synced(x, d) => Synced(y, d)
        /\ \A g \in Frames, d \in 1..Days : g # f /\ Shown(x, g, d) => Shown(y, g, d)
    BY <1>1, MarkSetSame
  <1>3. /\ DOMAIN seen = Expected(f, 0, In(x)) /\ seen = [t \in DOMAIN seen |-> seen[t]]
        /\ \A t \in DOMAIN seen : seen[t] = Now(x, f, t) /\ t \in Intervals[f]
    BY DEF Expected
  <1>4. SymbolTypes(y)
    <2>1. DOMAIN y.mark = Frames
      BY <1>1 DEF MarkSet
    <2>2. ASSUME NEW g \in Frames
          PROVE  /\ y.mark[g] = [t \in DOMAIN y.mark[g] |-> y.mark[g][t]]
                 /\ DOMAIN y.mark[g] \subseteq Expected(g, 0, In(y))
      <3>1. CASE g = f
        BY <1>2, <1>3, <3>1
      <3>2. CASE g # f
        BY <1>2, <3>2 DEF SymbolInv, SymbolTypes
      <3> QED BY <3>1, <3>2
    <2>3. /\ y.ckpt \in 0..Horizon
          /\ y.work \in [1..Days -> [gen : Nat, through : Nat]]
          /\ \A d \in 1..Days : y.work[d].gen = 0 => y.work[d] = NoWork
          /\ DOMAIN y.event = Frames /\ DOMAIN y.gap = Frames
          /\ \A g \in Frames : /\ DOMAIN y.event[g] = Intervals[g]
                               /\ y.gap[g] \in [Ranges[g] -> {"none", "open", "repairing", "resolved"}]
      BY DEF SymbolInv, SymbolTypes, MarkSet
    <2> QED BY <2>1, <2>2, <2>3 DEF SymbolTypes
  <1>5. Bounded(y)
    BY <1>2 DEF SymbolInv, Bounded, MarkSet
  <1>6. ASSUME NEW d \in 1..Days PROVE Shown(y, f, d)
    <2>1. Exact(y, f, d)
      BY <1>2, <1>3 DEF Exact
    <2>2. Reaches(y, f, d)
      BY <1>2, <1>3 DEF Reaches
    <2> QED BY <2>1, <2>2 DEF Shown
  <1>7. DaysDone(y)
    <2> SUFFICES ASSUME NEW d \in 1..Days, ~Dirty(y, d)
                 PROVE  Synced(y, d) /\ \A g \in Frames : Shown(y, g, d)
      BY DEF DaysDone
    <2>1. Synced(x, d) /\ \A g \in Frames : Shown(x, g, d)
      BY DEF SymbolInv, DaysDone, Dirty, MarkSet
    <2> QED BY <1>2, <1>6, <2>1
  <1> QED BY <1>4, <1>5, <1>6, <1>7 DEF SymbolInv

\* A publication under an unchanged fence is of the readiness of now.
LEMMA PublishKeeps ==
  ASSUME NEW X, NEW Y, NEW B, NEW m, DataInv(m, X, B), m.pc = "scan", ~(m.at < m.end),
         Same(m, X[m.sym]), \A s \in Symbols : s # m.sym => Y[s] = X[s],
         MarkSet(X[m.sym], Y[m.sym], m.frame, m.seen)
  PROVE  /\ DataInv([m EXCEPT !.pc = "basket"], Y, B)
         /\ m.seen = [t \in Expected(m.frame, 0, In(X[m.sym])) |-> Now(X[m.sym], m.frame, t)]
  <1> DEFINE f == m.frame  x == X[m.sym]  y == Y[m.sym]  n == [m EXCEPT !.pc = "basket"]
  <1>1. /\ m.sym \in Symbols /\ SymbolInv(x) /\ f \in Frames /\ DOMAIN m = Fields /\ m.todo = {} /\ Its(m) # {}
        /\ \A i \in Its(m) : i \in m.items /\ i.sym = m.sym /\ i.day \in 1..Days /\ Dirty(x, i.day)
    BY Subject DEF SymbolPC
  <1>2. ScanInv(m, x)
    BY DEF DataInv, DrainInv, DrainScan
  <1>3. m.at = m.end /\ m.end = In(x) /\ m.end \in Nat
    BY <1>2 DEF ScanInv
  <1>4. /\ DOMAIN m.seen = Expected(f, 0, In(x)) /\ DOMAIN m.seen # {}
        /\ m.seen = [t \in Expected(f, 0, In(x)) |-> m.seen[t]]
        /\ \A t \in Expected(f, 0, In(x)) : m.seen[t] = Now(x, f, t)
    BY <1>2, <1>3 DEF ScanInv
  <1>5. m.seen = [t \in Expected(f, 0, In(x)) |-> Now(x, f, t)]
    BY <1>4
  <1>6. SymbolInv(y) /\ \A d \in 1..Days : Shown(y, f, d)
    BY <1>1, <1>5, MarkSetSymbol
  <1>7. /\ In(y) = In(x) /\ y.mark[f] = m.seen /\ \A g \in Frames : g # f => y.mark[g] = x.mark[g]
        /\ \A g \in Frames : Unsolved(y, g) = Unsolved(x, g)
        /\ \A d \in 1..Days : Synced(x, d) => Synced(y, d)
        /\ \A g \in Frames, d \in 1..Days : g # f /\ Shown(x, g, d) => Shown(y, g, d)
        /\ y.work = x.work /\ y.event = x.event
    <2>1. DOMAIN x.mark = Frames
      BY <1>1 DEF SymbolInv, SymbolTypes
    <2>2. MarkSet(x, y, f, m.seen)
      OBVIOUS
    <2>3. y.work = x.work /\ y.event = x.event
      BY <2>2 DEF MarkSet
    <2>4. f \in Frames
      BY <1>1
    <2> HIDE DEF x, y, f
    <2>5. /\ In(y) = In(x) /\ y.mark[f] = m.seen /\ \A g \in Frames : g # f => y.mark[g] = x.mark[g]
          /\ \A g \in Frames : Unsolved(y, g) = Unsolved(x, g)
          /\ \A d \in 1..Days : Synced(x, d) => Synced(y, d)
          /\ \A g \in Frames, d \in 1..Days : g # f /\ Shown(x, g, d) => Shown(y, g, d)
      BY <2>1, <2>2, <2>4, MarkSetSame, SMTT(30)
    <2> QED BY <2>3, <2>5
  <1>8. /\ \A s \in Symbols : SymbolInv(Y[s]) /\ In(Y[s]) = In(X[s]) /\ Y[s].work = X[s].work
        /\ \A s \in Symbols, g \in Frames : (s = m.sym /\ g = f) \/ Y[s].mark[g] = X[s].mark[g]
        /\ \A s \in Symbols, d \in 1..Days : Synced(X[s], d) => Synced(Y[s], d)
    BY <1>1, <1>6, <1>7 DEF DataInv
  <1>9. \A g \in Frames : g # f => BasketIn(Y, g) = BasketIn(X, g)
    <2> SUFFICES ASSUME NEW g \in Frames, g # f PROVE BasketIn(Y, g) = BasketIn(X, g)
      OBVIOUS
    <2>1. \A s \in Symbols : /\ Y[s].mark[g] = X[s].mark[g]
                             /\ Y[s].event[g] = X[s].event[g] /\ Unsolved(Y[s], g) = Unsolved(X[s], g)
      BY <1>7
    <2> QED BY <2>1, BasketSame
  <1>10. \A g \in Frames : g # f /\ Even(X, B, g) => Even(Y, B, g)
    BY <1>8, <1>9 DEF Even
  <1>11. BasketInv(Y, B)
    <2> SUFFICES ASSUME NEW g \in Frames
                 PROVE  Even(Y, B, g) \/ \E s \in Symbols, d \in 1..Days : Y[s].mark[g] # <<>> /\ Dirty(Y[s], d)
      BY DEF BasketInv
    <2>1. CASE g = f
      <3>1. PICK i \in Its(m) : TRUE
        BY <1>1
      <3>2. y.mark[f] # <<>>
        <4>1. DOMAIN <<>> = {}
          OBVIOUS
        <4> QED BY <1>4, <1>7, <4>1
      <3>3. Dirty(y, i.day) /\ i.day \in 1..Days
        BY <1>1, <1>7 DEF Dirty
      <3> QED BY <1>1, <2>1, <3>2, <3>3
    <2>2. CASE g # f
      <3>1. Even(X, B, g) \/ \E s \in Symbols, d \in 1..Days : X[s].mark[g] # <<>> /\ Dirty(X[s], d)
        BY DEF DataInv, BasketInv
      <3> QED BY <1>8, <1>10, <2>2, <3>1 DEF Dirty
    <2> QED BY <2>1, <2>2
  <1>12. /\ DOMAIN n = Fields /\ n.pc = "basket" /\ n.items = m.items /\ n.todo = m.todo /\ n.sym = m.sym
         /\ n.frame = m.frame /\ n.end = m.end /\ n.seen = m.seen /\ n.prefix = m.prefix
    BY <1>1 DEF Fields
  <1> HIDE DEF n
  <1>13. Its(n) = Its(m)
    BY <1>12 DEF Its
  <1>14. DrainTypes(n)
    BY <1>1, <1>12 DEF DrainTypes, SymbolPC
  <1>15. DrainItems(m, X)
    BY DEF DataInv, DrainInv
  <1>16. \A i \in m.items : QueueRow(i) /\ (Current(Y, i) <=> Current(X, i))
    BY <1>8, <1>15 DEF DrainItems, QueueRow, Current
  <1>17. DrainItems(n, Y)
    <2>1. \A i \in m.items \ m.todo : Current(Y, i) => Synced(Y[i.sym], i.day)
      BY <1>8, <1>15, <1>16 DEF DrainItems, QueueRow
    <2>2. \A i \in m.items : /\ QueueRow(i) /\ i.work.gen \in Nat \ {0} /\ i.work.through \in Nat
                             /\ i.work.through <= In(Y[i.sym]) /\ Y[i.sym].work[i.day].gen >= i.work.gen
      BY <1>8, <1>15 DEF DrainItems, QueueRow
    <2> QED BY <1>1, <1>12, <1>13, <1>15, <2>1, <2>2 DEF DrainItems, ItemPC, SymbolPC
  <1>18. DrainRange(n, Y) /\ DrainObs(n, Y) /\ DrainPart(n, Y) /\ DrainFence(n, Y) /\ DrainScan(n, Y)
    BY <1>12 DEF DrainRange, DrainObs, DrainPart, InHand, DrainFence, DrainScan
  <1>19. \A g \in DoneFrames(n) : g \in Frames /\ (g = f \/ (g \in DoneFrames(m) /\ g # f))
    BY <1>12 DEF DoneFrames
  <1>20. DrainShown(n, Y)
    <2> SUFFICES ASSUME NEW g \in DoneFrames(n), NEW i \in Its(m), Current(Y, i) PROVE Shown(y, g, i.day)
      BY <1>12, <1>13 DEF DrainShown
    <2>1. i.day \in 1..Days /\ Current(X, i)
      BY <1>1, <1>16
    <2>2. CASE g = f
      BY <1>6, <2>1, <2>2
    <2>3. CASE g # f
      <3>1. g \in DoneFrames(m) /\ g \in Frames
        BY <1>19, <2>3
      <3>2. Shown(x, g, i.day)
        BY <2>1, <3>1 DEF DataInv, DrainInv, DrainShown
      <3> QED BY <1>7, <2>1, <2>3, <3>1, <3>2
    <2> QED BY <2>2, <2>3
  <1>21. DrainMark(n, Y)
    BY <1>3, <1>4, <1>7, <1>12 DEF DrainMark
  <1>22. \A g \in Frames : g # f /\ Owed(m, X, g) => Owed(n, Y, g)
    <2> SUFFICES ASSUME NEW g \in Frames, g # f, Owed(m, X, g) PROVE Owed(n, Y, g)
      OBVIOUS
    <2>1. PICK s \in Symbols, d \in 1..Days :
            /\ X[s].mark[g] # <<>> /\ Dirty(X[s], d)
            /\ \A i \in Its(m) : i.sym = s /\ i.day = d => ~Current(X, i)
      BY DEF Owed
    <2>2. Y[s].mark[g] # <<>> /\ Dirty(Y[s], d)
      BY <1>8, <2>1 DEF Dirty
    <2>3. \A i \in Its(n) : i.sym = s /\ i.day = d => ~Current(Y, i)
      BY <1>1, <1>13, <1>16, <2>1
    <2> QED BY <2>2, <2>3 DEF Owed
  <1>23. DrainBasket(n, Y, B)
    <2> SUFFICES ASSUME NEW g \in DoneFrames(n), ~(n.pc = "basket" /\ g = n.frame)
                 PROVE  Even(Y, B, g) \/ Owed(n, Y, g)
      BY DEF DrainBasket
    <2>1. g \in DoneFrames(m) /\ g \in Frames /\ g # f
      BY <1>12, <1>19
    <2>2. Even(X, B, g) \/ Owed(m, X, g)
      BY <2>1 DEF DataInv, DrainInv, DrainBasket
    <2> QED BY <1>10, <1>22, <2>1, <2>2
  <1>24. DrainPrefix(n, Y)
    <2>1. DrainPrefix(m, X)
      BY DEF DataInv, DrainInv
    <2>2. ASSUME NEW s \in Symbols, NEW g \in Frames PROVE PrefixInv(m.prefix[s][g], g, Y[s].mark[g])
      <3>1. CASE s = m.sym /\ g = f
        BY <2>1, <3>1, ZenonT(30) DEF DrainPrefix, PrefixInv
      <3>2. CASE ~(s = m.sym /\ g = f)
        BY <1>8, <2>1, <3>2 DEF DrainPrefix
      <3> QED BY <3>1, <3>2
    <2> QED BY <1>12, <2>1, <2>2 DEF DrainPrefix
  <1>25. DataInv(n, Y, B)
    BY <1>8, <1>11, <1>14, <1>17, <1>18, <1>20, <1>21, <1>23, <1>24 DEF DataInv, DrainInv
  <1> QED BY <1>5, <1>25 DEF n

\* What a drain holds of the queue.
Held(items, X) ==
  /\ \A i \in items :
       /\ QueueRow(i) /\ i.work.gen \in Nat \ {0} /\ i.work.through \in Nat
       /\ i.work.through <= In(X[i.sym]) /\ X[i.sym].work[i.day].gen >= i.work.gen
  /\ \A i, j \in items : i.sym = j.sym /\ i.day = j.day => i = j

\* Going on to the next symbol.
LEMMA NextSymbolKeeps ==
  ASSUME NEW X, NEW B, NEW m, NEW items, \A s \in Symbols : SymbolInv(X[s]), BasketInv(X, B),
         DrainPrefix(m, X), Held(items, X), \A i \in items : Current(X, i) => Synced(X[i.sym], i.day)
  PROVE  DataInv(NextSymbol(m, items), X, B)
  <1> DEFINE n == NextSymbol(m, items)
  <1>1. CASE items = {}
    <2>1. /\ DOMAIN n = Fields /\ n.pc = "idle" /\ n.items = {} /\ n.todo = {} /\ n.frame = "1Min"
          /\ n.prefix = m.prefix
      BY <1>1 DEF NextSymbol, Rest, Fresh, Fields
    <2> HIDE DEF n
    <2>2. DrainTypes(n)
      BY <2>1 DEF DrainTypes, Frames
    <2>3. DrainItems(n, X)
      BY <2>1 DEF DrainItems, ItemPC, SymbolPC
    <2>4. DataInv(n, X, B)
      BY <2>1, <2>2, <2>3, Between
    <2> QED BY <2>4 DEF n
  <1>2. CASE items # {}
    <2>1. FirstOf(items) \in items
      BY <1>2, FirstIs DEF Held
    <2>2. /\ DOMAIN n = Fields /\ n.pc = "fence" /\ n.items = items /\ n.todo = {} /\ n.frame = "1Min"
          /\ n.prefix = m.prefix /\ n.sym = FirstOf(items).sym
      BY <1>2 DEF NextSymbol, Rest, Fresh, Fields
    <2> HIDE DEF n
    <2>3. DrainTypes(n)
      BY <2>2 DEF DrainTypes, Frames, SymbolPC
    <2>4. FirstOf(items) \in Its(n) /\ n.sym \in Symbols
      BY <2>1, <2>2 DEF Its, Held, QueueRow
    <2>5. DrainItems(n, X)
      BY <2>2, <2>4 DEF DrainItems, ItemPC, SymbolPC, Held
    <2>6. DataInv(n, X, B)
      BY <2>2, <2>3, <2>5, Between
    <2> QED BY <2>6 DEF n
  <1> QED BY <1>1, <1>2

\* A publication refused leaves the symbol's rows queued.
LEMMA PublishFailsKeeps ==
  ASSUME NEW X, NEW B, NEW m, DataInv(m, X, B), m.pc = "scan"
  PROVE  DataInv(NextSymbol(m, m.items \ Its(m)), X, B)
  <1>1. DrainItems(m, X) /\ DrainPrefix(m, X) /\ BasketInv(X, B) /\ \A s \in Symbols : SymbolInv(X[s])
    BY DEF DataInv, DrainInv
  <1>2. m.todo = {}
    BY <1>1 DEF DrainItems, SymbolPC
  <1> DEFINE items == m.items \ Its(m)
  <1>3. items \subseteq m.items
    OBVIOUS
  <1> HIDE DEF items
  <1>4. Held(items, X)
    BY <1>1, <1>3 DEF DrainItems, Held
  <1>5. \A i \in items : Current(X, i) => Synced(X[i.sym], i.day)
    BY <1>1, <1>2, <1>3 DEF DrainItems
  <1>6. DataInv(NextSymbol(m, items), X, B)
    BY <1>1, <1>4, <1>5, NextSymbolKeeps
  <1> QED BY <1>6 DEF items

\* The basket is recomputed after a publication, and the prefix kept.
LEMMA RefreshKeeps ==
  ASSUME NEW X, NEW B, NEW C, NEW m, DataInv(m, X, B), m.pc = "basket",
         C[m.frame] = BasketIn(X, m.frame), \A g \in Frames : g # m.frame => C[g] = B[g]
  PROVE  DataInv(NextFrame([m EXCEPT !.prefix[m.sym][m.frame] = PrefixOf(m)]), X, C)
  <1> DEFINE f == m.frame  x == X[m.sym]  pre == PrefixOf(m)
             resume == Open(Day(m.end))  S == {t \in DOMAIN m.seen : t < resume}
             old == Only(m.seen, S)
  <1>1. m.sym \in Symbols /\ f \in Frames
    BY Subject DEF SymbolPC
  <1>2. m.end \in Nat /\ x.mark[f] = m.seen /\ DOMAIN m.seen = Expected(f, 0, m.end)
    BY DEF DataInv, DrainInv, DrainMark
  <1>3. PrefixInv(pre, f, x.mark[f])
    <2>1. CASE old = <<>>
      BY <2>1 DEF PrefixInv, PrefixOf
    <2>2. CASE old # <<>>
      <3>1. pre.resume = resume /\ pre.seen = old
        BY <2>2 DEF PrefixOf
      <3>2. Day(m.end) \in Nat \ {0} /\ resume <= m.end
        BY <1>2, DayFacts
      <3>3. S = Expected(f, 0, resume)
        BY <1>1, <1>2, <3>2, ExpectedUpTo
      <3>4. old = [t \in S |-> m.seen[t]]
        BY DEF Only
      <3>5. DOMAIN old = S /\ old = [t \in DOMAIN old |-> old[t]]
            /\ \A t \in DOMAIN old : t \in DOMAIN m.seen /\ old[t] = m.seen[t]
        BY <3>4
      <3>6. S # {}
        <4> SUFFICES ASSUME S = {} PROVE FALSE
          OBVIOUS
        <4>1. old = [t \in {} |-> m.seen[t]]
          BY <3>4
        <4>2. old = <<>>
          BY <4>1
        <4> QED BY <2>2, <4>2
      <3> QED BY <1>2, <3>1, <3>2, <3>3, <3>5, <3>6 DEF PrefixInv
    <2> QED BY <2>1, <2>2
  <1>4. \A i \in Its(m) : Current(X, i) => Shown(x, f, i.day)
    <2>1. f \in DoneFrames(m)
      BY <1>1 DEF DoneFrames
    <2> QED BY <2>1 DEF DataInv, DrainInv, DrainShown
  <1>5. Even(X, C, f)
    BY DEF Even
  <1> QED BY <1>3, <1>4, <1>5, NextFrameKeeps

\* A row deleted is of a session in order and shown: its generation is unchanged.
LEMMA AcknowledgeKeeps ==
  ASSUME NEW X, NEW Y, NEW B, NEW m, DataInv(m, X, B), m.pc = "ack", NEW item, item = FirstOf(Its(m)),
         \A s \in Symbols : s # m.sym => Y[s] = X[s],
         LET x == X[m.sym]  y == Y[m.sym]
         IN /\ y.event = x.event /\ y.ckpt = x.ckpt /\ y.gap = x.gap /\ y.mark = x.mark
            /\ y.work = [x.work EXCEPT ![item.day] = Acknowledged(@, item)]
  PROVE  LET left == m.items \ {item}
         IN DataInv(IF Its(m) # {item} THEN [m EXCEPT !.items = left] ELSE NextSymbol(m, left), Y, B)
  <1> DEFINE x == X[m.sym]  y == Y[m.sym]  left == m.items \ {item}  n == [m EXCEPT !.items = left]
  <1>1. /\ m.sym \in Symbols /\ SymbolInv(x) /\ DOMAIN m = Fields /\ m.todo = {} /\ Its(m) # {}
        /\ \A i \in Its(m) : i \in m.items /\ i.sym = m.sym /\ i.day \in 1..Days
    BY Subject DEF SymbolPC
  <1>2. DrainItems(m, X) /\ DrainPrefix(m, X) /\ DrainTypes(m) /\ \A s \in Symbols : SymbolInv(X[s])
    BY DEF DataInv, DrainInv
  <1>3. item \in Its(m) /\ item \in m.items /\ item.sym = m.sym /\ item.day \in 1..Days
    <2>1. \A i \in Its(m) : QueueRow(i)
      BY <1>1 DEF QueueRow
    <2>2. item \in Its(m)
      BY <1>1, <2>1, FirstIs
    <2> QED BY <1>1, <2>2
  <1>4. DoneFrames(m) = Frames
    BY DEF DoneFrames
  <1>5. /\ y.event = x.event /\ y.ckpt = x.ckpt /\ y.gap = x.gap /\ y.mark = x.mark
        /\ y.work = [x.work EXCEPT ![item.day] = Acknowledged(@, item)]
    OBVIOUS
  <1>6. x.work \in [1..Days -> [gen : Nat, through : Nat]]
    BY <1>1 DEF SymbolInv, SymbolTypes
  <1>7. /\ y.work[item.day] = IF Current(X, item) THEN NoWork ELSE x.work[item.day]
        /\ \A d \in 1..Days : d # item.day => y.work[d] = x.work[d]
        /\ y.work \in [1..Days -> [gen : Nat, through : Nat]]
    <2>1. Acknowledged(x.work[item.day], item) = IF Current(X, item) THEN NoWork ELSE x.work[item.day]
      BY <1>3 DEF Acknowledged, Current
    <2>2. NoWork \in [gen : Nat, through : Nat]
      BY DEF NoWork
    <2>3. Acknowledged(x.work[item.day], item) \in [gen : Nat, through : Nat]
      <3>1. x.work[item.day] \in [gen : Nat, through : Nat]
        BY <1>3, <1>6
      <3> QED BY <2>1, <2>2, <3>1
    <2> DEFINE v == Acknowledged(x.work[item.day], item)  R == [gen : Nat, through : Nat]  DD == 1..Days
    <2>4. y.work = [x.work EXCEPT ![item.day] = v]
      BY <1>5
    <2>5. x.work \in [DD -> R] /\ item.day \in DD
      BY <1>3, <1>6
    <2>6. v \in R /\ v = IF Current(X, item) THEN NoWork ELSE x.work[item.day]
      BY <2>1, <2>3
    <2> HIDE DEF x, y, v, R, DD
    <2>7. y.work[item.day] = v /\ \A d \in DD : d # item.day => y.work[d] = x.work[d]
      BY <2>4, <2>5
    <2>8. y.work \in [DD -> R]
      BY <2>4, <2>5, <2>6
    <2> QED BY <2>6, <2>7, <2>8 DEF R, DD
  <1>8. In(y) = In(x) /\ \A f \in Frames : Unsolved(y, f) = Unsolved(x, f)
    BY <1>5, InSame DEF Unsolved
  <1>9. /\ \A d \in 1..Days : Synced(x, d) => Synced(y, d)
        /\ \A f \in Frames, d \in 1..Days : Shown(x, f, d) => Shown(y, f, d)
    <2>1. ASSUME NEW d \in 1..Days, Synced(x, d) PROVE Synced(y, d)
      BY <1>5, <1>8, <2>1 DEF Synced, Aggregated, Tracked, Lacking
    <2>2. \A f \in Frames : \A t : Now(y, f, t) = Now(x, f, t)
      BY <1>5, <1>8 DEF Now
    <2>3. ASSUME NEW f \in Frames, NEW d \in 1..Days, Shown(x, f, d) PROVE Shown(y, f, d)
      BY <1>5, <1>8, <2>2, <2>3 DEF Shown, Exact, Reaches
    <2> QED BY <2>1, <2>3, SMTT(30)
  <1>10. SymbolInv(y)
    <2>1. SymbolTypes(y)
      <3>1. \A d \in 1..Days : y.work[d].gen = 0 => y.work[d] = NoWork
        <4>1. \A d \in 1..Days : y.work[d] = x.work[d] \/ y.work[d] = NoWork
          BY <1>7
        <4>2. \A d \in 1..Days : x.work[d].gen = 0 => x.work[d] = NoWork
          BY <1>1 DEF SymbolInv, SymbolTypes
        <4> HIDE DEF x, y
        <4> QED BY <4>1, <4>2
      <3>2. SymbolTypes(x)
        BY <1>1 DEF SymbolInv
      <3> HIDE DEF x, y
      <3> QED BY <1>5, <1>7, <1>8, <3>1, <3>2 DEF SymbolTypes
    <2>2. Bounded(y)
      <3>1. ASSUME NEW d \in 1..Days PROVE y.work[d].through <= In(y)
        <4>1. In(x) \in Nat /\ x.work[d].through <= In(x)
          BY <1>1, InIs DEF SymbolInv, SymbolTypes, Bounded
        <4>2. y.work[d] = x.work[d] \/ y.work[d] = NoWork
          BY <1>7
        <4> QED BY <1>8, <4>1, <4>2, SMTT(30) DEF NoWork
      <3>2. Bounded(x)
        BY <1>1 DEF SymbolInv
      <3> HIDE DEF x, y
      <3> QED BY <1>5, <1>8, <3>1, <3>2 DEF Bounded
    <2>3. DaysDone(y)
      <3> SUFFICES ASSUME NEW d \in 1..Days, ~Dirty(y, d)
                   PROVE  Synced(y, d) /\ \A f \in Frames : Shown(y, f, d)
        BY DEF DaysDone
      <3>1. CASE d = item.day /\ Current(X, item)
        <4>1. Synced(x, d)
          BY <1>1, <1>2, <1>3, <3>1 DEF DrainItems
        <4>2. \A f \in Frames : Shown(x, f, d)
          BY <1>3, <1>4, <3>1 DEF DataInv, DrainInv, DrainShown
        <4> QED BY <1>9, <4>1, <4>2
      <3>2. CASE ~(d = item.day /\ Current(X, item))
        <4>1. ~Dirty(x, d)
          BY <1>7, <3>2 DEF Dirty
        <4>2. Synced(x, d) /\ \A f \in Frames : Shown(x, f, d)
          BY <1>1, <4>1, SMTT(30) DEF SymbolInv, DaysDone
        <4> QED BY <1>9, <4>2
      <3> QED BY <3>1, <3>2
    <2> QED BY <2>1, <2>2, <2>3 DEF SymbolInv
  <1>11. /\ \A s \in Symbols : SymbolInv(Y[s]) /\ In(Y[s]) = In(X[s]) /\ Y[s].mark = X[s].mark
         /\ \A s \in Symbols, d \in 1..Days : Synced(X[s], d) => Synced(Y[s], d)
         /\ \A s \in Symbols, d \in 1..Days : ~(s = m.sym /\ d = item.day) => Y[s].work[d] = X[s].work[d]
    BY <1>2, <1>5, <1>7, <1>8, <1>9, <1>10
  <1>12. \A f \in Frames : BasketIn(Y, f) = BasketIn(X, f)
    <2> SUFFICES ASSUME NEW f \in Frames PROVE BasketIn(Y, f) = BasketIn(X, f)
      OBVIOUS
    <2>1. \A s \in Symbols : /\ Y[s].mark[f] = X[s].mark[f]
                             /\ Y[s].event[f] = X[s].event[f] /\ Unsolved(Y[s], f) = Unsolved(X[s], f)
      BY <1>5, <1>8
    <2> QED BY <2>1, BasketSame
  <1>13. \A f \in Frames : Even(X, B, f) => Even(Y, B, f)
    BY <1>11, <1>12 DEF Even
  <1>14. \A i \in left : /\ i \in m.items /\ QueueRow(i) /\ (Current(Y, i) <=> Current(X, i))
                         /\ Y[i.sym].work[i.day] = X[i.sym].work[i.day]
    <2> SUFFICES ASSUME NEW i \in left
                 PROVE  /\ i \in m.items /\ QueueRow(i) /\ (Current(Y, i) <=> Current(X, i))
                        /\ Y[i.sym].work[i.day] = X[i.sym].work[i.day]
      OBVIOUS
    <2>1. i \in m.items /\ i # item /\ QueueRow(i)
      BY <1>2 DEF DrainItems
    <2>2. ~(i.sym = m.sym /\ i.day = item.day)
      BY <1>2, <1>3, <2>1 DEF DrainItems
    <2>3. Y[i.sym].work[i.day] = X[i.sym].work[i.day]
      BY <1>11, <2>1, <2>2 DEF QueueRow
    <2> QED BY <2>1, <2>3 DEF Current
  <1>15. Held(left, Y)
    <2>1. \A i \in left : i.work.through <= In(Y[i.sym]) /\ Y[i.sym].work[i.day].gen >= i.work.gen
      BY <1>2, <1>11, <1>14 DEF DrainItems, QueueRow
    <2> QED BY <1>2, <1>14, <2>1 DEF DrainItems, Held
  <1>16. \A i \in left : Current(Y, i) => Synced(Y[i.sym], i.day)
    BY <1>1, <1>2, <1>11, <1>14 DEF DrainItems, QueueRow
  <1>17. ASSUME NEW f \in Frames, ~Even(X, B, f)
         PROVE  \E s \in Symbols, d \in 1..Days :
                  /\ Y[s].mark[f] # <<>> /\ Dirty(Y[s], d)
                  /\ \A i \in Its(m) \ {item} : i.sym = s /\ i.day = d => ~Current(Y, i)
    <2>1. PICK s \in Symbols, d \in 1..Days :
            /\ X[s].mark[f] # <<>> /\ Dirty(X[s], d)
            /\ \A i \in Its(m) : i.sym = s /\ i.day = d => ~Current(X, i)
      BY <1>4, <1>17 DEF DataInv, DrainInv, DrainBasket, Owed
    <2>2. Y[s].work[d] = X[s].work[d]
      <3>1. CASE s = m.sym /\ d = item.day
        <4>1. ~Current(X, item)
          BY <1>3, <2>1, <3>1
        <4> QED BY <1>7, <3>1, <4>1
      <3>2. CASE ~(s = m.sym /\ d = item.day)
        BY <1>11, <3>2
      <3> QED BY <3>1, <3>2
    <2>3. Y[s].mark[f] # <<>> /\ Dirty(Y[s], d)
      BY <1>11, <2>1, <2>2 DEF Dirty
    <2>4. \A i \in Its(m) \ {item} : i.sym = s /\ i.day = d => ~Current(Y, i)
      BY <1>1, <1>14, <2>1
    <2> QED BY <2>3, <2>4
  <1>18. BasketInv(Y, B)
    BY <1>13, <1>17 DEF BasketInv
  <1>19. DrainPrefix(m, Y)
    BY <1>2, <1>11 DEF DrainPrefix
  <1>20. CASE Its(m) = {item}
    <2>1. DataInv(NextSymbol(m, left), Y, B)
      BY <1>11, <1>15, <1>16, <1>18, <1>19, NextSymbolKeeps
    <2> QED BY <1>20, <2>1
  <1>21. CASE Its(m) # {item}
    <2>1. /\ DOMAIN n = Fields /\ n.pc = "ack" /\ n.items = left /\ n.todo = {} /\ n.sym = m.sym
          /\ n.frame = m.frame /\ n.prefix = m.prefix
      BY <1>1 DEF Fields
    <2> HIDE DEF n
    <2>2. Its(n) = Its(m) \ {item} /\ Its(n) # {}
      <3>1. Its(n) = Its(m) \ {item}
        BY <2>1 DEF Its
      <3> QED BY <1>3, <1>21, <3>1
    <2>3. DrainTypes(n)
      BY <1>2, <2>1 DEF DrainTypes, SymbolPC
    <2>4. DrainItems(n, Y)
      <3> HIDE DEF left
      <3> QED BY <1>1, <1>15, <1>16, <2>1, <2>2 DEF DrainItems, Held, ItemPC, SymbolPC
    <2>5. DrainRange(n, Y) /\ DrainObs(n, Y) /\ DrainPart(n, Y) /\ DrainFence(n, Y) /\ DrainScan(n, Y)
          /\ DrainMark(n, Y)
      BY <2>1 DEF DrainRange, DrainObs, DrainPart, InHand, DrainFence, DrainScan, DrainMark
    <2>6. DrainShown(n, Y)
      <3> SUFFICES ASSUME NEW f \in Frames, NEW i \in Its(m) \ {item}, Current(Y, i) PROVE Shown(y, f, i.day)
        BY <2>1, <2>2 DEF DrainShown, DoneFrames
      <3>1. Current(X, i) /\ i.day \in 1..Days
        BY <1>1, <1>14
      <3>2. Shown(x, f, i.day)
        BY <1>4, <3>1 DEF DataInv, DrainInv, DrainShown
      <3> QED BY <1>9, <3>1, <3>2
    <2>7. DrainBasket(n, Y, B)
      <3>1. \A f \in Frames : Even(Y, B, f) \/ Owed(n, Y, f)
        BY <1>13, <1>17, <2>2 DEF Owed
      <3> QED BY <3>1 DEF DrainBasket, DoneFrames
    <2>8. DrainPrefix(n, Y)
      BY <1>19, <2>1 DEF DrainPrefix
    <2>9. DataInv(n, Y, B)
      BY <1>11, <1>18, <2>3, <2>4, <2>5, <2>6, <2>7, <2>8 DEF DataInv, DrainInv
    <2> QED BY <1>21, <2>9 DEF n
  <1> QED BY <1>20, <1>21

\* A drain selects rows of the queue.
LEMMA DrainKeeps ==
  ASSUME NEW X, NEW B, NEW m, DataInv(m, X, B), m.pc = "idle", NEW items, items # {},
         \A i \in items : \E s \in Symbols, d \in 1..Days :
           i = [sym |-> s, day |-> d, work |-> X[s].work[d]] /\ Dirty(X[s], d)
  PROVE  DataInv([m EXCEPT !.pc = "inspect", !.items = items, !.todo = items], X, B)
  <1> DEFINE n == [m EXCEPT !.pc = "inspect", !.items = items, !.todo = items]
  <1>1. DrainTypes(m) /\ DrainPrefix(m, X) /\ BasketInv(X, B) /\ \A s \in Symbols : SymbolInv(X[s])
    BY DEF DataInv, DrainInv
  <1>2. /\ DOMAIN n = Fields /\ n.pc = "inspect" /\ n.items = items /\ n.todo = items /\ n.frame = "1Min"
        /\ n.prefix = m.prefix
    BY <1>1 DEF DrainTypes, Fields
  <1> HIDE DEF n
  <1>3. DrainTypes(n)
    BY <1>2 DEF DrainTypes, ItemPC, Frames
  <1>4. ASSUME NEW i \in items
        PROVE  /\ QueueRow(i) /\ i.work.gen \in Nat \ {0} /\ i.work.through \in Nat
               /\ i.work.through <= In(X[i.sym]) /\ X[i.sym].work[i.day].gen >= i.work.gen
    <2>1. PICK s \in Symbols, d \in 1..Days :
            i = [sym |-> s, day |-> d, work |-> X[s].work[d]] /\ Dirty(X[s], d)
      OBVIOUS
    <2>2. i.sym = s /\ i.day = d /\ i.work = X[s].work[d]
      BY <2>1
    <2>3. X[s].work[d] \in [gen : Nat, through : Nat] /\ (X[s].work[d].gen = 0 => X[s].work[d] = NoWork)
          /\ X[s].work[d].through <= In(X[s])
      BY <1>1 DEF SymbolInv, SymbolTypes, Bounded
    <2>4. X[s].work[d].gen # 0
      BY <2>1, <2>3 DEF Dirty
    <2> QED BY <2>2, <2>3, <2>4 DEF QueueRow
  <1>5. \A i, j \in items : i.sym = j.sym /\ i.day = j.day => i = j
    OBVIOUS
  <1>6. DrainItems(n, X)
    BY <1>2, <1>4, <1>5 DEF DrainItems, ItemPC, SymbolPC
  <1>7. DataInv(n, X, B)
    BY <1>1, <1>2, <1>3, <1>6, Between
  <1> QED BY <1>7 DEF n

\* A process that lost its memory.
LEMMA FreshKeeps ==
  ASSUME NEW X, NEW B, \A s \in Symbols : SymbolInv(X[s]), BasketInv(X, B)
  PROVE  DataInv(Fresh, X, B)
  <1>1. /\ DOMAIN Fresh = Fields /\ Fresh.pc = "idle" /\ Fresh.items = {} /\ Fresh.todo = {}
        /\ Fresh.frame = "1Min" /\ Fresh.prefix = [s \in Symbols |-> [f \in Frames |-> NoPrefix]]
    BY DEF Fresh, Fields
  <1>2. DrainTypes(Fresh)
    BY <1>1 DEF DrainTypes, Frames
  <1>3. DrainItems(Fresh, X)
    BY <1>1 DEF DrainItems, ItemPC, SymbolPC
  <1>4. DrainPrefix(Fresh, X)
    BY <1>1 DEF DrainPrefix, PrefixInv
  <1> QED BY <1>1, <1>2, <1>3, <1>4, Between

(***************************************************************************)
(* Intake, as a change of a symbol's value.                                *)
(***************************************************************************)
\* More bars and a later checkpoint reach no less far.
LEMMA InGrows ==
  ASSUME NEW x, NEW y, x.ckpt \in 0..Horizon, y.ckpt \in 0..Horizon, x.ckpt <= y.ckpt,
         \A t \in Intervals["1Min"] : x.event["1Min"][t] # Missing => y.event["1Min"][t] # Missing
  PROVE  In(x) <= In(y)
  <1>1. /\ In(y) \in Nat /\ y.ckpt <= In(y)
        /\ \A u \in Intervals["1Min"] : y.event["1Min"][u] # Missing => u + 1 <= In(y)
    BY InIs
  <1>2. \/ In(x) = 0 \/ In(x) = x.ckpt
        \/ \E u \in Intervals["1Min"] : x.event["1Min"][u] # Missing /\ In(x) = u + 1
    BY InIs
  <1>3. x.ckpt \in Nat /\ y.ckpt \in Nat
    BY Sizes
  <1> QED BY <1>1, <1>2, <1>3

\* The upsert of a row.
LEMMA EnqueuedIs ==
  ASSUME NEW w \in [gen : Nat, through : Nat], NEW b \in Nat
  PROVE  /\ Enqueued(w, b) \in [gen : Nat, through : Nat] /\ Enqueued(w, b).gen = w.gen + 1
         /\ \A n \in Nat : w.through <= n /\ b <= n => Enqueued(w, b).through <= n
  <1>1. w.gen \in Nat /\ w.through \in Nat
    OBVIOUS
  <1>2. Most({w.through, b}) = IF w.through >= b THEN w.through ELSE b
    BY <1>1, MostOfTwo
  <1>3. Enqueued(w, b).gen = w.gen + 1 /\ Enqueued(w, b).through = Most({w.through, b})
    BY DEF Enqueued
  <1>4. Enqueued(w, b) \in [gen : Nat, through : Nat]
    BY <1>1, <1>2 DEF Enqueued
  <1> QED BY <1>1, <1>2, <1>3, <1>4

\* Intake that queues the row of the day d, through b.
QueuedRow(x, y, d, b) ==
  /\ y.work = [x.work EXCEPT ![d] = Enqueued(@, b)]
  /\ y.gap = x.gap /\ y.mark = x.mark

\* An intake that queues the one day it touches.
LEMMA RowTaken ==
  ASSUME NEW x, NEW y, SymbolInv(x), NEW d \in 1..Days, NEW b \in Nat, QueuedRow(x, y, d, b),
         y.ckpt \in 0..Horizon, x.ckpt <= y.ckpt, b <= In(y),
         \A t \in Intervals["1Min"] : x.event["1Min"][t] # Missing => y.event["1Min"][t] # Missing,
         y.event["15Min"] = x.event["15Min"], DOMAIN y.event = Frames,
         DOMAIN y.event["1Min"] = Intervals["1Min"],
         \A e \in (1..Days) \ {d} : Untouched(x, y, e)
  PROVE  Taken(x, y, {d})
  <1>1. /\ x.ckpt \in 0..Horizon /\ x.work \in [1..Days -> [gen : Nat, through : Nat]]
        /\ x.work[d].through <= In(x)
    BY DEF SymbolInv, SymbolTypes, Bounded
  <1>2. In(x) <= In(y) /\ In(x) \in Nat /\ In(y) \in Nat
    BY <1>1, InGrows, InIs
  <1> DEFINE R == [gen : Nat, through : Nat]  DD == 1..Days  w == x.work[d]  v == Enqueued(w, b)
  <1>3. x.work \in [DD -> R] /\ d \in DD /\ w \in R
    BY <1>1
  <1>4. v \in R /\ v.gen = w.gen + 1 /\ \A n \in Nat : w.through <= n /\ b <= n => v.through <= n
    BY <1>3, EnqueuedIs
  <1>5. y.work = [x.work EXCEPT ![d] = v]
    BY DEF QueuedRow
  <1>6. w.through \in Nat
    BY <1>3
  <1>7. v.through <= In(y)
    <2> HIDE DEF v
    <2>1. w.through <= In(y)
      BY <1>1, <1>2, <1>6
    <2> QED BY <1>2, <1>4, <2>1
  <1> HIDE DEF v, w, R, DD
  <1>8. y.work \in [DD -> R] /\ y.work[d] = v /\ \A e \in DD : e # d => y.work[e] = x.work[e]
    BY <1>3, <1>4, <1>5
  <1>9. \A f \in Frames : DOMAIN y.event[f] = Intervals[f]
    BY DEF SymbolInv, SymbolTypes, Frames
  <1>10. y.work \in [1..Days -> [gen : Nat, through : Nat]]
    BY <1>8 DEF DD, R
  <1>11. \A e \in (1..Days) \ {d} : y.work[e] = x.work[e]
    BY <1>8 DEF DD
  <1>12. y.work[d].gen = x.work[d].gen + 1 /\ y.work[d].through <= In(y)
    BY <1>4, <1>7, <1>8 DEF w
  <1> QED BY <1>2, <1>9, <1>10, <1>11, <1>12 DEF Taken, QueuedRow

\* A bar delivered queues its day.
LEMMA DeliverTaken ==
  ASSUME NEW x, NEW y, SymbolInv(x), NEW t \in Intervals["1Min"], NEW e, e # Missing,
         QueuedRow(x, y, Day(t), t + 1), y.ckpt = x.ckpt,
         y.event = [x.event EXCEPT !["1Min"][t] = e]
  PROVE  Taken(x, y, {Day(t)})
  <1>1. "1Min" \in Frames /\ "15Min" \in Frames
    BY DEF Frames
  <1>2. t \in Nat /\ Day(t) \in 1..Days /\ t + 1 \in Nat
    BY <1>1, IntervalFacts
  <1>3. DOMAIN x.event = Frames /\ DOMAIN x.event["1Min"] = Intervals["1Min"] /\ x.ckpt \in 0..Horizon
    BY <1>1 DEF SymbolInv, SymbolTypes
  <1>4. /\ DOMAIN y.event = Frames /\ DOMAIN y.event["1Min"] = Intervals["1Min"]
        /\ y.event["15Min"] = x.event["15Min"] /\ y.event["1Min"][t] = e
        /\ \A u \in Intervals["1Min"] : u # t => y.event["1Min"][u] = x.event["1Min"][u]
    BY <1>1, <1>3
  <1>5. \A u \in Intervals["1Min"] : x.event["1Min"][u] # Missing => y.event["1Min"][u] # Missing
    BY <1>4
  <1>6. /\ In(y) \in Nat /\ y.ckpt <= In(y) /\ t + 1 <= In(y)
        /\ \/ In(y) = 0 \/ In(y) = y.ckpt
           \/ \E u \in Intervals["1Min"] : y.event["1Min"][u] # Missing /\ In(y) = u + 1
    BY <1>3, <1>4, InIs
  <1>7. /\ In(x) \in Nat /\ x.ckpt <= In(x)
        /\ \A u \in Intervals["1Min"] : x.event["1Min"][u] # Missing => u + 1 <= In(x)
    BY <1>3, InIs
  <1>8. x.ckpt \in Nat /\ x.ckpt <= x.ckpt
    BY <1>3, Sizes
  <1>9. In(x) <= In(y)
    BY <1>3, <1>5, <1>8, InGrows
  <1>10. In(y) = In(x) \/ In(y) = t + 1
    <2>1. CASE In(y) = 0
      BY <1>7, <1>9, <2>1
    <2>2. CASE In(y) = y.ckpt
      BY <1>7, <1>8, <1>9, <2>2
    <2>3. ASSUME NEW u \in Intervals["1Min"], y.event["1Min"][u] # Missing, In(y) = u + 1
          PROVE  In(y) = In(x) \/ In(y) = t + 1
      <3>1. CASE u = t
        BY <2>3, <3>1
      <3>2. CASE u # t
        BY <1>4, <1>6, <1>7, <1>9, <2>3, <3>2
      <3> QED BY <3>1, <3>2
    <2> QED BY <1>6, <2>1, <2>2, <2>3
  <1>11. ASSUME NEW k \in (1..Days) \ {Day(t)} PROVE Untouched(x, y, k)
    <2>1. \A f \in Frames : \A u \in On(f, k) : y.event[f][u] = x.event[f][u]
      BY <1>4, <1>11 DEF On, Frames
    <2>2. In(y) > 0 /\ Day(In(y) - 1) = k => In(y) = In(x)
      <3>1. (t + 1) - 1 = t
        BY <1>2
      <3> QED BY <1>10, <1>11, <3>1
    <2> QED BY <2>1, <2>2 DEF Untouched, QueuedRow
  <1> QED BY <1>2, <1>3, <1>4, <1>5, <1>6, <1>8, <1>11, RowTaken

\* Coverage within a session queues that session.
LEMMA CoverTaken ==
  ASSUME NEW x, NEW y, SymbolInv(x), NEW d \in 1..Days, NEW b \in Nat, Open(d) < b, b <= Close(d),
         d > 1 => x.ckpt >= Close(d - 1),
         QueuedRow(x, y, d, b), y.event = x.event, y.ckpt = Most({x.ckpt, b})
  PROVE  Taken(x, y, {d})
  <1>1. /\ x.ckpt \in 0..Horizon /\ x.ckpt \in Nat /\ Horizon \in Nat /\ DOMAIN x.event = Frames
        /\ DOMAIN x.event["1Min"] = Intervals["1Min"] /\ d \in Nat \ {0}
    BY Sizes DEF SymbolInv, SymbolTypes, Frames
  <1>2. y.ckpt = IF x.ckpt >= b THEN x.ckpt ELSE b
    BY <1>1, MostOfTwo
  <1>3. Open(d) \in Nat /\ Close(d) \in Nat /\ Close(d) <= Horizon
    <2>1. Open(d) \in Nat /\ Close(d) \in Nat /\ Open(d + 1) = Close(d) + 1
      BY <1>1, OpenFacts
    <2>2. Open(d + 1) <= Horizon
      BY LastDay
    <2> QED BY <1>1, <2>1, <2>2
  <1>4. y.ckpt \in 0..Horizon /\ x.ckpt <= y.ckpt /\ b <= y.ckpt /\ y.ckpt \in Nat
    BY <1>1, <1>2, <1>3
  <1>5. /\ In(y) \in Nat /\ y.ckpt <= In(y)
        /\ \/ In(y) = 0 \/ In(y) = y.ckpt
           \/ \E u \in Intervals["1Min"] : y.event["1Min"][u] # Missing /\ In(y) = u + 1
    BY <1>4, InIs
  <1>6. /\ In(x) \in Nat /\ x.ckpt <= In(x)
        /\ \A u \in Intervals["1Min"] : x.event["1Min"][u] # Missing => u + 1 <= In(x)
    BY <1>1, InIs
  <1>7. In(x) <= In(y)
    BY <1>1, <1>4, InGrows
  <1>8. In(y) = In(x) \/ In(y) = b
    <2>1. CASE In(y) = 0
      BY <1>6, <1>7, <2>1
    <2>2. CASE In(y) = y.ckpt
      BY <1>1, <1>2, <1>6, <1>7, <2>2
    <2>3. ASSUME NEW u \in Intervals["1Min"], y.event["1Min"][u] # Missing, In(y) = u + 1
          PROVE  In(y) = In(x)
      BY <1>5, <1>6, <1>7, <2>3
    <2> QED BY <1>5, <2>1, <2>2, <2>3
  <1>9. Day(b - 1) = d
    <2>1. b - 1 \in Nat /\ Open(d) <= b - 1 /\ b - 1 <= Close(d)
      BY <1>3
    <2> QED BY <1>1, <2>1, DayIs
  <1>10. ASSUME NEW k \in (1..Days) \ {d} PROVE Untouched(x, y, k)
    <2>1. ASSUME NEW f \in Frames, NEW t \in On(f, k), t + Length(f) <= y.ckpt
          PROVE  t + Length(f) <= x.ckpt
      <3>1. t \in Intervals[f] /\ Day(t) = k /\ t \in Nat /\ Length(f) \in Nat \ {0}
        BY IntervalFacts, Sizes DEF On
      <3>2. CASE k < d
        <4>1. d - 1 \in Nat \ {0} /\ d > 1 /\ k <= d - 1
          BY <1>1, <1>10, <3>2, Sizes
        <4>2. t + Length(f) <= Close(d - 1) /\ Close(d - 1) \in Nat
          BY <3>1, <4>1, Sides, OpenFacts
        <4> QED BY <1>1, <3>1, <4>1, <4>2
      <3>3. CASE d < k
        <4>1. Close(d) < t
          BY <1>1, <3>1, <3>3, Sides
        <4> QED BY <1>1, <1>2, <1>3, <2>1, <3>1, <4>1
      <3>4. k < d \/ d < k
        BY <1>10, Sizes
      <3> QED BY <3>2, <3>3, <3>4
    <2>2. In(y) > 0 /\ Day(In(y) - 1) = k => In(y) = In(x)
      BY <1>8, <1>9, <1>10
    <2> QED BY <2>1, <2>2 DEF Untouched, QueuedRow
  <1>11. b <= In(y)
    BY <1>4, <1>5
  <1> QED BY <1>1, <1>4, <1>10, <1>11, RowTaken

\* Coverage of closed time queues nothing, and owes nothing.
LEMMA CoverClosedTaken ==
  ASSUME NEW x, NEW y, SymbolInv(x), NEW d \in 1..Days, x.ckpt = Close(d), y.ckpt = Open(d + 1),
         y.event = x.event, y.work = x.work, y.gap = x.gap, y.mark = x.mark
  PROVE  Taken(x, y, {})
  <1>1. /\ x.ckpt \in 0..Horizon /\ x.ckpt \in Nat /\ Horizon \in Nat /\ DOMAIN x.event = Frames
        /\ \A f \in Frames : DOMAIN x.event[f] = Intervals[f]
        /\ x.work \in [1..Days -> [gen : Nat, through : Nat]] /\ d \in Nat \ {0}
    <2>1. /\ x.ckpt \in 0..Horizon /\ DOMAIN x.event = Frames
          /\ \A f \in Frames : DOMAIN x.event[f] = Intervals[f]
          /\ x.work \in [1..Days -> [gen : Nat, through : Nat]]
      BY DEF SymbolInv, SymbolTypes
    <2>2. Horizon \in Nat /\ d \in Nat \ {0} /\ (x.ckpt \in 0..Horizon => x.ckpt \in Nat)
      BY Sizes
    <2> QED BY <2>1, <2>2
  <1>2. /\ Open(d) \in Nat /\ Close(d) \in Nat /\ Close(d) = Open(d) + SessionMinutes
        /\ Open(d + 1) = Close(d) + 1 /\ Open(d + 1) <= Horizon /\ SessionMinutes \in Nat \ {0}
    BY <1>1, OpenFacts, LastDay, Sizes
  <1>3. y.ckpt = x.ckpt + 1 /\ y.ckpt \in 0..Horizon /\ y.ckpt \in Nat /\ x.ckpt <= y.ckpt /\ x.ckpt < y.ckpt
    BY <1>1, <1>2
  <1>4. /\ In(y) \in Nat /\ y.ckpt <= In(y)
        /\ \/ In(y) = 0 \/ In(y) = y.ckpt
           \/ \E u \in Intervals["1Min"] : y.event["1Min"][u] # Missing /\ In(y) = u + 1
    BY <1>3, InIs
  <1>5. /\ In(x) \in Nat /\ x.ckpt <= In(x)
        /\ \A u \in Intervals["1Min"] : x.event["1Min"][u] # Missing => u + 1 <= In(x)
    BY <1>1, InIs
  <1>6. In(x) <= In(y)
    BY <1>1, <1>3, InGrows
  <1>7. In(y) = In(x) \/ In(y) = y.ckpt
    <2>1. CASE In(y) = 0
      BY <1>5, <1>6, <2>1
    <2>2. ASSUME NEW u \in Intervals["1Min"], y.event["1Min"][u] # Missing, In(y) = u + 1
          PROVE  In(y) = In(x)
      BY <1>4, <1>5, <1>6, <2>2
    <2> QED BY <1>4, <2>1, <2>2
  <1>8. \A f \in Frames : \A t \in Intervals[f] : t + Length(f) <= Close(d) + 1 <=> t + Length(f) <= Close(d)
    <2> SUFFICES ASSUME NEW f \in Frames, NEW t \in Intervals[f], t + Length(f) <= Close(d) + 1
                 PROVE  t + Length(f) <= Close(d)
      <3>1. \A f \in Frames : \A t \in Intervals[f] : t \in Nat /\ Length(f) \in Nat
        BY IntervalFacts, Sizes
      <3> QED BY <1>2, <3>1
    <2>1. t \in Nat /\ Length(f) \in Nat \ {0} /\ Day(t) \in Nat
      BY IntervalFacts, Sizes
    <2>2. CASE Day(t) <= d
      BY <1>1, <2>2, Sides
    <2>3. CASE d < Day(t)
      <3>1. Close(d) < t
        BY <1>1, <2>3, Sides
      <3> QED BY <1>2, <2>1, <3>1
    <2> QED BY <1>1, <2>1, <2>2, <2>3
  <1>9. ASSUME NEW k \in 1..Days PROVE Untouched(x, y, k)
    <2>1. \A f \in Frames : \A t \in On(f, k) : t + Length(f) <= y.ckpt => t + Length(f) <= x.ckpt
      BY <1>2, <1>8 DEF On
    <2>2. ASSUME In(y) > 0, Day(In(y) - 1) = k
          PROVE  /\ In(x) > 0 /\ Day(In(x) - 1) = k
                 /\ \A f \in Frames : Expected(f, 0, In(y)) = Expected(f, 0, In(x))
      <3>1. CASE In(y) = In(x)
        BY <2>2, <3>1
      <3>2. CASE In(y) # In(x)
        <4>1. In(y) = Close(d) + 1 /\ In(x) = Close(d)
          BY <1>2, <1>3, <1>5, <1>6, <1>7, <3>2
        <4>2. (Close(d) + 1) - 1 = Close(d) /\ Close(d) - 1 \in Nat /\ Open(d) <= Close(d) - 1
              /\ Close(d) - 1 <= Close(d) /\ Open(d) <= Close(d) /\ Close(d) <= Close(d)
          BY <1>2
        <4>3. Day(Close(d)) = d /\ Day(Close(d) - 1) = d
          BY <1>1, <1>2, <4>2, DayIs
        <4>4. \A f \in Frames : Expected(f, 0, Close(d) + 1) = Expected(f, 0, Close(d))
          BY <1>8 DEF Expected
        <4>5. k = d
          BY <2>2, <4>1, <4>2, <4>3
        <4> QED BY <1>2, <2>2, <4>1, <4>2, <4>3, <4>4, <4>5
      <3> QED BY <3>1, <3>2
    <2> QED BY <2>1, <2>2 DEF Untouched
  <1> QED BY <1>1, <1>3, <1>6, <1>9 DEF Taken

\* What the first start leaves.
LEMMA ImportedSymbol ==
  ASSUME NEW x,
         x.event = [f \in Frames |-> [t \in Intervals[f] |->
                      IF f = "1Min" /\ t \in Imported THEN <<1, TRUE>> ELSE Missing]],
         x.ckpt = ImportedThrough,
         x.work = [d \in 1..Days |->
                     IF Open(d) < ImportedThrough
                     THEN [gen |-> 1, through |-> Least({Close(d), ImportedThrough})] ELSE NoWork],
         x.gap = [f \in Frames |-> [r \in Ranges[f] |-> "none"]],
         x.mark = [f \in Frames |-> <<>>]
  PROVE  SymbolInv(x)
  <1>1. ImportedThrough \in 0..Horizon /\ ImportedThrough \in Nat /\ Horizon \in Nat
    BY Sizes, DerivedAssumption DEF Horizon, DayLength
  <1>2. "1Min" \in Frames /\ "15Min" \in Frames
    BY DEF Frames
  <1>3. /\ DOMAIN x.event = Frames /\ \A f \in Frames : DOMAIN x.event[f] = Intervals[f]
        /\ \A t \in Intervals["1Min"] : t \notin Imported => x.event["1Min"][t] = Missing
    <2>1. DOMAIN x.event = Frames
      OBVIOUS
    <2>2. \A f \in Frames : x.event[f] = [t \in Intervals[f] |->
                               IF f = "1Min" /\ t \in Imported THEN <<1, TRUE>> ELSE Missing]
      OBVIOUS
    <2>3. \A f \in Frames : DOMAIN x.event[f] = Intervals[f]
      BY <2>2
    <2>4. \A t \in Intervals["1Min"] : x.event["1Min"][t] = IF t \in Imported THEN <<1, TRUE>> ELSE Missing
      BY <1>2, <2>2
    <2> QED BY <2>1, <2>3, <2>4
  <1>4. \A t \in Imported : t \in Nat /\ t + 1 <= ImportedThrough /\ t < ImportedThrough
    BY DerivedAssumption
  <1>5. In(x) = ImportedThrough
    <2>1. /\ In(x) \in Nat /\ x.ckpt <= In(x)
          /\ \/ In(x) = 0 \/ In(x) = x.ckpt
             \/ \E u \in Intervals["1Min"] : x.event["1Min"][u] # Missing /\ In(x) = u + 1
      BY <1>1, InIs
    <2>2. \A u \in Intervals["1Min"] : x.event["1Min"][u] # Missing => u \in Imported
      BY <1>3
    <2>3. x.ckpt = ImportedThrough
      OBVIOUS
    <2>4. ASSUME NEW u \in Intervals["1Min"], x.event["1Min"][u] # Missing, In(x) = u + 1
          PROVE  In(x) <= ImportedThrough
      <3>1. u \in Imported
        BY <2>2, <2>4
      <3> QED BY <1>4, <2>4, <3>1
    <2>5. ImportedThrough <= In(x)
      BY <2>1, <2>3
    <2>6. In(x) <= ImportedThrough
      <3>1. CASE In(x) = 0
        BY <1>1, <3>1
      <3>2. CASE In(x) = x.ckpt
        BY <1>1, <2>3, <3>2
      <3> QED BY <2>1, <2>4, <3>1, <3>2
    <2> QED BY <1>1, <2>1, <2>5, <2>6
  <1>6. /\ DOMAIN <<>> = {} /\ <<>> = [t \in DOMAIN <<>> |-> <<>>[t]]
    OBVIOUS
  <1>7. /\ \A f \in Frames : x.mark[f] = <<>> /\ Unsolved(x, f) = {}
        /\ \A f \in Frames : x.gap[f] \in [Ranges[f] -> {"none", "open", "repairing", "resolved"}]
        /\ \A f \in Frames : \A r \in Ranges[f] : x.gap[f][r] = "none"
    BY DEF Unsolved
  <1>8. ASSUME NEW d \in 1..Days
        PROVE  /\ x.work[d] \in [gen : Nat, through : Nat] /\ x.work[d].through <= ImportedThrough
               /\ x.work[d].gen = 0 => x.work[d] = NoWork
               /\ x.work[d] = NoWork => ImportedThrough <= Open(d)
    <2>1. Open(d) \in Nat /\ Close(d) \in Nat
      BY OpenFacts
    <2>2. Least({Close(d), ImportedThrough}) = IF Close(d) <= ImportedThrough THEN Close(d) ELSE ImportedThrough
      BY <1>1, <2>1, LeastOfTwo
    <2>3. x.work[d] = IF Open(d) < ImportedThrough
                      THEN [gen |-> 1, through |-> Least({Close(d), ImportedThrough})] ELSE NoWork
      OBVIOUS
    <2>4. CASE Open(d) < ImportedThrough
      BY <1>1, <2>1, <2>2, <2>3, <2>4 DEF NoWork
    <2>5. CASE ~(Open(d) < ImportedThrough)
      BY <1>1, <2>1, <2>3, <2>5 DEF NoWork
    <2> QED BY <2>4, <2>5
  <1>9. x.work \in [1..Days -> [gen : Nat, through : Nat]]
    <2>1. x.work = [d \in 1..Days |-> x.work[d]]
      OBVIOUS
    <2> DEFINE R == [gen : Nat, through : Nat]  DD == 1..Days
    <2>2. \A d \in DD : x.work[d] \in R
      BY <1>8
    <2>3. x.work = [d \in DD |-> x.work[d]]
      BY <2>1
    <2> HIDE DEF R, DD
    <2>4. x.work \in [DD -> R]
      BY <2>2, <2>3
    <2> QED BY <2>4 DEF R, DD
  <1>10. SymbolTypes(x)
    <2>1. x.ckpt \in 0..Horizon
      BY <1>1
    <2>2. DOMAIN x.mark = Frames /\ DOMAIN x.gap = Frames
      OBVIOUS
    <2>3. ASSUME NEW f \in Frames
          PROVE  /\ x.mark[f] = [t \in DOMAIN x.mark[f] |-> x.mark[f][t]]
                 /\ DOMAIN x.mark[f] \subseteq Expected(f, 0, In(x))
      <3>1. x.mark[f] = <<>>
        BY <1>7
      <3> QED BY <1>6, <3>1
    <2>4. \A d \in 1..Days : x.work[d].gen = 0 => x.work[d] = NoWork
      BY <1>8
    <2>5. \A f \in Frames : x.gap[f] \in [Ranges[f] -> {"none", "open", "repairing", "resolved"}]
      BY <1>7
    <2> QED BY <1>3, <1>9, <2>1, <2>2, <2>3, <2>4, <2>5 DEF SymbolTypes
  <1>11. Bounded(x)
    BY <1>5, <1>7, <1>8 DEF Bounded
  <1>12. DaysDone(x)
    <2> SUFFICES ASSUME NEW d \in 1..Days, ~Dirty(x, d)
                 PROVE  Synced(x, d) /\ \A f \in Frames : Shown(x, f, d)
      BY DEF DaysDone
    <2>1. ImportedThrough <= Open(d) /\ Open(d) \in Nat
      <3>1. x.work[d] = NoWork
        BY DEF Dirty
      <3>2. d \in Nat \ {0}
        BY Sizes
      <3> QED BY <1>8, <3>1, <3>2, OpenFacts
    <2>2. \A f \in Frames : \A t \in On(f, d) : t \in Nat /\ ImportedThrough <= t /\ t \in Intervals[f]
      <3>1. ASSUME NEW f \in Frames, NEW t \in On(f, d)
            PROVE  t \in Nat /\ ImportedThrough <= t /\ t \in Intervals[f]
        <4>1. t \in Nat /\ Open(d) <= t /\ t \in Intervals[f]
          BY IntervalFacts DEF On
        <4> QED BY <1>1, <2>1, <4>1
      <3> QED BY <3>1
    <2>3. Aggregated(x, d)
      <3> SUFFICES ASSUME NEW b \in On("15Min", d)
                   PROVE  ~(\A i \in 1..BucketMinutes : x.event["1Min"][b + i - 1] # Missing)
        BY DEF Aggregated
      <3>1. b \in Intervals["15Min"] /\ b \in Nat /\ ImportedThrough <= b
        BY <1>2, <2>2
      <3>2. 1 \in 1..BucketMinutes
        BY Sizes
      <3>3. b + 1 - 1 \in Intervals["1Min"] /\ b + 1 - 1 = b
        BY <3>1, <3>2, Minutes
      <3>4. b \notin Imported
        BY <1>1, <1>4, <3>1
      <3> QED BY <1>3, <3>2, <3>3, <3>4
    <2>4. \A f \in Frames : Tracked(x, f, d) /\ Lacking(x, f, d)
      <3>1. \A f \in Frames : Length(f) \in Nat \ {0}
        BY Sizes
      <3>2. \A f \in Frames : \A t \in On(f, d) : ~(t + Length(f) <= x.ckpt)
        BY <1>1, <2>2, <3>1
      <3> QED BY <1>7, <3>2 DEF Tracked, Lacking
    <2>5. ~(In(x) > 0 /\ Day(In(x) - 1) = d)
      <3> SUFFICES ASSUME In(x) > 0, Day(In(x) - 1) = d PROVE FALSE
        OBVIOUS
      <3>1. In(x) - 1 \in Nat
        BY <1>1, <1>5
      <3>2. Open(d) <= In(x) - 1
        BY <3>1, DayFacts
      <3> QED BY <1>1, <1>5, <2>1, <3>2
    <2>6. \A f \in Frames : Shown(x, f, d)
      BY <1>6, <1>7, <2>5 DEF Shown, Exact, Reaches
    <2> QED BY <2>3, <2>4, <2>6 DEF Synced
  <1> QED BY <1>10, <1>11, <1>12 DEF SymbolInv

(***************************************************************************)
(* Each action of the state preserves the invariant.                       *)
(***************************************************************************)
\* The variables as one value per symbol.
LEMMA Stored ==
  /\ \A s \in Symbols : /\ Store[s].event = event[s] /\ Store[s].ckpt = ckpt[s] /\ Store[s].work = work[s]
                        /\ Store[s].gap = gap[s] /\ Store[s].mark = mark[s]
  /\ \A s \in Symbols, f \in Frames : Unresolved(s, f) = Unsolved(Store[s], f)
  /\ \A s \in Symbols : \A n : Inspected(s, n) = Known(Store[s], n)
  <1>1. \A s \in Symbols : /\ Store[s].event = event[s] /\ Store[s].ckpt = ckpt[s] /\ Store[s].work = work[s]
                           /\ Store[s].gap = gap[s] /\ Store[s].mark = mark[s]
    BY DEF Store
  <1>2. \A s \in Symbols, f \in Frames : Unresolved(s, f) = Unsolved(Store[s], f)
    BY <1>1 DEF Unresolved, Unsolved
  <1>3. ASSUME NEW s \in Symbols, NEW n PROVE Inspected(s, n) = Known(Store[s], n)
    <2>1. {u \in Intervals["1Min"] : event[s]["1Min"][u] # Missing}
            = {u \in Intervals["1Min"] : Store[s].event["1Min"][u] # Missing}
      BY <1>1
    <2>2. ckpt[s] = Store[s].ckpt
      BY <1>1
    <2> QED BY <2>1, <2>2 DEF Inspected, Known, Arrived
  <1> QED BY <1>1, <1>2, <1>3

\* A step that leaves the variables of the data alone.
LEMMA StoredSame ==
  ASSUME UNCHANGED <<event, ckpt, work, gap, mark>>
  PROVE  Store' = Store
  BY DEF Store

\* The basket of the state is the basket of the values.
LEMMA BasketStored ==
  ASSUME NEW f \in Frames
  PROVE  BasketOf(f) = BasketIn(Store, f)
  <1>1. ASSUME NEW s \in Symbols PROVE Blocked(s, f) <=> BlockedIn(Store[s], f)
    <2>1. event[s] = Store[s].event /\ mark[s] = Store[s].mark /\ Unresolved(s, f) = Unsolved(Store[s], f)
      BY Stored
    <2> QED BY <2>1 DEF Blocked, BlockedIn
  <1>2. {Through(f, mark[s][f]) : s \in Symbols} = {Through(f, Store[s].mark[f]) : s \in Symbols}
    BY Stored
  <1> QED BY <1>1, <1>2 DEF BasketOf, BasketIn

\* A step of the guarded process that changes its memory only.
LEMMA MemoryStep ==
  ASSUME DerivedInv, NEW p \in Procs, owner = p, owner' = owner, basket' = basket,
         UNCHANGED <<event, ckpt, work, gap, mark>>,
         DOMAIN proc' = DOMAIN proc, DataInv(proc'[p], Store, basket)
  PROVE  DerivedInv'
  <1>1. Store' = Store
    BY StoredSame
  <1>2. proc'[owner'] = proc'[p]
    OBVIOUS
  <1>3. StateTypes'
    BY DEF DerivedInv, StateTypes
  <1>4. DataInv(proc'[owner'], Store', basket')
    BY <1>1, <1>2
  <1> QED BY <1>3, <1>4 DEF DerivedInv

\* What a step of the guarded process starts from.
LEMMA Mine ==
  ASSUME DerivedInv, NEW p \in Procs, owner = p
  PROVE  DataInv(proc[p], Store, basket) /\ DOMAIN proc = Procs
  BY DEF DerivedInv, StateTypes

\* Inspect preserves the invariant.
LEMMA InspectStep ==
  ASSUME DerivedInv, NEW p \in Procs, Inspect(p)
  PROVE  DerivedInv'
  <1> DEFINE m == proc[p]  item == FirstOf(m.todo)
             end == Least({Close(item.day), Inspected(item.sym, item.work.through)})
             n == IF end <= Open(item.day) THEN NextItem(m) ELSE [m EXCEPT !.pc = "read", !.end = end]
  <1>1. /\ owner = p /\ m.pc = "inspect" /\ proc' = [proc EXCEPT ![p] = n]
        /\ UNCHANGED <<event, ckpt, work, gap, mark, basket, owner, lock, intake, starts>>
    BY DEF Inspect, Guarded
  <1>2. DataInv(m, Store, basket) /\ DOMAIN proc = Procs
    BY <1>1, Mine
  <1>3. item.sym \in Symbols
    <2>1. DrainItems(m, Store) /\ (\A s \in Symbols : SymbolInv(Store[s])) /\ m.todo # {}
      BY <1>1, <1>2 DEF DataInv, DrainInv, DrainItems, ItemPC
    <2> QED BY <2>1, FirstItem
  <1>4. end = Least({Close(item.day), Known(Store[item.sym], item.work.through)})
    BY <1>3, Stored
  <1> HIDE DEF end
  <1>5. DataInv(n, Store, basket)
    BY <1>1, <1>2, <1>4, InspectKeeps, ZenonT(30)
  <1> HIDE DEF n
  <1>6. proc'[p] = n /\ DOMAIN proc' = DOMAIN proc
    BY <1>1, <1>2
  <1> QED BY <1>1, <1>5, <1>6, MemoryStep

\* ReadMinutes preserves the invariant.
LEMMA ReadMinutesStep ==
  ASSUME DerivedInv, NEW p \in Procs, ReadMinutes(p)
  PROVE  DerivedInv'
  <1> DEFINE m == proc[p]  item == FirstOf(m.todo)
             obs == Only(event[item.sym]["1Min"], Expected("1Min", Open(item.day), m.end))
             n == [m EXCEPT !.pc = "gaps", !.obs = obs]
  <1>1. /\ owner = p /\ m.pc = "read" /\ proc' = [proc EXCEPT ![p].pc = "gaps", ![p].obs = obs]
        /\ UNCHANGED <<event, ckpt, work, gap, mark, basket, owner, lock, intake, starts>>
    BY DEF ReadMinutes, Guarded
  <1>2. DataInv(m, Store, basket) /\ DOMAIN proc = Procs
    BY <1>1, Mine
  <1>3. item.sym \in Symbols
    <2>1. DrainItems(m, Store) /\ (\A s \in Symbols : SymbolInv(Store[s])) /\ m.todo # {}
      BY <1>1, <1>2 DEF DataInv, DrainInv, DrainItems, ItemPC
    <2> QED BY <2>1, FirstItem
  <1>4. obs = Only(Store[item.sym].event["1Min"], Expected("1Min", Open(item.day), m.end))
    BY <1>3, Stored
  <1> HIDE DEF obs
  <1>5. DataInv(n, Store, basket)
    BY <1>1, <1>2, <1>4, ReadMinutesKeeps, ZenonT(30)
  <1>6. proc'[p] = n /\ DOMAIN proc' = DOMAIN proc
    BY <1>1, <1>2
  <1> QED BY <1>1, <1>5, <1>6, MemoryStep

\* GapsDone preserves the invariant.
LEMMA GapsDoneStep ==
  ASSUME DerivedInv, NEW p \in Procs, GapsDone(p)
  PROVE  DerivedInv'
  <1> DEFINE m == proc[p]  item == FirstOf(m.todo)  x == Store[item.sym]
             n == IF m.frame = "1Min" THEN [m EXCEPT !.pc = "aggregate"] ELSE NextItem(m)
  <1>1. /\ owner = p /\ m.pc = "gaps" /\ proc' = [proc EXCEPT ![p] = n]
        /\ Unrecorded(item.sym, m) = {} /\ Filled(item.sym, item.day, m) = {}
        /\ UNCHANGED <<event, ckpt, work, gap, mark, basket, owner, lock, intake, starts>>
    BY DEF GapsDone, Guarded
  <1>2. DataInv(m, Store, basket) /\ DOMAIN proc = Procs
    BY <1>1, Mine
  <1>3. item.sym \in Symbols /\ m.frame \in Frames
    BY <1>1, <1>2, Hand
  <1>4. gap[item.sym] = x.gap /\ Unresolved(item.sym, m.frame) = Unsolved(x, m.frame)
    BY <1>3, Stored
  <1>5. \A r \in Runs(m.frame, m.obs) : x.gap[m.frame][r] # "none"
    BY <1>1, <1>4 DEF Unrecorded
  <1>6. \A r \in Unsolved(x, m.frame) : Open(item.day) <= r[1] /\ r[2] <= m.end =>
          \E t \in Expected(m.frame, r[1], r[2]) : m.obs[t] = Missing
    BY <1>1, <1>4 DEF Filled
  <1>7. DataInv(n, Store, basket)
    BY <1>1, <1>2, <1>5, <1>6, GapsDoneKeeps
  <1> HIDE DEF n
  <1>8. proc'[p] = n /\ DOMAIN proc' = DOMAIN proc
    BY <1>1, <1>2
  <1> QED BY <1>1, <1>7, <1>8, MemoryStep

\* ReadAggregates preserves the invariant.
LEMMA ReadAggregatesStep ==
  ASSUME DerivedInv, NEW p \in Procs, ReadAggregates(p)
  PROVE  DerivedInv'
  <1> DEFINE m == proc[p]  item == FirstOf(m.todo)  x == Store[item.sym]
             obs == Only(event[item.sym]["15Min"], Expected("15Min", Open(item.day), m.end))
             n == [m EXCEPT !.pc = "gaps", !.frame = "15Min", !.obs = obs]
  <1>1. /\ owner = p /\ m.pc = "aggregate" /\ Stale(item.sym, m) = {}
        /\ proc' = [proc EXCEPT ![p].pc = "gaps", ![p].frame = "15Min", ![p].obs = obs]
        /\ UNCHANGED <<event, ckpt, work, gap, mark, basket, owner, lock, intake, starts>>
    BY DEF ReadAggregates, Guarded
  <1>2. DataInv(m, Store, basket) /\ DOMAIN proc = Procs
    BY <1>1, Mine
  <1>3. item.sym \in Symbols
    BY <1>1, <1>2, Hand
  <1>4. event[item.sym] = x.event
    BY <1>3, Stored
  <1>5. obs = Only(x.event["15Min"], Expected("15Min", Open(item.day), m.end))
    BY <1>4
  <1>6. \A b \in Expected("15Min", Open(Day(m.end - 1)), m.end) :
          (\A k \in 1..BucketMinutes : m.obs[b + k - 1] # Missing) =>
            x.event["15Min"][b] = Constituents(m.obs, b)
    BY <1>1, <1>4 DEF Stale
  <1> HIDE DEF obs
  <1>7. DataInv(n, Store, basket)
    BY <1>1, <1>2, <1>5, <1>6, ReadAggregatesKeeps, ZenonT(30)
  <1>8. proc'[p] = n /\ DOMAIN proc' = DOMAIN proc
    BY <1>1, <1>2
  <1> QED BY <1>1, <1>7, <1>8, MemoryStep

\* TakeFence preserves the invariant.
LEMMA TakeFenceStep ==
  ASSUME DerivedInv, NEW p \in Procs, TakeFence(p)
  PROVE  DerivedInv'
  <1> DEFINE m == proc[p]  fence == Fence(m.sym, m.frame)  n == [m EXCEPT !.pc = "start", !.fence = fence]
  <1>1. /\ owner = p /\ m.pc = "fence" /\ proc' = [proc EXCEPT ![p].pc = "start", ![p].fence = fence]
        /\ UNCHANGED <<event, ckpt, work, gap, mark, basket, owner, lock, intake, starts>>
    BY DEF TakeFence, Guarded
  <1>2. DataInv(m, Store, basket) /\ DOMAIN proc = Procs
    BY <1>1, Mine
  <1>3. m.sym \in Symbols /\ m.frame \in Frames
    BY <1>1, <1>2, Subject DEF SymbolPC
  <1>4. /\ fence.work = Store[m.sym].work /\ fence.ckpt = Store[m.sym].ckpt
        /\ DOMAIN fence.gaps = Unsolved(Store[m.sym], m.frame)
    BY <1>3, Stored DEF Fence, Only
  <1> HIDE DEF fence
  <1>5. DataInv(n, Store, basket)
    BY <1>1, <1>2, <1>4, TakeFenceKeeps, ZenonT(30)
  <1>6. proc'[p] = n /\ DOMAIN proc' = DOMAIN proc
    BY <1>1, <1>2
  <1> QED BY <1>1, <1>5, <1>6, MemoryStep

\* StartScan preserves the invariant.
LEMMA StartScanStep ==
  ASSUME DerivedInv, NEW p \in Procs, StartScan(p)
  PROVE  DerivedInv'
  <1> DEFINE m == proc[p]  end == Inspected(m.sym, LastItem(m).work.through)
             old == m.prefix[m.sym][m.frame]
             use == IF Reusable(old, m.fence, end) THEN old ELSE NoPrefix
             popped == [m EXCEPT !.prefix[m.sym][m.frame] = NoPrefix]
             n == IF Expected(m.frame, use.resume, end) = {} /\ use = NoPrefix THEN NextFrame(popped)
                  ELSE [popped EXCEPT !.pc = "scan", !.end = end, !.at = use.resume, !.seen = use.seen]
  <1>1. /\ owner = p /\ m.pc = "start" /\ proc' = [proc EXCEPT ![p] = n]
        /\ UNCHANGED <<event, ckpt, work, gap, mark, basket, owner, lock, intake, starts>>
    BY ZenonT(30) DEF StartScan, Guarded
  <1>2. DataInv(m, Store, basket) /\ DOMAIN proc = Procs
    BY <1>1, Mine
  <1>3. m.sym \in Symbols
    BY <1>1, <1>2, Subject DEF SymbolPC
  <1>4. end = Known(Store[m.sym], LastItem(m).work.through)
    BY <1>3, Stored
  <1>5. use = IF Reusable(m.prefix[m.sym][m.frame], m.fence, end)
              THEN m.prefix[m.sym][m.frame] ELSE NoPrefix
    OBVIOUS
  <1> HIDE DEF end, use
  <1>6. DataInv(n, Store, basket)
    BY <1>1, <1>2, <1>4, <1>5, StartScanKeeps, ZenonT(30)
  <1> HIDE DEF n
  <1>7. proc'[p] = n /\ DOMAIN proc' = DOMAIN proc
    BY <1>1, <1>2
  <1> QED BY <1>1, <1>6, <1>7, MemoryStep

\* Scan preserves the invariant.
LEMMA ScanOneStep ==
  ASSUME DerivedInv, NEW p \in Procs, Scan(p)
  PROVE  DerivedInv'
  <1> DEFINE m == proc[p]  s == m.sym  to == Least({Open(Day(m.at) + 1), m.end})
             new == Expected(m.frame, m.at, to)
             seen == [t \in DOMAIN m.seen \cup new |->
                        IF t \in DOMAIN m.seen THEN m.seen[t]
                        ELSE Component(m.frame, t, event[s][m.frame][t], DOMAIN m.fence.gaps)]
             n == [m EXCEPT !.at = to, !.seen = seen]
  <1>1. /\ owner = p /\ m.pc = "scan" /\ m.at < m.end
        /\ proc' = [proc EXCEPT ![p].at = to, ![p].seen = seen]
        /\ UNCHANGED <<event, ckpt, work, gap, mark, basket, owner, lock, intake, starts>>
    BY DEF Scan, Guarded
  <1>2. DataInv(m, Store, basket) /\ DOMAIN proc = Procs
    BY <1>1, Mine
  <1>3. s \in Symbols
    BY <1>1, <1>2, Subject DEF SymbolPC
  <1>4. event[s] = Store[s].event
    BY <1>3, Stored
  <1>5. seen = [t \in DOMAIN m.seen \cup Expected(m.frame, m.at, to) |->
                  IF t \in DOMAIN m.seen THEN m.seen[t]
                  ELSE Component(m.frame, t, Store[m.sym].event[m.frame][t], DOMAIN m.fence.gaps)]
    BY <1>4
  <1>6. to = Least({Open(Day(m.at) + 1), m.end})
    OBVIOUS
  <1> HIDE DEF seen, to
  <1>7. DataInv(n, Store, basket)
    BY <1>1, <1>2, <1>5, <1>6, ScanKeeps, ZenonT(30)
  <1>8. proc'[p] = n /\ DOMAIN proc' = DOMAIN proc
    BY <1>1, <1>2
  <1> QED BY <1>1, <1>7, <1>8, MemoryStep

\* The values after a step.
LEMMA StoredNext ==
  \A s \in Symbols : /\ Store'[s].event = event'[s] /\ Store'[s].ckpt = ckpt'[s] /\ Store'[s].work = work'[s]
                     /\ Store'[s].gap = gap'[s] /\ Store'[s].mark = mark'[s]
  BY DEF Store

\* A symbol that a step leaves alone.
LEMMA StoredElsewhere ==
  ASSUME NEW s \in Symbols, event'[s] = event[s], ckpt'[s] = ckpt[s], work'[s] = work[s],
         gap'[s] = gap[s], mark'[s] = mark[s]
  PROVE  Store'[s] = Store[s]
  BY DEF Store

\* A step of the guarded process that changes what is stored.
LEMMA StoreStep ==
  ASSUME DerivedInv, NEW p \in Procs, owner = p, owner' = owner, DOMAIN basket' = Frames,
         DOMAIN event' = Symbols, DOMAIN ckpt' = Symbols, DOMAIN work' = Symbols,
         DOMAIN gap' = Symbols, DOMAIN mark' = Symbols,
         DOMAIN proc' = Procs, DataInv(proc'[p], Store', basket')
  PROVE  DerivedInv'
  <1>1. proc'[owner'] = proc'[p]
    OBVIOUS
  <1>2. StateTypes'
    BY DEF DerivedInv, StateTypes
  <1> QED BY <1>1, <1>2 DEF DerivedInv

\* A gap's status set by the guarded process preserves the invariant.
LEMMA SetGapStep ==
  ASSUME DerivedInv, NEW p \in Procs, owner = p, proc[p].pc = "gaps",
         NEW r, NEW status \in {"open", "repairing", "resolved"},
         SetGap(p, FirstOf(proc[p].todo).sym, r, status), r \in Ranges[proc[p].frame],
         Day(r[1]) = FirstOf(proc[p].todo).day, r[2] <= proc[p].end,
         status = "resolved" =>
           \A t \in Expected(proc[p].frame, r[1], r[2]) : proc[p].obs[t] # Missing /\ t \in DOMAIN proc[p].obs
  PROVE  DerivedInv'
  <1> DEFINE m == proc[p]  item == FirstOf(m.todo)  s == item.sym  f == m.frame
  <1>1. DataInv(m, Store, basket) /\ DOMAIN proc = Procs
    BY Mine
  <1>2. s \in Symbols /\ f \in Frames /\ ItemObs(Store[s], item.day, m, Current(Store, item))
    BY <1>1, Hand
  <1>3. /\ gap' = [gap EXCEPT ![s][f][r] = status]
        /\ UNCHANGED <<event, ckpt, work, mark, basket, owner, lock, proc, intake, starts>>
    BY DEF SetGap
  <1>4. DOMAIN gap = Symbols
    BY SMTT(30) DEF DerivedInv, StateTypes
  <1>5. gap'[s] = [gap[s] EXCEPT ![f][r] = status] /\ DOMAIN gap' = Symbols
        /\ \A z \in Symbols : z # s => gap'[z] = gap[z]
    BY <1>2, <1>3, <1>4
  <1>6. \A z \in Symbols : z # s => Store'[z] = Store[z]
    BY <1>3, <1>5, StoredElsewhere, ZenonT(30)
  <1>7. SetTo(Store[s], Store'[s], f, r, status)
    <2>1. /\ Store[s].event = event[s] /\ Store[s].ckpt = ckpt[s] /\ Store[s].work = work[s]
          /\ Store[s].gap = gap[s] /\ Store[s].mark = mark[s]
          /\ Store'[s].event = event'[s] /\ Store'[s].ckpt = ckpt'[s] /\ Store'[s].work = work'[s]
          /\ Store'[s].gap = gap'[s] /\ Store'[s].mark = mark'[s]
      BY <1>2, Stored, StoredNext
    <2>2. Store'[s].gap = [Store[s].gap EXCEPT ![f][r] = status]
      BY <1>5, <2>1, ZenonT(30)
    <2> QED BY <1>3, <2>1, <2>2, ZenonT(30) DEF SetTo
  <1>8. status = "resolved" => \A t \in Expected(f, r[1], r[2]) : Store[s].event[f][t] # Missing
    BY <1>2 DEF ItemObs
  <1>9. DataInv(m, Store', basket)
    BY <1>1, <1>6, <1>7, <1>8, SetKeeps, ZenonT(30)
  <1>10. /\ owner' = owner /\ DOMAIN basket' = Frames /\ DOMAIN event' = Symbols /\ DOMAIN ckpt' = Symbols
         /\ DOMAIN work' = Symbols /\ DOMAIN mark' = Symbols /\ proc'[p] = m /\ basket' = basket
         /\ DOMAIN proc' = Procs
    BY <1>3 DEF DerivedInv, StateTypes
  <1> QED BY <1>5, <1>9, <1>10, StoreStep

\* RecordGap preserves the invariant.
LEMMA RecordGapStep ==
  ASSUME DerivedInv, NEW p \in Procs, RecordGap(p)
  PROVE  DerivedInv'
  <1> DEFINE m == proc[p]  item == FirstOf(m.todo)  s == item.sym  f == m.frame
             R == Unrecorded(s, m)  r == Earliest(R)
  <1>1. owner = p /\ m.pc = "gaps" /\ R # {} /\ SetGap(p, s, r, "open")
    BY DEF RecordGap, Guarded
  <1>2. DataInv(m, Store, basket)
    BY <1>1, Mine
  <1>3. f \in Frames /\ DOMAIN m.obs = {t \in On(f, item.day) : t + Length(f) <= m.end} /\ m.end \in Nat
    BY <1>1, <1>2, Hand
  <1>4. R \subseteq Inside(f, m.obs)
    BY RunsInside DEF Unrecorded
  <1>5. R \in SUBSET Ranges[f]
    BY <1>4 DEF Inside
  <1>6. r \in R
    BY <1>1, <1>3, <1>5, EarliestIs
  <1> HIDE DEF r, R
  <1>7. r \in Ranges[f] /\ r[1] \in DOMAIN m.obs /\ r[2] - Length(f) \in DOMAIN m.obs
    BY <1>4, <1>6 DEF Inside
  <1>8. Day(r[1]) = item.day /\ (r[2] - Length(f)) + Length(f) <= m.end
    BY <1>3, <1>7 DEF On
  <1>9. r[2] <= m.end
    <2>1. r[2] \in Nat /\ Length(f) \in Nat
      BY <1>3, <1>7, RangeFacts, Sizes
    <2> QED BY <1>3, <1>8, <2>1
  <1> QED BY <1>1, <1>7, <1>8, <1>9, SetGapStep

\* RepairGap preserves the invariant.
LEMMA RepairGapStep ==
  ASSUME DerivedInv, NEW p \in Procs, RepairGap(p)
  PROVE  DerivedInv'
  <1> DEFINE m == proc[p]  item == FirstOf(m.todo)  s == item.sym  f == m.frame
             R == Filled(s, item.day, m)  r == Earliest(R)
             status == IF gap[s][f][r] = "open" THEN "repairing" ELSE "resolved"
  <1>1. owner = p /\ m.pc = "gaps" /\ R # {} /\ SetGap(p, s, r, status)
    BY ZenonT(30) DEF RepairGap, Guarded
  <1>2. DataInv(m, Store, basket)
    BY <1>1, Mine
  <1>3. /\ f \in Frames
        /\ \A q \in Ranges[f] : Open(item.day) <= q[1] /\ q[2] <= m.end =>
             /\ Day(q[1]) = item.day
             /\ \A t \in Expected(f, q[1], q[2]) : t \in DOMAIN m.obs
    BY <1>1, <1>2, Hand, ZenonT(30)
  <1>4. R \in SUBSET Ranges[f]
    BY SMTT(30) DEF Filled, Unresolved
  <1>5. r \in R
    BY <1>1, <1>3, <1>4, EarliestIs
  <1>6. status \in {"open", "repairing", "resolved"}
    OBVIOUS
  <1> HIDE DEF r, R, status
  <1>7. /\ r \in Ranges[f] /\ Open(item.day) <= r[1] /\ r[2] <= m.end
        /\ \A t \in Expected(f, r[1], r[2]) : m.obs[t] # Missing
    BY <1>4, <1>5 DEF R, Filled
  <1> QED BY <1>1, <1>3, <1>6, <1>7, SetGapStep

\* Materialize preserves the invariant.
LEMMA MaterializeStep ==
  ASSUME DerivedInv, NEW p \in Procs, Materialize(p)
  PROVE  DerivedInv'
  <1> DEFINE m == proc[p]  item == FirstOf(m.todo)  s == item.sym  f == "15Min"
             S == Stale(s, m)  b == Least(S)  c == Constituents(m.obs, b)
  <1>1. /\ owner = p /\ m.pc = "aggregate" /\ S # {} /\ event' = [event EXCEPT ![s][f][b] = c]
        /\ UNCHANGED <<ckpt, work, gap, mark, basket, owner, lock, proc, intake, starts>>
    BY DEF Materialize, Guarded
  <1>2. DataInv(m, Store, basket) /\ DOMAIN proc = Procs
    BY <1>1, Mine
  <1>3. s \in Symbols
    BY <1>1, <1>2, Hand
  <1>4. b \in Expected(f, Open(Day(m.end - 1)), m.end)
    <2>1. "15Min" \in Frames /\ \A t \in Intervals["15Min"] : t \in Nat
      BY IntervalFacts DEF Frames
    <2>2. S \in SUBSET Nat /\ S \subseteq Expected(f, Open(Day(m.end - 1)), m.end)
      BY <2>1 DEF Stale, Expected
    <2>3. b \in S
      BY <1>1, <2>2, LeastIs
    <2> QED BY <2>2, <2>3
  <1>5. c # Missing
    <2>1. 1 \in DOMAIN c
      BY Sizes DEF Constituents
    <2> QED BY <2>1 DEF Missing
  <1> HIDE DEF b, c, S
  <1>6. DOMAIN event = Symbols
    BY DEF DerivedInv, StateTypes
  <1>7. event'[s] = [event[s] EXCEPT ![f][b] = c] /\ DOMAIN event' = Symbols
        /\ \A z \in Symbols : z # s => event'[z] = event[z]
    BY <1>1, <1>3, <1>6, SMTT(30)
  <1>8. \A z \in Symbols : z # s => Store'[z] = Store[z]
    BY <1>1, <1>7, StoredElsewhere, SMTT(30)
  <1>9. /\ Store'[s].gap = Store[s].gap /\ Store'[s].ckpt = Store[s].ckpt /\ Store'[s].work = Store[s].work
        /\ Store'[s].mark = Store[s].mark /\ Store'[s].event = [Store[s].event EXCEPT ![f][b] = c]
    <2>1. /\ Store[s].event = event[s] /\ Store[s].ckpt = ckpt[s] /\ Store[s].work = work[s]
          /\ Store[s].gap = gap[s] /\ Store[s].mark = mark[s]
          /\ Store'[s].event = event'[s] /\ Store'[s].ckpt = ckpt'[s] /\ Store'[s].work = work'[s]
          /\ Store'[s].gap = gap'[s] /\ Store'[s].mark = mark'[s]
      BY <1>3, Stored, StoredNext
    <2> QED BY <1>1, <1>7, <2>1
  <1>10. DataInv(m, Store', basket)
    <2>1. m.pc = "aggregate"
      BY <1>1
    <2>2. DataInv(m, Store, basket)
      BY <1>2
    <2>3. /\ \A z \in Symbols : z # FirstOf(m.todo).sym => Store'[z] = Store[z]
          /\ Store'[FirstOf(m.todo).sym].gap = Store[FirstOf(m.todo).sym].gap
          /\ Store'[FirstOf(m.todo).sym].ckpt = Store[FirstOf(m.todo).sym].ckpt
          /\ Store'[FirstOf(m.todo).sym].work = Store[FirstOf(m.todo).sym].work
          /\ Store'[FirstOf(m.todo).sym].mark = Store[FirstOf(m.todo).sym].mark
          /\ Store'[FirstOf(m.todo).sym].event = [Store[FirstOf(m.todo).sym].event EXCEPT !["15Min"][b] = c]
      BY <1>8, <1>9, ZenonT(30)
    <2> HIDE DEF m
    <2> QED BY <1>4, <1>5, <2>1, <2>2, <2>3, MaterializeKeeps, ZenonT(30)
  <1>11. /\ owner' = owner /\ DOMAIN basket' = Frames /\ DOMAIN gap' = Symbols /\ DOMAIN ckpt' = Symbols
         /\ DOMAIN work' = Symbols /\ DOMAIN mark' = Symbols /\ proc'[p] = m /\ basket' = basket
         /\ DOMAIN proc' = Procs
    BY <1>1 DEF DerivedInv, StateTypes
  <1> QED BY <1>1, <1>7, <1>10, <1>11, StoreStep

\* A publication: the fence is the same, and the watermark is the one of now.
LEMMA PublishStep ==
  ASSUME DerivedInv, NEW p \in Procs, Publish(p)
  PROVE  /\ DerivedInv'
         /\ \A s \in Symbols, f \in Frames : mark'[s][f] # mark[s][f] => mark'[s][f] = Rescan(s, f)
  <1> DEFINE m == proc[p]  s == m.sym  f == m.frame  same == Fence(s, f) = m.fence
             k == [m EXCEPT !.pc = "basket"]  l == NextSymbol(m, m.items \ Its(m))
  <1>1. /\ owner = p /\ m.pc = "scan" /\ m.at >= m.end
        /\ mark' = IF same THEN [mark EXCEPT ![s][f] = m.seen] ELSE mark
        /\ proc' = [proc EXCEPT ![p] = IF same THEN k ELSE l]
        /\ UNCHANGED <<event, ckpt, work, gap, basket, owner, intake, starts>>
    BY DEF Publish, Guarded
  <1>2. DataInv(m, Store, basket) /\ DOMAIN proc = Procs
    BY <1>1, Mine
  <1>3. s \in Symbols /\ f \in Frames /\ SymbolInv(Store[s])
    BY <1>1, <1>2, Subject DEF SymbolPC
  <1>4. ~(m.at < m.end)
    <2>1. m.at \in Nat /\ m.end \in Nat
      BY <1>1, <1>2 DEF DataInv, DrainInv, DrainScan, ScanInv
    <2> QED BY <1>1, <2>1
  <1>5. DOMAIN mark = Symbols /\ DOMAIN mark[s] = Frames
    <2>1. Store[s].mark = mark[s]
      BY <1>3, Stored
    <2> QED BY <1>3, <2>1 DEF DerivedInv, StateTypes, SymbolInv, SymbolTypes
  <1>6. /\ owner' = owner /\ DOMAIN basket' = Frames /\ DOMAIN gap' = Symbols /\ DOMAIN ckpt' = Symbols
        /\ DOMAIN work' = Symbols /\ DOMAIN event' = Symbols /\ basket' = basket
        /\ DOMAIN proc' = Procs
    BY <1>1, <1>2 DEF DerivedInv, StateTypes
  <1>7. CASE ~same
    <2>1. mark' = mark /\ Store' = Store
      BY <1>1, <1>7, StoredSame
    <2>2. DataInv(l, Store, basket)
      BY <1>1, <1>2, PublishFailsKeeps
    <2> HIDE DEF l
    <2>3. proc'[p] = l
      BY <1>1, <1>2, <1>7
    <2>4. DataInv(proc'[p], Store', basket')
      BY <1>6, <2>1, <2>2, <2>3
    <2>5. DOMAIN mark' = Symbols
      BY <1>5, <2>1
    <2>6. DerivedInv'
      BY <1>1, <1>6, <2>4, <2>5, StoreStep
    <2> QED BY <2>1, <2>6
  <1>8. CASE same
    <2>1. m.fence.work = Store[s].work /\ m.fence.ckpt = Store[s].ckpt
      BY <1>3, <1>8, Stored DEF Fence
    <2>2. Same(m, Store[s])
      BY <2>1 DEF Same
    <2>3. /\ mark' = [mark EXCEPT ![s][f] = m.seen] /\ DOMAIN mark' = Symbols
          /\ mark'[s] = [mark[s] EXCEPT ![f] = m.seen] /\ \A z \in Symbols : z # s => mark'[z] = mark[z]
      BY <1>1, <1>3, <1>5, <1>8
    <2>4. \A z \in Symbols : z # s => Store'[z] = Store[z]
      BY <1>1, <2>3, StoredElsewhere
    <2>5. MarkSet(Store[s], Store'[s], f, m.seen)
      <3>1. /\ Store[s].event = event[s] /\ Store[s].ckpt = ckpt[s] /\ Store[s].work = work[s]
            /\ Store[s].gap = gap[s] /\ Store[s].mark = mark[s]
            /\ Store'[s].event = event'[s] /\ Store'[s].ckpt = ckpt'[s] /\ Store'[s].work = work'[s]
            /\ Store'[s].gap = gap'[s] /\ Store'[s].mark = mark'[s]
        BY <1>3, Stored, StoredNext
      <3> QED BY <1>1, <2>3, <3>1 DEF MarkSet
    <2>6. /\ DataInv(k, Store', basket)
          /\ m.seen = [t \in Expected(f, 0, In(Store[s])) |-> Now(Store[s], f, t)]
      BY <1>1, <1>2, <1>4, <2>2, <2>4, <2>5, PublishKeeps
    <2>7. m.seen = Rescan(s, f)
      <3>1. Inspected(s, 0) = In(Store[s])
        BY <1>3, Stored DEF In
      <3>2. \A t \in Expected(f, 0, In(Store[s])) :
              Now(Store[s], f, t) = Component(f, t, event[s][f][t], Unresolved(s, f))
        BY <1>3, Stored DEF Now
      <3> HIDE DEF m
      <3> QED BY <2>6, <3>1, <3>2 DEF Rescan
    <2> HIDE DEF k
    <2>8. proc'[p] = k
      BY <1>1, <1>2, <1>8
    <2>9. DataInv(proc'[p], Store', basket')
      BY <1>6, <2>6, <2>8
    <2>10. DerivedInv'
      BY <1>1, <1>6, <2>3, <2>9, StoreStep
    <2>11. \A z \in Symbols, g \in Frames : mark'[z][g] # mark[z][g] => z = s /\ g = f
      BY <1>5, <2>3
    <2>12. mark'[s][f] = m.seen
      BY <1>3, <1>5, <2>3
    <2> QED BY <2>7, <2>10, <2>11, <2>12
  <1> QED BY <1>7, <1>8

\* RefreshBasket preserves the invariant.
LEMMA RefreshBasketStep ==
  ASSUME DerivedInv, NEW p \in Procs, RefreshBasket(p)
  PROVE  DerivedInv'
  <1> DEFINE m == proc[p]  f == m.frame
             n == NextFrame([m EXCEPT !.prefix[m.sym][m.frame] = PrefixOf(m)])
  <1>1. /\ owner = p /\ m.pc = "basket" /\ basket' = [basket EXCEPT ![f] = BasketOf(f)]
        /\ proc' = [proc EXCEPT ![p] = n]
        /\ UNCHANGED <<event, ckpt, work, gap, mark, owner, lock, intake, starts>>
    BY DEF RefreshBasket, Guarded
  <1>2. DataInv(m, Store, basket) /\ DOMAIN proc = Procs /\ DOMAIN basket = Frames
    BY <1>1, Mine DEF DerivedInv, StateTypes
  <1>3. f \in Frames
    BY <1>1, <1>2, Subject DEF SymbolPC
  <1>4. basket'[f] = BasketIn(Store, f) /\ DOMAIN basket' = Frames
        /\ \A g \in Frames : g # f => basket'[g] = basket[g]
    BY <1>1, <1>2, <1>3, BasketStored
  <1>5. DataInv(n, Store, basket')
    BY <1>1, <1>2, <1>4, RefreshKeeps
  <1> HIDE DEF n
  <1>6. proc'[p] = n /\ DOMAIN proc' = Procs /\ Store' = Store
    BY <1>1, <1>2, StoredSame
  <1>7. /\ DOMAIN gap' = Symbols /\ DOMAIN ckpt' = Symbols /\ DOMAIN work' = Symbols /\ DOMAIN event' = Symbols
        /\ DOMAIN mark' = Symbols /\ owner' = owner
    BY <1>1 DEF DerivedInv, StateTypes
  <1>8. DataInv(proc'[p], Store', basket')
    BY <1>5, <1>6
  <1> QED BY <1>1, <1>4, <1>6, <1>7, <1>8, StoreStep

\* Acknowledge preserves the invariant.
LEMMA AcknowledgeStep ==
  ASSUME DerivedInv, NEW p \in Procs, Acknowledge(p)
  PROVE  DerivedInv'
  <1> DEFINE m == proc[p]  s == m.sym  item == FirstOf(Its(m))  left == m.items \ {item}
             n == IF Its(m) # {item} THEN [m EXCEPT !.items = left] ELSE NextSymbol(m, left)
  <1>1. /\ owner = p /\ m.pc = "ack" /\ proc' = [proc EXCEPT ![p] = n]
        /\ work' = [work EXCEPT ![item.sym][item.day] = Acknowledged(@, item)]
        /\ UNCHANGED <<event, ckpt, gap, mark, basket, owner, intake, starts>>
    BY DEF Acknowledge, Guarded
  <1>2. DataInv(m, Store, basket) /\ DOMAIN proc = Procs /\ DOMAIN work = Symbols
    BY <1>1, Mine DEF DerivedInv, StateTypes
  <1>3. s \in Symbols /\ item.sym = s
    <2>1. s \in Symbols /\ Its(m) # {} /\ \A i \in Its(m) : i.sym = s /\ i.day \in 1..Days
      BY <1>1, <1>2, Subject DEF SymbolPC
    <2>2. \A i \in Its(m) : QueueRow(i)
      BY <2>1 DEF QueueRow
    <2>3. item \in Its(m)
      BY <2>1, <2>2, FirstIs
    <2> QED BY <2>1, <2>3
  <1>4. item = FirstOf(Its(m))
    OBVIOUS
  <1> HIDE DEF item
  <1>5. /\ work'[s] = [work[s] EXCEPT ![item.day] = Acknowledged(@, item)] /\ DOMAIN work' = Symbols
        /\ \A z \in Symbols : z # s => work'[z] = work[z]
    BY <1>1, <1>2, <1>3
  <1>6. \A z \in Symbols : z # s => Store'[z] = Store[z]
    BY <1>1, <1>5, StoredElsewhere
  <1>7. /\ Store'[s].gap = Store[s].gap /\ Store'[s].ckpt = Store[s].ckpt /\ Store'[s].event = Store[s].event
        /\ Store'[s].mark = Store[s].mark
        /\ Store'[s].work = [Store[s].work EXCEPT ![item.day] = Acknowledged(@, item)]
    <2>1. /\ Store[s].event = event[s] /\ Store[s].ckpt = ckpt[s] /\ Store[s].work = work[s]
          /\ Store[s].gap = gap[s] /\ Store[s].mark = mark[s]
          /\ Store'[s].event = event'[s] /\ Store'[s].ckpt = ckpt'[s] /\ Store'[s].work = work'[s]
          /\ Store'[s].gap = gap'[s] /\ Store'[s].mark = mark'[s]
      BY <1>3, Stored, StoredNext
    <2> QED BY <1>1, <1>5, <2>1
  <1>8. DataInv(n, Store', basket)
    BY <1>1, <1>2, <1>4, <1>6, <1>7, AcknowledgeKeeps
  <1> HIDE DEF n
  <1>9. proc'[p] = n /\ DOMAIN proc' = Procs /\ basket' = basket
    BY <1>1, <1>2
  <1>10. /\ DOMAIN gap' = Symbols /\ DOMAIN ckpt' = Symbols /\ DOMAIN event' = Symbols
         /\ DOMAIN mark' = Symbols /\ owner' = owner /\ DOMAIN basket' = Frames
    BY <1>1 DEF DerivedInv, StateTypes
  <1>11. DataInv(proc'[p], Store', basket')
    BY <1>8, <1>9
  <1> QED BY <1>1, <1>5, <1>9, <1>10, <1>11, StoreStep

\* A selection of a queue that is not empty has a row, and only rows of the queue:
\* the first row in the order is before every other.
LEMMA SelectIs ==
  ASSUME Queued # {}
  PROVE  /\ Select(Limit) # {}
         /\ \A i \in Select(Limit) : \E s \in Symbols, d \in 1..Days :
              i = [sym |-> s, day |-> d, work |-> work[s][d]] /\ work[s][d] # NoWork
  <1> DEFINE rows == {Item(k) : k \in Queued}
  <1>1. \A i \in rows : \E s \in Symbols, d \in 1..Days :
          i = [sym |-> s, day |-> d, work |-> work[s][d]] /\ work[s][d] # NoWork
    <2> SUFFICES ASSUME NEW k \in Queued
                 PROVE  \E s \in Symbols, d \in 1..Days :
                          Item(k) = [sym |-> s, day |-> d, work |-> work[s][d]] /\ work[s][d] # NoWork
      OBVIOUS
    <2>1. k[1] \in Symbols /\ k[2] \in 1..Days /\ work[k[1]][k[2]] # NoWork
      BY DEF Queued
    <2> QED BY <2>1 DEF Item
  <1>2. rows # {} /\ \A i \in rows : QueueRow(i)
    BY <1>1 DEF QueueRow
  <1> HIDE DEF rows
  <1>3. FirstOf(rows) \in rows /\ \A j \in rows : ~Before(j, FirstOf(rows))
    BY <1>2, FirstIs
  <1>4. {j \in rows : Before(j, FirstOf(rows))} = {}
    BY <1>3
  <1>5. Cardinality({}) = 0 /\ 0 < Limit
    BY FS_EmptySet, DerivedAssumption
  <1>6. Cardinality({j \in rows : Before(j, FirstOf(rows))}) < Limit
    BY <1>4, <1>5
  <1>7. Select(Limit) = {i \in rows : Cardinality({j \in rows : Before(j, i)}) < Limit}
    BY DEF Select, rows
  <1>8. FirstOf(rows) \in Select(Limit) /\ Select(Limit) \subseteq rows
    BY <1>3, <1>6, <1>7
  <1> QED BY <1>1, <1>8

\* Drain preserves the invariant.
LEMMA DrainStep ==
  ASSUME DerivedInv, NEW p \in Procs, Drain(p)
  PROVE  DerivedInv'
  <1> DEFINE m == proc[p]  items == Select(Limit)
             n == [m EXCEPT !.pc = "inspect", !.items = items, !.todo = items]
  <1>1. /\ owner = p /\ m.pc = "idle" /\ Queued # {}
        /\ proc' = [proc EXCEPT ![p].pc = "inspect", ![p].items = items, ![p].todo = items]
        /\ UNCHANGED <<event, ckpt, work, gap, mark, basket, owner, intake, starts>>
    BY DEF Drain
  <1>2. DataInv(m, Store, basket) /\ DOMAIN proc = Procs
    BY <1>1, Mine
  <1>3. items # {} /\ \A i \in items : \E s \in Symbols, d \in 1..Days :
          i = [sym |-> s, day |-> d, work |-> Store[s].work[d]] /\ Dirty(Store[s], d)
    <2>1. \A s \in Symbols : Store[s].work = work[s]
      BY Stored
    <2> QED BY <1>1, <2>1, SelectIs DEF Dirty
  <1> HIDE DEF items
  <1>4. DataInv(n, Store, basket)
    BY <1>1, <1>2, <1>3, DrainKeeps, ZenonT(30)
  <1>5. proc'[p] = n /\ DOMAIN proc' = DOMAIN proc
    BY <1>1, <1>2
  <1> QED BY <1>1, <1>4, <1>5, MemoryStep

\* The lease's owner is another process, or the guard failed: the memory is lost.
LEMMA FreshStep ==
  ASSUME DerivedInv, NEW p \in Procs, UNCHANGED <<event, ckpt, work, gap, mark, basket>>,
         proc' = [proc EXCEPT ![p] = Fresh], owner' = p \/ owner' = owner
  PROVE  DerivedInv'
  <1>1. Store' = Store
    BY StoredSame
  <1>2. owner \in Procs /\ DOMAIN proc = Procs /\ DataInv(proc[owner], Store, basket)
    BY DEF DerivedInv, StateTypes
  <1>3. DataInv(Fresh, Store, basket)
    BY <1>2, FreshKeeps DEF DataInv
  <1>4. StateTypes'
    BY <1>2 DEF DerivedInv, StateTypes
  <1>5. proc'[owner'] = Fresh \/ proc'[owner'] = proc[owner]
    BY <1>2
  <1>6. DataInv(proc'[owner'], Store', basket')
    BY <1>1, <1>2, <1>3, <1>5
  <1> QED BY <1>4, <1>6 DEF DerivedInv

\* A step of the lock or of the counters.
LEMMA DerivedInvSame ==
  ASSUME DerivedInv, UNCHANGED <<event, ckpt, work, gap, mark, basket, owner, proc>>
  PROVE  DerivedInv'
  <1>1. Store' = Store
    BY StoredSame
  <1>2. StateTypes'
    BY DEF DerivedInv, StateTypes
  <1>3. DataInv(proc'[owner'], Store', basket')
    BY <1>1 DEF DerivedInv
  <1> QED BY <1>2, <1>3 DEF DerivedInv

\* A step of intake.
LEMMA IntakenStep ==
  ASSUME DerivedInv, UNCHANGED <<gap, mark, basket, owner, proc>>, Intaken(Store, Store'),
         DOMAIN event' = Symbols, DOMAIN ckpt' = Symbols, DOMAIN work' = Symbols
  PROVE  DerivedInv'
  <1>1. DataInv(proc[owner], Store', basket)
    BY IntakeKeeps DEF DerivedInv
  <1>2. StateTypes'
    BY DEF DerivedInv, StateTypes
  <1>3. DataInv(proc'[owner'], Store', basket')
    BY <1>1
  <1> QED BY <1>2, <1>3 DEF DerivedInv

\* Deliver preserves the invariant.
LEMMA DeliverStep ==
  ASSUME DerivedInv, NEW s \in Symbols, NEW t \in Intervals["1Min"] \cap Traded, NEW complete \in BOOLEAN,
         Deliver(s, t, complete)
  PROVE  DerivedInv'
  <1> DEFINE e == <<IF event[s]["1Min"][t] = Missing THEN 1 ELSE event[s]["1Min"][t][1] + 1, complete>>
  <1>1. /\ event' = [event EXCEPT ![s]["1Min"][t] = e]
        /\ work' = [work EXCEPT ![s][Day(t)] = Enqueued(@, t + 1)]
        /\ UNCHANGED <<ckpt, gap, mark, basket, owner, lock, proc, starts>>
    BY DEF Deliver
  <1>2. e # Missing
    BY DEF Missing
  <1> HIDE DEF e
  <1>3. DOMAIN event = Symbols /\ DOMAIN work = Symbols /\ DOMAIN ckpt = Symbols
        /\ \A z \in Symbols : SymbolInv(Store[z])
    BY DEF DerivedInv, StateTypes, DataInv
  <1>4. /\ event'[s] = [event[s] EXCEPT !["1Min"][t] = e] /\ DOMAIN event' = Symbols
        /\ work'[s] = [work[s] EXCEPT ![Day(t)] = Enqueued(@, t + 1)] /\ DOMAIN work' = Symbols
        /\ \A z \in Symbols : z # s => event'[z] = event[z] /\ work'[z] = work[z]
    BY <1>1, <1>3
  <1>5. Taken(Store[s], Store'[s], {Day(t)})
    <2>1. /\ Store[s].event = event[s] /\ Store[s].ckpt = ckpt[s] /\ Store[s].work = work[s]
          /\ Store[s].gap = gap[s] /\ Store[s].mark = mark[s]
          /\ Store'[s].event = event'[s] /\ Store'[s].ckpt = ckpt'[s] /\ Store'[s].work = work'[s]
          /\ Store'[s].gap = gap'[s] /\ Store'[s].mark = mark'[s]
      BY Stored, StoredNext
    <2>2. QueuedRow(Store[s], Store'[s], Day(t), t + 1)
      BY <1>1, <1>4, <2>1 DEF QueuedRow
    <2>3. Store'[s].event = [Store[s].event EXCEPT !["1Min"][t] = e] /\ Store'[s].ckpt = Store[s].ckpt
      BY <1>1, <1>4, <2>1
    <2>4. SymbolInv(Store[s]) /\ t \in Intervals["1Min"]
      BY <1>3
    <2> QED BY <1>2, <2>2, <2>3, <2>4, DeliverTaken
  <1>6. \A z \in Symbols : z # s => Store'[z] = Store[z]
    BY <1>1, <1>4, StoredElsewhere
  <1>7. Intaken(Store, Store')
    BY <1>3, <1>5, <1>6, TakenNothing DEF Intaken
  <1> QED BY <1>1, <1>3, <1>4, <1>7, IntakenStep

\* Cover preserves the invariant.
LEMMA CoverStep ==
  ASSUME DerivedInv, NEW d \in 1..Days, NEW b \in 0..Horizon, Cover(d, b)
  PROVE  DerivedInv'
  <1>1. /\ Open(d) < b /\ b <= Close(d) /\ (d > 1 => \A s \in Symbols : ckpt[s] >= Close(d - 1))
        /\ work' = [s \in Symbols |-> [work[s] EXCEPT ![d] = Enqueued(@, b)]]
        /\ ckpt' = [s \in Symbols |-> Most({ckpt[s], b})]
        /\ UNCHANGED <<event, gap, mark, basket, owner, lock, proc, starts>>
    BY DEF Cover
  <1>2. DOMAIN event = Symbols /\ \A z \in Symbols : SymbolInv(Store[z])
    BY DEF DerivedInv, StateTypes, DataInv
  <1>3. b \in Nat
    BY Sizes
  <1>4. ASSUME NEW s \in Symbols PROVE Taken(Store[s], Store'[s], {d})
    <2>1. /\ Store[s].event = event[s] /\ Store[s].ckpt = ckpt[s] /\ Store[s].work = work[s]
          /\ Store[s].gap = gap[s] /\ Store[s].mark = mark[s]
          /\ Store'[s].event = event'[s] /\ Store'[s].ckpt = ckpt'[s] /\ Store'[s].work = work'[s]
          /\ Store'[s].gap = gap'[s] /\ Store'[s].mark = mark'[s]
      BY Stored, StoredNext
    <2>2. work'[s] = [work[s] EXCEPT ![d] = Enqueued(@, b)]
      BY <1>1
    <2>3. QueuedRow(Store[s], Store'[s], d, b)
      BY <1>1, <2>1, <2>2 DEF QueuedRow
    <2>4. Store'[s].event = Store[s].event /\ Store'[s].ckpt = Most({Store[s].ckpt, b})
      BY <1>1, <2>1
    <2>5. d > 1 => Store[s].ckpt >= Close(d - 1)
      BY <1>1, <2>1
    <2>6. SymbolInv(Store[s])
      BY <1>2
    <2> QED BY <1>1, <1>3, <2>3, <2>4, <2>5, <2>6, CoverTaken
  <1>5. Intaken(Store, Store')
    BY <1>4 DEF Intaken
  <1>6. DOMAIN event' = Symbols /\ DOMAIN ckpt' = Symbols /\ DOMAIN work' = Symbols
    BY <1>1, <1>2
  <1> QED BY <1>1, <1>5, <1>6, IntakenStep

\* CoverClosed preserves the invariant.
LEMMA CoverClosedStep ==
  ASSUME DerivedInv, NEW d \in 1..Days, CoverClosed(d)
  PROVE  DerivedInv'
  <1>1. /\ \A s \in Symbols : ckpt[s] = Close(d)
        /\ ckpt' = [s \in Symbols |-> Open(d + 1)]
        /\ UNCHANGED <<event, work, gap, mark, basket, owner, lock, proc, starts>>
    BY DEF CoverClosed
  <1>2. DOMAIN event = Symbols /\ DOMAIN work = Symbols /\ \A z \in Symbols : SymbolInv(Store[z])
    BY DEF DerivedInv, StateTypes, DataInv
  <1>3. ASSUME NEW s \in Symbols PROVE Taken(Store[s], Store'[s], {})
    <2>1. /\ Store[s].event = event[s] /\ Store[s].ckpt = ckpt[s] /\ Store[s].work = work[s]
          /\ Store[s].gap = gap[s] /\ Store[s].mark = mark[s]
          /\ Store'[s].event = event'[s] /\ Store'[s].ckpt = ckpt'[s] /\ Store'[s].work = work'[s]
          /\ Store'[s].gap = gap'[s] /\ Store'[s].mark = mark'[s]
      BY Stored, StoredNext
    <2>2. /\ Store[s].ckpt = Close(d) /\ Store'[s].ckpt = Open(d + 1)
          /\ Store'[s].event = Store[s].event /\ Store'[s].work = Store[s].work
          /\ Store'[s].gap = Store[s].gap /\ Store'[s].mark = Store[s].mark /\ SymbolInv(Store[s])
      BY <1>1, <1>2, <2>1
    <2> QED BY <2>2, CoverClosedTaken
  <1>4. Intaken(Store, Store')
    BY <1>3 DEF Intaken
  <1>5. DOMAIN event' = Symbols /\ DOMAIN ckpt' = Symbols /\ DOMAIN work' = Symbols
    BY <1>1, <1>2
  <1> QED BY <1>1, <1>4, <1>5, IntakenStep

\* The invariant holds when intake starts (restore_canonical_projection).
LEMMA DerivedInitInv ==
  ASSUME DerivedInit
  PROVE  DerivedInv
  <1>1. owner \in Procs /\ proc = [p \in Procs |-> Fresh]
    BY DerivedAssumption DEF DerivedInit
  <1>2. StateTypes
    BY <1>1 DEF DerivedInit, StateTypes
  <1>3. ASSUME NEW s \in Symbols PROVE SymbolInv(Store[s]) /\ \A f \in Frames : Store[s].mark[f] = <<>>
    <2>1. /\ Store[s].event = event[s] /\ Store[s].ckpt = ckpt[s] /\ Store[s].work = work[s]
          /\ Store[s].gap = gap[s] /\ Store[s].mark = mark[s]
      BY Stored
    <2>2. Store[s].event = [f \in Frames |-> [t \in Intervals[f] |->
                              IF f = "1Min" /\ t \in Imported THEN <<1, TRUE>> ELSE Missing]]
      BY <2>1 DEF DerivedInit
    <2>3. Store[s].ckpt = ImportedThrough
      BY <2>1 DEF DerivedInit
    <2>4. Store[s].work = [d \in 1..Days |->
                             IF Open(d) < ImportedThrough
                             THEN [gen |-> 1, through |-> Least({Close(d), ImportedThrough})] ELSE NoWork]
      BY <2>1 DEF DerivedInit
    <2>5. Store[s].gap = [f \in Frames |-> [r \in Ranges[f] |-> "none"]]
      BY <2>1 DEF DerivedInit
    <2>6. Store[s].mark = [f \in Frames |-> <<>>]
      BY <2>1 DEF DerivedInit
    <2>7. SymbolInv(Store[s])
      BY <2>2, <2>3, <2>4, <2>5, <2>6, ImportedSymbol
    <2> QED BY <2>6, <2>7
  <1>4. BasketInv(Store, basket)
    BY <1>3 DEF BasketInv, Even
  <1>5. DataInv(Fresh, Store, basket)
    BY <1>3, <1>4, FreshKeeps
  <1> QED BY <1>1, <1>2, <1>5 DEF DerivedInv

\* Every step preserves the invariant, and publishes the readiness of now only.
LEMMA DerivedStep ==
  ASSUME DerivedInv, [DerivedNext]_derivedVars
  PROVE  /\ DerivedInv'
         /\ \A s \in Symbols, f \in Frames : mark'[s][f] # mark[s][f] => mark'[s][f] = Rescan(s, f)
  <1>1. CASE Intake
    <2>1. DerivedInv'
      BY <1>1, DeliverStep, CoverStep, CoverClosedStep DEF Intake
    <2>2. mark' = mark
      BY <1>1 DEF Intake, Deliver, Cover, CoverClosed
    <2> QED BY <2>1, <2>2
  <1>2. ASSUME NEW p \in Procs, Publish(p)
        PROVE  /\ DerivedInv'
               /\ \A s \in Symbols, f \in Frames : mark'[s][f] # mark[s][f] => mark'[s][f] = Rescan(s, f)
    BY <1>2, PublishStep
  <1>3. ASSUME NEW p \in Procs, Drain(p) PROVE DerivedInv' /\ mark' = mark
    BY <1>3, DrainStep, ZenonT(30) DEF Drain
  <1>4. ASSUME NEW p \in Procs, Inspect(p) PROVE DerivedInv' /\ mark' = mark
    BY <1>4, InspectStep, ZenonT(30) DEF Inspect
  <1>5. ASSUME NEW p \in Procs, ReadMinutes(p) PROVE DerivedInv' /\ mark' = mark
    BY <1>5, ReadMinutesStep, ZenonT(30) DEF ReadMinutes
  <1>6. ASSUME NEW p \in Procs, RecordGap(p) PROVE DerivedInv' /\ mark' = mark
    BY <1>6, RecordGapStep, ZenonT(30) DEF RecordGap, SetGap
  <1>7. ASSUME NEW p \in Procs, RepairGap(p) PROVE DerivedInv' /\ mark' = mark
    BY <1>7, RepairGapStep, ZenonT(30) DEF RepairGap, SetGap
  <1>8. ASSUME NEW p \in Procs, GapsDone(p) PROVE DerivedInv' /\ mark' = mark
    BY <1>8, GapsDoneStep, ZenonT(30) DEF GapsDone
  <1>9. ASSUME NEW p \in Procs, Materialize(p) PROVE DerivedInv' /\ mark' = mark
    BY <1>9, MaterializeStep, ZenonT(30) DEF Materialize
  <1>10. ASSUME NEW p \in Procs, ReadAggregates(p) PROVE DerivedInv' /\ mark' = mark
    BY <1>10, ReadAggregatesStep, ZenonT(30) DEF ReadAggregates
  <1>11. ASSUME NEW p \in Procs, TakeFence(p) PROVE DerivedInv' /\ mark' = mark
    BY <1>11, TakeFenceStep, ZenonT(30) DEF TakeFence
  <1>12. ASSUME NEW p \in Procs, StartScan(p) PROVE DerivedInv' /\ mark' = mark
    BY <1>12, StartScanStep, ZenonT(30) DEF StartScan
  <1>13. ASSUME NEW p \in Procs, Scan(p) PROVE DerivedInv' /\ mark' = mark
    BY <1>13, ScanOneStep DEF Scan
  <1>14. ASSUME NEW p \in Procs, RefreshBasket(p) PROVE DerivedInv' /\ mark' = mark
    BY <1>14, RefreshBasketStep DEF RefreshBasket
  <1>15. ASSUME NEW p \in Procs, Acknowledge(p) PROVE DerivedInv' /\ mark' = mark
    BY <1>15, AcknowledgeStep DEF Acknowledge
  <1>16. ASSUME NEW p \in Procs, Abort(p) PROVE DerivedInv' /\ mark' = mark
    BY <1>16, FreshStep DEF Abort
  <1>17. ASSUME NEW p \in Procs, Start(p) PROVE DerivedInv' /\ mark' = mark
    BY <1>17, FreshStep DEF Start
  <1>18. ASSUME NEW p \in Procs, LoseLock(p) PROVE DerivedInv' /\ mark' = mark
    BY <1>18, DerivedInvSame DEF LoseLock
  <1>19. CASE UNCHANGED derivedVars
    <2>1. UNCHANGED <<event, ckpt, work, gap, mark, basket, owner, proc>>
      BY <1>19 DEF derivedVars
    <2> QED BY <2>1, DerivedInvSame
  <1>20. CASE \E p \in Procs : Step(p) \/ Start(p) \/ LoseLock(p)
    <2>1. PICK p \in Procs : Step(p) \/ Start(p) \/ LoseLock(p)
      BY <1>20
    <2>2. CASE Publish(p)
      BY <1>2, <2>2
    <2>3. CASE ~Publish(p)
      <3>1. DerivedInv' /\ mark' = mark
        BY <1>3, <1>4, <1>5, <1>6, <1>7, <1>8, <1>9, <1>10, <1>11, <1>12, <1>13, <1>14, <1>15, <1>16,
           <1>17, <1>18, <2>1, <2>3 DEF Step
      <3> QED BY <3>1
    <2> QED BY <2>2, <2>3
  <1> QED BY <1>1, <1>19, <1>20 DEF DerivedNext

\* Every day of every symbol is in order and shown, or queued, whatever intake
\* commits between the drain's transactions, and whoever takes the lease over:
\* the inductive invariant of the drain (derived.py drain).
THEOREM DerivedSafe == DerivedSpec => []DerivedInv
  <1>1. DerivedInit => DerivedInv
    BY DerivedInitInv
  <1>2. DerivedInv /\ [DerivedNext]_derivedVars => DerivedInv'
    BY DerivedStep
  <1> QED BY <1>1, <1>2, PTL DEF DerivedSpec

\* A watermark that changes is the readiness of that moment: the fence is the same
\* before the scan and at the publication, and a prefix in memory is part of what
\* was published (derived.py _refresh_readiness, publish_symbol_snapshot).
THEOREM PublishedExactSafe == DerivedSpec => PublishedExact
  <1>1. DerivedInv /\ [DerivedNext]_derivedVars =>
          [\A s \in Symbols, f \in Frames : mark'[s][f] # mark[s][f] => mark'[s][f] = Rescan(s, f)]_derivedVars
    BY DerivedStep
  <1> QED BY <1>1, DerivedSafe, PTL DEF DerivedSpec, PublishedExact

\* A symbol with nothing queued.
LEMMA QuietSymbol ==
  ASSUME DerivedInv, NEW s \in Symbols, Quiet(s)
  PROVE  /\ SymbolInv(Store[s])
         /\ \A d \in 1..Days : Synced(Store[s], d) /\ \A f \in Frames : Shown(Store[s], f, d)
         /\ Inspected(s, 0) = In(Store[s])
  <1>1. SymbolInv(Store[s]) /\ Store[s].work = work[s]
    BY Stored DEF DerivedInv, DataInv
  <1>2. \A d \in 1..Days : ~Dirty(Store[s], d)
    BY <1>1 DEF Quiet, Dirty
  <1> QED BY <1>1, <1>2, Stored DEF SymbolInv, DaysDone, In

\* A symbol with nothing queued has every day in order and shown.
LEMMA QuietExactHolds == DerivedInv => QuietExact
  <1> SUFFICES ASSUME DerivedInv, NEW s \in Symbols, Quiet(s)
               PROVE  /\ \A f \in Frames : mark[s][f] = Rescan(s, f)
                      /\ \A b \in Expected("15Min", 0, Inspected(s, 0)) :
                           LET made == Constituents(event[s]["1Min"], b)
                           IN (\A i \in DOMAIN made : made[i] # Missing) => event[s]["15Min"][b] = made
    BY DEF QuietExact
  <1> DEFINE x == Store[s]
  <1>1. /\ SymbolInv(x) /\ Inspected(s, 0) = In(x)
        /\ \A d \in 1..Days : Synced(x, d) /\ \A f \in Frames : Shown(x, f, d)
    BY QuietSymbol
  <1>2. x.event = event[s] /\ x.mark = mark[s] /\ \A f \in Frames : Unresolved(s, f) = Unsolved(x, f)
    BY Stored
  <1>3. In(x) \in 0..Horizon /\ In(x) \in Nat /\ Horizon \in Nat
    <2>1. x.ckpt \in 0..Horizon
      BY <1>1 DEF SymbolInv, SymbolTypes
    <2> QED BY <2>1, InIs, Sizes
  <1>4. ASSUME NEW f \in Frames PROVE mark[s][f] = Rescan(s, f)
    <2>1. x.mark[f] = [t \in DOMAIN x.mark[f] |-> x.mark[f][t]] /\ DOMAIN x.mark[f] \subseteq Expected(f, 0, In(x))
      BY <1>1 DEF SymbolInv, SymbolTypes
    <2>2. DOMAIN x.mark[f] = Expected(f, 0, In(x))
      <3>1. CASE In(x) = 0
        BY <2>1, <3>1, EmptyExpected
      <3>2. CASE In(x) # 0
        <4>1. In(x) > 0 /\ In(x) - 1 \in Nat /\ In(x) - 1 < Horizon
          BY <1>3, <3>2
        <4>2. Day(In(x) - 1) \in 1..Days
          BY <4>1, LastDay
        <4> QED BY <1>1, <4>1, <4>2 DEF Shown, Reaches
      <3> QED BY <3>1, <3>2
    <2>3. ASSUME NEW t \in Expected(f, 0, In(x)) PROVE x.mark[f][t] = Now(x, f, t)
      <3>1. t \in Intervals[f] /\ Day(t) \in 1..Days
        BY IntervalFacts DEF Expected
      <3>2. Exact(x, f, Day(t)) /\ t \in On(f, Day(t)) /\ t \in DOMAIN x.mark[f]
        BY <1>1, <2>2, <3>1 DEF Shown, On
      <3> QED BY <3>2 DEF Exact
    <2>4. x.mark[f] = [t \in Expected(f, 0, In(x)) |-> Now(x, f, t)]
      BY <2>1, <2>2, <2>3
    <2>5. \A t : Now(x, f, t) = Component(f, t, event[s][f][t], Unresolved(s, f))
      BY <1>2 DEF Now
    <2>6. mark[s][f] = x.mark[f]
      BY <1>2
    <2> HIDE DEF x
    <2> QED BY <1>1, <2>4, <2>5, <2>6 DEF Rescan
  <1>5. ASSUME NEW b \in Expected("15Min", 0, In(x)),
               \A i \in DOMAIN Constituents(event[s]["1Min"], b) : Constituents(event[s]["1Min"], b)[i] # Missing
        PROVE  event[s]["15Min"][b] = Constituents(event[s]["1Min"], b)
    <2>1. b \in Intervals["15Min"] /\ Day(b) \in 1..Days
      BY IntervalFacts DEF Expected, Frames
    <2>2. b \in On("15Min", Day(b)) /\ Aggregated(x, Day(b))
      BY <1>1, <2>1 DEF On, Synced
    <2>3. \A i \in 1..BucketMinutes : event[s]["1Min"][b + i - 1] # Missing
      BY <1>5 DEF Constituents
    <2> QED BY <1>2, <2>2, <2>3 DEF Aggregated
  <1> QED BY <1>1, <1>4, <1>5

\* A symbol with nothing queued has its gaps right on every day.
LEMMA GapsTrackedHolds == DerivedInv => GapsTracked
  <1> SUFFICES ASSUME DerivedInv, NEW s \in Symbols, NEW f \in Frames, Quiet(s)
               PROVE  /\ \A t \in Expected(f, 0, ckpt[s]) : event[s][f][t] = Missing =>
                           Over(f, t, Unresolved(s, f)) # {}
                      /\ \A r \in Unresolved(s, f) : \E t \in Expected(f, 0, Horizon) :
                           event[s][f][t] = Missing /\ r \in Over(f, t, {r})
    BY DEF GapsTracked
  <1> DEFINE x == Store[s]
  <1>1. /\ x.event = event[s] /\ x.ckpt = ckpt[s] /\ Unresolved(s, f) = Unsolved(x, f)
        /\ \A d \in 1..Days : Tracked(x, f, d) /\ Lacking(x, f, d)
    BY QuietSymbol, Stored DEF Synced
  <1>2. ASSUME NEW t \in Expected(f, 0, ckpt[s]), event[s][f][t] = Missing
        PROVE  Over(f, t, Unresolved(s, f)) # {}
    <2>1. t \in On(f, Day(t)) /\ Day(t) \in 1..Days /\ t + Length(f) <= ckpt[s]
      BY IntervalFacts DEF Expected, On
    <2> QED BY <1>1, <1>2, <2>1 DEF Tracked
  <1>3. ASSUME NEW r \in Unresolved(s, f)
        PROVE  \E t \in Expected(f, 0, Horizon) : event[s][f][t] = Missing /\ r \in Over(f, t, {r})
    <2>1. r \in Ranges[f] /\ Day(r[1]) \in 1..Days /\ \A t \in Expected(f, r[1], r[2]) : r \in Over(f, t, {r})
      BY RangeFacts DEF Unresolved
    <2>2. PICK t \in Expected(f, r[1], r[2]) : x.event[f][t] = Missing
      BY <1>1, <2>1 DEF Lacking
    <2>3. t \in Intervals[f] /\ t \in Nat /\ t + Length(f) <= Horizon
      BY <2>2, IntervalFacts DEF Expected
    <2>4. t \in Expected(f, 0, Horizon)
      BY <2>3 DEF Expected
    <2> QED BY <1>1, <2>1, <2>2, <2>4
  <1> QED BY <1>2, <1>3

\* With nothing queued nothing is owed to the basket.
LEMMA BasketExactHolds == DerivedInv => BasketExact
  <1> SUFFICES ASSUME DerivedInv, \A s \in Symbols : Quiet(s), NEW f \in Frames
               PROVE  basket[f] = BasketOf(f) \/ \A s \in Symbols : mark[s][f] = <<>>
    BY DEF BasketExact
  <1>1. \A s \in Symbols : Store[s].work = work[s] /\ Store[s].mark = mark[s]
    BY Stored
  <1>2. \A s \in Symbols, d \in 1..Days : ~Dirty(Store[s], d)
    BY <1>1 DEF Quiet, Dirty
  <1>3. Even(Store, basket, f)
    BY <1>2 DEF DerivedInv, DataInv, BasketInv
  <1>4. BasketOf(f) = BasketIn(Store, f)
    BY BasketStored
  <1> QED BY <1>1, <1>3, <1>4 DEF Even

\* A symbol with nothing queued has the readiness and the aggregates that its bars
\* and gaps give now (derived.py drain, _refresh_readiness and _acknowledge).
THEOREM QuietExactSafe == DerivedSpec => []QuietExact
  BY DerivedSafe, QuietExactHolds, PTL

\* A symbol with nothing queued has an unresolved gap over every interval it lacks
\* below its checkpoint and over no other (derived.py _synchronize_gaps).
THEOREM GapsTrackedSafe == DerivedSpec => []GapsTracked
  BY DerivedSafe, GapsTrackedHolds, PTL

\* With nothing queued the basket is the one that the published watermarks give
\* (watermarks.py recompute_active_basket).
THEOREM BasketExactSafe == DerivedSpec => []BasketExact
  BY DerivedSafe, BasketExactHolds, PTL
=============================================================================
