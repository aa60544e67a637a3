------------------------ MODULE ServiceCyclesProofs ------------------------
(***************************************************************************)
(* Proofs about ServiceCycles, for any number of slots and symbols, any    *)
(* proposals, and any number of halts and crashes.                         *)
(***************************************************************************)
EXTENDS ServiceCycles, FiniteSetTheorems, WellFoundedInduction, TLAPS

(***************************************************************************)
(* Sums over finite sets.                                                  *)
(***************************************************************************)
\* Induction on the natural numbers, for a set of them.
LEMMA Induction ==
  ASSUME NEW P \in SUBSET Nat, 0 \in P, \A n \in P : n + 1 \in P
  PROVE  \A n \in Nat : n \in P
  <1> DEFINE R == OpToRel(<, Nat)
  <1>1. R = {ss \in Nat \X Nat : ss[1] < ss[2]}
    BY DEF OpToRel
  <1>2. IsWellFoundedOn(R, Nat)
    BY NatLessThanWellFounded
  <1> HIDE DEF R
  <1> SUFFICES ASSUME Nat \ P # {} PROVE FALSE
    OBVIOUS
  <1>3. PICK m \in Nat \ P : \A r \in Nat \ P : ~(<<r, m>> \in R)
    <2>1. Nat \ P \in SUBSET Nat
      OBVIOUS
    <2> QED BY <1>2, <2>1, WFMin
  <1>4. m # 0 /\ m - 1 \in Nat /\ m - 1 < m
    BY <1>3
  <1>5. m - 1 \in P
    BY <1>1, <1>3, <1>4
  <1>6. (m - 1) + 1 \in P
    BY <1>5
  <1> QED BY <1>3, <1>6

\* The sum of the values of g, and the function that adds them up.
Total(g, S) == MapThenSumSet(LAMBDA x : g[x], S)
Adds(h, g, S) ==
  h = [s \in SUBSET S |-> IF s = {} THEN 0
                          ELSE LET x == CHOOSE x \in s : TRUE IN g[x] + h[s \ {x}]]

\* The element that is taken next from a set.
LEMMA Taken ==
  ASSUME NEW s, IsFiniteSet(s), s # {}
  PROVE  LET x == CHOOSE x \in s : TRUE
         IN /\ x \in s /\ IsFiniteSet(s \ {x}) /\ Cardinality(s) \in Nat \ {0}
            /\ Cardinality(s \ {x}) = Cardinality(s) - 1
  <1> DEFINE x == CHOOSE x \in s : TRUE
  <1>1. x \in s
    OBVIOUS
  <1> HIDE DEF x
  <1>2. /\ IsFiniteSet(s \ {x}) /\ Cardinality(s) \in Nat /\ Cardinality(s) # 0
        /\ Cardinality(s \ {x}) = Cardinality(s) - 1
    BY <1>1, FS_RemoveElement, FS_CardinalityType, FS_EmptySet
  <1> QED BY <1>1, <1>2 DEF x

\* It exists for every finite set.
LEMMA AddsExists ==
  ASSUME NEW S, IsFiniteSet(S), NEW g
  PROVE  \E h : Adds(h, g, S)
  <1> DEFINE Up(n) == {s \in SUBSET S : Cardinality(s) <= n}
             Val(h, s) == IF s = {} THEN 0
                          ELSE LET x == CHOOSE x \in s : TRUE IN g[x] + h[s \ {x}]
             Good(h, n) == h = [s \in Up(n) |-> Val(h, s)]
             P == {n \in Nat : \E h : Good(h, n)}
  <1>1. \A s \in SUBSET S : IsFiniteSet(s) /\ Cardinality(s) \in Nat
    BY FS_Subset, FS_CardinalityType
  <1>2. 0 \in P
    <2> DEFINE h == [s \in Up(0) |-> 0]
    <2>1. \A s \in Up(0) : s = {}
      BY <1>1, FS_EmptySet
    <2>2. Good(h, 0)
      BY <2>1
    <2> QED BY <2>2
  <1>3. ASSUME NEW n \in P PROVE n + 1 \in P
    <2>1. PICK h : Good(h, n)
      OBVIOUS
    <2> DEFINE k == [s \in Up(n + 1) |-> Val(h, s)]
    <2>2. Up(n) \subseteq Up(n + 1)
      BY <1>1
    <2>3. \A s \in Up(n) : k[s] = h[s]
      <3> TAKE s \in Up(n)
      <3>1. k[s] = Val(h, s)
        BY <2>2
      <3>2. h[s] = Val(h, s)
        BY <2>1
      <3> QED BY <3>1, <3>2
    <2>4. \A s \in Up(n + 1) : Val(h, s) = Val(k, s)
      <3> TAKE s \in Up(n + 1)
      <3> DEFINE x == CHOOSE x \in s : TRUE
      <3>1. CASE s = {}
        BY <3>1
      <3>2. CASE s # {}
        <4>1. s \ {x} \in Up(n)
          BY <1>1, <3>2, Taken
        <4>2. k[s \ {x}] = h[s \ {x}]
          BY <2>3, <4>1
        <4> QED BY <3>2, <4>2
      <3> QED BY <3>1, <3>2
    <2> HIDE DEF Val, Up
    <2>5. Good(k, n + 1)
      BY <2>4
    <2>6. n + 1 \in Nat
      OBVIOUS
    <2> HIDE DEF Good, k
    <2> QED BY <2>5, <2>6
  <1>4. \A n \in Nat : n \in P
    <2> HIDE DEF P
    <2>1. P \in SUBSET Nat
      BY DEF P
    <2> QED BY <1>2, <1>3, <2>1, Induction
  <1>5. Cardinality(S) \in Nat /\ Up(Cardinality(S)) = SUBSET S
    BY <1>1, FS_Subset, FS_CardinalityType
  <1>6. PICK h : Good(h, Cardinality(S))
    BY <1>4, <1>5
  <1> QED BY <1>5, <1>6 DEF Adds

\* Its value at a set depends on the values of g there alone.
LEMMA AddsUnique ==
  ASSUME NEW S, IsFiniteSet(S), NEW T \in SUBSET S, NEW g, NEW f, \A x \in T : g[x] = f[x],
         NEW h, NEW k, Adds(h, g, S), Adds(k, f, T)
  PROVE  \A s \in SUBSET T : h[s] = k[s]
  <1> DEFINE P == {n \in Nat : \A s \in SUBSET T : Cardinality(s) = n => h[s] = k[s]}
  <1>1. \A s \in SUBSET T : IsFiniteSet(s) /\ Cardinality(s) \in Nat
    BY FS_Subset, FS_CardinalityType
  <1>2. 0 \in P
    <2> SUFFICES ASSUME NEW s \in SUBSET T, Cardinality(s) = 0 PROVE h[s] = k[s]
      OBVIOUS
    <2>1. s = {}
      BY <1>1, FS_EmptySet
    <2> QED BY <2>1 DEF Adds
  <1>3. ASSUME NEW n \in P PROVE n + 1 \in P
    <2> SUFFICES ASSUME NEW s \in SUBSET T, Cardinality(s) = n + 1 PROVE h[s] = k[s]
      OBVIOUS
    <2> DEFINE x == CHOOSE x \in s : TRUE
    <2>0. n \in Nat /\ n + 1 # 0
      OBVIOUS
    <2>1. s # {}
      BY <2>0, FS_EmptySet
    <2>2. x \in s /\ s \ {x} \in SUBSET T /\ Cardinality(s \ {x}) = n
      BY <1>1, <2>1, Taken
    <2>3. h[s \ {x}] = k[s \ {x}]
      BY <2>2
    <2>4. h[s] = g[x] + h[s \ {x}] /\ k[s] = f[x] + k[s \ {x}]
      BY <2>1 DEF Adds
    <2> QED BY <2>2, <2>3, <2>4
  <1>4. \A n \in Nat : n \in P
    <2> HIDE DEF P
    <2>1. P \in SUBSET Nat
      BY DEF P
    <2> QED BY <1>2, <1>3, <2>1, Induction
  <1> QED BY <1>1, <1>4

\* A sum is its value, whichever larger set it adds over.
LEMMA TotalIs ==
  ASSUME NEW S, IsFiniteSet(S), NEW g, NEW h, Adds(h, g, S)
  PROVE  \A T \in SUBSET S : Total(g, T) = h[T]
  <1> TAKE T \in SUBSET S
  <1> DEFINE k == CHOOSE k : Adds(k, g, T)
  <1>1. IsFiniteSet(T)
    BY FS_Subset
  <1>2. Adds(k, g, T)
    BY <1>1, AddsExists
  <1>3. Total(g, T) = k[T]
    BY DEF Total, MapThenSumSet, MapThenFoldSet, Adds
  <1> HIDE DEF k
  <1>4. h[T] = k[T]
    BY <1>2, AddsUnique
  <1> QED BY <1>3, <1>4

\* One element more, anywhere in the order in which elements are taken.
LEMMA TotalAdd ==
  ASSUME NEW S, IsFiniteSet(S), NEW y, y \notin S, NEW g, \A x \in S \cup {y} : g[x] \in Int
  PROVE  Total(g, S) \in Int /\ Total(g, S \cup {y}) = Total(g, S) + g[y]
  <1> DEFINE U == S \cup {y}
  <1>1. IsFiniteSet(U) /\ \A s \in SUBSET U : IsFiniteSet(s) /\ Cardinality(s) \in Nat
    BY FS_AddElement, FS_Subset, FS_CardinalityType
  <1>2. PICK h : Adds(h, g, U)
    BY <1>1, AddsExists
  <1>3. /\ h[{}] = 0
        /\ \A s \in SUBSET U : s # {} => LET x == CHOOSE x \in s : TRUE IN h[s] = g[x] + h[s \ {x}]
    BY <1>2 DEF Adds
  <1> DEFINE Q(s) == h[s] \in Int /\ \A z \in U \ s : h[s \cup {z}] = h[s] + g[z]
             P == {n \in Nat : \A s \in SUBSET U : Cardinality(s) = n => Q(s)}
  <1>4. ASSUME NEW s \in SUBSET U, NEW z \in U \ s, h[s] \in Int,
               \A x \in s : /\ h[s \ {x}] \in Int
                            /\ \A w \in U \ (s \ {x}) : h[(s \ {x}) \cup {w}] = h[s \ {x}] + g[w]
        PROVE  h[s \cup {z}] = h[s] + g[z]
    <2> DEFINE t == s \cup {z}
               x == CHOOSE x \in t : TRUE
    <2>1. x \in t /\ h[t] = g[x] + h[t \ {x}]
      BY <1>3
    <2> HIDE DEF x
    <2>2. CASE x = z
      <3>1. t \ {x} = s
        BY <2>2
      <3>2. h[s] \in Int /\ g[z] \in Int
        BY <1>4
      <3>3. h[t] = g[z] + h[s]
        BY <2>1, <2>2, <3>1
      <3> QED BY <3>2, <3>3
    <2>3. CASE x # z
      <3>1. x \in s /\ t \ {x} = (s \ {x}) \cup {z} /\ s = (s \ {x}) \cup {x}
        BY <2>1, <2>3
      <3>2. h[t \ {x}] = h[s \ {x}] + g[z]
        BY <1>4, <3>1
      <3>3. h[s] = h[s \ {x}] + g[x]
        BY <1>4, <3>1
      <3>4. h[s \ {x}] \in Int /\ g[x] \in Int /\ g[z] \in Int
        BY <1>4, <3>1
      <3> QED BY <2>1, <3>2, <3>3, <3>4
    <2> QED BY <2>2, <2>3
  <1>5. 0 \in P
    <2> SUFFICES ASSUME NEW s \in SUBSET U, Cardinality(s) = 0 PROVE Q(s)
      <3> HIDE DEF Q, U
      <3> QED OBVIOUS
    <2>1. s = {}
      BY <1>1, FS_EmptySet
    <2> QED BY <1>3, <1>4, <2>1
  <1>6. ASSUME NEW n \in P PROVE n + 1 \in P
    <2>0. n \in Nat /\ n + 1 \in Nat
      OBVIOUS
    <2> SUFFICES ASSUME NEW s \in SUBSET U, Cardinality(s) = n + 1 PROVE Q(s)
      <3> HIDE DEF Q, U
      <3> QED BY <2>0
    <2>1. s # {} /\ \A x \in s : Cardinality(s \ {x}) = n /\ s \ {x} \in SUBSET U
      <3>1. Cardinality(s) # 0
        BY <2>0
      <3>2. \A x \in s : Cardinality(s \ {x}) = Cardinality(s) - 1
        BY <1>1, FS_RemoveElement
      <3>3. s # {}
        BY <3>1, FS_EmptySet
      <3>4. \A x \in s : Cardinality(s \ {x}) = n
        BY <2>0, <3>2
      <3> QED BY <3>3, <3>4
    <2>2. \A x \in s : /\ h[s \ {x}] \in Int
                       /\ \A w \in U \ (s \ {x}) : h[(s \ {x}) \cup {w}] = h[s \ {x}] + g[w]
      BY <2>1
    <2>3. PICK x \in s : TRUE
      BY <2>1
    <2>4. s = (s \ {x}) \cup {x} /\ x \in U \ (s \ {x})
      BY <2>3
    <2>5. h[s] = h[s \ {x}] + g[x] /\ g[x] \in Int
      BY <2>2, <2>4
    <2>6. h[s] \in Int
      <3>1. h[s \ {x}] \in Int
        BY <2>2
      <3> QED BY <2>5, <3>1
    <2> QED BY <1>4, <2>2, <2>6
  <1>7. \A n \in Nat : n \in P
    <2> HIDE DEF P
    <2>1. P \in SUBSET Nat
      BY DEF P
    <2> QED BY <1>5, <1>6, <2>1, Induction
  <1>8. h[S] \in Int /\ h[U] = h[S] + g[y]
    <2>1. S \in SUBSET U /\ y \in U \ S /\ Cardinality(S) \in Nat
      BY <1>1
    <2> QED BY <1>7, <2>1
  <1>9. Total(g, S) = h[S] /\ Total(g, U) = h[U]
    BY <1>1, <1>2, TotalIs
  <1> QED BY <1>8, <1>9

\* Sums of the same values.
LEMMA TotalSame ==
  ASSUME NEW S, IsFiniteSet(S), NEW g, NEW f, \A x \in S : g[x] = f[x]
  PROVE  Total(g, S) = Total(f, S)
  <1>1. PICK h : Adds(h, g, S)
    BY AddsExists
  <1>2. PICK k : Adds(k, f, S)
    BY AddsExists
  <1>3. S \in SUBSET S
    OBVIOUS
  <1>4. h[S] = k[S]
    BY <1>1, <1>2, <1>3, AddsUnique
  <1> QED BY <1>1, <1>2, <1>3, <1>4, TotalIs

\* A value that changes changes the sum by as much.
LEMMA TotalChange ==
  ASSUME NEW S, IsFiniteSet(S), NEW y \in S, NEW g, NEW f, \A x \in S : g[x] \in Int /\ f[x] \in Int,
         \A x \in S \ {y} : g[x] = f[x]
  PROVE  /\ Total(g, S) \in Int /\ Total(f, S) \in Int
         /\ Total(f, S) = Total(g, S) + (f[y] - g[y])
  <1> DEFINE T == S \ {y}
  <1>1. IsFiniteSet(T) /\ y \notin T /\ S = T \cup {y}
    BY FS_RemoveElement
  <1> HIDE DEF T
  <1>2. Total(g, T) = Total(f, T)
    BY <1>1, TotalSame DEF T
  <1>3. Total(g, T) \in Int /\ Total(g, S) = Total(g, T) + g[y]
    BY <1>1, TotalAdd
  <1>4. Total(f, S) = Total(f, T) + f[y]
    BY <1>1, TotalAdd
  <1> QED BY <1>2, <1>3, <1>4

\* Nothing to add.
LEMMA TotalZero ==
  ASSUME NEW S, IsFiniteSet(S), NEW g, \A x \in S : g[x] = 0
  PROVE  Total(g, S) = 0
  <1> DEFINE h == [s \in SUBSET S |-> 0]
             Val(s) == IF s = {} THEN 0 ELSE LET x == CHOOSE x \in s : TRUE IN g[x] + h[s \ {x}]
  <1>1. \A s \in SUBSET S : Val(s) = 0
    <2> TAKE s \in SUBSET S
    <2> DEFINE x == CHOOSE x \in s : TRUE
    <2>1. CASE s # {}
      <3>1. x \in s /\ s \ {x} \in SUBSET S
        BY <2>1
      <3>2. g[x] = 0 /\ h[s \ {x}] = 0
        BY <3>1
      <3> QED BY <2>1, <3>2
    <2> QED BY <2>1
  <1>2. h = [s \in SUBSET S |-> Val(s)]
    <2> HIDE DEF Val
    <2> QED BY <1>1
  <1>3. Adds(h, g, S)
    BY <1>2 DEF Adds
  <1>4. h[S] = 0
    OBVIOUS
  <1> HIDE DEF h
  <1> QED BY <1>3, <1>4, TotalIs
-----------------------------------------------------------------------------
(***************************************************************************)
(* The worker's rows.                                                      *)
(***************************************************************************)
OrderState == {"NONE", "COMMITTED", "STARTED", "FILLED"}
ExecFields == {"pc", "slot", "stage", "pos", "read", "blocking", "todo", "intent", "exits",
               "refused"}

\* The plan of a decision d, as the worker computes it for the key k.
PlanAt(k, d) == IF k[1] = Forced THEN [d EXCEPT !.target = Flat] ELSE d
Planned(k) == Intents(PlanAt(k, dec[k]))

(***************************************************************************)
(* The inductive invariant.                                                *)
(***************************************************************************)
CycleTypes ==
  /\ DOMAIN dec = Keys
  /\ order \in [Keys -> [Symbols -> OrderState]]
  /\ receipt \in [Keys -> {"NONE", "CLEAN", "BLOCKING"}]
  /\ DOMAIN exec = ExecFields /\ exec.pc \in {"idle", "persist", "plan", "submit", "start", "apply"}
  /\ exec.pc # "idle" => Key \in Keys

\* An order is an intent of the plan of a durable decision.
OrdersPlanned ==
  \A k \in Keys, y \in Symbols : order[k][y] # "NONE" => dec[k].made /\ y \in Planned(k)

\* A clean receipt says that the plan was carried out, also to a worker that
\* takes its key up again.
CleanIsCarriedOut ==
  \A k \in Keys : receipt[k] = "CLEAN" =>
    dec[k].made /\ \A y \in Planned(k) : order[k][y] = "FILLED"

\* Who plans has a durable decision, and who decides finds none.
DecisionFirst ==
  /\ exec.pc = "persist" => ~dec[Key].made
  /\ exec.pc \in {"plan", "submit", "start", "apply"} => dec[Key].made

\* Every intent of the plan in hand is filled, still to come, being filled, or
\* its refusal is remembered.
Accounted(o, e, y) ==
  /\ o[y] # "NONE"
  /\ \/ o[y] = "FILLED" \/ y \in e.todo \/ e.refused
     \/ e.pc = "apply" /\ y = e.intent
IntentsAccounted ==
  exec.pc \in {"submit", "start", "apply"} =>
    \A y \in Planned(Key) : Accounted(order[Key], exec, y)

\* The intent that is about to be sent, or was sent, is not filled yet.
Open == {"COMMITTED", "STARTED"}
IntentOpen ==
  exec.pc \in {"start", "apply"} /\ exec.intent \in Symbols => order[Key][exec.intent] \in Open

CycleInv == /\ CycleTypes /\ OrdersPlanned /\ CleanIsCarriedOut /\ DecisionFirst
            /\ IntentsAccounted /\ IntentOpen
-----------------------------------------------------------------------------
\* The worker between two cycles.
LEMMA IdleCycle == DOMAIN Idle = ExecFields /\ Idle.pc = "idle"
  BY DEF Idle, ExecFields

\* The worker plans what the decision of its key asks for; only symbols are
\* planned.
LEMMA PlanOfKey ==
  ASSUME CycleInv, exec.pc # "idle"
  PROVE  Key \in Keys /\ Plan(dec[Key]) = PlanAt(Key, dec[Key])
  BY DEF CycleInv, CycleTypes, Plan, PlanAt, Key

\* Intents are symbols.
LEMMA PlannedSymbols == ASSUME NEW k, NEW d PROVE Intents(PlanAt(k, d)) \subseteq Symbols
  BY DEF Intents, Exits, Entries

\* Nothing is planned or decided before the session.
LEMMA CycleInitially == Init => CycleInv
  BY IdleCycle, PlannedSymbols
  DEF Init, CycleInv, CycleTypes, OrdersPlanned, CleanIsCarriedOut, DecisionFirst,
      IntentsAccounted, IntentOpen, OrderState, None

\* The collector, the scheduler, the strategy and the operator leave the
\* execution worker's rows alone; after a crash or a raise nothing is in hand.
LEMMA OthersKeep ==
  ASSUME CycleInv, UNCHANGED <<dec, order, receipt>>, UNCHANGED exec \/ exec' = Idle
  PROVE  CycleInv'
  <1>1. CASE UNCHANGED exec
    BY <1>1 DEF CycleInv, CycleTypes, OrdersPlanned, CleanIsCarriedOut, DecisionFirst,
                IntentsAccounted, IntentOpen, Key, Planned
  <1>2. CASE exec' = Idle
    BY <1>2, IdleCycle DEF CycleInv, CycleTypes, OrdersPlanned, CleanIsCarriedOut, DecisionFirst,
                           IntentsAccounted, IntentOpen, Planned
  <1> QED BY <1>1, <1>2

\* The broker is restored and the key of the cycle is chosen.
LEMMA BeginKeeps == ASSUME CycleInv, NEW s \in Slots, Begin(s) PROVE CycleInv'
  <1> DEFINE n == IF Receipts(s) = {} THEN 1 ELSE 2
             made == dec[<<s, n>>].made
             pos == Rebuilt({"STARTED", "FILLED"})
  <1>1. /\ order' = Restored /\ UNCHANGED <<dec, receipt>>
        /\ exec' = [Idle EXCEPT !.pc = IF made THEN "plan" ELSE "persist",
                                !.slot = s, !.stage = n, !.read = latch, !.pos = pos]
    BY DEF Begin
  <1>2. n \in Stages
    BY DEF Stages
  <1> HIDE DEF n, made, pos
  <1>3. /\ DOMAIN exec' = ExecFields /\ exec'.slot = s /\ exec'.stage = n
        /\ exec'.pc = IF made THEN "plan" ELSE "persist"
    BY <1>1 DEF Idle, ExecFields
  <1>4. Key' = <<s, n>> /\ Key' \in Keys
    BY <1>2, <1>3 DEF Key, Keys
  <1>5. /\ order' \in [Keys -> [Symbols -> OrderState]]
        /\ \A k \in Keys, y \in Symbols :
             /\ order'[k][y] # "NONE" => order[k][y] # "NONE"
             /\ order[k][y] = "FILLED" => order'[k][y] = "FILLED"
    BY <1>1 DEF Restored, CycleInv, CycleTypes, OrderState
  <1>6. CycleTypes'
    BY <1>1, <1>3, <1>4, <1>5 DEF CycleInv, CycleTypes
  <1>7. OrdersPlanned' /\ CleanIsCarriedOut'
    BY <1>1, <1>5, PlannedSymbols DEF CycleInv, OrdersPlanned, CleanIsCarriedOut, Planned
  <1>8. DecisionFirst' /\ IntentsAccounted' /\ IntentOpen'
    BY <1>1, <1>3, <1>4 DEF DecisionFirst, IntentsAccounted, IntentOpen, made
  <1> QED BY <1>6, <1>7, <1>8 DEF CycleInv

\* persist: the decision of a key that had none.
LEMMA DecideKeeps == ASSUME CycleInv, PersistDecision PROVE CycleInv'
  <1>1. CASE Raises /\ UNCHANGED <<dec, order, receipt>>
    BY <1>1, OthersKeep DEF Raises
  <1>2. CASE Decides /\ UNCHANGED <<order, receipt>>
    <2>1. /\ exec.pc = "persist" /\ Key \in Keys /\ ~dec[Key].made
          /\ dec' = [dec EXCEPT ![Key] = Evaluated] /\ exec' = [exec EXCEPT !.pc = "plan"]
      BY <1>2 DEF PersistDecision, At, Decides, CycleInv, CycleTypes, DecisionFirst
    <2>2. DOMAIN exec' = ExecFields /\ exec'.pc = "plan" /\ Key' = Key
      BY <2>1 DEF CycleInv, CycleTypes, ExecFields, Key
    <2>3. DOMAIN dec' = Keys /\ dec'[Key].made /\ \A k \in Keys \ {Key} : dec'[k] = dec[k]
      BY <2>1 DEF CycleInv, CycleTypes, Evaluated
    <2>4. CycleTypes'
      BY <1>2, <2>1, <2>2, <2>3 DEF CycleInv, CycleTypes
    <2>5. OrdersPlanned' /\ CleanIsCarriedOut'
      <3> SUFFICES ASSUME NEW k \in Keys
                   PROVE  /\ \A y \in Symbols : order[k][y] # "NONE" => k # Key
                          /\ receipt[k] = "CLEAN" => k # Key
        BY <1>2, <2>3 DEF CycleInv, OrdersPlanned, CleanIsCarriedOut, Planned
      <3> QED BY <2>1 DEF CycleInv, OrdersPlanned, CleanIsCarriedOut
    <2>6. DecisionFirst' /\ IntentsAccounted' /\ IntentOpen'
      BY <2>2, <2>3 DEF DecisionFirst, IntentsAccounted, IntentOpen
    <2> QED BY <2>4, <2>5, <2>6 DEF CycleInv
  <1> QED BY <1>1, <1>2 DEF PersistDecision

\* The plan and its intents are persisted, or found.
LEMMA PlanKeeps == ASSUME CycleInv, PersistPlan PROVE CycleInv'
  <1> DEFINE todo == Planned(Key)
             active == Active # {}
  <1>1. exec.pc = "plan" /\ Key \in Keys /\ dec[Key].made
    BY DEF PersistPlan, At, CycleInv, CycleTypes, DecisionFirst
  <1>2. /\ order' = [order EXCEPT ![Key] = [y \in Symbols |->
                       IF y \in todo /\ @[y] = "NONE" THEN "COMMITTED" ELSE @[y]]]
        /\ exec' = [exec EXCEPT !.pc = "submit", !.blocking = active, !.todo = todo]
        /\ UNCHANGED <<dec, receipt>>
    BY <1>1, PlanOfKey DEF PersistPlan, Planned
  <1>3. todo \subseteq Symbols
    BY PlannedSymbols DEF Planned
  <1> HIDE DEF todo, active
  <1>4. DOMAIN exec' = ExecFields /\ exec'.pc = "submit" /\ exec'.todo = todo /\ Key' = Key
    BY <1>2 DEF CycleInv, CycleTypes, ExecFields, Key
  <1>5. /\ order' \in [Keys -> [Symbols -> OrderState]]
        /\ \A k \in Keys \ {Key} : order'[k] = order[k]
        /\ \A y \in Symbols : /\ order'[Key][y] # "NONE" => order[Key][y] # "NONE" \/ y \in todo
                              /\ order[Key][y] # "NONE" => order'[Key][y] = order[Key][y]
                              /\ y \in todo => order'[Key][y] # "NONE"
    BY <1>1, <1>2 DEF CycleInv, CycleTypes, OrderState
  <1>6. CycleTypes'
    BY <1>1, <1>2, <1>4, <1>5 DEF CycleInv, CycleTypes
  <1>7. \A k \in Keys : Planned(k)' = Planned(k)
    BY <1>2 DEF Planned
  <1>8. OrdersPlanned'
    BY <1>1, <1>2, <1>5, <1>7 DEF CycleInv, OrdersPlanned, todo
  <1>9. CleanIsCarriedOut'
    BY <1>1, <1>2, <1>5, <1>7, PlannedSymbols DEF CycleInv, CleanIsCarriedOut, Planned
  <1>10. DecisionFirst' /\ IntentOpen'
    BY <1>1, <1>2, <1>4 DEF DecisionFirst, IntentOpen
  <1>11. IntentsAccounted'
    BY <1>1, <1>3, <1>4, <1>5, <1>7 DEF IntentsAccounted, Accounted, todo
  <1> QED BY <1>6, <1>8, <1>9, <1>10, <1>11 DEF CycleInv

\* Steps of submit_plan, which change at most the order of one intent, and never
\* to COMMITTED.
LEMMA SubmitStep ==
  ASSUME CycleInv, exec.pc \in {"submit", "start", "apply"}, UNCHANGED <<dec, receipt>>,
         DOMAIN exec' = ExecFields, exec'.pc \in {"submit", "start", "apply"}, Key' = Key,
         order' \in [Keys -> [Symbols -> OrderState]],
         \A k \in Keys \ {Key} : order'[k] = order[k],
         \A y \in Symbols : /\ order'[Key][y] = order[Key][y] \/ order[Key][y] # "NONE"
                            /\ order[Key][y] = "FILLED" => order'[Key][y] = "FILLED"
                            /\ order[Key][y] # "NONE" => order'[Key][y] # "NONE",
         \A y \in Planned(Key) : Accounted(order'[Key], exec', y),
         exec'.pc # "submit" /\ exec'.intent \in Symbols => order'[Key][exec'.intent] \in Open
  PROVE  CycleInv'
  <1>1. Key \in Keys /\ dec[Key].made
    BY DEF CycleInv, CycleTypes, DecisionFirst
  <1>2. \A k \in Keys : Planned(k)' = Planned(k) /\ Planned(k) \subseteq Symbols
    BY PlannedSymbols DEF Planned
  <1>3. CycleTypes' /\ DecisionFirst'
    BY <1>1 DEF CycleInv, CycleTypes, DecisionFirst
  <1>4. OrdersPlanned'
    BY <1>1, <1>2 DEF CycleInv, OrdersPlanned
  <1>5. CleanIsCarriedOut'
    <2> SUFFICES ASSUME NEW k \in Keys, receipt[k] = "CLEAN", NEW y \in Planned(k)
                 PROVE  dec[k].made /\ order'[k][y] = "FILLED"
      BY <1>2 DEF CleanIsCarriedOut, CycleInv
    <2>1. dec[k].made /\ order[k][y] = "FILLED" /\ y \in Symbols
      BY <1>2 DEF CycleInv, CleanIsCarriedOut
    <2> QED BY <2>1
  <1>6. IntentsAccounted' /\ IntentOpen'
    BY <1>1, <1>2 DEF IntentsAccounted, IntentOpen
  <1> QED BY <1>3, <1>4, <1>5, <1>6 DEF CycleInv

\* _authorize, and the refusal of an intent.
LEMMA OutcomeKeeps ==
  ASSUME CycleInv, exec.pc \in {"submit", "start"}, UNCHANGED <<dec, receipt, order>>,
         NEW y, NEW refused \in BOOLEAN, Outcome(y, refused), refused \/ order[Key][y] = "FILLED"
  PROVE  CycleInv'
  <1> DEFINE ex == exec.exits /\ ~(refused /\ y \in Exits(dec[Key]))
             rf == exec.refused \/ refused
             e == [exec EXCEPT !.pc = "submit", !.todo = @ \ {y}, !.intent = 0, !.refused = rf,
                               !.exits = ex]
  <1>1. exec' = e
    BY DEF Outcome
  <1> HIDE DEF ex, rf
  <1>2. /\ DOMAIN exec' = ExecFields /\ exec'.pc = "submit" /\ exec'.todo = exec.todo \ {y}
        /\ exec'.refused = rf /\ Key' = Key
    BY <1>1 DEF CycleInv, CycleTypes, ExecFields, Key
  <1>3. \A z \in Planned(Key) : Accounted(order[Key], exec, z)
    BY DEF CycleInv, IntentsAccounted
  <1>4. \A z \in Planned(Key) : Accounted(order[Key], exec', z)
    BY <1>2, <1>3 DEF Accounted, rf
  <1>5. order \in [Keys -> [Symbols -> OrderState]]
    BY DEF CycleInv, CycleTypes
  <1> HIDE DEF e
  <1> QED BY <1>2, <1>4, <1>5, SubmitStep

\* The next intent is authorized or refused.
LEMMA AuthorizeKeeps == ASSUME CycleInv, Authorize PROVE CycleInv'
  <1> DEFINE y == First(exec.todo)
             refused == order[Key][y] # "FILLED"
  <1>1. exec.pc = "submit" /\ UNCHANGED <<dec, receipt, order>>
    BY DEF Authorize, At
  <1>2. CASE Outcome(y, refused)
    <2>1. refused \in BOOLEAN /\ (refused \/ order[Key][y] = "FILLED")
      OBVIOUS
    <2> HIDE DEF refused
    <2> QED BY <1>1, <1>2, <2>1, OutcomeKeeps
  <1>3. CASE /\ exec' = [exec EXCEPT !.pc = "start", !.intent = y, !.read = latch]
             /\ order[Key][y] = "COMMITTED"
    <2> HIDE DEF y
    <2>1. /\ DOMAIN exec' = ExecFields /\ exec'.pc = "start" /\ exec'.todo = exec.todo
          /\ exec'.refused = exec.refused /\ Key' = Key /\ exec'.intent = y
      BY <1>3 DEF CycleInv, CycleTypes, ExecFields, Key
    <2>2. \A z \in Planned(Key) : Accounted(order[Key], exec', z)
      BY <1>1, <2>1 DEF CycleInv, IntentsAccounted, Accounted
    <2>3. order \in [Keys -> [Symbols -> OrderState]]
      BY DEF CycleInv, CycleTypes
    <2> QED BY <1>1, <1>3, <2>1, <2>2, <2>3, SubmitStep DEF Open
  <1> QED BY <1>2, <1>3 DEF Authorize, Authorized

\* record_submission_started: the latches are compared once more.
LEMMA StartKeeps == ASSUME CycleInv, Start PROVE CycleInv'
  <1> DEFINE y == exec.intent
  <1>1. exec.pc = "start" /\ UNCHANGED <<dec, receipt>> /\ Key \in Keys
    BY DEF Start, At, CycleInv, CycleTypes
  <1>2. CASE Outcome(y, TRUE) /\ UNCHANGED order
    BY <1>1, <1>2, OutcomeKeeps
  <1>3. CASE order' = [order EXCEPT ![Key][y] = "STARTED"] /\ exec' = [exec EXCEPT !.pc = "apply"]
    <2>1. /\ DOMAIN exec' = ExecFields /\ exec'.pc = "apply" /\ exec'.todo = exec.todo
          /\ exec'.refused = exec.refused /\ Key' = Key /\ exec'.intent = y
      BY <1>3 DEF CycleInv, CycleTypes, ExecFields, Key
    <2>2. /\ order' \in [Keys -> [Symbols -> OrderState]]
          /\ \A k \in Keys \ {Key} : order'[k] = order[k]
          /\ \A z \in Symbols \ {y} : order'[Key][z] = order[Key][z]
          /\ y \in Symbols => order'[Key][y] = "STARTED"
      BY <1>1, <1>3 DEF CycleInv, CycleTypes, OrderState
    <2>3. y \in Symbols => order[Key][y] \in Open
      BY <1>1 DEF CycleInv, IntentOpen
    <2>4. Planned(Key) \subseteq Symbols
      BY PlannedSymbols DEF Planned
    <2>5. \A z \in Planned(Key) : Accounted(order'[Key], exec', z)
      BY <1>1, <2>1, <2>2, <2>4 DEF CycleInv, IntentsAccounted, Accounted
    <2> QED BY <1>1, <2>1, <2>2, <2>3, <2>5, SubmitStep DEF Open
  <1> QED BY <1>2, <1>3 DEF Start

\* The fill is recorded.
LEMMA ApplyKeeps == ASSUME CycleInv, Apply PROVE CycleInv'
  <1> DEFINE y == exec.intent
             pos == [exec.pos EXCEPT ![y] = @ + Delta(dec[Key], y)]
  <1>1. /\ exec.pc = "apply" /\ UNCHANGED <<dec, receipt>> /\ Key \in Keys
        /\ order' = [order EXCEPT ![Key][y] = "FILLED"]
    BY DEF Apply, At, CycleInv, CycleTypes
  <1>2. exec' = [exec EXCEPT !.pc = "submit", !.todo = @ \ {y}, !.intent = 0, !.pos = pos]
    BY DEF Apply, CycleInv, CycleTypes, ExecFields
  <1> HIDE DEF pos
  <1>3. /\ DOMAIN exec' = ExecFields /\ exec'.pc = "submit" /\ exec'.todo = exec.todo \ {y}
        /\ exec'.refused = exec.refused /\ Key' = Key
    BY <1>2 DEF CycleInv, CycleTypes, ExecFields, Key
  <1>4. /\ order' \in [Keys -> [Symbols -> OrderState]]
        /\ \A k \in Keys \ {Key} : order'[k] = order[k]
        /\ \A z \in Symbols \ {y} : order'[Key][z] = order[Key][z]
        /\ y \in Symbols => order'[Key][y] = "FILLED"
    BY <1>1 DEF CycleInv, CycleTypes, OrderState
  <1>5. y \in Symbols => order[Key][y] \in Open
    BY <1>1 DEF CycleInv, IntentOpen
  <1>6. Planned(Key) \subseteq Symbols
    BY PlannedSymbols DEF Planned
  <1>7. \A z \in Planned(Key) : Accounted(order'[Key], exec', z)
    BY <1>1, <1>3, <1>4, <1>6 DEF CycleInv, IntentsAccounted, Accounted
  <1> QED BY <1>1, <1>3, <1>4, <1>5, <1>7, SubmitStep DEF Open

\* The reconciliation of a plan without refusals.
LEMMA CloseKeeps == ASSUME CycleInv, Close PROVE CycleInv'
  <1>1. /\ exec.pc = "submit" /\ exec.todo = {} /\ UNCHANGED <<dec, order>> /\ exec' = Idle
        /\ Key \in Keys /\ dec[Key].made
    BY DEF Close, At, Raises, Reconciles, CycleInv, CycleTypes, DecisionFirst
  <1>2. CASE UNCHANGED receipt
    BY <1>1, <1>2, OthersKeep
  <1>3. CASE ~exec.refused /\ Reconciles
    <2> DEFINE r == IF Discrepant THEN "BLOCKING" ELSE "CLEAN"
    <2>1. receipt' = [receipt EXCEPT ![Key] = r] /\ r \in {"NONE", "CLEAN", "BLOCKING"}
      BY <1>3 DEF Reconciles
    <2> HIDE DEF r
    <2>2. \A y \in Planned(Key) : order[Key][y] = "FILLED"
      BY <1>1, <1>3 DEF CycleInv, IntentsAccounted, Accounted
    <2>3. CleanIsCarriedOut'
      BY <1>1, <2>1, <2>2 DEF CycleInv, CycleTypes, CleanIsCarriedOut, Planned
    <2> QED BY <1>1, <2>1, <2>3, IdleCycle
            DEF CycleInv, CycleTypes, OrdersPlanned, DecisionFirst, IntentsAccounted, IntentOpen,
                Planned
  <1> QED BY <1>2, <1>3 DEF Close

\* Every step keeps the invariant.
LEMMA CycleStepKeeps == CycleInv /\ [Next]_vars => CycleInv'
  <1> SUFFICES ASSUME CycleInv, [Next]_vars PROVE CycleInv'
    OBVIOUS
  <1>1. CASE Collect \/ SchedulerStep \/ StrategyStep \/ Halt \/ (\E k \in Kinds : Resume(k))
    BY <1>1, OthersKeep
    DEF Collect, SchedulerStep, CreateSchedule, EvaluateSlot, ClaimSlot, EndSlot, Sets,
        StrategyStep, Propose, Halt, Resume
  <1>2. CASE Crash \/ UNCHANGED vars
    BY <1>2, OthersKeep DEF Crash, vars
  <1>3. CASE ExecutionStep
    BY <1>3, BeginKeeps, DecideKeeps, PlanKeeps, AuthorizeKeeps, StartKeeps, ApplyKeeps, CloseKeeps
    DEF ExecutionStep
  <1> QED BY <1>1, <1>2, <1>3 DEF Next
-----------------------------------------------------------------------------
(***************************************************************************)
(* Theorems.                                                               *)
(***************************************************************************)
\* The invariant holds in every reachable state.
THEOREM CycleSafe == Spec => []CycleInv
  BY CycleInitially, CycleStepKeeps, PTL DEF Spec

\* A clean receipt of record_reconciliation_bundle proves that every intent of the
\* plan was filled, although refusals and crashes leave some of them for later.
THEOREM ReceiptProvesSafe == Spec => []ReceiptProves
  <1>1. CycleInv => ReceiptProves
    BY DEF CycleInv, OrdersPlanned, CleanIsCarriedOut, ReceiptProves
  <1> QED BY <1>1, CycleSafe, PTL

\* RiskDecisionRepository.persist lets no decision through that grants exposure
\* while a latch is active, whenever the latches were read.
THEOREM DecidedInTheClearSafe == Spec => DecidedInTheClear
  <1> DEFINE A == \A k \in Keys :
                    ~dec[k].made /\ dec'[k].made /\ dec'[k].target # Flat => Active = {}
  <1>1. CycleInv /\ [Next]_vars => [A]_vars
    <2> SUFFICES ASSUME CycleInv, Next PROVE A
      BY DEF vars
    <2>1. CASE UNCHANGED dec
      BY <2>1
    <2>2. CASE PersistDecision /\ Decides /\ latch = exec.read
      <3>1. Key \in Keys /\ dec' = [dec EXCEPT ![Key] = Evaluated] /\ DOMAIN dec = Keys
        BY <2>2 DEF PersistDecision, At, Decides, CycleInv, CycleTypes
      <3>2. Evaluated.target # Flat => Active = {}
        BY <2>2 DEF Evaluated, Active
      <3> QED BY <3>1, <3>2
    <2>3. PersistDecision => (UNCHANGED dec \/ (Decides /\ latch = exec.read))
      BY DEF PersistDecision
    <2> QED BY <2>1, <2>2, <2>3
            DEF Next, Collect, SchedulerStep, CreateSchedule, EvaluateSlot, ClaimSlot, EndSlot, Sets,
                StrategyStep, Propose, Halt, Resume, Crash, ExecutionStep, Begin, PersistPlan,
                Authorize, Start, Apply, Close
  <1> QED BY <1>1, CycleSafe, PTL DEF Spec, DecidedInTheClear
-----------------------------------------------------------------------------
(***************************************************************************)
(* The account: one key is in turn at a time, and what the broker holds is *)
(* what the decision in turn began with and what its orders traded.        *)
(***************************************************************************)
Units == {-1, 0, 1}
Worth(k, y) == IF order[k][y] = "FILLED" THEN Delta(dec[k], y) ELSE 0
Worths(y) == [k \in Keys |-> Worth(k, y)]

AccountTypes ==
  /\ DOMAIN slot = Slots
  /\ signal \in [Slots -> [made : BOOLEAN, wants : [Symbols -> Units]]]
  /\ signal[Forced].wants = Flat
  /\ dec \in [Keys -> [target : [Symbols -> Units], base : [Symbols -> Units], made : BOOLEAN]]
  /\ exec.todo \subseteq Symbols /\ (exec.pc \in {"start", "apply"} => exec.intent \in Symbols)

\* A slot has a signal when it was claimed, after the earlier ones have ended.
Claimed == {"CLAIMED"} \cup Ended
SlotsInOrder ==
  /\ \A s \in Slots : signal[s].made => slot[s] \in Claimed
  /\ \A s \in Slots : slot[s] \in Claimed => \A r \in 1..(s - 1) : slot[r] \in Ended

\* A decision is in turn after the earlier slots with a signal are executed, and
\* the second one of a slot after the clean close of a reversal.
InTurn(k) ==
  /\ signal[k[1]].made
  /\ \A r \in 1..(k[1] - 1) : signal[r].made => Executed(r)
  /\ k[2] = 2 => receipt[<<k[1], 1>>] = "CLEAN" /\ Reversal(dec[<<k[1], 1>>])
Pending(k) == InTurn(k) /\ receipt[k] = "NONE"
DecidedInTurn ==
  /\ \A k \in Keys : dec[k].made => InTurn(k) /\ dec[k].target \in {Flat, signal[k[1]].wants}
  /\ \A k \in Keys : exec.pc # "idle" /\ k = Key => Pending(k)

\* The broker of the worker is the account, and the account is what the decision
\* in turn began with and what its orders have traded.
AccountMatches ==
  /\ exec.pc # "idle" => exec.pos = Position
  /\ \A y \in Symbols : Position[y] \in Units
  /\ \A k \in Keys, y \in Symbols :
       dec[k].made /\ receipt[k] = "NONE" => Position[y] = dec[k].base[y] + Worth(k, y)

\* What a reversal's close leaves is not opposed to the signal, so that the
\* second decision of a slot reverses nothing.
ReversalsEnd ==
  \A s \in Slots :
    /\ dec[<<s, 2>>].made => ~Reversal(dec[<<s, 2>>])
    /\ ~dec[<<s, 2>>].made /\ receipt[<<s, 1>>] = "CLEAN" /\ Reversal(dec[<<s, 1>>]) =>
         \A y \in Symbols : Position[y] * signal[s].wants[y] >= 0

\* The forced flat is completed after a clean receipt, and leaves a flat account.
ForcedFlattens ==
  /\ slot[Forced] = "COMPLETED" => \E n \in Stages : receipt[<<Forced, n>>] = "CLEAN"
  /\ \A n \in Stages : receipt[<<Forced, n>>] = "CLEAN" => Position = Flat

AccountInv == /\ AccountTypes /\ SlotsInOrder /\ DecidedInTurn /\ AccountMatches
              /\ ReversalsEnd /\ ReceiptsClean /\ ForcedFlattens
-----------------------------------------------------------------------------
\* There are finitely many keys, and their orders trade whole units.
LEMMA KeysFinite == IsFiniteSet(Keys)
  <1>1. Forced \in Int /\ 1 \in Int /\ 2 \in Int
    BY ServiceCyclesAssumption DEF Forced, ServiceCyclesAssumption
  <1>2. IsFiniteSet(Slots) /\ IsFiniteSet(Stages)
    BY <1>1, FS_Interval DEF Slots, Stages
  <1> QED BY <1>2, FS_Product DEF Keys

\* What an order is worth is a whole number.
LEMMA WorthType ==
  ASSUME AccountTypes, NEW k \in Keys, NEW y \in Symbols
  PROVE  Worth(k, y) \in Int /\ dec[k].base[y] \in Units /\ dec[k].target[y] \in Units
  <1>1. dec[k].base[y] \in Units /\ dec[k].target[y] \in Units
    BY DEF AccountTypes
  <1> QED BY <1>1 DEF Worth, Delta, Units

\* The account is the sum of what the orders traded.
LEMMA PositionIs ==
  /\ \A y \in Symbols : Position[y] = Total(Worths(y), Keys)
  /\ \A y \in Symbols : Position'[y] = Total(Worths(y)', Keys)
  <1>1. ASSUME NEW y \in Symbols PROVE Position[y] = Total(Worths(y), Keys)
    BY DEF Position, Rebuilt, Traded, Total, MapThenSumSet, MapThenFoldSet, Worths, Worth
  <1>2. ASSUME NEW y \in Symbols PROVE Position'[y] = Total(Worths(y)', Keys)
    BY DEF Position, Rebuilt, Traded, Total, MapThenSumSet, MapThenFoldSet, Worths, Worth
  <1> QED BY <1>1, <1>2

\* No order trades, or the orders of one key.
LEMMA PositionKept ==
  ASSUME \A k \in Keys, y \in Symbols : Worth(k, y)' = Worth(k, y)
  PROVE  Position' = Position
  <1>1. \A y \in Symbols : Worths(y)' = Worths(y)
    BY DEF Worths
  <1>2. \A y \in Symbols : Position'[y] = Position[y]
    BY <1>1, PositionIs
  <1> QED BY <1>2 DEF Position, Rebuilt

\* The position moves by what the order of one key traded.
LEMMA PositionMoves ==
  ASSUME NEW k \in Keys,
         \A l \in Keys, y \in Symbols : Worth(l, y) \in Int /\ Worth(l, y)' \in Int,
         \A l \in Keys \ {k}, y \in Symbols : Worth(l, y)' = Worth(l, y)
  PROVE  \A y \in Symbols : Position'[y] = Position[y] + (Worth(k, y)' - Worth(k, y))
  <1> TAKE y \in Symbols
  <1> DEFINE g == Worths(y)
             f == Worths(y)'
  <1>1. \A l \in Keys : g[l] = Worth(l, y) /\ f[l] = Worth(l, y)'
    BY DEF Worths
  <1> HIDE DEF g, f
  <1>2. \A l \in Keys : g[l] \in Int /\ f[l] \in Int
    BY <1>1
  <1>3. \A l \in Keys \ {k} : g[l] = f[l]
    BY <1>1
  <1>4. Total(f, Keys) = Total(g, Keys) + (f[k] - g[k])
    BY <1>2, <1>3, KeysFinite, TotalChange
  <1>5. Position[y] = Total(g, Keys) /\ Position'[y] = Total(f, Keys)
    BY PositionIs DEF g, f
  <1> QED BY <1>1, <1>4, <1>5
-----------------------------------------------------------------------------
\* What is reconciled was decided in its turn.
LEMMA ReceiptMade ==
  ASSUME CycleInv, AccountInv, NEW k \in Keys, receipt[k] # "NONE"
  PROVE  receipt[k] = "CLEAN" /\ dec[k].made /\ InTurn(k)
  BY DEF CycleInv, CycleTypes, CleanIsCarriedOut, AccountInv, ReceiptsClean, DecidedInTurn

\* Both decisions of a slot have a key.
LEMMA StageKeys == ASSUME NEW s \in Slots PROVE <<s, 1>> \in Keys /\ <<s, 2>> \in Keys
  BY DEF Keys, Stages

\* The receipt that counts.
LEMMA LastReceipt ==
  ASSUME NEW s \in Slots, Receipts(s) # {}
  PROVE  /\ Max(Receipts(s)) = IF receipt[<<s, 2>>] # "NONE" THEN 2 ELSE 1
         /\ Max(Receipts(s)) \in Receipts(s)
  <1>1. \A n \in Receipts(s) : n \in {1, 2} /\ receipt[<<s, n>>] # "NONE"
    BY DEF Receipts, Stages
  <1>2. CASE receipt[<<s, 2>>] # "NONE"
    <2>1. 2 \in Receipts(s) /\ \A n \in Receipts(s) : 2 >= n
      BY <1>1, <1>2 DEF Receipts, Stages
    <2>2. ASSUME NEW m \in Receipts(s), \A n \in Receipts(s) : m >= n PROVE m = 2
      <3>1. m >= 2 /\ m \in {1, 2}
        BY <1>1, <2>1, <2>2
      <3> QED BY <3>1
    <2> QED BY <1>2, <2>1, <2>2 DEF Max
  <1>3. CASE receipt[<<s, 2>>] = "NONE"
    <2>1. Receipts(s) = {1}
      BY <1>1, <1>3
    <2> QED BY <1>3, <2>1 DEF Max
  <1> QED BY <1>2, <1>3

\* A key in turn without a receipt: its slot is not executed, and there is only one.
LEMMA PendingNotExecuted ==
  ASSUME CycleInv, AccountInv, NEW k \in Keys, Pending(k)
  PROVE  ~Executed(k[1])
  <1>1. PICK s \in Slots, n \in Stages : k = <<s, n>>
    BY DEF Keys
  <1>2. CASE n = 1
    <2>1. receipt[<<s, 1>>] = "NONE"
      BY <1>1, <1>2 DEF Pending
    <2>2. receipt[<<s, 2>>] = "NONE"
      <3>1. receipt[<<s, 2>>] # "NONE" => InTurn(<<s, 2>>)
        BY StageKeys, ReceiptMade
      <3> QED BY <2>1, <3>1 DEF InTurn
    <2>3. Receipts(s) = {}
      BY <2>1, <2>2 DEF Receipts, Stages
    <2> QED BY <1>1, <2>3 DEF Executed
  <1>3. CASE n = 2
    <2>1. receipt[<<s, 2>>] = "NONE" /\ receipt[<<s, 1>>] = "CLEAN" /\ Reversal(dec[<<s, 1>>])
      BY <1>1, <1>3 DEF Pending, InTurn
    <2>2. Receipts(s) # {}
      BY <2>1 DEF Receipts, Stages
    <2> QED BY <1>1, <2>1, <2>2, LastReceipt DEF Executed
  <1> QED BY <1>2, <1>3 DEF Stages

\* One decision is in turn at a time.
LEMMA PendingUnique ==
  ASSUME CycleInv, AccountInv, NEW k \in Keys, Pending(k), NEW l \in Keys, Pending(l)
  PROVE  k = l
  <1>1. PICK s \in Slots, n \in Stages : k = <<s, n>>
    BY DEF Keys
  <1>2. PICK r \in Slots, m \in Stages : l = <<r, m>>
    BY DEF Keys
  <1>3. ~Executed(s) /\ ~Executed(r)
    BY <1>1, <1>2, PendingNotExecuted
  <1>4. s = r
    <2>1. s \in Int /\ r \in Int /\ s >= 1 /\ r >= 1
      BY DEF Slots
    <2>2. ~(r \in 1..(s - 1)) /\ ~(s \in 1..(r - 1))
      BY <1>1, <1>2, <1>3 DEF Pending, InTurn
    <2> QED BY <2>1, <2>2
  <1>5. n = m
    BY <1>1, <1>2, <1>4 DEF Pending, InTurn, Stages
  <1> QED BY <1>1, <1>2, <1>4, <1>5

\* What a decision plans is what it asks for, also at the forced flat.
LEMMA PlannedIs ==
  ASSUME CycleInv, AccountInv, NEW k \in Keys, dec[k].made
  PROVE  Planned(k) = Intents(dec[k])
  <1>1. CASE k[1] = Forced
    <2>1. dec[k].target = Flat
      BY <1>1 DEF AccountInv, AccountTypes, DecidedInTurn
    <2>2. dec[k] \in [target : [Symbols -> Units], base : [Symbols -> Units], made : BOOLEAN]
      BY DEF AccountInv, AccountTypes
    <2>3. [dec[k] EXCEPT !.target = Flat] = dec[k]
      BY <2>1, <2>2
    <2> QED BY <1>1, <2>3 DEF Planned, PlanAt
  <1>2. CASE k[1] # Forced
    BY <1>2 DEF Planned, PlanAt
  <1> QED BY <1>1, <1>2

\* Nothing is in turn after the forced flat.
LEMMA ForcedIsLast ==
  ASSUME CycleInv, AccountInv, NEW n \in Stages, receipt[<<Forced, n>>] = "CLEAN", NEW k \in Keys
  PROVE  ~Pending(k)
  <1>1. Forced \in Slots /\ <<Forced, n>> \in Keys
    BY ServiceCyclesAssumption DEF Forced, Slots, Keys, ServiceCyclesAssumption
  <1>2. \A m \in Stages : dec[<<Forced, m>>].made => ~Reversal(dec[<<Forced, m>>])
    <2> SUFFICES ASSUME NEW m \in Stages, dec[<<Forced, m>>].made, NEW y \in Symbols
                 PROVE  ~(dec[<<Forced, m>>].base[y] * dec[<<Forced, m>>].target[y] < 0)
      BY DEF Reversal
    <2>1. <<Forced, m>> \in Keys
      BY <1>1 DEF Keys
    <2>2. dec[<<Forced, m>>].target = Flat
      BY <2>1 DEF AccountInv, AccountTypes, DecidedInTurn
    <2>3. dec[<<Forced, m>>].base[y] \in Units /\ dec[<<Forced, m>>].target[y] = 0
      BY <2>1, <2>2, WorthType DEF AccountInv, Flat
    <2> QED BY <2>3 DEF Units
  <1>3. Executed(Forced)
    <2>1. n \in Receipts(Forced)
      BY DEF Receipts
    <2>2. \A m \in Receipts(Forced) :
            m \in Stages /\ receipt[<<Forced, m>>] = "CLEAN" /\ dec[<<Forced, m>>].made
      BY <1>1, ReceiptMade DEF Receipts, Keys
    <2>3. Max(Receipts(Forced)) \in Receipts(Forced)
      BY <1>1, <2>1, LastReceipt
    <2> QED BY <1>2, <2>1, <2>2, <2>3 DEF Executed
  <1>4. InTurn(<<Forced, n>>)
    BY <1>1, ReceiptMade
  <1>5. PICK s \in Slots, m \in Stages : k = <<s, m>>
    BY DEF Keys
  <1> SUFFICES ASSUME Pending(k) PROVE FALSE
    OBVIOUS
  <1>6. ~Executed(s) /\ signal[s].made
    BY <1>5, PendingNotExecuted DEF Pending, InTurn
  <1>7. s # Forced /\ s \in 1..(Forced - 1)
    BY <1>3, <1>6, ServiceCyclesAssumption DEF Slots, Forced, ServiceCyclesAssumption
  <1> QED BY <1>4, <1>6, <1>7 DEF InTurn
-----------------------------------------------------------------------------
\* An executed slot stays executed while receipts stay, and decisions with one.
LEMMA ExecutedSame ==
  ASSUME UNCHANGED receipt, \A k \in Keys : receipt[k] # "NONE" => dec'[k] = dec[k],
         NEW s \in Slots
  PROVE  Executed(s)' <=> Executed(s)
  <1>1. Receipts(s)' = Receipts(s)
    BY DEF Receipts
  <1>2. CASE Receipts(s) = {}
    BY <1>1, <1>2 DEF Executed
  <1>3. CASE Receipts(s) # {}
    <2> DEFINE m == Max(Receipts(s))
    <2>2. m \in Receipts(s)
      BY <1>3, LastReceipt
    <2>3. dec'[<<s, m>>] = dec[<<s, m>>]
      BY <2>2 DEF Receipts, Keys
    <2>4. Max(Receipts(s))' = m
      BY <1>1 DEF Max
    <2> HIDE DEF m
    <2>5. Executed(s) <=> (\A n \in Receipts(s) : receipt[<<s, n>>] = "CLEAN") /\ ~Reversal(dec[<<s, m>>])
      BY <1>3 DEF Executed, m
    <2>6. Executed(s)' <=>
            (\A n \in Receipts(s) : receipt[<<s, n>>] = "CLEAN") /\ ~Reversal(dec'[<<s, m>>])
      BY <1>1, <1>3, <2>4 DEF Executed
    <2> QED BY <2>3, <2>5, <2>6
  <1> QED BY <1>2, <1>3

\* A key stays in turn while no earlier slot gets a signal and what is reconciled
\* stays.
LEMMA InTurnStays ==
  ASSUME \A s \in Slots : signal[s].made => signal'[s].made,
         \A s \in Slots : \A r \in 1..(s - 1) : signal[s].made /\ signal'[r].made => signal[r].made,
         \A s \in Slots : Executed(s) => Executed(s)',
         \A k \in Keys : receipt[k] = "CLEAN" => receipt'[k] = "CLEAN" /\ dec'[k] = dec[k],
         NEW k \in Keys, InTurn(k)
  PROVE  InTurn(k)'
  <1>1. PICK s \in Slots, n \in Stages : k = <<s, n>>
    BY DEF Keys
  <1>2. \A r \in 1..(s - 1) : r \in Slots
    BY ServiceCyclesAssumption DEF Slots, Forced, ServiceCyclesAssumption
  <1>3. /\ signal[s].made /\ \A r \in 1..(s - 1) : signal[r].made => Executed(r)
        /\ n = 2 => receipt[<<s, 1>>] = "CLEAN" /\ Reversal(dec[<<s, 1>>])
    BY <1>1 DEF InTurn
  <1>4. signal'[s].made /\ \A r \in 1..(s - 1) : signal'[r].made => Executed(r)'
    BY <1>2, <1>3
  <1>5. n = 2 => receipt'[<<s, 1>>] = "CLEAN" /\ Reversal(dec[<<s, 1>>])'
    BY <1>3, StageKeys DEF Reversal
  <1> QED BY <1>1, <1>4, <1>5 DEF InTurn

\* Signals, receipts and reconciled decisions stay.
LEMMA InTurnSame ==
  ASSUME UNCHANGED <<signal, receipt>>, \A k \in Keys : receipt[k] # "NONE" => dec'[k] = dec[k],
         NEW k \in Keys
  PROVE  InTurn(k) => InTurn(k)'
  BY ExecutedSame, InTurnStays
-----------------------------------------------------------------------------
\* The collector, the scheduler, the strategy and the operator: no earlier slot
\* gets a signal, and the forced flat is completed after a clean receipt.
LEMMA OthersAccount ==
  ASSUME CycleInv, AccountInv, UNCHANGED <<dec, order, receipt>>, UNCHANGED exec \/ exec' = Idle,
         DOMAIN slot' = Slots, signal' \in [Slots -> [made : BOOLEAN, wants : [Symbols -> Units]]],
         signal'[Forced].wants = Flat, SlotsInOrder',
         \A s \in Slots : signal[s].made => signal'[s] = signal[s],
         \A s \in Slots : \A r \in 1..(s - 1) : signal[s].made /\ signal'[r].made => signal[r].made,
         slot'[Forced] = "COMPLETED" =>
           slot[Forced] = "COMPLETED" \/ \E n \in Stages : receipt[<<Forced, n>>] = "CLEAN"
  PROVE  AccountInv'
  <1>1. exec'.todo \subseteq Symbols /\ (exec'.pc \in {"start", "apply"} => exec'.intent \in Symbols)
        /\ (exec'.pc # "idle" => UNCHANGED exec)
    BY DEF AccountInv, AccountTypes, Idle
  <1>2. AccountTypes' /\ ReceiptsClean'
    BY <1>1 DEF AccountInv, AccountTypes, ReceiptsClean
  <1>3. \A k \in Keys : InTurn(k) => InTurn(k)'
    <2>1. \A s \in Slots : Executed(s) => Executed(s)'
      BY ExecutedSame
    <2> QED BY <2>1, InTurnStays
  <1>4. DecidedInTurn'
    <2>1. ASSUME NEW k \in Keys, dec'[k].made
          PROVE  InTurn(k)' /\ dec'[k].target \in {Flat, signal'[k[1]].wants}
      <3>1. InTurn(k) /\ dec[k].target \in {Flat, signal[k[1]].wants}
        BY <2>1 DEF AccountInv, DecidedInTurn
      <3>2. signal[k[1]].made /\ k[1] \in Slots
        BY <3>1 DEF InTurn, Keys
      <3> QED BY <1>3, <3>1, <3>2
    <2>2. ASSUME NEW k \in Keys, exec'.pc # "idle", k = Key' PROVE Pending(k)'
      <3>1. Pending(k)
        BY <1>1, <2>2 DEF AccountInv, DecidedInTurn, Key
      <3> QED BY <1>3, <3>1 DEF Pending
    <2> QED BY <2>1, <2>2 DEF DecidedInTurn
  <1>5. \A k \in Keys, y \in Symbols : Worth(k, y)' = Worth(k, y)
    BY DEF Worth
  <1>6. Position' = Position
    BY <1>5, PositionKept
  <1>7. AccountMatches'
    BY <1>1, <1>5, <1>6 DEF AccountInv, AccountMatches
  <1>8. ReversalsEnd'
    <2> SUFFICES ASSUME NEW s \in Slots
                 PROVE  /\ dec[<<s, 2>>].made => ~Reversal(dec[<<s, 2>>])
                        /\ ~dec[<<s, 2>>].made /\ receipt[<<s, 1>>] = "CLEAN" /\ Reversal(dec[<<s, 1>>]) =>
                             \A y \in Symbols : Position[y] * signal'[s].wants[y] >= 0
      BY <1>6 DEF ReversalsEnd, Reversal
    <2>1. receipt[<<s, 1>>] = "CLEAN" => signal[s].made
      BY StageKeys, ReceiptMade DEF InTurn
    <2> QED BY <2>1 DEF AccountInv, ReversalsEnd
  <1>9. ForcedFlattens'
    BY <1>6 DEF AccountInv, ForcedFlattens
  <1> QED BY <1>2, <1>4, <1>7, <1>8, <1>9 DEF AccountInv

\* The execution worker goes on without a trade.
LEMMA WorkerAccount ==
  ASSUME CycleInv, AccountInv, UNCHANGED <<slot, signal, dec, receipt>>,
         \A k \in Keys, y \in Symbols : Worth(k, y)' = Worth(k, y),
         exec'.todo \subseteq Symbols, exec'.pc \in {"start", "apply"} => exec'.intent \in Symbols,
         NEW k \in Keys, Key' = k, Pending(k), exec'.pos = Position
  PROVE  AccountInv'
  <1>1. AccountTypes' /\ ReceiptsClean' /\ SlotsInOrder'
    BY DEF AccountInv, AccountTypes, ReceiptsClean, SlotsInOrder
  <1>2. \A l \in Keys : InTurn(l) => InTurn(l)'
    BY InTurnSame
  <1>3. DecidedInTurn'
    BY <1>2 DEF AccountInv, DecidedInTurn, Pending
  <1>4. Position' = Position
    BY PositionKept
  <1>5. AccountMatches'
    BY <1>4 DEF AccountInv, AccountMatches
  <1>6. ReversalsEnd' /\ ForcedFlattens'
    BY <1>4 DEF AccountInv, ReversalsEnd, ForcedFlattens, Reversal
  <1> QED BY <1>1, <1>3, <1>5, <1>6 DEF AccountInv

\* The orders of the decision in turn trade.
LEMMA TradeAccount ==
  ASSUME CycleInv, CycleInv', AccountInv, UNCHANGED <<slot, signal, dec, receipt>>,
         NEW k \in Keys, dec[k].made, receipt[k] = "NONE",
         \A l \in Keys \ {k} : order'[l] = order[l],
         exec'.todo \subseteq Symbols, exec'.pc \in {"start", "apply"} => exec'.intent \in Symbols,
         Key' = k, exec'.pos = Position'
  PROVE  AccountInv'
  <1>1. AccountTypes' /\ ReceiptsClean' /\ SlotsInOrder'
    BY DEF AccountInv, AccountTypes, ReceiptsClean, SlotsInOrder
  <1>2. Pending(k)
    BY DEF AccountInv, DecidedInTurn, Pending
  <1>3. \A l \in Keys : InTurn(l) => InTurn(l)'
    BY InTurnSame
  <1>4. DecidedInTurn'
    BY <1>2, <1>3 DEF AccountInv, DecidedInTurn, Pending
  <1>5. \A y \in Symbols : Position'[y] = dec[k].base[y] + Worth(k, y)'
    <2>1. \A l \in Keys, y \in Symbols : Worth(l, y) \in Int /\ Worth(l, y)' \in Int
      <3>1. \A l \in Keys, y \in Symbols : Worth(l, y) \in Int
        BY WorthType DEF AccountInv
      <3>2. \A l \in Keys, y \in Symbols : dec[l].base[y] \in Units /\ dec[l].target[y] \in Units
        BY WorthType DEF AccountInv
      <3> QED BY <3>1, <3>2 DEF Worth, Delta, Units
    <2>2. \A l \in Keys \ {k}, y \in Symbols : Worth(l, y)' = Worth(l, y)
      BY DEF Worth
    <2>3. \A y \in Symbols : Position'[y] = Position[y] + (Worth(k, y)' - Worth(k, y))
      BY <2>1, <2>2, PositionMoves
    <2>4. \A y \in Symbols : Position[y] = dec[k].base[y] + Worth(k, y) /\ dec[k].base[y] \in Int
      BY WorthType DEF AccountInv, AccountMatches, Units
    <2> QED BY <2>1, <2>3, <2>4
  <1>6. \A y \in Symbols : Position'[y] \in Units
    <2> SUFFICES ASSUME NEW y \in Symbols PROVE Position'[y] \in Units
      OBVIOUS
    <2> DEFINE b == dec[k].base[y]
               t == dec[k].target[y]
    <2>1. b \in Units /\ t \in Units
      BY WorthType DEF AccountInv
    <2>2. order'[k][y] = "FILLED" => y \in Exits(dec[k]) \/ y \in Entries(dec[k])
      <3>1. order'[k][y] = "FILLED" => y \in Planned(k)'
        BY DEF CycleInv, OrdersPlanned
      <3>2. Planned(k)' = Planned(k)
        BY DEF Planned
      <3> QED BY <3>1, <3>2, PlannedIs DEF Intents
    <2>3. Worth(k, y)' = IF order'[k][y] = "FILLED" THEN Delta(dec[k], y) ELSE 0
      BY DEF Worth
    <2>4. y \in Entries(dec[k]) => b = 0
      BY DEF Entries
    <2>5. Delta(dec[k], y) = IF y \in Exits(dec[k]) THEN -b ELSE t
      BY DEF Delta
    <2> HIDE DEF b, t
    <2>6. Position'[y] = b + Worth(k, y)'
      BY <1>5 DEF b
    <2> QED BY <2>1, <2>2, <2>3, <2>4, <2>5, <2>6 DEF Units
  <1>7. AccountMatches'
    <2> SUFFICES ASSUME NEW l \in Keys, NEW y \in Symbols, dec[l].made, receipt[l] = "NONE"
                 PROVE  Position'[y] = dec[l].base[y] + Worth(l, y)'
      BY <1>6 DEF AccountMatches
    <2>1. Pending(l)
      BY DEF AccountInv, DecidedInTurn, Pending
    <2>2. l = k
      BY <1>2, <2>1, PendingUnique
    <2> QED BY <1>5, <2>2
  <1>8. ReversalsEnd'
    <2> SUFFICES ASSUME NEW s \in Slots
                 PROVE  /\ dec[<<s, 2>>].made => ~Reversal(dec[<<s, 2>>])
                        /\ ~(~dec[<<s, 2>>].made /\ receipt[<<s, 1>>] = "CLEAN" /\ Reversal(dec[<<s, 1>>]))
      BY DEF ReversalsEnd, Reversal
    <2>1. dec[<<s, 2>>].made => ~Reversal(dec[<<s, 2>>])
      BY DEF AccountInv, ReversalsEnd
    <2>2. ASSUME ~dec[<<s, 2>>].made, receipt[<<s, 1>>] = "CLEAN", Reversal(dec[<<s, 1>>]) PROVE FALSE
      <3>1. <<s, 1>> \in Keys /\ <<s, 2>> \in Keys
        BY StageKeys
      <3>2. InTurn(<<s, 1>>) /\ receipt[<<s, 2>>] = "NONE"
        BY <2>2, <3>1, ReceiptMade
      <3>3. Pending(<<s, 2>>)
        BY <2>2, <3>2 DEF InTurn, Pending
      <3> QED BY <1>2, <2>2, <3>1, <3>3, PendingUnique
    <2> QED BY <2>1, <2>2
  <1>9. ForcedFlattens'
    BY <1>2, ForcedIsLast DEF AccountInv, ForcedFlattens
  <1> QED BY <1>1, <1>4, <1>7, <1>8, <1>9 DEF AccountInv
-----------------------------------------------------------------------------
\* The orders of every other key are final.
LEMMA OthersFinal ==
  ASSUME CycleInv, AccountInv, NEW k \in Keys, Pending(k), NEW l \in Keys \ {k}, NEW y \in Symbols
  PROVE  order[l][y] \in {"NONE", "FILLED"}
  <1>1. CASE receipt[l] = "CLEAN"
    BY <1>1 DEF CycleInv, CleanIsCarriedOut, OrdersPlanned
  <1>2. CASE receipt[l] # "CLEAN"
    <2>1. receipt[l] = "NONE"
      BY <1>2, ReceiptMade
    <2>2. ~Pending(l)
      BY PendingUnique
    <2>3. ~dec[l].made
      BY <2>1, <2>2 DEF AccountInv, DecidedInTurn, Pending
    <2> QED BY <2>3 DEF CycleInv, OrdersPlanned
  <1> QED BY <1>1, <1>2

\* What the rebuilt broker holds.
LEMMA RebuiltIs ==
  ASSUME NEW y \in Symbols
  PROVE  Rebuilt({"STARTED", "FILLED"})[y] =
           Total([k \in Keys |-> IF order[k][y] \in {"STARTED", "FILLED"} THEN Delta(dec[k], y) ELSE 0], Keys)
  BY DEF Rebuilt, Traded, Total, MapThenSumSet, MapThenFoldSet

\* What restoring a started order trades is what the rebuilt broker holds.
LEMMA RestoredIs ==
  ASSUME order' = Restored, UNCHANGED dec
  PROVE  Rebuilt({"STARTED", "FILLED"}) = Position'
  <1> SUFFICES ASSUME NEW y \in Symbols PROVE Rebuilt({"STARTED", "FILLED"})[y] = Position'[y]
    BY DEF Position, Rebuilt
  <1> DEFINE g == [k \in Keys |-> IF order[k][y] \in {"STARTED", "FILLED"} THEN Delta(dec[k], y) ELSE 0]
  <1>1. \A k \in Keys : Worth(k, y)' = g[k]
    BY DEF Worth, Restored
  <1>2. Worths(y)' = g
    BY <1>1 DEF Worths
  <1> HIDE DEF g
  <1>3. Rebuilt({"STARTED", "FILLED"})[y] = Total(g, Keys)
    BY RebuiltIs DEF g
  <1> QED BY <1>2, <1>3, PositionIs

\* The key that is due is in turn.
LEMMA DueIsPending ==
  ASSUME CycleInv, AccountInv, NEW s \in Slots, Due(s)
  PROVE  Pending(<<s, IF Receipts(s) = {} THEN 1 ELSE 2>>)
  <1>1. signal[s].made /\ \A r \in 1..(s - 1) : signal[r].made => Executed(r)
    BY DEF Due
  <1>2. CASE Receipts(s) = {}
    <2>1. receipt[<<s, 1>>] = "NONE"
      BY <1>2 DEF Receipts, Stages
    <2> QED BY <1>1, <1>2, <2>1 DEF Pending, InTurn
  <1>3. CASE Receipts(s) # {}
    <2>1. Reversal(dec[<<s, Max(Receipts(s))>>])
      BY <1>3 DEF Due, Executed
    <2>2. receipt[<<s, 2>>] = "NONE"
      <3> SUFFICES ASSUME receipt[<<s, 2>>] # "NONE" PROVE FALSE
        OBVIOUS
      <3>1. dec[<<s, 2>>].made
        BY StageKeys, ReceiptMade
      <3>2. ~Reversal(dec[<<s, 2>>])
        BY <3>1 DEF AccountInv, ReversalsEnd
      <3> QED BY <1>3, <2>1, <3>2, LastReceipt
    <2>3. Reversal(dec[<<s, 1>>])
      BY <1>3, <2>1, <2>2, LastReceipt
    <2>4. receipt[<<s, 1>>] = "CLEAN"
      <3>1. PICK n \in Receipts(s) : TRUE
        BY <1>3
      <3>2. n = 1 /\ receipt[<<s, n>>] = "CLEAN"
        BY <2>2, <3>1 DEF Receipts, Stages, Due
      <3> QED BY <3>2
    <2> QED BY <1>1, <1>3, <2>2, <2>3, <2>4 DEF Pending, InTurn
  <1> QED BY <1>2, <1>3

\* The broker is restored: at most the decision in turn had an order under way.
LEMMA BeginAccount ==
  ASSUME CycleInv, CycleInv', AccountInv, NEW s \in Slots, Begin(s) PROVE AccountInv'
  <1> DEFINE n == IF Receipts(s) = {} THEN 1 ELSE 2
             k == <<s, n>>
             made == dec[<<s, n>>].made
             pos == Rebuilt({"STARTED", "FILLED"})
  <1>1. /\ order' = Restored /\ UNCHANGED <<slot, signal, dec, receipt>>
        /\ exec' = [Idle EXCEPT !.pc = IF made THEN "plan" ELSE "persist",
                                !.slot = s, !.stage = n, !.read = latch, !.pos = pos]
        /\ Due(s)
    BY DEF Begin
  <1>2. k \in Keys
    BY StageKeys
  <1>3. Pending(k)
    BY <1>1, DueIsPending
  <1> HIDE DEF n, made, pos
  <1>4. /\ Key' = k /\ exec'.pos = pos /\ exec'.todo = {} /\ exec'.pc \notin {"start", "apply"}
    BY <1>1 DEF Idle, Key
  <1>5. pos = Position'
    BY <1>1, RestoredIs DEF pos
  <1> HIDE DEF k
  <1>6. \A l \in Keys \ {k} : order'[l] = order[l]
    <2> TAKE l \in Keys \ {k}
    <2>1. \A y \in Symbols : order[l][y] # "STARTED"
      BY <1>2, <1>3, OthersFinal
    <2>2. order[l] \in [Symbols -> OrderState]
      BY DEF CycleInv, CycleTypes
    <2>3. order'[l] = [y \in Symbols |-> IF order[l][y] = "STARTED" THEN "FILLED" ELSE order[l][y]]
      BY <1>1 DEF Restored
    <2> QED BY <2>1, <2>2, <2>3
  <1>7. CASE dec[k].made
    BY <1>1, <1>2, <1>3, <1>4, <1>5, <1>6, <1>7, TradeAccount DEF Pending
  <1>8. CASE ~dec[k].made
    <2>1. \A y \in Symbols : order[k][y] = "NONE" /\ order'[k][y] = "NONE"
      BY <1>1, <1>2, <1>8 DEF CycleInv, OrdersPlanned
    <2>2. \A l \in Keys, y \in Symbols : Worth(l, y)' = Worth(l, y)
      BY <1>1, <1>6, <2>1 DEF Worth
    <2>3. Position' = Position
      BY <2>2, PositionKept
    <2> QED BY <1>1, <1>2, <1>3, <1>4, <1>5, <2>2, <2>3, WorkerAccount
  <1> QED BY <1>7, <1>8
-----------------------------------------------------------------------------
\* A worker that goes back to the start of its cycle.
LEMMA RaisesAccount ==
  ASSUME CycleInv, AccountInv, UNCHANGED <<slot, signal, dec, order, receipt>>, exec' = Idle
  PROVE  AccountInv'
  BY OthersAccount DEF AccountInv, AccountTypes, SlotsInOrder

\* persist: the decision begins with the account, and reverses it at most in the
\* first stage.
LEMMA DecideAccount ==
  ASSUME CycleInv, AccountInv, PersistDecision PROVE AccountInv'
  <1>1. CASE Raises /\ UNCHANGED <<latch, dec>>
    BY <1>1, RaisesAccount DEF Raises, PersistDecision
  <1>2. CASE Decides
    <2> DEFINE d == Evaluated
    <2>0. PICK k \in Keys : k = Key
      BY DEF PersistDecision, At, CycleInv, CycleTypes
    <2>1. /\ k \in Keys /\ ~dec[k].made /\ Pending(k) /\ exec.pos = Position
          /\ dec' = [dec EXCEPT ![k] = d] /\ exec' = [exec EXCEPT !.pc = "plan"]
          /\ UNCHANGED <<slot, signal, order, receipt>>
      BY <1>2, <2>0 DEF PersistDecision, At, Decides, CycleInv, CycleTypes, DecisionFirst,
                  AccountInv, DecidedInTurn, AccountMatches
    <2>2. /\ exec'.pc = "plan" /\ exec'.todo = exec.todo /\ exec'.pos = exec.pos /\ Key' = k
      BY <2>0, <2>1 DEF CycleInv, CycleTypes, ExecFields, Key
    <2>3. /\ d \in [target : [Symbols -> Units], base : [Symbols -> Units], made : BOOLEAN]
          /\ d.made /\ d.base = Position /\ d.target \in {Flat, signal[k[1]].wants}
      <3>1. k[1] = exec.slot /\ k[1] \in Slots
        BY <2>0, <2>1 DEF Key, Keys
      <3>2. Position \in [Symbols -> Units]
        BY DEF AccountInv, AccountMatches, Position, Rebuilt
      <3>3. Flat \in [Symbols -> Units] /\ signal[k[1]].wants \in [Symbols -> Units]
        BY <3>1 DEF Flat, Units, AccountInv, AccountTypes
      <3>4. d.made /\ d.base = Position /\ d.target \in {Flat, signal[exec.slot].wants}
        BY <2>1 DEF Evaluated
      <3>5. d = [made |-> TRUE, base |-> d.base, target |-> d.target]
        BY DEF Evaluated
      <3> HIDE DEF d
      <3> QED BY <3>1, <3>2, <3>3, <3>4, <3>5
    <2> HIDE DEF d
    <2>4. dec'[k] = d /\ \A l \in Keys \ {k} : dec'[l] = dec[l]
      BY <2>1 DEF CycleInv, CycleTypes
    <2>5. AccountTypes' /\ ReceiptsClean' /\ SlotsInOrder'
      BY <2>1, <2>2, <2>3 DEF AccountInv, AccountTypes, ReceiptsClean, SlotsInOrder
    <2>6. \A y \in Symbols : Worth(k, y) = 0 /\ Worth(k, y)' = 0
      BY <2>1 DEF CycleInv, OrdersPlanned, Worth
    <2>7. \A l \in Keys, y \in Symbols : Worth(l, y)' = Worth(l, y)
      BY <2>1, <2>4, <2>6 DEF Worth
    <2>8. Position' = Position
      BY <2>7, PositionKept
    <2>9. \A l \in Keys : InTurn(l) => InTurn(l)'
      <3>1. \A l \in Keys : receipt[l] # "NONE" => dec'[l] = dec[l]
        BY <2>1, <2>4 DEF Pending
      <3> QED BY <2>1, <3>1, InTurnSame
    <2>10. DecidedInTurn'
      <3>1. ASSUME NEW l \in Keys, dec'[l].made
            PROVE  InTurn(l)' /\ dec'[l].target \in {Flat, signal'[l[1]].wants}
        <4>1. CASE l = k
          BY <2>1, <2>3, <2>4, <2>9, <4>1 DEF Pending
        <4>2. CASE l # k
          BY <2>1, <2>4, <2>9, <3>1, <4>2 DEF AccountInv, DecidedInTurn
        <4> QED BY <4>1, <4>2
      <3>2. ASSUME NEW l \in Keys, l = Key' PROVE Pending(l)'
        BY <2>1, <2>2, <2>9, <3>2 DEF Pending
      <3> QED BY <3>1, <3>2 DEF DecidedInTurn
    <2>11. AccountMatches'
      <3>1. ASSUME NEW l \in Keys, NEW y \in Symbols, dec'[l].made, receipt[l] = "NONE"
            PROVE  Position[y] = dec'[l].base[y] + Worth(l, y)'
        <4>1. CASE l = k
          <5>1. Position[y] \in Int
            BY DEF AccountInv, AccountMatches, Units
          <5> QED BY <2>3, <2>4, <2>6, <4>1, <5>1
        <4>2. CASE l # k
          BY <2>4, <2>7, <3>1, <4>2 DEF AccountInv, AccountMatches
        <4> QED BY <4>1, <4>2
      <3> QED BY <2>1, <2>2, <2>8, <3>1 DEF AccountInv, AccountMatches
    <2>12. ReversalsEnd'
      <3>1. ASSUME NEW s \in Slots, dec'[<<s, 2>>].made PROVE ~Reversal(dec'[<<s, 2>>])
        <4>1. CASE <<s, 2>> = k
          <5> SUFFICES ASSUME NEW y \in Symbols PROVE ~(d.base[y] * d.target[y] < 0)
            BY <2>4, <4>1 DEF Reversal
          <5>1. receipt[<<s, 1>>] = "CLEAN" /\ Reversal(dec[<<s, 1>>]) /\ ~dec[<<s, 2>>].made
            BY <2>1, <4>1 DEF Pending, InTurn
          <5>2. Position[y] * signal[s].wants[y] >= 0
            BY <5>1 DEF AccountInv, ReversalsEnd
          <5>3. d.target[y] = 0 \/ d.target[y] = signal[s].wants[y]
            BY <2>3, <4>1 DEF Flat
          <5>4. Position[y] \in Units /\ signal[s].wants[y] \in Units
            BY DEF AccountInv, AccountMatches, AccountTypes
          <5> QED BY <2>3, <5>2, <5>3, <5>4 DEF Units
        <4>2. CASE <<s, 2>> # k
          BY <2>4, <3>1, <4>2, StageKeys DEF AccountInv, ReversalsEnd
        <4> QED BY <4>1, <4>2
      <3>2. ASSUME NEW s \in Slots, ~dec'[<<s, 2>>].made, receipt[<<s, 1>>] = "CLEAN",
                   Reversal(dec'[<<s, 1>>]), NEW y \in Symbols
            PROVE  Position[y] * signal[s].wants[y] >= 0
        <4>1. <<s, 2>> # k /\ <<s, 1>> # k
          BY <2>1, <2>3, <2>4, <3>2 DEF Pending
        <4> QED BY <2>4, <3>2, <4>1, StageKeys DEF AccountInv, ReversalsEnd
      <3> QED BY <2>1, <2>8, <3>1, <3>2 DEF ReversalsEnd
    <2>13. ForcedFlattens'
      BY <2>1, <2>8 DEF AccountInv, ForcedFlattens
    <2> QED BY <2>5, <2>10, <2>11, <2>12, <2>13 DEF AccountInv
  <1> QED BY <1>1, <1>2 DEF PersistDecision
\* The plan and its intents are persisted, or found.
LEMMA PlanAccount == ASSUME CycleInv, AccountInv, PersistPlan PROVE AccountInv'
  <1> DEFINE todo == Planned(Key)
             active == Active # {}
  <1>1. PICK k \in Keys : k = Key
    BY DEF PersistPlan, At, CycleInv, CycleTypes
  <1>2. Pending(k) /\ exec.pos = Position
    BY <1>1 DEF PersistPlan, At, AccountInv, DecidedInTurn, AccountMatches
  <1>3. /\ order' = [order EXCEPT ![k] = [y \in Symbols |->
                       IF y \in todo /\ @[y] = "NONE" THEN "COMMITTED" ELSE @[y]]]
        /\ exec' = [exec EXCEPT !.pc = "submit", !.blocking = active, !.todo = todo]
        /\ UNCHANGED <<slot, signal, dec, receipt>>
    BY <1>1, PlanOfKey DEF PersistPlan, Planned, At
  <1>4. todo \subseteq Symbols
    BY PlannedSymbols DEF Planned
  <1> HIDE DEF todo, active
  <1>5. exec'.pc = "submit" /\ exec'.todo = todo /\ exec'.pos = exec.pos /\ Key' = k
    BY <1>1, <1>3 DEF CycleInv, CycleTypes, ExecFields, Key
  <1>6. \A l \in Keys, y \in Symbols : order'[l][y] = "FILLED" <=> order[l][y] = "FILLED"
    BY <1>3 DEF CycleInv, CycleTypes
  <1>7. \A l \in Keys, y \in Symbols : Worth(l, y)' = Worth(l, y)
    BY <1>3, <1>6 DEF Worth
  <1> QED BY <1>2, <1>3, <1>4, <1>5, <1>7, WorkerAccount

\* submit_plan takes an intent that is left.
LEMMA FirstSymbol ==
  ASSUME NEW S \in SUBSET Symbols, S # {} PROVE First(S) \in Symbols
  <1> DEFINE exits == S \cap Exits(dec[Key])
             T == IF exits # {} THEN exits ELSE S
  <1>1. T # {} /\ T \subseteq Symbols /\ T \subseteq Nat
    BY ServiceCyclesAssumption DEF ServiceCyclesAssumption
  <1>2. First(S) = Min(T)
    BY DEF First
  <1> HIDE DEF T
  <1>3. \E m \in T : \A r \in T : m <= r
    <2> DEFINE R == OpToRel(<, Nat)
    <2>1. R = {ss \in Nat \X Nat : ss[1] < ss[2]}
      BY DEF OpToRel
    <2>2. IsWellFoundedOn(R, Nat)
      BY NatLessThanWellFounded
    <2> HIDE DEF R
    <2>3. PICK m \in T : \A r \in T : ~(<<r, m>> \in R)
      BY <1>1, <2>2, WFMin
    <2>4. \A r \in T : m <= r
      <3> TAKE r \in T
      <3>1. m \in Nat /\ r \in Nat /\ ~(r < m)
        BY <1>1, <2>1, <2>3
      <3> QED BY <3>1
    <2> QED BY <2>4
  <1>4. Min(T) \in T
    BY <1>3 DEF Min
  <1> QED BY <1>1, <1>2, <1>4

\* An intent is authorized, or its outcome is kept: nothing trades.
LEMMA SubmitAccount ==
  ASSUME CycleInv, AccountInv, UNCHANGED <<slot, signal, dec, receipt>>, exec.pc # "idle",
         \A l \in Keys, y \in Symbols : order'[l][y] = "FILLED" <=> order[l][y] = "FILLED",
         exec'.slot = exec.slot, exec'.stage = exec.stage, exec'.pos = exec.pos,
         exec'.todo \subseteq Symbols, exec'.pc \in {"start", "apply"} => exec'.intent \in Symbols
  PROVE  AccountInv'
  <1>1. PICK k \in Keys : k = Key
    BY DEF CycleInv, CycleTypes
  <1>2. Pending(k) /\ exec'.pos = Position /\ Key' = k
    BY <1>1 DEF AccountInv, DecidedInTurn, AccountMatches, Key
  <1>3. \A l \in Keys, y \in Symbols : Worth(l, y)' = Worth(l, y)
    BY DEF Worth
  <1> QED BY <1>2, <1>3, WorkerAccount

\* An intent that is over, traded or refused, leaves the account alone.
LEMMA OutcomeAccount ==
  ASSUME CycleInv, AccountInv, UNCHANGED <<slot, signal, dec, order, receipt>>, exec.pc # "idle",
         NEW y, NEW refused, Outcome(y, refused)
  PROVE  AccountInv'
  <1> DEFINE ex == exec.exits /\ ~(refused /\ y \in Exits(dec[Key]))
             rf == exec.refused \/ refused
  <1>1. exec' = [exec EXCEPT !.pc = "submit", !.todo = @ \ {y}, !.intent = 0, !.refused = rf, !.exits = ex]
    BY DEF Outcome
  <1> HIDE DEF ex, rf
  <1>2. /\ exec'.pc = "submit" /\ exec'.todo = exec.todo \ {y} /\ exec'.slot = exec.slot
        /\ exec'.stage = exec.stage /\ exec'.pos = exec.pos
    BY <1>1 DEF CycleInv, CycleTypes, ExecFields
  <1>3. exec'.todo \subseteq Symbols
    BY <1>2 DEF AccountInv, AccountTypes
  <1> QED BY <1>2, <1>3, SubmitAccount

\* authorize_and_reserve, or an intent that is refused.
LEMMA AuthorizeAccount == ASSUME CycleInv, AccountInv, Authorize PROVE AccountInv'
  <1> DEFINE y == First(exec.todo)
             refused == order[Key][y] # "FILLED"
  <1>1. exec.pc = "submit" /\ exec.todo # {} /\ UNCHANGED <<slot, signal, dec, receipt, order>>
    BY DEF Authorize, At
  <1>2. y \in Symbols
    BY <1>1, FirstSymbol DEF AccountInv, AccountTypes
  <1> HIDE DEF y
  <1>3. CASE Outcome(y, refused)
    <2> HIDE DEF refused
    <2> QED BY <1>1, <1>3, OutcomeAccount
  <1>4. CASE exec' = [exec EXCEPT !.pc = "start", !.intent = y, !.read = latch]
    <2>1. /\ exec'.pc = "start" /\ exec'.todo = exec.todo /\ exec'.slot = exec.slot
          /\ exec'.stage = exec.stage /\ exec'.pos = exec.pos /\ exec'.intent = y
      BY <1>4 DEF CycleInv, CycleTypes, ExecFields
    <2>2. exec'.todo \subseteq Symbols
      BY <2>1 DEF AccountInv, AccountTypes
    <2> QED BY <1>1, <1>2, <2>1, <2>2, SubmitAccount
  <1> QED BY <1>3, <1>4 DEF Authorize, y

\* SUBMISSION_STARTED, before the trade.
LEMMA StartAccount == ASSUME CycleInv, AccountInv, Start PROVE AccountInv'
  <1> DEFINE y == exec.intent
  <1>1. exec.pc = "start" /\ UNCHANGED <<slot, signal, dec, receipt>> /\ Key \in Keys /\ y \in Symbols
    BY DEF Start, At, CycleInv, CycleTypes, AccountInv, AccountTypes
  <1>2. CASE Outcome(y, TRUE) /\ UNCHANGED order
    BY <1>1, <1>2, OutcomeAccount
  <1>3. CASE order' = [order EXCEPT ![Key][y] = "STARTED"] /\ exec' = [exec EXCEPT !.pc = "apply"]
    <2>1. /\ exec'.pc = "apply" /\ exec'.todo = exec.todo /\ exec'.slot = exec.slot
          /\ exec'.stage = exec.stage /\ exec'.pos = exec.pos /\ exec'.intent = y
      BY <1>3 DEF CycleInv, CycleTypes, ExecFields
    <2>2. order[Key][y] \in Open
      BY <1>1 DEF CycleInv, IntentOpen
    <2>3. \A l \in Keys, z \in Symbols : order'[l][z] = "FILLED" <=> order[l][z] = "FILLED"
      BY <1>1, <1>3, <2>2 DEF CycleInv, CycleTypes, Open
    <2>4. exec'.todo \subseteq Symbols
      BY <2>1 DEF AccountInv, AccountTypes
    <2> QED BY <1>1, <2>1, <2>3, <2>4, SubmitAccount
  <1> QED BY <1>2, <1>3 DEF Start

\* The fill is recorded.
LEMMA ApplyAccount == ASSUME CycleInv, CycleInv', AccountInv, Apply PROVE AccountInv'
  <1>1. PICK k \in Keys, y \in Symbols : k = Key /\ y = exec.intent
    BY DEF Apply, At, CycleInv, CycleTypes, AccountInv, AccountTypes
  <1> DEFINE pos == [exec.pos EXCEPT ![y] = @ + Delta(dec[Key], y)]
  <1>2. /\ exec.pc = "apply" /\ UNCHANGED <<slot, signal, dec, receipt>> /\ y \in Symbols
        /\ order' = [order EXCEPT ![k][y] = "FILLED"] /\ dec[k].made /\ Pending(k)
        /\ exec.pos = Position /\ order[k][y] \in Open
    BY <1>1 DEF Apply, At, CycleInv, CycleTypes, DecisionFirst, IntentOpen, AccountInv, AccountTypes,
                DecidedInTurn, AccountMatches
  <1>3. exec' = [exec EXCEPT !.pc = "submit", !.todo = @ \ {y}, !.intent = 0, !.pos = pos]
    BY <1>1 DEF Apply, CycleInv, CycleTypes, ExecFields
  <1> HIDE DEF pos
  <1>4. /\ exec'.pc = "submit" /\ exec'.todo = exec.todo \ {y} /\ Key' = k /\ exec'.pos = pos
    BY <1>1, <1>3 DEF CycleInv, CycleTypes, ExecFields, Key
  <1>5. /\ \A l \in Keys \ {k} : order'[l] = order[l]
        /\ \A z \in Symbols \ {y} : order'[k][z] = order[k][z]
        /\ order'[k][y] = "FILLED"
    BY <1>2 DEF CycleInv, CycleTypes
  <1>6. \A z \in Symbols : Position'[z] = Position[z] + (Worth(k, z)' - Worth(k, z))
    <2>1. \A l \in Keys, z \in Symbols : Worth(l, z) \in Int /\ Worth(l, z)' \in Int
      <3>1. \A l \in Keys, z \in Symbols :
              Worth(l, z) \in Int /\ dec[l].base[z] \in Units /\ dec[l].target[z] \in Units
        BY WorthType DEF AccountInv
      <3> QED BY <1>2, <3>1 DEF Worth, Delta, Units
    <2>2. \A l \in Keys \ {k}, z \in Symbols : Worth(l, z)' = Worth(l, z)
      BY <1>2, <1>5 DEF Worth
    <2> QED BY <2>1, <2>2, PositionMoves
  <1>7. pos = Position'
    <2>1. \A z \in Symbols : Position[z] \in Int /\ Delta(dec[k], z) \in Int
      <3>1. \A z \in Symbols : dec[k].base[z] \in Units /\ dec[k].target[z] \in Units
        BY WorthType DEF AccountInv
      <3> QED BY <3>1 DEF AccountInv, AccountMatches, Delta, Units
    <2>2. Worth(k, y) = 0 /\ Worth(k, y)' = Delta(dec[k], y)
      BY <1>2, <1>5 DEF Worth, Open
    <2>3. \A z \in Symbols \ {y} : Worth(k, z)' = Worth(k, z) /\ Worth(k, z) \in Int
      BY <1>2, <1>5, WorthType DEF Worth, AccountInv
    <2>4. \A z \in Symbols : Position'[z] = IF z = y THEN Position[z] + Delta(dec[k], z) ELSE Position[z]
      BY <1>6, <2>1, <2>2, <2>3
    <2>5. /\ Position = [z \in Symbols |-> Position[z]] /\ Position' = [z \in Symbols |-> Position'[z]]
      BY DEF Position, Rebuilt
    <2>6. pos = [z \in Symbols |-> IF z = y THEN Position[z] + Delta(dec[k], z) ELSE Position[z]]
      BY <1>1, <1>2, <2>5 DEF pos
    <2> QED BY <2>4, <2>5, <2>6
  <1>8. exec'.todo \subseteq Symbols
    BY <1>4 DEF AccountInv, AccountTypes
  <1> QED BY <1>2, <1>4, <1>5, <1>7, <1>8, TradeAccount DEF Pending
-----------------------------------------------------------------------------
\* What the orders of one key traded.
LEMMA OneKeyTraded ==
  ASSUME AccountTypes, NEW k \in Keys, NEW y \in Symbols
  PROVE  Traded({k}, {"FILLED"}, y) = Worth(k, y)
  <1> DEFINE g == [l \in {k} |-> Worth(l, y)]
  <1>1. Traded({k}, {"FILLED"}, y) = Total(g, {k})
    BY DEF Traded, Total, MapThenSumSet, MapThenFoldSet, Worth
  <1>2. g[k] = Worth(k, y) /\ g[k] \in Int
    BY WorthType
  <1> HIDE DEF g
  <1>3. IsFiniteSet({}) /\ {} \cup {k} = {k} /\ \A x \in {} \cup {k} : g[x] \in Int
    BY <1>2, FS_EmptySet
  <1>4. Total(g, {} \cup {k}) = Total(g, {}) + g[k]
    BY <1>3, TotalAdd
  <1>5. Total(g, {}) = 0
    BY <1>3, TotalZero
  <1> QED BY <1>1, <1>2, <1>3, <1>4, <1>5

\* Where a plan leaves a symbol.
Left(d, y) == IF y \in Exits(d) THEN 0 ELSE IF y \in Entries(d) THEN d.target[y] ELSE d.base[y]

\* An intent of the plan carried out: nothing opposes the target, and a target of
\* zero is reached.
LEMMA PlanLeaves ==
  ASSUME CycleInv, AccountInv, NEW k \in Keys, dec[k].made, receipt[k] = "NONE",
         \A y \in Planned(k) : order[k][y] = "FILLED", NEW y \in Symbols
  PROVE  /\ Position[y] = Left(dec[k], y)
         /\ Position[y] * dec[k].target[y] >= 0 /\ (dec[k].target[y] = 0 => Position[y] = 0)
  <1> DEFINE b == dec[k].base[y]
             t == dec[k].target[y]
  <1>1. b \in Units /\ t \in Units
    BY WorthType DEF AccountInv
  <1>2. order[k][y] = "FILLED" <=> y \in Exits(dec[k]) \/ y \in Entries(dec[k])
    BY PlannedIs DEF Intents, CycleInv, OrdersPlanned
  <1>3. /\ y \in Exits(dec[k]) <=> b # 0 /\ t # b
        /\ y \in Entries(dec[k]) <=> b = 0 /\ t # 0
    BY DEF Exits, Entries
  <1>4. Worth(k, y) = IF order[k][y] = "FILLED" THEN (IF y \in Exits(dec[k]) THEN -b ELSE t) ELSE 0
    BY DEF Worth, Delta
  <1>5. Position[y] = b + Worth(k, y)
    BY DEF AccountInv, AccountMatches
  <1>6. Left(dec[k], y) = IF y \in Exits(dec[k]) THEN 0 ELSE IF y \in Entries(dec[k]) THEN t ELSE b
    BY DEF Left
  <1> HIDE DEF b, t
  <1>7. Position[y] = Left(dec[k], y)
    BY <1>1, <1>2, <1>3, <1>4, <1>5, <1>6 DEF Units
  <1>8. Position[y] * t >= 0 /\ (t = 0 => Position[y] = 0)
    BY <1>1, <1>3, <1>6, <1>7 DEF Units
  <1> QED BY <1>7, <1>8 DEF t

\* A plan carried out is found so by the reconciliation.
LEMMA NoDiscrepancy ==
  ASSUME CycleInv, AccountInv, exec.pc = "submit",
         \A y \in Planned(Key) : order[Key][y] = "FILLED"
  PROVE  ~Discrepant
  <1>1. PICK k \in Keys : k = Key
    BY DEF CycleInv, CycleTypes
  <1>2. dec[k].made /\ Pending(k) /\ receipt[k] = "NONE" /\ exec.pos = Position
    BY <1>1 DEF CycleInv, DecisionFirst, AccountInv, DecidedInTurn, AccountMatches, Pending
  <1>3. \A y \in Symbols : exec.pos[y] = dec[Key].base[y] + Traded({Key}, {"FILLED"}, y)
    BY <1>1, <1>2, OneKeyTraded DEF AccountInv, AccountMatches
  <1>4. exec.slot = Forced => exec.pos = Flat
    <2> SUFFICES ASSUME exec.slot = Forced, NEW y \in Symbols PROVE Position[y] = 0
      BY <1>2 DEF Flat, Position, Rebuilt
    <2>1. k[1] = Forced
      BY <1>1 DEF Key
    <2>2. dec[k].target = Flat
      BY <1>2, <2>1 DEF AccountInv, AccountTypes, DecidedInTurn
    <2> QED BY <1>1, <1>2, <2>2, PlanLeaves DEF Flat
  <1>5. ASSUME NEW l \in Keys, NEW y \in Symbols, y \in Entries(dec[l])
        PROVE  order[l][y] \notin {"COMMITTED", "STARTED"}
    <2>1. CASE l = k
      BY <1>1, <1>2, <1>5, <2>1, PlannedIs DEF Intents
    <2>2. CASE l # k
      BY <1>2, <2>2, OthersFinal
    <2> QED BY <2>1, <2>2
  <1> QED BY <1>3, <1>4, <1>5 DEF Discrepant

\* The reconciliation of a plan without refusals.
LEMMA CloseAccount == ASSUME CycleInv, AccountInv, Close PROVE AccountInv'
  <1>1. CASE Raises /\ UNCHANGED <<receipt, latch>>
    BY <1>1, RaisesAccount DEF Raises, Close
  <1>2. CASE ~exec.refused /\ Reconciles
    <2>1. PICK k \in Keys : k = Key
      BY DEF Close, At, CycleInv, CycleTypes
    <2>2. /\ exec.pc = "submit" /\ exec.todo = {} /\ UNCHANGED <<slot, signal, dec, order>>
          /\ exec' = Idle /\ dec[k].made /\ Pending(k) /\ receipt[k] = "NONE"
      BY <1>2, <2>1 DEF Close, At, Reconciles, CycleInv, CycleTypes, DecisionFirst, AccountInv,
                        DecidedInTurn, Pending
    <2>3. \A y \in Planned(k) : order[k][y] = "FILLED"
      BY <1>2, <2>1, <2>2 DEF CycleInv, IntentsAccounted, Accounted
    <2>4. receipt' = [receipt EXCEPT ![k] = "CLEAN"]
      BY <1>2, <2>1, <2>2, <2>3, NoDiscrepancy DEF Reconciles
    <2>5. receipt'[k] = "CLEAN" /\ \A l \in Keys \ {k} : receipt'[l] = receipt[l]
      BY <2>4 DEF CycleInv, CycleTypes
    <2>6. AccountTypes' /\ ReceiptsClean' /\ SlotsInOrder'
      BY <2>2, <2>5 DEF AccountInv, AccountTypes, ReceiptsClean, SlotsInOrder, Idle
    <2>7. \A s \in Slots : Executed(s) => Executed(s)'
      <3> SUFFICES ASSUME NEW s \in Slots, Executed(s) PROVE Executed(s)'
        OBVIOUS
      <3>1. s # k[1]
        BY <2>2, PendingNotExecuted
      <3>2. \A n \in Stages : receipt'[<<s, n>>] = receipt[<<s, n>>]
        BY <2>5, <3>1 DEF Keys
      <3>3. Receipts(s)' = Receipts(s)
        BY <3>2 DEF Receipts
      <3>4. \A n \in Receipts(s) : n \in Stages
        BY DEF Receipts
      <3>5. Max(Receipts(s))' = Max(Receipts(s))
        BY <3>3 DEF Max
      <3> QED BY <2>2, <3>2, <3>3, <3>4, <3>5 DEF Executed, Reversal
    <2>8. \A l \in Keys : InTurn(l) => InTurn(l)'
      BY <2>2, <2>5, <2>7, InTurnStays
    <2>9. DecidedInTurn'
      BY <2>2, <2>8 DEF AccountInv, DecidedInTurn, Idle
    <2>10. \A l \in Keys, y \in Symbols : Worth(l, y)' = Worth(l, y)
      BY <2>2 DEF Worth
    <2>11. Position' = Position
      BY <2>10, PositionKept
    <2>12. AccountMatches'
      BY <2>2, <2>5, <2>10, <2>11 DEF AccountInv, AccountMatches, Idle
    <2>13. ReversalsEnd'
      <3>1. ASSUME NEW s \in Slots, receipt'[<<s, 1>>] = "CLEAN", Reversal(dec[<<s, 1>>]),
                   ~dec[<<s, 2>>].made, NEW y \in Symbols
            PROVE  Position[y] * signal[s].wants[y] >= 0
        <4>1. CASE <<s, 1>> = k
          <5>1. dec[k].target # Flat
            <6>1. PICK z \in Symbols : dec[k].base[z] * dec[k].target[z] < 0
              BY <3>1, <4>1 DEF Reversal
            <6>2. dec[k].base[z] \in Units /\ dec[k].target[z] \in Units
              BY WorthType DEF AccountInv
            <6>3. dec[k].target[z] # 0
              BY <6>1, <6>2 DEF Units
            <6> QED BY <6>3 DEF Flat
          <5>2. dec[k].target = signal[s].wants
            BY <2>2, <4>1, <5>1 DEF AccountInv, DecidedInTurn
          <5> QED BY <2>2, <2>3, <5>2, PlanLeaves
        <4>2. CASE <<s, 1>> # k
          BY <2>5, <3>1, <4>2, StageKeys DEF AccountInv, ReversalsEnd
        <4> QED BY <4>1, <4>2
      <3> QED BY <2>2, <2>11, <3>1 DEF AccountInv, ReversalsEnd, Reversal
    <2>14. ForcedFlattens'
      <3>1. ASSUME NEW n \in Stages, receipt'[<<Forced, n>>] = "CLEAN" PROVE Position = Flat
        <4>1. CASE <<Forced, n>> = k
          <5>1. dec[k].target = Flat
            BY <2>2, <4>1 DEF AccountInv, AccountTypes, DecidedInTurn
          <5>2. \A y \in Symbols : Position[y] = 0
            BY <2>2, <2>3, <5>1, PlanLeaves DEF Flat
          <5> QED BY <5>2 DEF Position, Rebuilt, Flat
        <4>2. CASE <<Forced, n>> # k
          <5>1. <<Forced, n>> \in Keys
            BY ServiceCyclesAssumption DEF Keys, Slots, Forced, ServiceCyclesAssumption
          <5> QED BY <2>5, <3>1, <4>2, <5>1 DEF AccountInv, ForcedFlattens
        <4> QED BY <4>1, <4>2
      <3>2. slot[Forced] = "COMPLETED" => \E n \in Stages : receipt'[<<Forced, n>>] = "CLEAN"
        <4>1. \A n \in Stages : <<Forced, n>> \in Keys
          BY ServiceCyclesAssumption DEF Keys, Slots, Forced, ServiceCyclesAssumption
        <4> QED BY <2>5, <4>1 DEF AccountInv, ForcedFlattens
      <3> QED BY <2>2, <2>11, <3>1, <3>2 DEF ForcedFlattens
    <2> QED BY <2>6, <2>9, <2>12, <2>13, <2>14 DEF AccountInv
  <1> QED BY <1>1, <1>2 DEF Close
-----------------------------------------------------------------------------
\* The scheduler moves one slot, which is the earliest that has not ended.
LEMMA SlotAccount ==
  ASSUME CycleInv, AccountInv, UNCHANGED <<signal, dec, order, receipt, exec>>,
         NEW s \in Slots, NEW state, slot' = [slot EXCEPT ![s] = state],
         state \in Claimed => \A r \in 1..(s - 1) : slot[r] \in Ended,
         signal[s].made => state \in Claimed, slot[s] \in Ended => state \in Ended,
         s = Forced /\ state = "COMPLETED" => \E n \in Stages : receipt[<<Forced, n>>] = "CLEAN"
  PROVE  AccountInv'
  <1>1. DOMAIN slot' = Slots /\ slot'[s] = state /\ \A r \in Slots \ {s} : slot'[r] = slot[r]
    BY DEF AccountInv, AccountTypes
  <1>2. \A r \in Slots : slot[r] \in Ended => slot'[r] \in Ended
    BY <1>1
  <1>3. \A q \in Slots : \A r \in 1..(q - 1) : r \in Slots
    BY ServiceCyclesAssumption DEF Slots, Forced, ServiceCyclesAssumption
  <1>4. SlotsInOrder'
    BY <1>1, <1>2, <1>3 DEF AccountInv, SlotsInOrder
  <1>5. signal' \in [Slots -> [made : BOOLEAN, wants : [Symbols -> Units]]] /\ signal'[Forced].wants = Flat
    BY DEF AccountInv, AccountTypes
  <1>6. slot'[Forced] = "COMPLETED" =>
          slot[Forced] = "COMPLETED" \/ \E n \in Stages : receipt[<<Forced, n>>] = "CLEAN"
    <2>1. Forced \in Slots
      BY ServiceCyclesAssumption DEF Slots, Forced, ServiceCyclesAssumption
    <2> QED BY <1>1, <2>1
  <1> QED BY <1>1, <1>4, <1>5, <1>6, OthersAccount

\* The scheduler moves slots and leaves orders and decisions alone.
LEMMA SchedulerAccount == ASSUME CycleInv, AccountInv, SchedulerStep PROVE AccountInv'
  <1>1. CASE CreateSchedule
    <2>1. slot' = [s \in Slots |-> "PENDING"] /\ UNCHANGED <<signal, dec, order, receipt, exec>>
      BY <1>1 DEF CreateSchedule
    <2>2. \A s \in Slots : ~signal[s].made
      BY <1>1 DEF CreateSchedule, AccountInv, SlotsInOrder, Claimed, Ended
    <2>3. SlotsInOrder'
      BY <2>1, <2>2 DEF SlotsInOrder, Claimed, Ended
    <2>4. Forced \in Slots
      BY ServiceCyclesAssumption DEF Slots, Forced, ServiceCyclesAssumption
    <2>5. DOMAIN slot' = Slots /\ slot'[Forced] # "COMPLETED"
      BY <2>1, <2>4
    <2>6. signal' \in [Slots -> [made : BOOLEAN, wants : [Symbols -> Units]]] /\ signal'[Forced].wants = Flat
      BY <2>1 DEF AccountInv, AccountTypes
    <2> QED BY <2>1, <2>2, <2>3, <2>5, <2>6, OthersAccount
  <1>2. ASSUME NEW s \in Slots, EvaluateSlot(s) PROVE AccountInv'
    <2> DEFINE state == IF data = "none" THEN "WAITING_FOR_DATA" ELSE "READY"
    <2>1. slot' = [slot EXCEPT ![s] = state] /\ UNCHANGED <<signal, dec, order, receipt, exec>>
      BY <1>2 DEF EvaluateSlot, Sets
    <2>2. state \notin Claimed /\ state # "COMPLETED" /\ slot[s] \notin Claimed
      BY <1>2 DEF EvaluateSlot, Claimed, Ended
    <2>3. ~signal[s].made
      BY <2>2 DEF AccountInv, SlotsInOrder
    <2>4. slot[s] \notin Ended
      BY <2>2 DEF Claimed
    <2> HIDE DEF state
    <2> QED BY <2>1, <2>2, <2>3, <2>4, SlotAccount
  <1>3. ASSUME NEW s \in Slots, ClaimSlot(s) PROVE AccountInv'
    <2>1. slot' = [slot EXCEPT ![s] = "CLAIMED"] /\ UNCHANGED <<signal, dec, order, receipt, exec>>
      BY <1>3 DEF ClaimSlot, Sets
    <2>2. slot[s] \notin Ended /\ \A r \in 1..(s - 1) : slot[r] \in Ended
      BY <1>3 DEF ClaimSlot, Current
    <2> QED BY <2>1, <2>2, SlotAccount DEF Claimed
  <1>4. ASSUME NEW s \in Slots, EndSlot(s) PROVE AccountInv'
    <2>1. \A r \in 1..(s - 1) : slot[r] \in Ended
      BY <1>4 DEF EndSlot, Current
    <2>2. ASSUME NEW state \in Ended, Receipt(s) = "CLEAN" \/ state = "FAILED", Sets(s, state)
          PROVE  AccountInv'
      <3>1. slot' = [slot EXCEPT ![s] = state] /\ UNCHANGED <<signal, dec, order, receipt, exec>>
        BY <2>2 DEF Sets
      <3>2. state = "COMPLETED" => \E n \in Stages : receipt[<<s, n>>] = "CLEAN"
        <4> SUFFICES ASSUME Receipt(s) = "CLEAN" PROVE \E n \in Stages : receipt[<<s, n>>] = "CLEAN"
          BY <2>2 DEF Ended
        <4>1. PICK n \in Stages : receipt[<<s, n>>] # "NONE"
          BY DEF Receipt, Receipts
        <4>2. <<s, n>> \in Keys
          BY DEF Keys
        <4> QED BY <4>1, <4>2, ReceiptMade
      <3> QED BY <2>1, <2>2, <3>1, <3>2, SlotAccount DEF Claimed
    <2> QED BY <1>4, <2>2 DEF EndSlot, Ended
  <1> QED BY <1>1, <1>2, <1>3, <1>4 DEF SchedulerStep

\* The strategy: no later slot has been claimed yet.
LEMMA ProposeAccount ==
  ASSUME CycleInv, AccountInv, NEW s \in Slots, NEW p \in Proposals, Propose(s, p) PROVE AccountInv'
  <1>1. /\ signal' = [signal EXCEPT ![s] = [made |-> TRUE, wants |-> p]] /\ ~signal[s].made
        /\ slot[s] = "CLAIMED" /\ (s = Forced => p = Flat) /\ UNCHANGED <<slot, dec, order, receipt, exec>>
    BY DEF Propose
  <1>2. p \in [Symbols -> Units]
    BY ServiceCyclesAssumption DEF ServiceCyclesAssumption, Units
  <1>3. Forced \in Slots /\ \A q \in Slots : \A r \in 1..(q - 1) : r \in Slots
    BY ServiceCyclesAssumption DEF Slots, Forced, ServiceCyclesAssumption
  <1>4. /\ signal' \in [Slots -> [made : BOOLEAN, wants : [Symbols -> Units]]]
        /\ signal'[s].made /\ \A r \in Slots \ {s} : signal'[r] = signal[r]
    BY <1>1, <1>2 DEF AccountInv, AccountTypes
  <1>5. signal'[Forced].wants = Flat
    BY <1>1, <1>3 DEF AccountInv, AccountTypes
  <1>6. SlotsInOrder' /\ DOMAIN slot' = Slots
    BY <1>1, <1>4 DEF AccountInv, AccountTypes, SlotsInOrder, Claimed
  <1>7. \A q \in Slots : \A r \in 1..(q - 1) : signal[q].made /\ signal'[r].made => signal[r].made
    <2> SUFFICES ASSUME NEW q \in Slots, s \in 1..(q - 1), signal[q].made PROVE FALSE
      BY <1>3, <1>4
    <2>1. slot[s] \in Ended
      BY DEF AccountInv, SlotsInOrder
    <2> QED BY <1>1, <2>1 DEF Ended
  <1>8. \A q \in Slots : signal[q].made => signal'[q] = signal[q]
    BY <1>1, <1>4
  <1> QED BY <1>1, <1>4, <1>5, <1>6, <1>7, <1>8, OthersAccount
-----------------------------------------------------------------------------
\* Nothing is traded, decided or signalled before the session.
LEMMA AccountInitially == Init => AccountInv
  <1> SUFFICES ASSUME Init PROVE AccountInv
    OBVIOUS
  <1>1. AccountTypes /\ SlotsInOrder /\ ReceiptsClean
    BY ServiceCyclesAssumption
    DEF Init, AccountTypes, SlotsInOrder, ReceiptsClean, Claimed, Ended, Flat, None, Idle, Units,
        Slots, Forced, ServiceCyclesAssumption
  <1>2. DecidedInTurn
    BY DEF Init, DecidedInTurn, None, Idle
  <1>3. \A k \in Keys : ~dec[k].made /\ receipt[k] = "NONE"
    BY DEF Init, None
  <1>4. Position = Flat
    <2> SUFFICES ASSUME NEW y \in Symbols PROVE Position[y] = 0
      BY DEF Position, Rebuilt, Flat
    <2>1. \A k \in Keys : Worths(y)[k] = 0
      BY DEF Worths, Worth, Init
    <2>2. Total(Worths(y), Keys) = 0
      BY <2>1, KeysFinite, TotalZero
    <2> QED BY <2>2, PositionIs
  <1>5. AccountMatches
    BY <1>3, <1>4 DEF Init, AccountMatches, Idle, Flat, Units
  <1>6. ReversalsEnd /\ ForcedFlattens
    BY <1>3, <1>4, StageKeys, ServiceCyclesAssumption
    DEF Init, ReversalsEnd, ForcedFlattens, Slots, Forced, ServiceCyclesAssumption
  <1> QED BY <1>1, <1>2, <1>5, <1>6 DEF AccountInv

\* Every step keeps it.
LEMMA AccountStepKeeps == CycleInv /\ CycleInv' /\ AccountInv /\ [Next]_vars => AccountInv'
  <1> SUFFICES ASSUME CycleInv, CycleInv', AccountInv, [Next]_vars PROVE AccountInv'
    OBVIOUS
  <1>1. CASE Collect \/ Halt \/ (\E k \in Kinds : Resume(k)) \/ UNCHANGED vars
    <2>1. UNCHANGED <<slot, signal, dec, order, receipt, exec>>
      BY <1>1 DEF Collect, Halt, Resume, vars
    <2> QED BY <2>1, OthersAccount DEF AccountInv, AccountTypes, SlotsInOrder
  <1>2. CASE Crash
    BY <1>2, RaisesAccount DEF Crash
  <1>3. CASE SchedulerStep
    BY <1>3, SchedulerAccount
  <1>4. CASE StrategyStep
    BY <1>4, ProposeAccount DEF StrategyStep
  <1>5. CASE ExecutionStep
    BY <1>5, BeginAccount, DecideAccount, PlanAccount, AuthorizeAccount, StartAccount, ApplyAccount,
       CloseAccount
    DEF ExecutionStep
  <1> QED BY <1>1, <1>2, <1>3, <1>4, <1>5 DEF Next
-----------------------------------------------------------------------------
\* In every state that the scheduler, the execution worker, halts and crashes reach,
\* the account is what the decision in turn began with and what its orders traded.
THEOREM AccountSafe == Spec => []AccountInv
  <1>1. CycleInv /\ AccountInv /\ [Next]_vars => AccountInv'
    BY CycleStepKeeps, AccountStepKeeps
  <1> QED BY <1>1, AccountInitially, CycleSafe, PTL DEF Spec

\* record_reconciliation_bundle finds no discrepancy in any cycle: the broker that a
\* cycle rebuilds from durable intents and the ledger agree, whatever crashes between
\* SUBMISSION_STARTED and the fill and whatever halts refuse.
THEOREM ReceiptsCleanSafe == Spec => []ReceiptsClean
  <1>1. AccountInv => ReceiptsClean
    BY DEF AccountInv
  <1> QED BY <1>1, AccountSafe, PTL

\* The forced-flat slot is completed only with a flat account and with no order left
\* that can trade, although the clean close of a reversal is a clean receipt too.
THEOREM ForcedFlatSafe == Spec => []ForcedFlatIsFlat
  <1>1. CycleInv /\ AccountInv => ForcedFlatIsFlat
    <2> SUFFICES ASSUME CycleInv, AccountInv, slot[Forced] = "COMPLETED"
                 PROVE  /\ Position = Flat
                        /\ \A k \in Keys, y \in Symbols : order[k][y] \in {"NONE", "FILLED"}
      BY DEF ForcedFlatIsFlat
    <2>1. PICK n \in Stages : receipt[<<Forced, n>>] = "CLEAN"
      BY DEF AccountInv, ForcedFlattens
    <2>2. Position = Flat
      BY <2>1 DEF AccountInv, ForcedFlattens
    <2>3. ASSUME NEW k \in Keys, NEW y \in Symbols PROVE order[k][y] \in {"NONE", "FILLED"}
      <3>1. CASE receipt[k] = "CLEAN"
        BY <3>1 DEF CycleInv, CleanIsCarriedOut, OrdersPlanned
      <3>2. CASE receipt[k] # "CLEAN"
        <4>1. receipt[k] = "NONE" /\ ~Pending(k)
          BY <2>1, <3>2, ReceiptMade, ForcedIsLast
        <4> QED BY <4>1 DEF CycleInv, OrdersPlanned, AccountInv, DecidedInTurn, Pending
      <3> QED BY <3>1, <3>2
    <2> QED BY <2>2, <2>3
  <1> QED BY <1>1, CycleSafe, AccountSafe, PTL
=============================================================================
