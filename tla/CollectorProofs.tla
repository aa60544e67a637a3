--------------------------- MODULE CollectorProofs ---------------------------
(***************************************************************************)
(* Proofs about Collector, for any calendar, symbols and overlap, any      *)
(* number of processes and leases, and any bars that come late or never.   *)
(***************************************************************************)
EXTENDS Collector, FiniteSetTheorems, WellFoundedInduction, TLAPS

Working == {"ready", "reconcile", "repair", "stream", "closing"}
Jobs == [by : {"none", "main", "recon"}, at : Nat, end : Nat, sym : Nat, got : SUBSET Nat,
         fetched : BOOLEAN]
Memory == [pc : {"off", "acquired", "finished"} \cup Working, once : BOOLEAN, token : Nat,
           stop : BOOLEAN, fatal : BOOLEAN,
           recon : {"none", "wait", "reconcile", "repair", "ended"},
           status : {"none", "completed", "failed", "stopped"}, job : Jobs]
RunStatus == {"none", "running", "completed", "failed", "stopped"}

(***************************************************************************)
(* The inductive invariant.  Its parts are about any memory m of a process *)
(* and any tables, so that they can be compared over a step.               *)
(***************************************************************************)
\* Which thread has the work of a process, and where the other one may be.
Shape(m) ==
  /\ m.job.by = "none" => ~m.job.fetched
  /\ m.job.by = "main" => m.pc \in {"reconcile", "repair"} /\ m.recon = "none"
  /\ m.job.by = "recon" => m.recon \in {"reconcile", "repair"}
  /\ m.pc = "reconcile" => m.job.by = "main"
  /\ m.recon = "reconcile" => m.job.by = "recon"
  /\ m.pc = "repair" => m.once
  /\ m.pc = "stream" \/ m.recon # "none" => ~m.once
  /\ m.pc \in {"off", "acquired", "ready"} => m.recon = "none"
  /\ m.recon \notin {"none", "ended"} => m.pc \in {"stream", "closing"}
  /\ m.pc = "closing" => m.stop

\* The work of a process: the range is complete history; every bar before it is
\* stored, the symbols before this one have their checkpoint past the window, and
\* what was fetched of the window is stored or still to be stored.
JobOK(m, c, k, st) ==
  m.job.by # "none" =>
    LET j == m.job
        w == Window(j.at, j.end)
        open == InRange(j.at, j.end) # {}
    IN /\ j.sym \in Symbols /\ j.at < j.end /\ j.end <= c
       /\ \A s \in Symbols, t \in Prompt : t < j.at => t \in st[s]
       /\ j.fetched => open
       /\ open => \A s \in Symbols : s < j.sym => w[2] <= k[s]
       /\ j.fetched => \A t \in Prompt : w[1] <= t /\ t < w[2] => t \in j.got \/ t \in st[j.sym]

\* What a process may rely on while its lease is valid: its run is open, nothing
\* passes the end of its catch-up, and when it repairs all checkpoints are equal.
HoldOK(m, k, r) ==
  /\ m.pc \in Working => r[m.token] = "running"
  /\ m.job.by # "none" /\ (m.pc = "reconcile" \/ m.recon = "reconcile") =>
       \A s \in Symbols : k[s] <= m.job.end
  /\ m.pc = "repair" \/ m.recon = "repair" =>
       /\ \A s, z \in Symbols : k[s] = k[z]
       /\ m.job.by # "none" => \A s \in Symbols : m.job.end <= k[s]

TableTypes ==
  /\ cutoff \in Nat \ {0} /\ came \subseteq Late
  /\ lease \in [token : 0..MaxToken, live : BOOLEAN] /\ (lease.live => lease.token > 0)
  /\ run \in [1..MaxToken -> RunStatus]
  /\ stored \in [Symbols -> SUBSET Nat] /\ ckpt \in [Symbols -> Nat]
  /\ proc \in [Procs -> Memory]

\* No two processes have one token, and none has a token still to come.
TokensDistinct ==
  /\ \A p \in Procs : proc[p].token <= lease.token
  /\ \A p \in Procs : proc[p].pc = "off" => proc[p].token = 0
  /\ \A p, q \in Procs : proc[p].token = proc[q].token /\ proc[p].token > 0 => p = q
  /\ \A p \in Procs : proc[p].pc # "off" => proc[p].token > 0

ProcsInv ==
  \A p \in Procs : Shape(proc[p]) /\ JobOK(proc[p], cutoff, ckpt, stored)
HoldersInv == \A p \in Procs : Valid(p) => HoldOK(proc[p], ckpt, run)

CollectInv == TableTypes /\ TokensDistinct /\ ProcsInv /\ HoldersInv /\ CheckpointStored
-----------------------------------------------------------------------------
(***************************************************************************)
(* The calendar.                                                           *)
(***************************************************************************)
\* The least-number principle, for integers that have a lower bound.
LEMMA LeastInteger ==
  ASSUME NEW S \in SUBSET Int, S # {}, NEW b \in Int, \A x \in S : b <= x
  PROVE  Least(S) \in S /\ \A y \in S : Least(S) <= y
  <1> DEFINE T == {x - b : x \in S}
             R == OpToRel(<, Nat)
  <1>1. T \in SUBSET Nat /\ T # {}
    <2>1. \A x \in S : x - b \in Nat
      OBVIOUS
    <2> QED BY <2>1
  <1>2. R = {ss \in Nat \X Nat : ss[1] < ss[2]}
    BY DEF OpToRel
  <1>3. IsWellFoundedOn(R, Nat)
    BY NatLessThanWellFounded
  <1> HIDE DEF R
  <1>4. PICK s \in T : \A r \in T : ~(<<r, s>> \in R)
    BY <1>1, <1>3, WFMin
  <1>5. \A r \in T : ~(r < s)
    BY <1>1, <1>2, <1>4
  <1>6. PICK x \in S : s = x - b
    BY <1>4
  <1>7. \A y \in S : x <= y
    <2> TAKE y \in S
    <2>1. y - b \in T /\ y - b \in Nat /\ s \in Nat
      BY <1>1, <1>4
    <2> QED BY <2>1, <1>5, <1>6
  <1> QED BY <1>6, <1>7 DEF Least

\* The greater and the lesser of two.
LEMMA MostOfTwo ==
  ASSUME NEW a \in Int, NEW b \in Int
  PROVE  Most({a, b}) = IF a <= b THEN b ELSE a
  <1> DEFINE P(x) == x \in {a, b} /\ \A y \in {a, b} : x >= y
             g == IF a <= b THEN b ELSE a
  <1>1. P(g)
    OBVIOUS
  <1>2. \A x : P(x) => x = g
    OBVIOUS
  <1> QED BY <1>1, <1>2 DEF Most
LEMMA LeastOfTwo ==
  ASSUME NEW a \in Int, NEW b \in Int
  PROVE  Least({a, b}) = IF a <= b THEN a ELSE b
  <1> DEFINE P(x) == x \in {a, b} /\ \A y \in {a, b} : x <= y
             g == IF a <= b THEN a ELSE b
  <1>1. P(g)
    OBVIOUS
  <1>2. \A x : P(x) => x = g
    OBVIOUS
  <1> QED BY <1>1, <1>2 DEF Least

\* The window of a range with a session lies within it, and no bar of the range
\* comes before the window.
LEMMA WindowFirst ==
  ASSUME NEW at \in Nat, NEW end \in Nat, at < end, InRange(at, end) # {}
  PROVE  /\ Window(at, end)[1] \in Nat /\ Window(at, end)[2] \in Nat
         /\ at < Window(at, end)[2] /\ Window(at, end)[2] <= end
         /\ \A t \in Prompt : at <= t /\ t < Window(at, end)[2] => Window(at, end)[1] <= t
  <1> DEFINE A == {s[1] : s \in InRange(at, end)}
             f == First(at, end)
  <1>1. \A s \in InRange(at, end) : s[1] \in Nat /\ s[2] \in Nat /\ s[2] > at /\ s[1] < end
    BY CollectorAssumption DEF InRange
  <1>2. A \in SUBSET Int /\ A # {} /\ \A x \in A : 0 <= x
    BY <1>1
  <1> HIDE DEF A
  <1>3. Least(A) \in A /\ \A y \in A : Least(A) <= y
    BY <1>2, LeastInteger, 0 \in Int
  <1> USE DEF A
  <1>4. \E s \in InRange(at, end) : \A t \in InRange(at, end) : s[1] <= t[1]
    BY <1>3
  <1>5. f \in InRange(at, end) /\ \A t \in InRange(at, end) : f[1] <= t[1]
    BY <1>4 DEF First
  <1>6. Window(at, end) = <<Most({at, f[1]}), Least({end, f[2]})>>
    BY DEF Window
  <1>7. f[1] \in Nat /\ f[2] \in Nat /\ f[2] > at /\ f[1] < end
    BY <1>1, <1>5
  <1> HIDE DEF f
  <1>8. /\ Window(at, end)[1] = IF at <= f[1] THEN f[1] ELSE at
        /\ Window(at, end)[2] = IF end <= f[2] THEN end ELSE f[2]
    BY <1>6, <1>7, MostOfTwo, LeastOfTwo
  <1>9. ASSUME NEW t \in Prompt, at <= t, t < Window(at, end)[2] PROVE Window(at, end)[1] <= t
    <2>1. PICK s \in Sessions : t \in s[1]..(s[2] - 1)
      BY CollectorAssumption
    <2>2. s[1] \in Nat /\ s[2] \in Nat /\ t \in Nat /\ s[1] <= t /\ t < s[2]
      BY <2>1, CollectorAssumption
    <2>3. s \in InRange(at, end)
      BY <2>2, <1>7, <1>8, <1>9 DEF InRange
    <2> QED BY <2>2, <2>3, <1>5, <1>7, <1>8, <1>9
  <1> QED BY <1>7, <1>8, <1>9

\* A range without a session has no bar.
LEMMA ClosedRange ==
  ASSUME NEW at \in Nat, NEW end \in Nat, InRange(at, end) = {}, NEW t \in Prompt, at <= t
  PROVE  end <= t
  <1>1. PICK s \in Sessions : t \in s[1]..(s[2] - 1)
    BY CollectorAssumption
  <1>2. s[1] \in Nat /\ s[2] \in Nat /\ t \in Nat /\ s[1] <= t /\ t < s[2]
    BY <1>1, CollectorAssumption
  <1> QED BY <1>2 DEF InRange

\* Bars are of minutes.
LEMMA Minutes == Prompt \subseteq Nat /\ Late \subseteq Nat /\ Trading \subseteq Nat
  BY CollectorAssumption DEF Trading

\* Symbols are numbered from 1.
LEMMA SymbolRange ==
  /\ Symbols \subseteq Nat /\ 1 \in Symbols
  /\ \A s \in Symbols : 1 <= s /\ \A z \in Nat : 1 <= z /\ z <= s => z \in Symbols
  /\ \A s \in Symbols : s + 1 \notin Symbols => \A z \in Symbols : z <= s
  <1> DEFINE n == Cardinality(Symbols)
  <1>1. Symbols = 1..n /\ Symbols # {} /\ n \in Nat
    BY CollectorAssumption, FS_CardinalityType
  <1> HIDE DEF n
  <1> QED BY <1>1
-----------------------------------------------------------------------------
(***************************************************************************)
(* Where a catch-up begins, and which gap is repaired.                     *)
(***************************************************************************)
\* A catch-up begins at or before every checkpoint.
LEMMA ResumeBehind ==
  ASSUME TableTypes
  PROVE  ResumeStart \in Nat /\ \A s \in Symbols : ResumeStart <= ckpt[s]
  <1> DEFINE S == {ckpt[s] - Overlap : s \in Symbols}
             b == 0 - Overlap
  <1>1. S \in SUBSET Int /\ S # {} /\ b \in Int /\ \A x \in S : b <= x
    BY CollectorAssumption DEF TableTypes
  <1> HIDE DEF S, b
  <1>2. Least(S) \in S /\ \A y \in S : Least(S) <= y
    BY <1>1, LeastInteger
  <1>3. ResumeStart = Most({0, Least(S)})
    BY DEF ResumeStart, S
  <1>4. Least(S) \in Int
    BY <1>1, <1>2
  <1>5. ResumeStart = IF 0 <= Least(S) THEN Least(S) ELSE 0
    BY <1>3, <1>4, MostOfTwo
  <1>6. ASSUME NEW s \in Symbols PROVE ResumeStart <= ckpt[s]
    <2>1. ckpt[s] \in Nat /\ Overlap \in Nat /\ Least(S) <= ckpt[s] - Overlap
      BY <1>2, CollectorAssumption DEF S, TableTypes
    <2> QED BY <2>1, <1>4, <1>5
  <1> QED BY <1>4, <1>5, <1>6

\* The order of gaps has a first one in every set that is not empty.
LEMMA FirstGap ==
  ASSUME NEW G \in SUBSET (Nat \X Nat), G # {}
  PROVE  FirstOf(G) \in G
  <1> DEFINE A == {g[1] : g \in G}
  <1>1. A \in SUBSET Int /\ A # {} /\ \A x \in A : 0 <= x
    OBVIOUS
  <1>2. Least(A) \in A /\ \A y \in A : Least(A) <= y
    <2> HIDE DEF A
    <2> QED BY <1>1, LeastInteger, 0 \in Int
  <1>3. PICK a \in A : \A y \in A : a <= y
    BY <1>2
  <1> DEFINE B == {g[2] : g \in {h \in G : h[1] = a}}
  <1>4. B \in SUBSET Int /\ B # {} /\ \A x \in B : 0 <= x
    OBVIOUS
  <1>5. Least(B) \in B /\ \A y \in B : Least(B) <= y
    <2> HIDE DEF B
    <2> QED BY <1>4, LeastInteger, 0 \in Int
  <1>6. PICK g \in G : g[1] = a /\ \A y \in B : g[2] <= y
    BY <1>5
  <1>7. ASSUME NEW h \in G \ {g} PROVE After(h, g)
    <2>1. h \in Nat \X Nat /\ g \in Nat \X Nat /\ a <= h[1]
      BY <1>3
    <2>2. CASE h[1] = a
      <3>1. h[2] \in B
        BY <2>2
      <3>2. g[2] <= h[2] /\ h[2] # g[2]
        BY <3>1, <2>1, <2>2, <1>6
      <3> QED BY <3>2, <2>1, <2>2, <1>6 DEF After
    <2>3. CASE h[1] # a
      BY <2>1, <2>3, <1>6 DEF After
    <2> QED BY <2>2, <2>3
  <1> QED BY <1>7 DEF FirstOf

\* The gap that is repaired is one.
LEMMA GapChosen ==
  ASSUME Gaps # {}
  PROVE  NextGap \in Gaps
  <1> DEFINE after == {g \in Gaps : After(g, cursor)}
             G == IF after = {} THEN Gaps ELSE after
  <1>1. Gaps \in SUBSET (Nat \X Nat)
    BY Minutes, SymbolRange DEF Gaps
  <1>2. G \in SUBSET (Nat \X Nat) /\ G # {} /\ G \subseteq Gaps
    BY <1>1
  <1>3. NextGap = FirstOf(G)
    BY DEF NextGap
  <1> HIDE DEF G
  <1> QED BY <1>2, <1>3, FirstGap
-----------------------------------------------------------------------------
(***************************************************************************)
(* The memory of a process.                                                *)
(***************************************************************************)
LEMMA NoJobType == NoJob \in Jobs /\ NoJob.by = "none" /\ ~NoJob.fetched
  BY DEF NoJob, Jobs

LEMMA JobType ==
  ASSUME NEW by \in {"main", "recon"}, NEW at \in Nat, NEW end \in Nat
  PROVE  Job(by, at, end) \in Jobs
  BY DEF Job, Jobs

LEMMA OffType ==
  Off \in Memory /\ Off.pc = "off" /\ Off.token = 0 /\ Off.job.by = "none" /\ Shape(Off)
  BY NoJobType DEF Off, Memory, Shape, NoJob

\* A thread that closes: the work of the other one goes on.
LEMMA ClosingOK ==
  ASSUME NEW m \in Memory, Shape(m), m.pc \in Working,
         NEW status \in {"completed", "failed", "stopped"}
  PROVE  LET n == Closing(m, status)
         IN /\ n \in Memory /\ Shape(n) /\ n.token = m.token /\ n.pc = "closing"
            /\ n.recon = m.recon
            /\ n.job = IF m.job.by = "main" THEN NoJob ELSE m.job
  <1> DEFINE n == Closing(m, status)
             j == IF m.job.by = "main" THEN NoJob ELSE m.job
  <1>1. j \in Jobs
    BY NoJobType DEF Memory
  <1>2. n = [m EXCEPT !.pc = "closing", !.status = status, !.stop = TRUE, !.job = j]
    BY DEF Closing
  <1> HIDE DEF n, j
  <1>3. /\ n \in Memory /\ n.token = m.token /\ n.pc = "closing" /\ n.stop
        /\ n.recon = m.recon /\ n.job = j /\ n.once = m.once
    BY <1>1, <1>2 DEF Memory, Working
  <1>4. Shape(n)
    BY <1>3, NoJobType DEF Shape, j
  <1> QED BY <1>3, <1>4 DEF n, j

\* A piece of work that has ended: a repair follows a catch-up only.
AtWork(m) == m.job.by # "none" \/ m.pc = "repair" \/ m.recon = "repair"
LEMMA DoneOK ==
  ASSUME NEW m \in Memory, Shape(m), AtWork(m)
  PROVE  LET n == Done(m)
         IN /\ n \in Memory /\ Shape(n) /\ n.token = m.token /\ n.pc \in Working
            /\ n.job.by = "none"
            /\ n.pc = "repair" => m.pc = "reconcile"
            /\ n.recon = "repair" => m.recon = "reconcile"
  <1> DEFINE n == Done(m)
  <1>0. m.pc \in Working
    BY DEF Shape, AtWork, Working, Memory, Jobs
  <1>1. CASE m.job.by = "recon" \/ m.recon = "repair"
    <2> DEFINE r == IF m.recon = "reconcile" THEN "repair" ELSE "wait"
    <2>1. n = [m EXCEPT !.recon = r, !.job = NoJob]
      BY <1>1 DEF Done
    <2>2. n \in Memory /\ n.token = m.token /\ n.pc = m.pc /\ n.recon = r /\ n.job = NoJob /\ n.once = m.once /\ n.stop = m.stop
      BY <2>1, NoJobType DEF Memory
    <2>3. Shape(n) /\ n.pc # "repair"
      BY <1>1, <2>2, NoJobType DEF Shape
    <2> QED BY <2>2, <2>3, <1>0, NoJobType
  <1>2. CASE ~(m.job.by = "recon" \/ m.recon = "repair")
    <2>0. m.pc \in {"reconcile", "repair"} /\ m.recon = "none"
      BY <1>2 DEF Shape, AtWork, Memory, Jobs
    <2>1. CASE ~m.once
      <3>1. n = [m EXCEPT !.pc = "stream", !.recon = "wait", !.job = NoJob]
        BY <1>2, <2>1 DEF Done
      <3>2. n \in Memory /\ n.token = m.token /\ n.pc = "stream" /\ n.recon = "wait" /\ n.job = NoJob /\ n.once = m.once /\ n.stop = m.stop
        BY <3>1, NoJobType DEF Memory, Working
      <3> QED BY <2>1, <3>2, NoJobType DEF Shape, Working
    <2>2. CASE m.once /\ m.pc = "reconcile"
      <3>1. n = [m EXCEPT !.pc = "repair", !.job = NoJob]
        BY <1>2, <2>2 DEF Done
      <3>2. n \in Memory /\ n.token = m.token /\ n.pc = "repair" /\ n.recon = "none" /\ n.job = NoJob /\ n.once = m.once /\ n.stop = m.stop
        BY <3>1, <2>0, NoJobType DEF Memory, Working
      <3> QED BY <2>2, <3>2, NoJobType DEF Shape, Working
    <2>3. CASE m.once /\ m.pc # "reconcile"
      <3> DEFINE st == IF ~m.stop THEN "completed" ELSE IF m.fatal THEN "failed" ELSE "stopped"
      <3>1. n = Closing(m, st) /\ st \in {"completed", "failed", "stopped"}
        BY <1>2, <2>3 DEF Done
      <3> HIDE DEF st
      <3>2. n \in Memory /\ Shape(n) /\ n.token = m.token /\ n.pc = "closing" /\ n.recon = m.recon /\ n.job = IF m.job.by = "main" THEN NoJob ELSE m.job
        BY <3>1, <1>0, ClosingOK
      <3> QED BY <1>2, <2>0, <3>2, NoJobType DEF Working, Memory, Jobs
    <2> QED BY <2>1, <2>2, <2>3
  <1> QED BY <1>1, <1>2

\* A thread whose write is refused, or that is interrupted, gives its work up.
LEMMA GivenUpOK ==
  ASSUME NEW m \in Memory, Shape(m), m.job.by # "none"
  PROVE  \A n \in {Refused(m), Interrupted(m)} :
           /\ n \in Memory /\ Shape(n) /\ n.token = m.token /\ n.pc \in Working
           /\ n.job.by = "none" /\ n.pc # "repair" /\ n.recon # "repair"
  <1>0. m.pc \in Working
    BY DEF Shape, Working, Memory, Jobs
  <1>1. CASE m.job.by = "main"
    <2>1. m.recon = "none"
      BY <1>1 DEF Shape
    <2>2. ASSUME NEW st \in {"completed", "failed", "stopped"}, NEW n, n = Closing(m, st)
          PROVE  /\ n \in Memory /\ Shape(n) /\ n.token = m.token /\ n.pc \in Working
                 /\ n.job.by = "none" /\ n.pc # "repair" /\ n.recon # "repair"
      <3>1. n \in Memory /\ Shape(n) /\ n.token = m.token /\ n.pc = "closing" /\ n.recon = m.recon /\ n.job = IF m.job.by = "main" THEN NoJob ELSE m.job
        BY <2>2, <1>0, ClosingOK
      <3> QED BY <3>1, <1>1, <2>1, NoJobType DEF Working
    <2> DEFINE s == IF m.once /\ m.fatal THEN "failed" ELSE "stopped"
    <2>3. Refused(m) = Closing(m, "failed") /\ Interrupted(m) = Closing(m, s)
      BY <1>1 DEF Refused, Interrupted
    <2>4. s \in {"completed", "failed", "stopped"}
      OBVIOUS
    <2> QED BY <2>2, <2>3, <2>4
  <1>2. CASE m.job.by # "main"
    <2>0. m.job.by = "recon"
      BY <1>2 DEF Memory, Jobs
    <2>1. ASSUME NEW n \in {Refused(m), Interrupted(m)}
          PROVE  n \in Memory /\ n.token = m.token /\ n.pc = m.pc /\ n.recon = "ended" /\ n.job = NoJob
                 /\ n.once = m.once /\ (m.stop => n.stop)
      BY <1>2, NoJobType DEF Refused, Interrupted, Memory
    <2> QED BY <2>0, <2>1, <1>0, NoJobType DEF Shape
  <1> QED BY <1>1, <1>2
-----------------------------------------------------------------------------
(***************************************************************************)
(* What holds of a process while the tables go forward.                    *)
(***************************************************************************)
\* Bars are stored and checkpoints advance; the work of a process stays sound.
Grown(st, sv) == \A s \in Symbols : st[s] \subseteq sv[s]
Ahead(k, l) == \A s \in Symbols : k[s] <= l[s]
LEMMA JobForward ==
  ASSUME NEW m \in Memory, NEW c \in Nat, NEW d \in Nat, c <= d,
         NEW k \in [Symbols -> Nat], NEW l \in [Symbols -> Nat], Ahead(k, l),
         NEW st, NEW sv, Grown(st, sv), JobOK(m, c, k, st)
  PROVE  JobOK(m, d, l, sv)
  <1> SUFFICES ASSUME m.job.by # "none" PROVE JobOK(m, d, l, sv)
    BY DEF JobOK
  <1> DEFINE j == m.job
             w == Window(j.at, j.end)
             open == InRange(j.at, j.end) # {}
  <1>1. j.at \in Nat /\ j.end \in Nat /\ j.sym \in Nat
    BY DEF Memory, Jobs
  <1>2. /\ j.sym \in Symbols /\ j.at < j.end /\ j.end <= c
        /\ \A s \in Symbols, t \in Prompt : t < j.at => t \in st[s]
        /\ j.fetched => open
        /\ open => \A s \in Symbols : s < j.sym => w[2] <= k[s]
        /\ j.fetched => \A t \in Prompt : w[1] <= t /\ t < w[2] => t \in j.got \/ t \in st[j.sym]
    BY DEF JobOK
  <1>3. open => w[2] \in Nat
    BY <1>1, <1>2, WindowFirst
  <1> HIDE DEF j, w, open
  <1>4. open => \A s \in Symbols : s < j.sym => w[2] <= l[s]
    BY <1>1, <1>2, <1>3 DEF Ahead
  <1>5. j.end <= d
    BY <1>1, <1>2
  <1>6. \A s \in Symbols, t \in Prompt : t < j.at => t \in sv[s]
    BY <1>2 DEF Grown
  <1>7. j.fetched => \A t \in Prompt : w[1] <= t /\ t < w[2] => t \in j.got \/ t \in sv[j.sym]
    BY <1>2 DEF Grown
  <1> QED BY <1>2, <1>4, <1>5, <1>6, <1>7 DEF JobOK, j, w, open

\* A process without work has nothing to be sound.
LEMMA NoWork ==
  ASSUME NEW m, m.job.by = "none", NEW c, NEW k, NEW st
  PROVE  JobOK(m, c, k, st)
  BY DEF JobOK

\* Only one process has the valid lease.
LEMMA OneHolder ==
  ASSUME CollectInv, NEW p \in Procs, NEW q \in Procs, Valid(p), Valid(q)
  PROVE  p = q
  <1>1. lease.token \in Nat /\ lease.token > 0
    BY CollectorAssumption DEF CollectInv, TableTypes, Valid
  <1> QED BY <1>1 DEF CollectInv, TokensDistinct, Valid

\* A step of one process p under its lease, or one that leaves the checkpoints alone.
LEMMA ProcessStep ==
  ASSUME CollectInv, NEW p \in Procs, NEW n \in Memory,
         cutoff' = cutoff, came' = came, lease' = lease, run' = run,
         proc' = [proc EXCEPT ![p] = n],
         Shape(n), n.token = proc[p].token, n.pc # "off", proc[p].pc # "off",
         stored' \in [Symbols -> SUBSET Nat], Grown(stored, stored'),
         ckpt' \in [Symbols -> Nat], Ahead(ckpt, ckpt'), ckpt' = ckpt \/ Valid(p),
         CheckpointStored', JobOK(n, cutoff, ckpt', stored'),
         Valid(p) => HoldOK(n, ckpt', run)
  PROVE  CollectInv'
  <1>1. TableTypes'
    BY DEF CollectInv, TableTypes
  <1>2. TokensDistinct'
    BY DEF CollectInv, TableTypes, TokensDistinct
  <1>3. ProcsInv'
    <2> SUFFICES ASSUME NEW q \in Procs
                 PROVE  Shape(proc'[q]) /\ JobOK(proc'[q], cutoff', ckpt', stored')
      BY DEF ProcsInv
    <2>1. CASE q = p
      BY <2>1 DEF CollectInv, TableTypes
    <2>2. CASE q # p
      <3>1. proc'[q] = proc[q] /\ proc[q] \in Memory
        BY <2>2 DEF CollectInv, TableTypes
      <3>2. Shape(proc[q]) /\ JobOK(proc[q], cutoff, ckpt, stored)
        BY DEF CollectInv, ProcsInv
      <3>3. cutoff \in Nat /\ cutoff <= cutoff /\ ckpt \in [Symbols -> Nat]
        BY DEF CollectInv, TableTypes
      <3>4. JobOK(proc[q], cutoff, ckpt', stored')
        BY <3>1, <3>2, <3>3, JobForward
      <3> QED BY <3>1, <3>2, <3>4
    <2> QED BY <2>1, <2>2
  <1>4. HoldersInv'
    <2> SUFFICES ASSUME NEW q \in Procs, Valid(q)' PROVE HoldOK(proc'[q], ckpt', run')
      BY DEF HoldersInv
    <2>1. CASE q = p
      <3>1. proc'[q] = n /\ Valid(p)
        BY <2>1 DEF Valid, CollectInv, TableTypes
      <3> QED BY <3>1
    <2>2. CASE q # p
      <3>1. proc'[q] = proc[q] /\ Valid(q)
        BY <2>2 DEF Valid, CollectInv, TableTypes
      <3>2. ckpt' = ckpt
        BY <3>1, <2>2, OneHolder
      <3> QED BY <3>1, <3>2 DEF CollectInv, HoldersInv
    <2> QED BY <2>1, <2>2
  <1> QED BY <1>1, <1>2, <1>3, <1>4 DEF CollectInv

\* The same, when no table changes.
LEMMA MemoryStep ==
  ASSUME CollectInv, NEW p \in Procs, NEW n \in Memory,
         UNCHANGED <<cutoff, came, lease, run, stored, ckpt>>,
         proc' = [proc EXCEPT ![p] = n],
         Shape(n), n.token = proc[p].token, n.pc # "off", proc[p].pc # "off",
         JobOK(n, cutoff, ckpt, stored),
         Valid(p) => HoldOK(n, ckpt, run)
  PROVE  CollectInv'
  <1>1. ckpt \in [Symbols -> Nat] /\ stored \in [Symbols -> SUBSET Nat]
    BY DEF CollectInv, TableTypes
  <1>2. Ahead(ckpt, ckpt') /\ Grown(stored, stored')
    BY <1>1 DEF Ahead, Grown
  <1>3. CheckpointStored'
    BY DEF CollectInv, CheckpointStored
  <1> QED BY <1>1, <1>2, <1>3, ProcessStep

\* The memory of a process before its step.
LEMMA Before ==
  ASSUME CollectInv, NEW p \in Procs
  PROVE  /\ proc[p] \in Memory /\ Shape(proc[p]) /\ JobOK(proc[p], cutoff, ckpt, stored)
         /\ proc[p].job \in Jobs
         /\ Valid(p) => HoldOK(proc[p], ckpt, run)
         /\ proc[p].job.by # "none" => AtWork(proc[p])
         /\ AtWork(proc[p]) => proc[p].pc \in Working
  <1>1. /\ proc[p] \in Memory /\ Shape(proc[p]) /\ JobOK(proc[p], cutoff, ckpt, stored)
        /\ Valid(p) => HoldOK(proc[p], ckpt, run)
    BY DEF CollectInv, TableTypes, ProcsInv, HoldersInv
  <1>2. proc[p].job \in Jobs
    BY <1>1 DEF Memory
  <1>3. AtWork(proc[p]) => proc[p].pc \in Working
    BY <1>1, <1>2 DEF AtWork, Shape, Working, Jobs
  <1> QED BY <1>1, <1>2, <1>3 DEF AtWork

\* A process without work that neither repairs nor leaves its run.
LEMMA IdleStep ==
  ASSUME CollectInv, NEW p \in Procs, NEW n \in Memory,
         UNCHANGED <<cutoff, came, lease, run, stored, ckpt>>,
         proc' = [proc EXCEPT ![p] = n], proc[p].pc \in Working,
         Shape(n), n.token = proc[p].token, n.pc \in Working, n.job.by = "none",
         n.pc # "repair", n.recon # "repair"
  PROVE  CollectInv'
  <1>1. JobOK(n, cutoff, ckpt, stored)
    BY NoWork
  <1>2. Valid(p) => HoldOK(n, ckpt, run)
    BY Before DEF HoldOK
  <1>3. n.pc # "off" /\ proc[p].pc # "off"
    BY DEF Working
  <1> QED BY <1>1, <1>2, <1>3, MemoryStep

\* A thread gives its work up: a write is refused, or a stop was asked for.
LEMMA GivenUpStep ==
  ASSUME CollectInv, NEW p \in Procs, proc[p].job.by # "none",
         UNCHANGED <<cutoff, came, lease, run, stored, ckpt>>,
         \/ proc' = [proc EXCEPT ![p] = Refused(proc[p])]
         \/ proc' = [proc EXCEPT ![p] = Interrupted(proc[p])]
  PROVE  CollectInv'
  <1>1. proc[p] \in Memory /\ Shape(proc[p]) /\ proc[p].pc \in Working
    BY Before
  <1>2. PICK n \in {Refused(proc[p]), Interrupted(proc[p])} : proc' = [proc EXCEPT ![p] = n]
    OBVIOUS
  <1>3. /\ n \in Memory /\ Shape(n) /\ n.token = proc[p].token /\ n.pc \in Working
        /\ n.job.by = "none" /\ n.pc # "repair" /\ n.recon # "repair"
    BY <1>1, GivenUpOK
  <1> QED BY <1>1, <1>2, <1>3, IdleStep
-----------------------------------------------------------------------------
(***************************************************************************)
(* REST catch-up.                                                          *)
(***************************************************************************)
LEMMA ReconcileStep ==
  ASSUME CollectInv, NEW p \in Procs, Reconcile(p)
  PROVE  CollectInv'
  <1> DEFINE m == proc[p]
             jb == Job(IF m.pc = "ready" THEN "main" ELSE "recon", ResumeStart, cutoff)
             n == IF m.pc = "ready" THEN [m EXCEPT !.pc = "reconcile", !.job = jb]
                  ELSE [m EXCEPT !.recon = "reconcile", !.job = jb]
  <1>1. m \in Memory /\ Shape(m)
    BY Before
  <1>2. ResumeStart \in Nat /\ cutoff \in Nat /\ cutoff > 0 /\ \A s \in Symbols : ResumeStart <= ckpt[s]
    BY ResumeBehind DEF CollectInv, TableTypes
  <1>3. /\ jb \in Jobs /\ jb.by = (IF m.pc = "ready" THEN "main" ELSE "recon")
        /\ jb.at = ResumeStart /\ jb.end = cutoff /\ jb.sym = 1 /\ ~jb.fetched
    BY <1>2, JobType DEF Job
  <1>4. m.pc = "ready" \/ (m.recon = "wait" /\ ~m.stop)
    BY DEF Reconcile
  <1>5. UNCHANGED <<cutoff, came, lease, run, stored, ckpt>>
    BY DEF Reconcile
  <1> HIDE DEF jb
  <1>6. /\ n \in Memory /\ n.token = m.token /\ n.job = jb /\ n.once = m.once /\ n.stop = m.stop
        /\ m.pc = "ready" => n.pc = "reconcile" /\ n.recon = m.recon
        /\ m.pc # "ready" => n.pc = m.pc /\ n.recon = "reconcile"
    BY <1>1, <1>3 DEF Memory, Working
  <1> DEFINE bad == (\E s \in Symbols : ckpt[s] > cutoff)
                    \/ ((\E s \in Symbols : ckpt[s] = 0) /\ ResumeStart >= cutoff)
  <1>7. proc' = [proc EXCEPT ![p] = IF bad THEN Refused(n) ELSE IF ResumeStart < cutoff THEN n ELSE Done(n)]
    BY DEF Reconcile, jb
  <1> HIDE DEF n
  <1>8. Shape(n) /\ n.job.by # "none" /\ AtWork(n) /\ n.pc \in Working /\ m.pc \in Working
        /\ (n.pc = "reconcile" \/ n.recon = "reconcile")
    BY <1>1, <1>3, <1>4, <1>6 DEF Shape, AtWork, Working
  <1>9. CASE bad
    <2> DEFINE z == Refused(n)
    <2>1. /\ z \in Memory /\ Shape(z) /\ z.token = n.token /\ z.pc \in Working
          /\ z.job.by = "none" /\ z.pc # "repair" /\ z.recon # "repair"
      BY <1>6, <1>8, GivenUpOK
    <2>2. proc' = [proc EXCEPT ![p] = z]
      BY <1>7, <1>9
    <2> HIDE DEF z, m
    <2> QED BY <1>5, <1>6, <1>8, <2>1, <2>2, IdleStep DEF m
  <1>10. CASE ~bad /\ ResumeStart < cutoff
    <2>1. proc' = [proc EXCEPT ![p] = n]
      BY <1>7, <1>10
    <2>2. \A s \in Symbols, t \in Prompt : t < ResumeStart => t \in stored[s]
      <3> TAKE s \in Symbols, t \in Prompt
      <3>1. ckpt[s] \in Nat /\ t \in Nat
        BY Minutes DEF CollectInv, TableTypes
      <3> QED BY <3>1, <1>2 DEF CollectInv, CheckpointStored
    <2>3. \A s \in Symbols : ~(s < 1)
      BY SymbolRange
    <2>4. JobOK(n, cutoff, ckpt, stored)
      BY <1>2, <1>3, <1>6, <1>10, <2>2, <2>3, SymbolRange DEF JobOK
    <2>5. \A s \in Symbols : ckpt[s] <= cutoff
      BY DEF CollectInv, CheckpointStored
    <2>6. Valid(p) => HoldOK(m, ckpt, run)
      BY Before
    <2>7. n.pc # "repair" /\ n.recon # "repair"
      BY <1>4, <1>6, <1>1 DEF Shape
    <2>8. Valid(p) => HoldOK(n, ckpt, run)
      BY <1>3, <1>6, <1>8, <2>5, <2>6, <2>7 DEF HoldOK
    <2>9. n.pc # "off" /\ m.pc # "off"
      BY <1>8 DEF Working
    <2> HIDE DEF m, bad
    <2> QED BY <1>5, <1>6, <1>8, <2>1, <2>4, <2>8, <2>9, MemoryStep DEF m
  <1>11. CASE ~bad /\ ResumeStart >= cutoff
    <2> DEFINE z == Done(n)
    <2>1. /\ z \in Memory /\ Shape(z) /\ z.token = n.token /\ z.pc \in Working
          /\ z.job.by = "none"
      BY <1>6, <1>8, DoneOK
    <2>2. proc' = [proc EXCEPT ![p] = z]
      <3>1. ~bad /\ ~(ResumeStart < cutoff)
        BY <1>2, <1>11
      <3> HIDE DEF bad, m
      <3> QED BY <1>7, <3>1
    <2>3. \A s \in Symbols : ckpt[s] \in Nat /\ ckpt[s] <= cutoff
      BY DEF CollectInv, CheckpointStored, TableTypes
    <2>4. \A s, y \in Symbols : ckpt[s] = ckpt[y]
      BY <1>2, <1>11, <2>3
    <2>5. Valid(p) => HoldOK(m, ckpt, run)
      BY Before
    <2> HIDE DEF z, m, bad
    <2>6. Valid(p) => HoldOK(z, ckpt, run)
      BY <1>6, <1>8, <2>1, <2>4, <2>5 DEF HoldOK
    <2>7. z.pc # "off" /\ m.pc # "off"
      BY <1>8, <2>1 DEF Working
    <2>8. JobOK(z, cutoff, ckpt, stored)
      BY <2>1, NoWork
    <2> QED BY <1>5, <1>6, <2>1, <2>2, <2>6, <2>7, <2>8, MemoryStep DEF m
  <1> QED BY <1>2, <1>9, <1>10, <1>11

LEMMA FetchStep ==
  ASSUME CollectInv, NEW p \in Procs, Fetch(p)
  PROVE  CollectInv'
  <1> DEFINE m == proc[p]
             w == Window(m.job.at, m.job.end)
             g == {t \in Available : w[1] <= t /\ t < w[2]}
             jb == [m.job EXCEPT !.fetched = TRUE, !.got = g]
             n == [m EXCEPT !.job = jb]
  <1>1. m \in Memory /\ Shape(m) /\ m.job \in Jobs /\ JobOK(m, cutoff, ckpt, stored)
        /\ (Valid(p) => HoldOK(m, ckpt, run))
    BY Before
  <1>2. m.job.by # "none" /\ InRange(m.job.at, m.job.end) # {} /\ UNCHANGED <<cutoff, came, lease, run, stored, ckpt>>
    BY DEF Fetch
  <1>3. m.pc \in Working
    BY <1>2, Before
  <1>4. proc' = [proc EXCEPT ![p] = n]
    <2>1. proc' = [proc EXCEPT ![p].job.fetched = TRUE, ![p].job.got = g]
      BY DEF Fetch
    <2>2. proc \in [Procs -> Memory]
      BY DEF CollectInv, TableTypes
    <2> HIDE DEF g
    <2> QED BY <2>1, <2>2 DEF Memory, Jobs
  <1>5. g \subseteq Nat
    BY Minutes DEF Available, CollectInv, TableTypes
  <1> HIDE DEF g, w
  <1>6. /\ jb \in Jobs /\ jb.by = m.job.by /\ jb.at = m.job.at /\ jb.end = m.job.end
        /\ jb.sym = m.job.sym /\ jb.got = g
    BY <1>1, <1>5 DEF Jobs
  <1> HIDE DEF jb
  <1>7. /\ n \in Memory /\ n.pc = m.pc /\ n.once = m.once /\ n.token = m.token /\ n.stop = m.stop
        /\ n.recon = m.recon /\ n.job = jb
    BY <1>1, <1>6 DEF Memory
  <1> HIDE DEF n
  <1>8. Shape(n)
    BY <1>1, <1>2, <1>6, <1>7 DEF Shape
  <1>9. \A t \in Prompt : w[1] <= t /\ t < w[2] => t \in g
    <2> SUFFICES ASSUME NEW t \in Prompt, w[1] <= t, t < w[2] PROVE t \in g
      OBVIOUS
    <2>1. m.job.at \in Nat /\ m.job.end \in Nat /\ cutoff \in Nat /\ t \in Nat
      BY <1>1, Minutes DEF Jobs, CollectInv, TableTypes
    <2>2. m.job.at < m.job.end /\ m.job.end <= cutoff
      BY <1>1, <1>2 DEF JobOK
    <2>3. w[2] \in Nat /\ w[2] <= m.job.end
      BY <2>1, <2>2, <1>2, WindowFirst DEF w
    <2>4. t \in Available
      BY <2>1, <2>2, <2>3 DEF Available
    <2> QED BY <2>4 DEF g
  <1>10. JobOK(n, cutoff, ckpt, stored)
    <2> USE DEF w
    <2> QED BY <1>1, <1>2, <1>6, <1>7, <1>9 DEF JobOK
  <1>11. Valid(p) => HoldOK(n, ckpt, run)
    BY <1>1, <1>6, <1>7 DEF HoldOK
  <1>12. n.pc # "off" /\ m.pc # "off"
    BY <1>3, <1>7 DEF Working
  <1> HIDE DEF m
  <1> QED BY <1>2, <1>4, <1>7, <1>8, <1>10, <1>11, <1>12, MemoryStep DEF m

LEMMA FetchFailsStep ==
  ASSUME CollectInv, NEW p \in Procs, NEW r \in BOOLEAN, FetchFails(p, r)
  PROVE  CollectInv'
  <1> DEFINE m == proc[p]
             n == [m EXCEPT !.recon = "wait", !.job = NoJob]
  <1>1. m \in Memory /\ Shape(m) /\ m.job.by # "none" /\ m.pc \in Working
    BY Before DEF FetchFails
  <1>2. UNCHANGED <<cutoff, came, lease, run, stored, ckpt>>
    BY DEF FetchFails
  <1>3. CASE r /\ Valid(p) /\ m.job.by = "recon"
    <2>1. proc' = [proc EXCEPT ![p] = n]
      BY <1>3 DEF FetchFails
    <2>2. /\ n \in Memory /\ n.pc = m.pc /\ n.once = m.once /\ n.token = m.token /\ n.stop = m.stop
          /\ n.recon = "wait" /\ n.job = NoJob
      BY <1>1, NoJobType DEF Memory
    <2> HIDE DEF n
    <2>3. Shape(n) /\ n.pc # "repair" /\ n.recon # "repair" /\ n.job.by = "none"
      BY <1>1, <1>3, <2>2, NoJobType DEF Shape
    <2> HIDE DEF m
    <2> QED BY <1>1, <1>2, <2>1, <2>2, <2>3, IdleStep DEF m
  <1>4. CASE ~(r /\ Valid(p) /\ m.job.by = "recon")
    <2>1. proc' = [proc EXCEPT ![p] = Refused(proc[p])]
      BY <1>4 DEF FetchFails
    <2> QED BY <1>1, <1>2, <2>1, GivenUpStep
  <1> QED BY <1>3, <1>4

LEMMA StoreStep ==
  ASSUME CollectInv, NEW p \in Procs, Store(p)
  PROVE  CollectInv'
  <1> DEFINE m == proc[p]
             t == Least(m.job.got)
             jb == [m.job EXCEPT !.got = @ \ {t}]
             n == [m EXCEPT !.job = jb]
  <1>1. m \in Memory /\ Shape(m) /\ m.job \in Jobs /\ JobOK(m, cutoff, ckpt, stored)
        /\ (Valid(p) => HoldOK(m, ckpt, run))
    BY Before
  <1>2. m.job.fetched /\ m.job.got # {} /\ m.job.by # "none" /\ UNCHANGED <<cutoff, came, lease, run, ckpt>>
    BY <1>1 DEF Store, Shape
  <1>3. m.pc \in Working
    BY <1>2, Before
  <1>4. CASE ~Valid(p)
    <2>1. proc' = [proc EXCEPT ![p] = Refused(proc[p])] /\ stored' = stored
      BY <1>4 DEF Store
    <2> QED BY <1>2, <2>1, GivenUpStep
  <1>5. CASE Valid(p)
    <2>0. stored' = [stored EXCEPT ![m.job.sym] = @ \cup {t}]
          /\ proc' = [proc EXCEPT ![p].job.got = @ \ {t}]
      BY <1>5 DEF Store
    <2>1. t \in Nat
      <3>1. m.job.got \in SUBSET Int /\ \A x \in m.job.got : 0 <= x /\ x \in Nat
        BY <1>1 DEF Jobs
      <3> QED BY <3>1, <1>2, LeastInteger, 0 \in Int
    <2> HIDE DEF t
    <2>2. proc' = [proc EXCEPT ![p] = n]
      <3>1. proc \in [Procs -> Memory]
        BY DEF CollectInv, TableTypes
      <3> QED BY <2>0, <3>1 DEF Memory, Jobs
    <2>3. m.job.sym \in Symbols
      BY <1>1, <1>2 DEF JobOK
    <2>4. stored \in [Symbols -> SUBSET Nat]
      BY DEF CollectInv, TableTypes
    <2>5. /\ stored' \in [Symbols -> SUBSET Nat] /\ Grown(stored, stored')
          /\ t \in stored'[m.job.sym]
      BY <2>0, <2>1, <2>3, <2>4 DEF Grown
    <2>6. /\ jb \in Jobs /\ jb.by = m.job.by /\ jb.at = m.job.at /\ jb.end = m.job.end
          /\ jb.sym = m.job.sym /\ jb.got = m.job.got \ {t} /\ jb.fetched
      BY <1>1, <1>2 DEF Jobs
    <2> HIDE DEF jb
    <2>7. /\ n \in Memory /\ n.pc = m.pc /\ n.once = m.once /\ n.token = m.token /\ n.stop = m.stop
          /\ n.recon = m.recon /\ n.job = jb
      BY <1>1, <2>6 DEF Memory
    <2> HIDE DEF n
    <2>8. Shape(n)
      BY <1>1, <1>2, <2>6, <2>7 DEF Shape
    <2>9. JobOK(n, cutoff, ckpt, stored')
      <3>1. \A s \in Symbols, x \in Prompt : x < m.job.at => x \in stored'[s]
        BY <1>1, <1>2, <2>5 DEF JobOK, Grown
      <3>2. \A x \in Prompt : /\ Window(m.job.at, m.job.end)[1] <= x
                              /\ x < Window(m.job.at, m.job.end)[2]
              => x \in m.job.got \ {t} \/ x \in stored'[m.job.sym]
        BY <1>1, <1>2, <2>3, <2>5 DEF JobOK, Grown
      <3> QED BY <3>1, <3>2, <1>1, <1>2, <2>6, <2>7 DEF JobOK
    <2>10. HoldOK(n, ckpt, run)
      BY <1>1, <1>5, <2>6, <2>7 DEF HoldOK
    <2>11. n.pc # "off" /\ m.pc # "off"
      BY <1>3, <2>7 DEF Working
    <2>12. ckpt \in [Symbols -> Nat] /\ Ahead(ckpt, ckpt') /\ ckpt' = ckpt
      BY <1>2 DEF CollectInv, TableTypes, Ahead
    <2>13. CheckpointStored'
      BY <1>2, <2>5 DEF CollectInv, CheckpointStored, Grown
    <2> HIDE DEF m
    <2> QED BY <1>2, <2>2, <2>5, <2>7, <2>8, <2>9, <2>10, <2>11, <2>12, <2>13, ProcessStep DEF m
  <1> QED BY <1>4, <1>5

\* The window of the work of a process that has fetched, and its bars.
LEMMA FetchedWindow ==
  ASSUME CollectInv, NEW p \in Procs, proc[p].job.fetched
  PROVE  LET j == proc[p].job
             w == Window(j.at, j.end)
         IN /\ j.by # "none" /\ j.sym \in Symbols /\ j.at \in Nat /\ j.end \in Nat
            /\ w[2] \in Nat /\ j.at < w[2] /\ w[2] <= j.end /\ j.end <= cutoff
            /\ \A s \in Symbols : s < j.sym => w[2] <= ckpt[s]
            /\ j.got = {} => \A t \in Prompt : t < w[2] => t \in stored[j.sym]
  <1> DEFINE j == proc[p].job
             w == Window(j.at, j.end)
  <1>1. Shape(proc[p]) /\ JobOK(proc[p], cutoff, ckpt, stored) /\ j \in Jobs
    BY Before
  <1>2. j.by # "none" /\ j.at \in Nat /\ j.end \in Nat
    BY <1>1 DEF Shape, Jobs
  <1>3. /\ j.sym \in Symbols /\ j.at < j.end /\ j.end <= cutoff
        /\ InRange(j.at, j.end) # {}
        /\ \A s \in Symbols, t \in Prompt : t < j.at => t \in stored[s]
        /\ \A s \in Symbols : s < j.sym => w[2] <= ckpt[s]
        /\ \A t \in Prompt : w[1] <= t /\ t < w[2] => t \in j.got \/ t \in stored[j.sym]
    BY <1>1, <1>2 DEF JobOK
  <1>4. /\ w[2] \in Nat /\ j.at < w[2] /\ w[2] <= j.end
        /\ \A t \in Prompt : j.at <= t /\ t < w[2] => w[1] <= t
    BY <1>2, <1>3, WindowFirst
  <1>5. ASSUME j.got = {}, NEW t \in Prompt, t < w[2] PROVE t \in stored[j.sym]
    <2>1. t \in Nat
      BY Minutes
    <2> HIDE DEF j, w
    <2> QED BY <2>1, <1>2, <1>3, <1>4, <1>5
  <1> QED BY <1>2, <1>3, <1>4, <1>5

\* Where a process goes after a window of a symbol.
LEMMA AdvanceStep ==
  ASSUME CollectInv, NEW p \in Procs, Advance(p)
  PROVE  CollectInv'
  <1> DEFINE m == proc[p]
             j == m.job
             w == Window(j.at, j.end)
             to == w[2]
             n == Onward(m)
  <1>1. m \in Memory /\ Shape(m) /\ j \in Jobs /\ JobOK(m, cutoff, ckpt, stored)
        /\ (Valid(p) => HoldOK(m, ckpt, run))
    BY Before
  <1>2. j.fetched /\ j.got = {} /\ UNCHANGED <<cutoff, came, lease, run, stored>>
    BY DEF Advance
  <1>3. /\ j.by # "none" /\ j.sym \in Symbols /\ j.at \in Nat /\ j.end \in Nat
        /\ to \in Nat /\ j.at < to /\ to <= j.end /\ j.end <= cutoff
        /\ \A s \in Symbols : s < j.sym => to <= ckpt[s]
        /\ \A t \in Prompt : t < to => t \in stored[j.sym]
    BY <1>2, FetchedWindow
  <1>4. m.pc \in Working /\ AtWork(m)
    BY <1>3, Before
  <1>5. CASE ~Valid(p)
    <2>1. proc' = [proc EXCEPT ![p] = Refused(proc[p])] /\ ckpt' = ckpt
      BY <1>5 DEF Advance
    <2> QED BY <1>2, <1>3, <2>1, GivenUpStep
  <1>6. CASE Valid(p)
    <2>1. proc' = [proc EXCEPT ![p] = n]
      BY <1>6 DEF Advance
    <2>2. ckpt \in [Symbols -> Nat] /\ cutoff \in Nat /\ stored \in [Symbols -> SUBSET Nat]
      BY DEF CollectInv, TableTypes
    <2>3. ckpt' = [ckpt EXCEPT ![j.sym] = IF ckpt[j.sym] <= to THEN to ELSE ckpt[j.sym]]
      <3>1. ckpt' = [ckpt EXCEPT ![j.sym] = Most({ckpt[j.sym], to})]
        BY <1>6 DEF Advance
      <3>2. ckpt[j.sym] \in Int /\ to \in Int
        BY <1>3, <2>2
      <3> HIDE DEF j, to
      <3> QED BY <3>1, <3>2, MostOfTwo
    <2> HIDE DEF w, to
    <2>4. ckpt' \in [Symbols -> Nat] /\ Ahead(ckpt, ckpt') /\ to <= ckpt'[j.sym]
      BY <1>3, <2>2, <2>3 DEF Ahead
    <2>5. \A s \in Symbols : ckpt'[s] = ckpt[s] \/ (s = j.sym /\ ckpt'[s] = to)
      BY <1>3, <2>2, <2>3
    <2>6. CheckpointStored'
      <3> SUFFICES ASSUME NEW s \in Symbols
                   PROVE  ckpt'[s] <= cutoff /\ \A t \in Prompt : t < ckpt'[s] => t \in stored[s]
        BY <1>2 DEF CheckpointStored
      <3>1. CASE ckpt'[s] = ckpt[s]
        BY <3>1 DEF CollectInv, CheckpointStored
      <3>2. CASE s = j.sym /\ ckpt'[s] = to
        BY <1>3, <2>2, <3>2
      <3> QED BY <2>5, <3>1, <3>2
    <2>7. \A s \in Symbols : s <= j.sym => to <= ckpt'[s]
      <3> SUFFICES ASSUME NEW s \in Symbols, s <= j.sym PROVE to <= ckpt'[s]
        OBVIOUS
      <3>1. s \in Nat /\ j.sym \in Nat
        BY <1>3, SymbolRange
      <3>2. CASE s = j.sym
        BY <2>4, <3>2
      <3>3. CASE s < j.sym
        BY <1>3, <2>2, <2>4, <3>3 DEF Ahead
      <3> QED BY <3>1, <3>2, <3>3
    <2>8. (m.pc = "reconcile" \/ m.recon = "reconcile") => \A s \in Symbols : ckpt'[s] <= j.end
      BY <1>1, <1>3, <1>6, <2>5 DEF HoldOK
    <2>9. (m.pc = "repair" \/ m.recon = "repair") => ckpt' = ckpt
      BY <1>1, <1>3, <1>6, <2>2, <2>3 DEF HoldOK
    <2>10. SUFFICES /\ n \in Memory /\ Shape(n) /\ n.token = m.token /\ n.pc \in Working
                    /\ JobOK(n, cutoff, ckpt', stored) /\ HoldOK(n, ckpt', run)
      <3>1. n.pc # "off" /\ m.pc # "off"
        BY <1>4, <2>10 DEF Working
      <3>2. stored' \in [Symbols -> SUBSET Nat] /\ Grown(stored, stored') /\ stored' = stored
        BY <1>2, <2>2 DEF Grown
      <3> HIDE DEF n, m
      <3> QED BY <1>2, <1>6, <2>1, <2>4, <2>6, <2>10, <3>1, <3>2, ProcessStep DEF m
    <2>11. ASSUME NEW x \in Jobs, n = [m EXCEPT !.job = x], x.by = j.by, x.end = j.end, ~x.fetched,
                  JobOK(n, cutoff, ckpt', stored)
           PROVE  /\ n \in Memory /\ Shape(n) /\ n.token = m.token /\ n.pc \in Working
                  /\ JobOK(n, cutoff, ckpt', stored) /\ HoldOK(n, ckpt', run)
      <3>1. /\ n \in Memory /\ n.pc = m.pc /\ n.once = m.once /\ n.token = m.token /\ n.stop = m.stop
            /\ n.recon = m.recon /\ n.job = x
        BY <1>1, <2>11 DEF Memory
      <3> HIDE DEF n
      <3>2. Shape(n)
        BY <1>1, <1>3, <2>11, <3>1 DEF Shape
      <3>3. HoldOK(n, ckpt', run)
        BY <1>1, <1>3, <1>6, <2>8, <2>9, <2>11, <3>1 DEF HoldOK
      <3> QED BY <1>4, <2>11, <3>1, <3>2, <3>3
    <2>12. CASE j.sym + 1 \in Symbols
      <3> DEFINE x == [j EXCEPT !.sym = @ + 1, !.fetched = FALSE]
      <3>1. /\ x \in Jobs /\ x.by = j.by /\ x.at = j.at /\ x.end = j.end /\ x.sym = j.sym + 1
            /\ ~x.fetched
        <4>1. j \in Jobs
          BY <1>1
        <4> DEFINE k == j.sym + 1
        <4>2. k \in Nat
          BY <4>1 DEF Jobs
        <4>3. x = [j EXCEPT !.sym = k, !.fetched = FALSE]
          OBVIOUS
        <4> HIDE DEF j, k, x
        <4>4. x \in Jobs
          BY <4>1, <4>2, <4>3 DEF Jobs
        <4>5. x.by = j.by /\ x.at = j.at /\ x.end = j.end /\ x.sym = k /\ ~x.fetched
          BY <4>1, <4>3 DEF Jobs
        <4> QED BY <4>4, <4>5 DEF k
      <3>2. x.at < x.end
        BY <1>3, <3>1
      <3>3. n = [m EXCEPT !.job = x]
        <4>1. n = IF x.at < x.end THEN [m EXCEPT !.job = x] ELSE Done(m)
          BY <2>12 DEF Onward
        <4> HIDE DEF x, n, m
        <4> QED BY <3>2, <4>1
      <3> HIDE DEF x, n
      <3>4. n.job = x
        BY <1>1, <3>3 DEF Memory
      <3>5. \A s \in Symbols : s < j.sym + 1 => to <= ckpt'[s]
        <4> SUFFICES ASSUME NEW s \in Symbols, s < j.sym + 1 PROVE s <= j.sym
          BY <2>7
        <4>1. s \in Nat /\ j.sym \in Nat
          BY <1>3, SymbolRange
        <4> QED BY <4>1
      <3>6. JobOK(n, cutoff, ckpt', stored)
        <4>1. InRange(j.at, j.end) # {} => \A s \in Symbols : s < j.sym + 1 => Window(j.at, j.end)[2] <= ckpt'[s]
          BY <3>5 DEF to, w
        <4>2. \A s \in Symbols, t \in Prompt : t < j.at => t \in stored[s]
          BY <1>1, <1>3 DEF JobOK
        <4> QED BY <1>3, <2>12, <3>1, <3>2, <3>4, <4>1, <4>2 DEF JobOK
      <3> HIDE DEF m, j
      <3> QED BY <2>11, <3>1, <3>3, <3>6
    <2>13. CASE j.sym + 1 \notin Symbols
      <3> DEFINE x == [j EXCEPT !.at = to, !.sym = 1, !.fetched = FALSE]
      <3>1. /\ x \in Jobs /\ x.by = j.by /\ x.at = to /\ x.end = j.end /\ x.sym = 1
            /\ ~x.fetched
        BY <1>1, <1>3 DEF Jobs
      <3>2. \A s \in Symbols : to <= ckpt'[s]
        BY <1>3, <2>7, <2>13, SymbolRange
      <3>3. n = IF x.at < x.end THEN [m EXCEPT !.job = x] ELSE Done(m)
        BY <2>13 DEF Onward, to, w
      <3> HIDE DEF x, n
      <3>4. CASE x.at < x.end
        <4>1. n = [m EXCEPT !.job = x]
          BY <3>3, <3>4
        <4>2. n.job = x
          BY <1>1, <4>1 DEF Memory
        <4>3. \A s \in Symbols, t \in Prompt : t < to => t \in stored[s]
          <5> TAKE s \in Symbols, t \in Prompt
          <5>1. t \in Nat /\ ckpt'[s] \in Nat /\ to <= ckpt'[s] /\ to \in Nat
            BY <1>3, <2>4, <3>2, Minutes
          <5> QED BY <5>1, <1>2, <2>6 DEF CheckpointStored
        <4>4. \A s \in Symbols : ~(s < 1)
          BY SymbolRange
        <4>5. JobOK(n, cutoff, ckpt', stored)
          BY <1>3, <3>1, <3>4, <4>2, <4>3, <4>4, SymbolRange DEF JobOK
        <4> HIDE DEF m, j
        <4> QED BY <2>11, <3>1, <4>1, <4>5
      <3>5. CASE ~(x.at < x.end)
        <4>1. n = Done(m)
          BY <3>3, <3>5
        <4>2. /\ n \in Memory /\ Shape(n) /\ n.token = m.token /\ n.pc \in Working
              /\ n.job.by = "none"
              /\ n.pc = "repair" => m.pc = "reconcile"
              /\ n.recon = "repair" => m.recon = "reconcile"
          BY <1>1, <1>4, <4>1, DoneOK
        <4>3. JobOK(n, cutoff, ckpt', stored)
          BY <4>2, NoWork
        <4>4. to = j.end
          BY <1>3, <3>1, <3>5
        <4>5. (m.pc = "reconcile" \/ m.recon = "reconcile") => \A s, z \in Symbols : ckpt'[s] = ckpt'[z]
          BY <1>3, <2>4, <2>8, <3>2, <4>4
        <4>6. HoldOK(n, ckpt', run)
          BY <1>1, <1>4, <1>6, <4>2, <4>5 DEF HoldOK
        <4> QED BY <4>2, <4>3, <4>6
      <3> QED BY <3>4, <3>5
    <2> QED BY <2>12, <2>13
  <1> QED BY <1>5, <1>6

LEMMA AdvanceClosedStep ==
  ASSUME CollectInv, NEW p \in Procs, AdvanceClosed(p)
  PROVE  CollectInv'
  <1> DEFINE m == proc[p]
             j == m.job
             n == Done(m)
  <1>1. m \in Memory /\ Shape(m) /\ j \in Jobs /\ JobOK(m, cutoff, ckpt, stored)
        /\ (Valid(p) => HoldOK(m, ckpt, run))
    BY Before
  <1>2. j.by # "none" /\ InRange(j.at, j.end) = {} /\ UNCHANGED <<cutoff, came, lease, run, stored>>
    BY DEF AdvanceClosed
  <1>3. /\ j.at \in Nat /\ j.end \in Nat /\ j.end <= cutoff
        /\ \A s \in Symbols, t \in Prompt : t < j.at => t \in stored[s]
    BY <1>1, <1>2 DEF JobOK, Jobs
  <1>4. m.pc \in Working /\ AtWork(m)
    BY <1>2, Before
  <1>5. CASE ~Valid(p)
    <2>1. proc' = [proc EXCEPT ![p] = Refused(proc[p])] /\ ckpt' = ckpt
      BY <1>5 DEF AdvanceClosed
    <2> QED BY <1>2, <2>1, GivenUpStep
  <1>6. CASE Valid(p)
    <2>1. proc' = [proc EXCEPT ![p] = n]
      BY <1>6 DEF AdvanceClosed
    <2>2. ckpt \in [Symbols -> Nat] /\ cutoff \in Nat /\ stored \in [Symbols -> SUBSET Nat]
      BY DEF CollectInv, TableTypes
    <2>3. ckpt' = [s \in Symbols |-> IF ckpt[s] <= j.end THEN j.end ELSE ckpt[s]]
      <3>1. ckpt' = [s \in Symbols |-> Most({ckpt[s], j.end})]
        BY <1>6 DEF AdvanceClosed
      <3>2. \A s \in Symbols : Most({ckpt[s], j.end}) = IF ckpt[s] <= j.end THEN j.end ELSE ckpt[s]
        BY <1>3, <2>2, MostOfTwo
      <3> QED BY <3>1, <3>2
    <2>4. ckpt' \in [Symbols -> Nat] /\ Ahead(ckpt, ckpt') /\ \A s \in Symbols : j.end <= ckpt'[s]
      BY <1>3, <2>2, <2>3 DEF Ahead
    <2>5. \A s \in Symbols : ckpt'[s] = ckpt[s] \/ ckpt'[s] = j.end
      BY <2>3
    <2>6. CheckpointStored'
      <3> SUFFICES ASSUME NEW s \in Symbols
                   PROVE  ckpt'[s] <= cutoff /\ \A t \in Prompt : t < ckpt'[s] => t \in stored[s]
        BY <1>2 DEF CheckpointStored
      <3>1. CASE ckpt'[s] = ckpt[s]
        BY <3>1 DEF CollectInv, CheckpointStored
      <3>2. CASE ckpt'[s] = j.end
        <4>1. ASSUME NEW t \in Prompt, t < j.end PROVE t < j.at
          <5>1. t \in Nat
            BY Minutes
          <5>2. ~(j.at <= t)
            BY <1>2, <1>3, <4>1, <5>1, ClosedRange
          <5> QED BY <1>3, <5>1, <5>2
        <4> QED BY <1>3, <3>2, <4>1
      <3> QED BY <2>5, <3>1, <3>2
    <2>7. /\ n \in Memory /\ Shape(n) /\ n.token = m.token /\ n.pc \in Working
          /\ n.job.by = "none"
          /\ n.pc = "repair" => m.pc = "reconcile"
          /\ n.recon = "repair" => m.recon = "reconcile"
      BY <1>1, <1>4, DoneOK
    <2>8. JobOK(n, cutoff, ckpt', stored)
      BY <2>7, NoWork
    <2>9. (m.pc = "reconcile" \/ m.recon = "reconcile") => \A s, z \in Symbols : ckpt'[s] = ckpt'[z]
      <3> SUFFICES ASSUME m.pc = "reconcile" \/ m.recon = "reconcile", NEW s \in Symbols
                   PROVE  ckpt'[s] = j.end
        OBVIOUS
      <3>1. ckpt[s] <= j.end /\ ckpt[s] \in Nat
        BY <1>1, <1>2, <1>6, <2>2 DEF HoldOK
      <3> QED BY <1>3, <2>3, <3>1
    <2> HIDE DEF n
    <2>10. HoldOK(n, ckpt', run)
      BY <1>1, <1>4, <1>6, <2>7, <2>9 DEF HoldOK
    <2>11. n.pc # "off" /\ m.pc # "off"
      BY <1>4, <2>7 DEF Working
    <2>12. stored' \in [Symbols -> SUBSET Nat] /\ Grown(stored, stored') /\ stored' = stored
      BY <1>2, <2>2 DEF Grown
    <2> HIDE DEF m
    <2> QED BY <1>2, <1>6, <2>1, <2>4, <2>6, <2>7, <2>8, <2>10, <2>11, <2>12, ProcessStep DEF m
  <1> QED BY <1>5, <1>6

LEMMA RepairGapStep ==
  ASSUME CollectInv, NEW p \in Procs, RepairGap(p)
  PROVE  CollectInv'
  <1> DEFINE m == proc[p]
             g == NextGap
             jb == Job(IF m.pc = "repair" THEN "main" ELSE "recon", g[2], g[2] + 1)
             n == [m EXCEPT !.job = jb]
  <1>1. m \in Memory /\ Shape(m) /\ m.job \in Jobs /\ (Valid(p) => HoldOK(m, ckpt, run))
    BY Before
  <1>2. /\ m.job.by = "none" /\ (m.pc = "repair" \/ m.recon = "repair")
        /\ UNCHANGED <<cutoff, came, lease, run, stored, ckpt>>
    BY DEF RepairGap
  <1>3. m.pc \in Working /\ AtWork(m)
    BY <1>2, Before DEF AtWork
  <1>4. CASE Gaps = {} \/ m.stop
    <2> DEFINE z == Done(m)
    <2>1. proc' = [proc EXCEPT ![p] = z]
      BY <1>4 DEF RepairGap
    <2>2. /\ z \in Memory /\ Shape(z) /\ z.token = m.token /\ z.pc \in Working
          /\ z.job.by = "none" /\ z.pc # "repair" /\ z.recon # "repair"
      <3>1. m.pc # "reconcile" /\ m.recon # "reconcile"
        BY <1>1, <1>2 DEF Shape
      <3> QED BY <3>1, <1>1, <1>3, DoneOK
    <2> HIDE DEF z, m
    <2> QED BY <1>2, <1>3, <2>1, <2>2, IdleStep DEF m
  <1>5. CASE ~(Gaps = {} \/ m.stop)
    <2>1. g \in Gaps
      BY <1>5, GapChosen
    <2>2. g[1] \in Symbols /\ g[2] \in Nat /\ g[2] < ckpt[g[1]]
      BY <2>1, Minutes DEF Gaps
    <2> HIDE DEF g
    <2>3. /\ jb \in Jobs /\ jb.by = (IF m.pc = "repair" THEN "main" ELSE "recon")
          /\ jb.at = g[2] /\ jb.end = g[2] + 1 /\ jb.sym = 1 /\ ~jb.fetched
      <3>1. g[2] + 1 \in Nat
        BY <2>2
      <3> QED BY <2>2, <3>1, JobType DEF Job
    <2> HIDE DEF jb
    <2>4. /\ n \in Memory /\ n.pc = m.pc /\ n.once = m.once /\ n.token = m.token /\ n.stop = m.stop
          /\ n.recon = m.recon /\ n.job = jb
      BY <1>1, <2>3 DEF Memory
    <2>5. \/ Valid(p) /\ proc' = [proc EXCEPT ![p] = n]
          \/ ~Valid(p) /\ proc' = [proc EXCEPT ![p] = Refused(n)]
      BY <1>5 DEF RepairGap, g, jb
    <2> HIDE DEF n
    <2>6. Shape(n)
      BY <1>1, <1>2, <2>3, <2>4 DEF Shape
    <2>7. CASE ~Valid(p)
      <3> DEFINE z == Refused(n)
      <3>1. /\ z \in Memory /\ Shape(z) /\ z.token = m.token /\ z.pc \in Working
            /\ z.job.by = "none" /\ z.pc # "repair" /\ z.recon # "repair"
        BY <2>3, <2>4, <2>6, GivenUpOK
      <3>2. proc' = [proc EXCEPT ![p] = z]
        BY <2>5, <2>7
      <3> HIDE DEF z, m
      <3> QED BY <1>2, <1>3, <3>1, <3>2, IdleStep DEF m
    <2>8. CASE Valid(p)
      <3>1. proc' = [proc EXCEPT ![p] = n]
        BY <2>5, <2>8
      <3>2. \A s \in Symbols : ckpt[s] \in Nat /\ ckpt[s] = ckpt[g[1]] /\ ckpt[s] <= cutoff
        BY <1>1, <1>2, <2>2, <2>8 DEF HoldOK, CollectInv, TableTypes, CheckpointStored
      <3>3. \A s \in Symbols : g[2] + 1 <= ckpt[s]
        BY <2>2, <3>2
      <3>4. g[2] + 1 <= cutoff
        <4>1. cutoff \in Nat
          BY DEF CollectInv, TableTypes
        <4> QED BY <2>2, <3>2, <4>1
      <3>5. \A s \in Symbols, t \in Prompt : t < g[2] => t \in stored[s]
        <4> SUFFICES ASSUME NEW s \in Symbols, NEW t \in Prompt, t < g[2] PROVE t \in stored[s]
          OBVIOUS
        <4>1. t < ckpt[s]
          BY <2>2, <3>2, <3>3, Minutes
        <4> QED BY <4>1 DEF CollectInv, CheckpointStored
      <3>6. \A s \in Symbols : ~(s < 1)
        BY SymbolRange
      <3>7. JobOK(n, cutoff, ckpt, stored)
        <4>1. g[2] < g[2] + 1
          BY <2>2
        <4> QED BY <2>3, <2>4, <3>4, <3>5, <3>6, <4>1, SymbolRange DEF JobOK
      <3>8. HoldOK(n, ckpt, run)
        <4>1. n.pc # "reconcile" /\ n.recon # "reconcile"
          BY <1>1, <1>2, <2>4 DEF Shape
        <4> QED BY <1>1, <2>3, <2>4, <2>8, <3>2, <3>3, <4>1 DEF HoldOK
      <3>9. n.pc # "off" /\ m.pc # "off"
        BY <1>3, <2>4 DEF Working
      <3> HIDE DEF m
      <3> QED BY <1>2, <2>4, <2>6, <3>1, <3>7, <3>8, <3>9, MemoryStep DEF m
    <2> QED BY <2>7, <2>8
  <1> QED BY <1>4, <1>5
-----------------------------------------------------------------------------
(***************************************************************************)
(* The live stream, renewal and shutdown.                                  *)
(***************************************************************************)
\* A process that keeps its work: only flags and waiting threads change.
LEMMA FlagStep ==
  ASSUME CollectInv, NEW p \in Procs, NEW n \in Memory,
         UNCHANGED <<cutoff, came, lease, run, stored, ckpt>>,
         proc' = [proc EXCEPT ![p] = n], proc[p].pc # "off",
         Shape(n), n.token = proc[p].token, n.job = proc[p].job,
         n.pc = proc[p].pc \/ (n.pc = "closing" /\ proc[p].pc \in Working),
         n.recon = proc[p].recon \/ n.recon = "ended"
  PROVE  CollectInv'
  <1>1. JobOK(proc[p], cutoff, ckpt, stored) /\ (Valid(p) => HoldOK(proc[p], ckpt, run))
    BY Before
  <1>2. JobOK(n, cutoff, ckpt, stored)
    BY <1>1 DEF JobOK
  <1>3. Valid(p) => HoldOK(n, ckpt, run)
    BY <1>1 DEF HoldOK, Working
  <1>4. n.pc # "off"
    OBVIOUS
  <1> QED BY <1>2, <1>3, <1>4, MemoryStep

\* The main thread leaves the stream; the reconciliation thread may be at work.
LEMMA LeavesStream ==
  ASSUME CollectInv, NEW p \in Procs, proc[p].pc = "stream",
         NEW m \in Memory, Shape(m), m.pc = "stream", m.token = proc[p].token,
         m.job = proc[p].job, m.recon = proc[p].recon,
         NEW status \in {"completed", "failed", "stopped"},
         UNCHANGED <<cutoff, came, lease, run, stored, ckpt>>,
         proc' = [proc EXCEPT ![p] = Closing(m, status)]
  PROVE  CollectInv'
  <1> DEFINE n == Closing(m, status)
  <1>1. m.job.by # "main"
    BY DEF Shape
  <1>2. n \in Memory /\ Shape(n) /\ n.token = m.token /\ n.pc = "closing" /\ n.recon = m.recon /\ n.job = m.job
    BY <1>1, ClosingOK DEF Working
  <1>3. proc[p].pc \in Working /\ proc[p].pc # "off"
    BY DEF Working
  <1> HIDE DEF n
  <1>4. proc' = [proc EXCEPT ![p] = n]
    BY DEF n
  <1> QED BY <1>2, <1>3, <1>4, FlagStep

LEMMA LiveBarStep ==
  ASSUME CollectInv, NEW p \in Procs, NEW s \in Symbols, NEW t \in Prompt, LiveBar(p, s, t)
  PROVE  CollectInv'
  <1> DEFINE m == proc[p]
  <1>1. m \in Memory /\ Shape(m) /\ JobOK(m, cutoff, ckpt, stored) /\ (Valid(p) => HoldOK(m, ckpt, run))
    BY Before
  <1>2. m.pc = "stream" /\ UNCHANGED <<cutoff, came, lease, run, ckpt>>
    BY DEF LiveBar
  <1>3. CASE Valid(p)
    <2>1. stored' = [stored EXCEPT ![s] = @ \cup {t}] /\ proc' = proc
      BY <1>3 DEF LiveBar
    <2>2. /\ cutoff \in Nat /\ stored \in [Symbols -> SUBSET Nat] /\ ckpt \in [Symbols -> Nat]
          /\ proc \in [Procs -> Memory]
      BY DEF CollectInv, TableTypes
    <2>3. stored' \in [Symbols -> SUBSET Nat] /\ Grown(stored, stored')
      BY <2>1, <2>2, Minutes DEF Grown
    <2>4. Ahead(ckpt, ckpt') /\ ckpt' \in [Symbols -> Nat] /\ Ahead(ckpt, ckpt) /\ ckpt' = ckpt
      BY <1>2, <2>2 DEF Ahead
    <2>5. CheckpointStored'
      BY <1>2, <2>3 DEF CollectInv, CheckpointStored, Grown
    <2>6. proc' = [proc EXCEPT ![p] = m]
      BY <2>1, <2>2
    <2>7. cutoff <= cutoff
      BY <2>2
    <2>8. JobOK(m, cutoff, ckpt, stored')
      BY <1>1, <2>2, <2>3, <2>4, <2>7, JobForward
    <2> QED BY <1>1, <1>2, <1>3, <2>3, <2>4, <2>5, <2>6, <2>8, ProcessStep
  <1>4. CASE ~Valid(p)
    <2> DEFINE f == [m EXCEPT !.fatal = TRUE]
    <2>1. proc' = [proc EXCEPT ![p] = Closing(f, "failed")] /\ stored' = stored
      BY <1>4 DEF LiveBar
    <2>2. /\ f \in Memory /\ f.pc = m.pc /\ f.once = m.once /\ f.token = m.token /\ f.stop = m.stop
          /\ f.recon = m.recon /\ f.job = m.job
      BY <1>1 DEF Memory
    <2> HIDE DEF f
    <2>3. Shape(f)
      BY <1>1, <2>2 DEF Shape
    <2> QED BY <1>1, <1>2, <2>1, <2>2, <2>3, LeavesStream
  <1> QED BY <1>3, <1>4

LEMMA StreamFailsStep ==
  ASSUME CollectInv, NEW p \in Procs, StreamFails(p)
  PROVE  CollectInv'
  <1>1. proc[p] \in Memory /\ Shape(proc[p])
    BY Before
  <1> QED BY <1>1, LeavesStream DEF StreamFails

LEMMA StreamEndsStep ==
  ASSUME CollectInv, NEW p \in Procs, StreamEnds(p)
  PROVE  CollectInv'
  <1> DEFINE st == IF proc[p].fatal THEN "failed" ELSE "stopped"
  <1>1. proc[p] \in Memory /\ Shape(proc[p]) /\ st \in {"completed", "failed", "stopped"}
    BY Before
  <1>2. proc' = [proc EXCEPT ![p] = Closing(proc[p], st)] /\ proc[p].pc = "stream"
        /\ UNCHANGED <<cutoff, came, lease, run, stored, ckpt>>
    BY DEF StreamEnds
  <1> HIDE DEF st
  <1> QED BY <1>1, <1>2, LeavesStream

\* A stop is asked for, by a signal or by a renewal that fails.
LEMMA StopStep ==
  ASSUME CollectInv, NEW p \in Procs, RenewFails(p) \/ Signal(p)
  PROVE  CollectInv'
  <1> DEFINE m == proc[p]
  <1>1. m \in Memory /\ Shape(m) /\ proc \in [Procs -> Memory]
    BY Before DEF CollectInv, TableTypes
  <1>2. m.pc # "off" /\ UNCHANGED <<cutoff, came, lease, run, stored, ckpt>>
    BY DEF RenewFails, Signal
  <1>3. PICK f \in BOOLEAN : proc' = [proc EXCEPT ![p] = [m EXCEPT !.fatal = f, !.stop = TRUE]]
    <2>1. CASE RenewFails(p)
      BY <1>1, <2>1 DEF RenewFails, Memory
    <2>2. CASE Signal(p)
      <3>1. proc' = [proc EXCEPT ![p] = [m EXCEPT !.stop = TRUE]]
        BY <2>2 DEF Signal
      <3>2. [m EXCEPT !.stop = TRUE] = [m EXCEPT !.fatal = m.fatal, !.stop = TRUE] /\ m.fatal \in BOOLEAN
        BY <1>1 DEF Memory
      <3> QED BY <3>1, <3>2
    <2> QED BY <2>1, <2>2
  <1> DEFINE n == [m EXCEPT !.fatal = f, !.stop = TRUE]
  <1>4. /\ n \in Memory /\ n.pc = m.pc /\ n.once = m.once /\ n.token = m.token /\ n.stop
        /\ n.recon = m.recon /\ n.job = m.job
    BY <1>1 DEF Memory
  <1>5. proc' = [proc EXCEPT ![p] = n]
    BY <1>3
  <1> HIDE DEF n
  <1>6. Shape(n)
    BY <1>1, <1>4 DEF Shape
  <1> QED BY <1>2, <1>4, <1>5, <1>6, FlagStep

LEMMA ReconEndsStep ==
  ASSUME CollectInv, NEW p \in Procs, ReconEnds(p)
  PROVE  CollectInv'
  <1> DEFINE m == proc[p]
             n == [m EXCEPT !.recon = "ended"]
  <1>1. m \in Memory /\ Shape(m)
    BY Before
  <1>2. m.recon = "wait" /\ proc' = [proc EXCEPT ![p] = n] /\ UNCHANGED <<cutoff, came, lease, run, stored, ckpt>>
    BY DEF ReconEnds
  <1>3. /\ n \in Memory /\ n.pc = m.pc /\ n.once = m.once /\ n.token = m.token /\ n.stop = m.stop
        /\ n.recon = "ended" /\ n.job = m.job
    BY <1>1 DEF Memory
  <1> HIDE DEF n
  <1>4. Shape(n) /\ m.pc # "off"
    BY <1>1, <1>2, <1>3 DEF Shape
  <1> QED BY <1>2, <1>3, <1>4, FlagStep

\* A process that is off has no token, no work and no run.
LEMMA OffStep ==
  ASSUME CollectInv, NEW p \in Procs,
         UNCHANGED <<cutoff, came, run, stored, ckpt>>,
         lease' \in {lease, [lease EXCEPT !.live = FALSE]},
         proc' = [proc EXCEPT ![p] = Off]
  PROVE  CollectInv'
  <1>0. lease \in [token : 0..MaxToken, live : BOOLEAN] /\ proc \in [Procs -> Memory] /\ MaxToken \in Nat
    BY CollectorAssumption DEF CollectInv, TableTypes
  <1>1. /\ lease' \in [token : 0..MaxToken, live : BOOLEAN] /\ lease'.token = lease.token
        /\ (lease'.live => lease.live)
    BY <1>0
  <1>2. /\ proc' \in [Procs -> Memory] /\ proc'[p] = Off
        /\ \A q \in Procs : q # p => proc'[q] = proc[q]
    BY <1>0, OffType
  <1>3. TableTypes'
    BY <1>1, <1>2 DEF CollectInv, TableTypes
  <1>4. TokensDistinct'
    <2>1. lease.token \in Nat /\ lease.token >= 0 /\ lease'.token = lease.token
      BY <1>0, <1>1
    <2>2. \A q \in Procs : proc'[q] = proc[q] \/ (proc'[q].token = 0 /\ proc'[q].pc = "off")
      BY <1>2, OffType
    <2>3. \A q \in Procs : proc'[q].token <= lease'.token
      BY <2>1, <2>2 DEF CollectInv, TokensDistinct
    <2>4. \A q \in Procs : proc'[q].pc = "off" => proc'[q].token = 0
      BY <2>2 DEF CollectInv, TokensDistinct
    <2>5. \A q, r \in Procs : proc'[q].token = proc'[r].token /\ proc'[q].token > 0 => q = r
      BY <2>2 DEF CollectInv, TokensDistinct
    <2>6. \A q \in Procs : proc'[q].pc # "off" => proc'[q].token > 0
      BY <2>2 DEF CollectInv, TokensDistinct
    <2> QED BY <2>3, <2>4, <2>5, <2>6 DEF TokensDistinct
  <1>5. ProcsInv'
    BY <1>2, OffType, NoWork DEF CollectInv, ProcsInv
  <1>6. HoldersInv'
    <2> SUFFICES ASSUME NEW q \in Procs, Valid(q)' PROVE HoldOK(proc'[q], ckpt, run)
      BY DEF HoldersInv
    <2>1. CASE q = p
      <3>1. lease.live /\ lease.token = 0
        BY <1>1, <1>2, <2>1, OffType DEF Valid
      <3> QED BY <3>1, <1>0 DEF CollectInv, TableTypes
    <2>2. CASE q # p
      BY <1>1, <1>2, <2>2 DEF Valid, CollectInv, HoldersInv
    <2> QED BY <2>1, <2>2
  <1>7. CheckpointStored'
    BY DEF CollectInv, CheckpointStored
  <1> QED BY <1>3, <1>4, <1>5, <1>6, <1>7 DEF CollectInv

\* The lease expires.
LEMMA ExpireStep ==
  ASSUME CollectInv, Expire \/ Stall
  PROVE  CollectInv'
  <1>0. lease \in [token : 0..MaxToken, live : BOOLEAN]
    BY DEF CollectInv, TableTypes
  <1>1. UNCHANGED <<cutoff, came, run, stored, ckpt, proc>> /\ lease' = [lease EXCEPT !.live = FALSE]
    BY DEF Expire, Stall
  <1>2. lease' \in [token : 0..MaxToken, live : BOOLEAN] /\ lease'.token = lease.token /\ ~lease'.live
    BY <1>0, <1>1
  <1>3. TableTypes' /\ TokensDistinct' /\ ProcsInv'
    BY <1>1, <1>2 DEF CollectInv, TableTypes, TokensDistinct, ProcsInv
  <1>4. HoldersInv'
    BY <1>2 DEF HoldersInv, Valid
  <1>5. CheckpointStored'
    BY <1>1 DEF CollectInv, CheckpointStored
  <1> QED BY <1>3, <1>4, <1>5 DEF CollectInv
-----------------------------------------------------------------------------
(***************************************************************************)
(* Lease, runs and the environment.                                        *)
(***************************************************************************)
LEMMA AcquireStep ==
  ASSUME CollectInv, NEW p \in Procs, Acquire(p)
  PROVE  CollectInv'
  <1> DEFINE n == [Off EXCEPT !.pc = "acquired", !.once = p \in Once, !.token = lease.token + 1]
  <1>1. /\ lease \in [token : 0..MaxToken, live : BOOLEAN] /\ proc \in [Procs -> Memory]
        /\ MaxToken \in Nat /\ lease.token \in Nat
    BY CollectorAssumption DEF CollectInv, TableTypes
  <1>2. /\ lease.token < MaxToken /\ lease' = [token |-> lease.token + 1, live |-> TRUE]
        /\ proc' = [proc EXCEPT ![p] = n] /\ UNCHANGED <<cutoff, came, run, stored, ckpt>>
    BY DEF Acquire
  <1>3. /\ lease' \in [token : 0..MaxToken, live : BOOLEAN] /\ lease'.token = lease.token + 1
        /\ lease'.token > 0
    BY <1>1, <1>2
  <1>4. /\ n \in Memory /\ Shape(n) /\ n.pc = "acquired" /\ n.job.by = "none" /\ n.recon = "none"
        /\ n.token = lease.token + 1
    <2> DEFINE k == lease.token + 1
               b == p \in Once
    <2>1. k \in Nat /\ b \in BOOLEAN /\ Off \in Memory
      BY <1>1, OffType
    <2>2. n = [Off EXCEPT !.pc = "acquired", !.once = b, !.token = k]
      OBVIOUS
    <2> HIDE DEF k, b, n
    <2>3. /\ n \in Memory /\ n.pc = "acquired" /\ n.token = k /\ n.job = NoJob /\ n.recon = "none"
          /\ n.once = b
      BY <2>1, <2>2 DEF Memory, Off
    <2>4. Shape(n)
      BY <2>3, NoJobType DEF Shape
    <2> QED BY <2>3, <2>4, NoJobType DEF k
  <1> HIDE DEF n
  <1>5. /\ proc' \in [Procs -> Memory] /\ proc'[p] = n
        /\ \A q \in Procs : q # p => proc'[q] = proc[q]
    BY <1>1, <1>2, <1>4
  <1>6. TableTypes'
    BY <1>2, <1>3, <1>5 DEF CollectInv, TableTypes
  <1>7. \A q \in Procs : proc[q].token \in Nat /\ proc[q].token <= lease.token
    BY <1>1 DEF CollectInv, TokensDistinct, Memory
  <1>8. TokensDistinct'
    <2>1. \A q \in Procs : proc'[q].token <= lease'.token
      BY <1>1, <1>3, <1>4, <1>5, <1>7
    <2>2. \A q \in Procs : proc'[q].pc = "off" => proc'[q].token = 0
      BY <1>4, <1>5 DEF CollectInv, TokensDistinct
    <2>3. ASSUME NEW q \in Procs, NEW r \in Procs, proc'[q].token = proc'[r].token, proc'[q].token > 0
          PROVE  q = r
      <3>1. CASE q # p /\ r # p
        BY <1>5, <2>3, <3>1 DEF CollectInv, TokensDistinct
      <3>2. CASE q = p /\ r # p
        BY <1>1, <1>4, <1>5, <1>7, <2>3, <3>2
      <3>3. CASE q # p /\ r = p
        BY <1>1, <1>4, <1>5, <1>7, <2>3, <3>3
      <3> QED BY <3>1, <3>2, <3>3
    <2>4. \A q \in Procs : proc'[q].pc # "off" => proc'[q].token > 0
      BY <1>1, <1>4, <1>5 DEF CollectInv, TokensDistinct
    <2> QED BY <2>1, <2>2, <2>3, <2>4 DEF TokensDistinct
  <1>9. ProcsInv'
    BY <1>2, <1>4, <1>5, NoWork DEF CollectInv, ProcsInv
  <1>10. HoldersInv'
    <2> SUFFICES ASSUME NEW q \in Procs, Valid(q)' PROVE HoldOK(proc'[q], ckpt, run)
      BY <1>2 DEF HoldersInv
    <2>1. q = p
      <3>1. lease'.token = proc'[q].token
        BY DEF Valid
      <3>2. CASE q # p
        <4>1. proc'[q] = proc[q]
          BY <1>5, <3>2
        <4> QED BY <1>1, <1>3, <1>7, <3>1, <4>1
      <3> QED BY <3>2
    <2> QED BY <1>4, <1>5, <2>1 DEF HoldOK, Working
  <1>11. CheckpointStored'
    BY <1>2 DEF CollectInv, CheckpointStored
  <1> QED BY <1>6, <1>8, <1>9, <1>10, <1>11 DEF CollectInv

\* A step of one process that writes its own run.
LEMMA RunStep ==
  ASSUME CollectInv, NEW p \in Procs, NEW n \in Memory,
         UNCHANGED <<cutoff, came, lease, stored, ckpt>>, run' \in [1..MaxToken -> RunStatus],
         proc' = [proc EXCEPT ![p] = n],
         Shape(n), n.token = proc[p].token, n.pc # "off", proc[p].pc # "off", n.job.by = "none",
         Valid(p) => HoldOK(n, ckpt, run'),
         \A q \in Procs : q # p /\ Valid(q) => run'[proc[q].token] = run[proc[q].token]
  PROVE  CollectInv'
  <1>1. TableTypes'
    BY DEF CollectInv, TableTypes
  <1>2. TokensDistinct'
    BY DEF CollectInv, TableTypes, TokensDistinct
  <1>3. ProcsInv'
    <2>1. proc'[p] = n /\ \A q \in Procs : q # p => proc'[q] = proc[q]
      BY DEF CollectInv, TableTypes
    <2> QED BY <2>1, NoWork DEF CollectInv, ProcsInv
  <1>4. HoldersInv'
    <2> SUFFICES ASSUME NEW q \in Procs, Valid(q)' PROVE HoldOK(proc'[q], ckpt', run')
      BY DEF HoldersInv
    <2>1. CASE q = p
      <3>1. proc'[q] = n /\ Valid(p)
        BY <2>1 DEF Valid, CollectInv, TableTypes
      <3> QED BY <3>1
    <2>2. CASE q # p
      <3>1. proc'[q] = proc[q] /\ Valid(q)
        BY <2>2 DEF Valid, CollectInv, TableTypes
      <3> QED BY <2>2, <3>1 DEF CollectInv, HoldersInv, HoldOK
    <2> QED BY <2>1, <2>2
  <1>5. CheckpointStored'
    BY DEF CollectInv, CheckpointStored
  <1> QED BY <1>1, <1>2, <1>3, <1>4, <1>5 DEF CollectInv

LEMMA StartRunStep ==
  ASSUME CollectInv, NEW p \in Procs, StartRun(p)
  PROVE  CollectInv'
  <1> DEFINE m == proc[p]
             n == [m EXCEPT !.pc = "ready"]
  <1>1. m \in Memory /\ Shape(m) /\ m.job \in Jobs
    BY Before
  <1>2. m.pc = "acquired" /\ UNCHANGED <<cutoff, came, stored, ckpt>>
    BY DEF StartRun
  <1>3. CASE ~Valid(p)
    <2>1. run' = run /\ proc' = [proc EXCEPT ![p] = Off] /\ lease' \in {lease, [lease EXCEPT !.live = FALSE]}
      BY <1>3 DEF StartRun, Release
    <2> QED BY <1>2, <2>1, OffStep
  <1>4. CASE Valid(p)
    <2>1. /\ run' = [Superseded EXCEPT ![m.token] = "running"]
          /\ proc' = [proc EXCEPT ![p] = n] /\ lease' = lease
      BY <1>4 DEF StartRun
    <2>2. /\ n \in Memory /\ n.pc = "ready" /\ n.once = m.once /\ n.token = m.token /\ n.stop = m.stop
          /\ n.recon = m.recon /\ n.job = m.job
      BY <1>1 DEF Memory, Working
    <2> HIDE DEF n
    <2>3. Shape(n) /\ n.job.by = "none" /\ n.recon = "none"
      BY <1>1, <1>2, <2>2 DEF Shape, Jobs
    <2>4. m.token \in 1..MaxToken
      <3>1. lease.token \in 0..MaxToken /\ lease.token > 0 /\ MaxToken \in Nat /\ lease.token = m.token
        BY <1>4, CollectorAssumption DEF CollectInv, TableTypes, Valid
      <3> QED BY <3>1
    <2>5. run' \in [1..MaxToken -> RunStatus] /\ run'[m.token] = "running"
      BY <2>1, <2>4 DEF Superseded, CollectInv, TableTypes, RunStatus
    <2>6. HoldOK(n, ckpt, run')
      BY <2>2, <2>3, <2>5 DEF HoldOK
    <2>7. \A q \in Procs : q # p /\ Valid(q) => run'[proc[q].token] = run[proc[q].token]
      BY <1>4, OneHolder
    <2> QED BY <1>2, <2>1, <2>2, <2>3, <2>5, <2>6, <2>7, RunStep
  <1> QED BY <1>3, <1>4

LEMMA FinishStep ==
  ASSUME CollectInv, NEW p \in Procs, Finish(p)
  PROVE  CollectInv'
  <1> DEFINE m == proc[p]
             n == [m EXCEPT !.pc = "finished"]
  <1>1. m \in Memory /\ Shape(m) /\ m.job \in Jobs
    BY Before
  <1>2. /\ m.pc = "closing" /\ Joined(m) /\ proc' = [proc EXCEPT ![p] = n]
        /\ UNCHANGED <<cutoff, came, lease, stored, ckpt>>
        /\ run' = run \/ run' = [run EXCEPT ![m.token] = m.status]
    BY DEF Finish
  <1>3. /\ n \in Memory /\ n.pc = "finished" /\ n.once = m.once /\ n.token = m.token /\ n.stop = m.stop
        /\ n.recon = m.recon /\ n.job = m.job
    BY <1>1 DEF Memory, Working
  <1> HIDE DEF n
  <1>4. m.job.by = "none" /\ m.recon \in {"none", "ended"}
    BY <1>1, <1>2 DEF Shape, Joined, Jobs
  <1>5. Shape(n) /\ n.job.by = "none"
    BY <1>1, <1>3, <1>4 DEF Shape
  <1>6. run' \in [1..MaxToken -> RunStatus]
    BY <1>1, <1>2 DEF CollectInv, TableTypes, Memory, RunStatus
  <1>7. HoldOK(n, ckpt, run')
    BY <1>3, <1>4 DEF HoldOK, Working
  <1>8. ASSUME NEW q \in Procs, q # p, Valid(q) PROVE run'[proc[q].token] = run[proc[q].token]
    <2>1. m.token # proc[q].token
      BY <1>2, <1>8 DEF CollectInv, TokensDistinct
    <2>2. proc[q].token \in 1..MaxToken
      <3>1. lease.token \in 0..MaxToken /\ lease.token > 0 /\ MaxToken \in Nat /\ lease.token = proc[q].token
        BY <1>8, CollectorAssumption DEF CollectInv, TableTypes, Valid
      <3> QED BY <3>1
    <2>3. run \in [1..MaxToken -> RunStatus]
      BY DEF CollectInv, TableTypes
    <2> QED BY <1>2, <2>1, <2>2, <2>3
  <1> QED BY <1>2, <1>3, <1>5, <1>6, <1>7, <1>8, RunStep

\* The clock moves forward, or a late bar comes.
LEMMA TimeStep ==
  ASSUME CollectInv, Tick \/ (\E t \in Late : LateBar(t))
  PROVE  CollectInv'
  <1>1. UNCHANGED <<lease, run, stored, ckpt, proc>>
    BY DEF Tick, LateBar
  <1>2. cutoff \in Nat /\ cutoff > 0 /\ came \subseteq Late /\ ckpt \in [Symbols -> Nat]
        /\ proc \in [Procs -> Memory]
    BY DEF CollectInv, TableTypes
  <1>3. cutoff' \in Nat /\ cutoff <= cutoff' /\ came' \subseteq Late
    <2>1. CASE Tick
      <3> DEFINE S == {c \in Cutoffs : c > cutoff}
      <3>1. S \in SUBSET Int /\ S # {} /\ \A x \in S : 0 <= x /\ x \in Nat /\ x > cutoff
        <4>1. Cutoffs \subseteq Nat
          BY CollectorAssumption
        <4>2. \E c \in Cutoffs : c > cutoff
          BY <2>1 DEF Tick
        <4>3. \A x \in S : x \in Nat /\ x \in Int /\ 0 <= x /\ x > cutoff
          BY <4>1
        <4> QED BY <4>2, <4>3
      <3>2. cutoff' = Least(S) /\ came' = came
        BY <2>1 DEF Tick
      <3> HIDE DEF S
      <3>3. Least(S) \in S
        BY <3>1, LeastInteger, 0 \in Int
      <3>4. Least(S) \in Nat /\ Least(S) > cutoff
        BY <3>1, <3>3
      <3> QED BY <1>2, <3>2, <3>4
    <2>2. CASE \E t \in Late : LateBar(t)
      BY <1>2, <2>2 DEF LateBar
    <2> QED BY <2>1, <2>2
  <1>4. TableTypes'
    BY <1>1, <1>2, <1>3 DEF CollectInv, TableTypes
  <1>5. TokensDistinct' /\ HoldersInv'
    BY <1>1 DEF CollectInv, TokensDistinct, HoldersInv, Valid
  <1>6. ProcsInv'
    <2> SUFFICES ASSUME NEW q \in Procs
                 PROVE  Shape(proc[q]) /\ JobOK(proc[q], cutoff', ckpt, stored)
      BY <1>1 DEF ProcsInv
    <2>1. Shape(proc[q]) /\ JobOK(proc[q], cutoff, ckpt, stored) /\ proc[q] \in Memory
      BY Before
    <2>2. Ahead(ckpt, ckpt) /\ Grown(stored, stored)
      BY <1>2 DEF Ahead, Grown
    <2> QED BY <1>2, <1>3, <2>1, <2>2, JobForward
  <1>7. CheckpointStored'
    BY <1>1, <1>2, <1>3 DEF CollectInv, CheckpointStored
  <1> QED BY <1>4, <1>5, <1>6, <1>7 DEF CollectInv

LEMMA InitCollect == Init => CollectInv
  <1> SUFFICES ASSUME Init PROVE CollectInv
    OBVIOUS
  <1>1. cutoff \in Nat \ {0}
    <2>1. Cutoffs \in SUBSET Int /\ Cutoffs # {} /\ \A x \in Cutoffs : 0 <= x /\ x \in Nat \ {0}
      BY CollectorAssumption
    <2> QED BY <2>1, LeastInteger, 0 \in Int DEF Init
  <1>2. \A p \in Procs : proc[p] = Off
    BY DEF Init
  <1>3. TableTypes
    BY <1>1, OffType, CollectorAssumption DEF Init, TableTypes, RunStatus
  <1>4. TokensDistinct /\ ProcsInv
    BY <1>2, OffType, NoWork DEF Init, TokensDistinct, ProcsInv
  <1>5. HoldersInv
    BY DEF Init, HoldersInv, Valid
  <1>6. CheckpointStored
    BY <1>1, Minutes DEF Init, CheckpointStored
  <1> QED BY <1>3, <1>4, <1>5, <1>6 DEF CollectInv

LEMMA NextCollect == CollectInv /\ [Next]_vars => CollectInv'
  <1> SUFFICES ASSUME CollectInv, [Next]_vars PROVE CollectInv'
    OBVIOUS
  <1>1. CASE UNCHANGED vars
    BY <1>1 DEF vars, CollectInv, TableTypes, TokensDistinct, ProcsInv, HoldersInv, Valid, CheckpointStored
  <1>2. ASSUME NEW p \in Procs, Main(p) PROVE CollectInv'
    <2>1. CASE ReleaseLease(p)
      BY <2>1, OffStep DEF ReleaseLease, Release
    <2> QED BY <1>2, <2>1, AcquireStep, StartRunStep, FinishStep, StreamEndsStep DEF Main
  <1>3. ASSUME NEW p \in Procs, CatchUp(p) PROVE CollectInv'
    <2>1. CASE Interrupt(p)
      BY <2>1, GivenUpStep DEF Interrupt
    <2> QED BY <1>3, <2>1, ReconcileStep, FetchStep, StoreStep, AdvanceStep, AdvanceClosedStep,
               RepairGapStep, ReconEndsStep DEF CatchUp
  <1>4. ASSUME NEW p \in Procs, Crash(p) PROVE CollectInv'
    BY <1>4, OffStep DEF Crash
  <1> QED BY <1>1, <1>2, <1>3, <1>4, StopStep, StreamFailsStep, FetchFailsStep, LiveBarStep, TimeStep,
             ExpireStep DEF Next

\* The collector keeps its invariant, under any schedule.
THEOREM CollectorSafe == Spec => []CollectInv
  BY InitCollect, NextCollect, PTL DEF Spec

\* A checkpoint is never ahead of the cutoff nor past a bar that the provider had
\* and that is not stored, whatever fails between fetch, store and checkpoint.
THEOREM CheckpointSafe == Spec => []CheckpointStored
  <1>1. CollectInv => CheckpointStored
    BY DEF CollectInv
  <1> QED BY <1>1, CollectorSafe, PTL

\* One who writes under the lease does so while its run is open.
LEMMA WriterRuns ==
  ASSUME CollectInv, NEW p \in Procs, Valid(p), proc[p].pc \in Working
  PROVE  lease.token > 0 /\ run[lease.token] = "running"
  BY Before DEF CollectInv, TableTypes, Valid, HoldOK

LEMMA WriteStep ==
  ASSUME CollectInv, Next, <<stored, ckpt, cursor>>' # <<stored, ckpt, cursor>>
  PROVE  lease.token > 0 /\ run[lease.token] = "running"
  <1>1. PICK p \in Procs : Store(p) \/ Advance(p) \/ AdvanceClosed(p) \/ RepairGap(p)
                           \/ \E s \in Symbols, t \in Prompt : LiveBar(p, s, t)
    BY DEF Next, Main, CatchUp, Acquire, StartRun, Finish, ReleaseLease, StreamEnds, Reconcile, Fetch,
           Interrupt, ReconEnds, RenewFails, StreamFails, Crash, Signal, FetchFails, Tick, LateBar,
           Expire, Stall
  <1>2. Valid(p)
    BY <1>1 DEF Store, Advance, AdvanceClosed, RepairGap, LiveBar
  <1>3. proc[p].pc \in Working
    <2>1. CASE \E s \in Symbols, t \in Prompt : LiveBar(p, s, t)
      BY <2>1 DEF LiveBar, Working
    <2>2. CASE Store(p) \/ Advance(p) \/ AdvanceClosed(p) \/ RepairGap(p)
      <3>1. AtWork(proc[p])
        BY <2>2, Before DEF Store, Advance, AdvanceClosed, RepairGap, AtWork, Shape
      <3> QED BY <3>1, Before
    <2> QED BY <1>1, <2>1, <2>2
  <1> QED BY <1>2, <1>3, WriterRuns

\* No thread writes on after its run was closed, or without the current lease.
THEOREM RunSafe == Spec => WritesUnderRun
  <1>1. CollectInv /\ [Next]_vars =>
          [<<stored, ckpt, cursor>>' # <<stored, ckpt, cursor>> =>
             lease.token > 0 /\ run[lease.token] = "running"]_vars
    BY WriteStep
  <1> QED BY <1>1, CollectorSafe, PTL DEF Spec, WritesUnderRun
=============================================================================
