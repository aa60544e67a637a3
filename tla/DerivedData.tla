----------------------------- MODULE DerivedData -----------------------------
(***************************************************************************)
(* The collector's derived data: canonical bars, fifteen-minute            *)
(* aggregates, gaps, readiness watermarks and the basket (DerivedData-     *)
(* Processor of collection/derived.py, mirror_current of canonical.py, the *)
(* repositories of platform/data/watermarks.py and materialization.py).    *)
(*                                                                         *)
(* Intake commits bars and REST coverage and puts the touched session of   *)
(* the symbol on a queue with a generation.  One drain at a time, under a  *)
(* session advisory lock and the collector's lease, takes a batch of the   *)
(* queue through some ten transactions per symbol while intake goes on,    *)
(* and deletes the rows whose generation is still the one it selected.     *)
(*                                                                         *)
(* Time is a number: a day is SessionMinutes trading minutes and one       *)
(* closed slot, the history starts at 0, the database clock is past every  *)
(* bar and boundary.  A bar event is <<revision, complete>>, a fifteen-    *)
(* minute event the minute events it is made of, Missing no event.         *)
(***************************************************************************)
EXTENDS Integers, FiniteSets

CONSTANTS
  Symbols,          \* the experiment's active instruments, as numbers
  Procs,            \* processes of the collector
  Days,             \* bound: sessions
  SessionMinutes,   \* minutes of a session
  BucketMinutes,    \* minutes of a bucket of the decision timeframe
  Limit,            \* sessions a drain takes
  Imported,         \* minutes with a bar when the canonical tables are first filled
  ImportedThrough,  \* REST coverage at that time
  Traded,           \* external: minutes in which the feed has trades, so a bar
  Flawed,           \* minutes whose bar may come without its provider payload
  MaxIntake,        \* bound: batches that intake commits
  MaxStarts         \* bound: later processes, and lost lock connections

ASSUME DerivedAssumption ==
  /\ Symbols \subseteq Nat /\ IsFiniteSet(Symbols) /\ Symbols # {} /\ Procs # {}
  /\ Days \in Nat \ {0} /\ SessionMinutes \in Nat \ {0}
  /\ BucketMinutes \in 1..SessionMinutes /\ Limit \in Nat \ {0} /\ Traded \subseteq Nat /\ Flawed \subseteq Traded
  /\ Imported \subseteq Traded /\ ImportedThrough \in Nat /\ \A t \in Imported : t < ImportedThrough
  /\ ImportedThrough <= Days * (SessionMinutes + 1) /\ MaxIntake \in Nat /\ MaxStarts \in Nat

VARIABLES
  event,    \* aqa_bar_latest: the effective event of an interval, by symbol and timeframe
  ckpt,     \* collector_checkpoints: what REST coverage is committed through
  work,     \* canonical_work: generation and through_at, by symbol and session
  gap,      \* aqa_data_gaps: the status of a range, by symbol and timeframe
  mark,     \* aqa_symbol_watermarks: the components of the published readiness
  basket,   \* aqa_basket_watermarks, by timeframe
  owner,    \* the process whose collector lease is current
  lock,     \* the holder of the drain's advisory lock
  proc,     \* memory of a process
  intake,
  starts
derivedVars == <<event, ckpt, work, gap, mark, basket, owner, lock, proc, intake, starts>>

Frames == {"1Min", "15Min"}
Length(f) == IF f = "1Min" THEN 1 ELSE BucketMinutes

\* XnasExchangeCalendar: sessions, and the expected intervals of a range, by
\* their start.
DayLength == SessionMinutes + 1
Day(t) == t \div DayLength + 1
Open(d) == (d - 1) * DayLength
Close(d) == Open(d) + SessionMinutes
Horizon == Days * DayLength
Intervals == [f \in Frames |->
  {t \in 0..(Horizon - 1) : /\ (t % DayLength) % Length(f) = 0
                            /\ (t % DayLength) + Length(f) <= SessionMinutes}]
Expected(f, a, b) == {t \in Intervals[f] : a <= t /\ t + Length(f) <= b}
Ranges == [f \in Frames |->
  {r \in {<<a, b + Length(f)>> : a \in Intervals[f], b \in Intervals[f]} :
     r[1] < r[2] /\ Day(r[1]) = Day(r[2] - 1)}]

Missing == <<>>
Least(S) == CHOOSE x \in S : \A y \in S : x <= y
Most(S) == CHOOSE x \in S : \A y \in S : x >= y
Only(f, S) == [x \in S |-> f[x]]

\* BarQualityPolicy.approves: an aggregate has the flags of all its minutes.
Approved(f, e) == /\ e # Missing
                  /\ IF f = "1Min" THEN e[2] ELSE \A i \in DOMAIN e : e[i][2]

\* _compute_symbol_readiness_stream: a component has the event of an interval
\* and the unresolved gaps over it; readiness ends before the first component
\* that is not approved or has a gap.
Over(f, t, ranges) == {r \in ranges : r[1] < t + Length(f) /\ r[2] > t}
Component(f, t, e, ranges) == [event |-> e, gaps |-> Over(f, t, ranges)]
Ready(f, c) == Approved(f, c.event) /\ c.gaps = {}
Contiguous(f, seen) ==
  {t \in DOMAIN seen : \A u \in DOMAIN seen : u <= t => Ready(f, seen[u])}
Through(f, seen) == Most({0} \cup {t + Length(f) : t \in Contiguous(f, seen)})

NoWork == [gen |-> 0, through |-> 0]
NoFence == [work |-> <<>>, ckpt |-> 0, gaps |-> <<>>]
NoPrefix == [resume |-> 0, seen |-> <<>>, gaps |-> <<>>]
Fresh == [pc |-> "idle", items |-> {}, todo |-> {}, sym |-> 0, frame |-> "1Min", end |-> 0,
          obs |-> <<>>, fence |-> NoFence, at |-> 0, seen |-> <<>>,
          prefix |-> [s \in Symbols |-> [f \in Frames |-> NoPrefix]]]
\* What is left of a drain that is over: the prefixes.
Rest(m) == [Fresh EXCEPT !.prefix = m.prefix]
NoBasket == [status |-> "none", through |-> 0]
NoOne == "no one"

\* restore_canonical_projection: the bars collected before are mirrored and the
\* sessions up to the checkpoint queued, before intake starts.
DerivedInit ==
  /\ event = [s \in Symbols |-> [f \in Frames |-> [t \in Intervals[f] |->
                IF f = "1Min" /\ t \in Imported THEN <<1, TRUE>> ELSE Missing]]]
  /\ ckpt = [s \in Symbols |-> ImportedThrough]
  /\ work = [s \in Symbols |-> [d \in 1..Days |->
               IF Open(d) < ImportedThrough THEN [gen |-> 1, through |-> Least({Close(d), ImportedThrough})]
               ELSE NoWork]]
  /\ gap = [s \in Symbols |-> [f \in Frames |-> [r \in Ranges[f] |-> "none"]]]
  /\ mark = [s \in Symbols |-> [f \in Frames |-> <<>>]]
  /\ basket = [f \in Frames |-> NoBasket]
  /\ owner = (CHOOSE p \in Procs : TRUE) /\ lock = NoOne
  /\ proc = [p \in Procs |-> Fresh]
  /\ intake = 0 /\ starts = 0

(***************************************************************************)
(* Intake, in transactions of the lease's owner.                           *)
(***************************************************************************)
\* The upsert of canonical_work.
Enqueued(w, through) ==
  [gen |-> w.gen + 1, through |-> Most({w.through, through})]

\* mirror_current of a winning projection: a new bar or a correction.
Deliver(s, t, complete) ==
  /\ intake < MaxIntake /\ (complete \/ t \in Flawed)
  /\ LET e == event[s]["1Min"][t]
         n == IF e = Missing THEN 1 ELSE e[1] + 1
     IN event' = [event EXCEPT ![s]["1Min"][t] = <<n, complete>>]
  /\ work' = [work EXCEPT ![s][Day(t)] = Enqueued(@, t + 1)]
  /\ intake' = intake + 1
  /\ UNCHANGED <<ckpt, gap, mark, basket, owner, lock, proc, starts>>

\* append_batch with the coverage of a window that ends at b within a session:
\* the windows of a backfill run on from the earliest checkpoint, session by
\* session, and a repair's window lies in a session already reached.
Cover(d, b) ==
  /\ intake < MaxIntake
  /\ Open(d) < b /\ b <= Close(d)
  /\ d > 1 => \A s \in Symbols : ckpt[s] >= Close(d - 1)
  /\ work' = [s \in Symbols |-> [work[s] EXCEPT ![d] = Enqueued(@, b)]]
  /\ ckpt' = [s \in Symbols |-> Most({ckpt[s], b})]
  /\ intake' = intake + 1
  /\ UNCHANGED <<event, gap, mark, basket, owner, lock, proc, starts>>

\* A range that ends in closed time advances the checkpoints and queues nothing.
CoverClosed(d) ==
  /\ intake < MaxIntake
  /\ \A s \in Symbols : ckpt[s] = Close(d)
  /\ ckpt' = [s \in Symbols |-> Open(d + 1)]
  /\ intake' = intake + 1
  /\ UNCHANGED <<event, work, gap, mark, basket, owner, lock, proc, starts>>

(***************************************************************************)
(* The drain.                                                              *)
(***************************************************************************)
\* Mutant: a drain once begun is not checked again.
GuardedOnce(p) == TRUE
\* _guard, _begin_derived_transaction: before every read and write the lock's
\* connection is checked and the lease row verified and locked.
Guarded(p) == owner = p /\ lock = p

\* drain, _exclusive_drain and the selection of _drain_sessions.
Queued == {k \in Symbols \X (1..Days) : work[k[1]][k[2]] # NoWork}
Item(k) == [sym |-> k[1], day |-> k[2], work |-> work[k[1]][k[2]]]
Before(i, j) == i.day < j.day \/ (i.day = j.day /\ i.sym < j.sym)
FirstOf(items) == CHOOSE i \in items : \A j \in items : ~Before(j, i)
\* The first n rows of the queue, by session and symbol.
Select(n) ==
  LET rows == {Item(k) : k \in Queued}
  IN {i \in rows : Cardinality({j \in rows : Before(j, i)}) < n}

Drain(p) ==
  /\ owner = p /\ proc[p].pc = "idle" /\ lock = NoOne /\ Queued # {}
  /\ lock' = p
  /\ proc' = [proc EXCEPT ![p].pc = "inspect", ![p].items = Select(Limit), ![p].todo = Select(Limit)]
  /\ UNCHANGED <<event, ckpt, work, gap, mark, basket, owner, intake, starts>>

\* _inspected_through.
Inspected(s, through) ==
  Most({through, ckpt[s]}
       \cup {t + 1 : t \in {u \in Intervals["1Min"] : event[s]["1Min"][u] # Missing}})

\* The next item of the batch, or the first symbol's readiness.
NextItem(m) ==
  LET left == m.todo \ {FirstOf(m.todo)}
      next == [m EXCEPT !.todo = left, !.obs = <<>>, !.end = 0, !.frame = "1Min"]
  IN IF left # {} THEN [next EXCEPT !.pc = "inspect"]
     ELSE [next EXCEPT !.pc = "fence", !.sym = FirstOf(m.items).sym]

\* _process_session up to the range it looks at.
Inspect(p) ==
  LET m == proc[p]
      item == FirstOf(m.todo)
      end == Least({Close(item.day), Inspected(item.sym, item.work.through)})
  IN /\ m.pc = "inspect" /\ Guarded(p)
     /\ proc' = [proc EXCEPT ![p] = IF end <= Open(item.day) THEN NextItem(m)
                                    ELSE [m EXCEPT !.pc = "read", !.end = end]]
     /\ UNCHANGED <<event, ckpt, work, gap, mark, basket, owner, lock, intake, starts>>

\* _read_intervals of the session's minutes.
ReadMinutes(p) ==
  LET m == proc[p]
      item == FirstOf(m.todo)
  IN /\ m.pc = "read" /\ Guarded(p)
     /\ proc' = [proc EXCEPT ![p].pc = "gaps",
                   ![p].obs = Only(event[item.sym]["1Min"], Expected("1Min", Open(item.day), m.end))]
     /\ UNCHANGED <<event, ckpt, work, gap, mark, basket, owner, lock, intake, starts>>

\* detect_data_gaps: the maximal runs of expected intervals without an event.
Runs(f, obs) ==
  LET Lost(a, b) == \A t \in DOMAIN obs : a <= t /\ t < b => obs[t] = Missing
      inside == {r \in Ranges[f] : /\ r[1] \in DOMAIN obs /\ (r[2] - Length(f)) \in DOMAIN obs
                                   /\ Lost(r[1], r[2])}
  IN {r \in inside : \A q \in inside : q[1] <= r[1] /\ r[2] <= q[2] => q = r}
Unresolved(s, f) == {r \in Ranges[f] : gap[s][f][r] \in {"open", "repairing"}}

Unrecorded(s, m) == {r \in Runs(m.frame, m.obs) : gap[s][m.frame][r] = "none"}
\* Mutant: a gap already in repair is left to whoever began it.
FilledOpen(s, d, m) ==
  {r \in {q \in Unresolved(s, m.frame) : gap[s][m.frame][q] = "open"} :
     /\ Open(d) <= r[1] /\ r[2] <= m.end
     /\ \A t \in Expected(m.frame, r[1], r[2]) : m.obs[t] # Missing}
\* The unresolved gaps of the inspected range that the observed events fill.
Filled(s, d, m) ==
  {r \in Unresolved(s, m.frame) :
     /\ Open(d) <= r[1] /\ r[2] <= m.end
     /\ \A t \in Expected(m.frame, r[1], r[2]) : m.obs[t] # Missing}
Earliest(R) == CHOOSE r \in R : \A q \in R : r[1] < q[1] \/ (r[1] = q[1] /\ r[2] <= q[2])

\* _synchronize_gaps: GapRepository.record for every run, then begin_repair and
\* complete_repair, each a transaction, for every gap that is filled.
SetGap(p, s, r, status) ==
  /\ gap' = [gap EXCEPT ![s][proc[p].frame][r] = status]
  /\ UNCHANGED <<event, ckpt, work, mark, basket, owner, lock, proc, intake, starts>>

RecordGap(p) ==
  LET m == proc[p]
      s == FirstOf(m.todo).sym
  IN /\ m.pc = "gaps" /\ Guarded(p) /\ Unrecorded(s, m) # {}
     /\ SetGap(p, s, Earliest(Unrecorded(s, m)), "open")

RepairGap(p) ==
  LET m == proc[p]
      item == FirstOf(m.todo)
      filled == Filled(item.sym, item.day, m)
      r == Earliest(filled)
  IN /\ m.pc = "gaps" /\ Guarded(p) /\ Unrecorded(item.sym, m) = {} /\ filled # {}
     /\ SetGap(p, item.sym, r, IF gap[item.sym][m.frame][r] = "open" THEN "repairing" ELSE "resolved")

\* The minutes' gaps are followed by the aggregates, theirs by the next item.
GapsDone(p) ==
  LET m == proc[p]
      item == FirstOf(m.todo)
  IN /\ m.pc = "gaps" /\ Guarded(p)
     /\ Unrecorded(item.sym, m) = {} /\ Filled(item.sym, item.day, m) = {}
     /\ proc' = [proc EXCEPT ![p] = IF m.frame = "1Min" THEN [m EXCEPT !.pc = "aggregate"] ELSE NextItem(m)]
     /\ UNCHANGED <<event, ckpt, work, gap, mark, basket, owner, lock, intake, starts>>

\* FifteenMinuteMaterializer.materialize of every complete bucket: the same
\* constituents again are a duplicate.
Constituents(obs, b) == [i \in 1..BucketMinutes |-> obs[b + i - 1]]
Stale(s, m) ==
  {b \in Expected("15Min", Open(Day(m.end - 1)), m.end) :
     /\ \A i \in 1..BucketMinutes : m.obs[b + i - 1] # Missing
     /\ event[s]["15Min"][b] # Constituents(m.obs, b)}

Materialize(p) ==
  LET m == proc[p]
      s == FirstOf(m.todo).sym
      b == Least(Stale(s, m))
  IN /\ m.pc = "aggregate" /\ Guarded(p) /\ Stale(s, m) # {}
     /\ event' = [event EXCEPT ![s]["15Min"][b] = Constituents(m.obs, b)]
     /\ UNCHANGED <<ckpt, work, gap, mark, basket, owner, lock, proc, intake, starts>>

ReadAggregates(p) ==
  LET m == proc[p]
      item == FirstOf(m.todo)
  IN /\ m.pc = "aggregate" /\ Guarded(p) /\ Stale(item.sym, m) = {}
     /\ proc' = [proc EXCEPT ![p].pc = "gaps", ![p].frame = "15Min",
                   ![p].obs = Only(event[item.sym]["15Min"], Expected("15Min", Open(item.day), m.end))]
     /\ UNCHANGED <<event, ckpt, work, gap, mark, basket, owner, lock, intake, starts>>

\* by_symbol: the readiness of the symbol of the first item left is refreshed, in
\* the range that the symbol's last item gives.
Its(m) == {i \in m.items : i.sym = m.sym}
LastItem(m) == CHOOSE i \in Its(m) : \A j \in Its(m) : ~Before(i, j)

\* _snapshot_fence.
Fence(s, f) == [work |-> work[s], ckpt |-> ckpt[s], gaps |-> Only(gap[s][f], Unresolved(s, f))]
EarliestDirty(fence) == {d \in 1..Days : fence.work[d] # NoWork}
GapsBefore(gaps, t) == Only(gaps, {r \in DOMAIN gaps : r[1] < t})

\* _refresh_readiness, first transaction.
TakeFence(p) ==
  LET m == proc[p]
  IN /\ m.pc = "fence" /\ Guarded(p)
     /\ proc' = [proc EXCEPT ![p].pc = "start", ![p].fence = Fence(m.sym, m.frame)]
     /\ UNCHANGED <<event, ckpt, work, gap, mark, basket, owner, lock, intake, starts>>

\* Whether the prefix kept in memory still stands for the start of the scan.
Reusable(prefix, fence, end) ==
  /\ prefix # NoPrefix
  /\ EarliestDirty(fence) # {} /\ Least(EarliestDirty(fence)) >= Day(prefix.resume)
  /\ prefix.resume <= end
  /\ prefix.gaps = GapsBefore(fence.gaps, prefix.resume)

\* The next symbol, or the end of the drain.
NextSymbol(m, items) ==
  IF items = {} THEN Rest(m)
  ELSE [Rest(m) EXCEPT !.pc = "fence", !.items = items, !.sym = FirstOf(items).sym]
\* Mutant: the advisory lock stays with the pooled connection.
ReleasedNever(m) == lock
\* pg_advisory_unlock at the end of _exclusive_drain.
Released(m) == IF m.pc = "idle" THEN NoOne ELSE lock
\* The next timeframe, or the acknowledgements.
NextFrame(m) ==
  LET next == [Rest(m) EXCEPT !.items = m.items, !.sym = m.sym]
  IN IF m.frame = "1Min" THEN [next EXCEPT !.pc = "fence", !.frame = "15Min"]
     ELSE [next EXCEPT !.pc = "ack"]

\* The range of the scan, and the prefix it continues; a range without an
\* expected interval has no readiness to publish.
StartScan(p) ==
  LET m == proc[p]
      s == m.sym
      end == Inspected(s, LastItem(m).work.through)
      old == m.prefix[s][m.frame]
      use == IF Reusable(old, m.fence, end) THEN old ELSE NoPrefix
      popped == [m EXCEPT !.prefix[s][m.frame] = NoPrefix]
  IN /\ m.pc = "start" /\ Guarded(p)
     /\ proc' = [proc EXCEPT ![p] =
                   IF Expected(m.frame, use.resume, end) = {} /\ use = NoPrefix THEN NextFrame(popped)
                   ELSE [popped EXCEPT !.pc = "scan", !.end = end, !.at = use.resume, !.seen = use.seen]]
     /\ UNCHANGED <<event, ckpt, work, gap, mark, basket, owner, lock, intake, starts>>

\* compute_symbol_readiness_from_batches reads a day in a transaction.
Scan(p) ==
  LET m == proc[p]
      s == m.sym
      to == Least({Open(Day(m.at) + 1), m.end})
      new == Expected(m.frame, m.at, to)
      seen == [t \in DOMAIN m.seen \cup new |->
                 IF t \in DOMAIN m.seen THEN m.seen[t]
                 ELSE Component(m.frame, t, event[s][m.frame][t], DOMAIN m.fence.gaps)]
  IN /\ m.pc = "scan" /\ Guarded(p) /\ m.at < m.end
     /\ proc' = [proc EXCEPT ![p].at = to, ![p].seen = seen]
     /\ UNCHANGED <<event, ckpt, work, gap, mark, basket, owner, lock, intake, starts>>

\* publish_symbol_snapshot: the fence is taken again and must be the same, or
\* the symbol's work stays queued.
Publish(p) ==
  LET m == proc[p]
      s == m.sym
      unchanged == Fence(s, m.frame) = m.fence
      next == IF unchanged THEN [m EXCEPT !.pc = "basket"] ELSE NextSymbol(m, m.items \ Its(m))
  IN /\ m.pc = "scan" /\ Guarded(p) /\ m.at >= m.end
     /\ mark' = IF unchanged THEN [mark EXCEPT ![s][m.frame] = m.seen] ELSE mark
     /\ proc' = [proc EXCEPT ![p] = next]
     /\ lock' = Released(next)
     /\ UNCHANGED <<event, ckpt, work, gap, basket, owner, intake, starts>>

\* recompute_active_basket: a symbol is blocked without a contiguous event, when
\* that event is no longer the effective one, or below an unresolved gap.
Blocked(s, f) ==
  LET to == Through(f, mark[s][f])
  IN \/ to = 0
     \/ event[s][f][to - Length(f)] # mark[s][f][to - Length(f)].event
     \/ \E r \in Unresolved(s, f) : r[1] < to
BasketOf(f) ==
  IF \E s \in Symbols : Blocked(s, f) THEN [status |-> "blocked", through |-> 0]
  ELSE [status |-> "ready", through |-> Least({Through(f, mark[s][f]) : s \in Symbols})]

\* The prefix kept: what was seen before the day in which the scan ended.
PrefixOf(m) ==
  LET resume == Open(Day(m.end))
      old == Only(m.seen, {t \in DOMAIN m.seen : t < resume})
  IN IF old = <<>> THEN NoPrefix
     ELSE [resume |-> resume, seen |-> old, gaps |-> GapsBefore(m.fence.gaps, resume)]

\* Mutant: only a basket that is ready is written.
RefreshReady(p) ==
  LET m == proc[p]
  IN /\ m.pc = "basket" /\ Guarded(p)
     /\ basket' = IF BasketOf(m.frame).status = "ready"
                  THEN [basket EXCEPT ![m.frame] = BasketOf(m.frame)] ELSE basket
     /\ proc' = [proc EXCEPT ![p] = NextFrame([m EXCEPT !.prefix[m.sym][m.frame] = PrefixOf(m)])]
     /\ UNCHANGED <<event, ckpt, work, gap, mark, owner, lock, intake, starts>>
RefreshBasket(p) ==
  LET m == proc[p]
  IN /\ m.pc = "basket" /\ Guarded(p)
     /\ basket' = [basket EXCEPT ![m.frame] = BasketOf(m.frame)]
     /\ proc' = [proc EXCEPT ![p] = NextFrame([m EXCEPT !.prefix[m.sym][m.frame] = PrefixOf(m)])]
     /\ UNCHANGED <<event, ckpt, work, gap, mark, owner, lock, intake, starts>>

\* Mutant: the row goes whatever its generation.
AcknowledgedAlways(w, item) == NoWork
\* _acknowledge: the row goes if it is still of the generation selected.
Acknowledged(w, item) == IF w.gen = item.work.gen THEN NoWork ELSE w

Acknowledge(p) ==
  LET m == proc[p]
      item == FirstOf(Its(m))
      left == m.items \ {item}
      next == IF Its(m) # {item} THEN [m EXCEPT !.items = left] ELSE NextSymbol(m, left)
  IN /\ m.pc = "ack" /\ Guarded(p)
     /\ work' = [work EXCEPT ![item.sym][item.day] = Acknowledged(@, item)]
     /\ proc' = [proc EXCEPT ![p] = next]
     /\ lock' = Released(next)
     /\ UNCHANGED <<event, ckpt, gap, mark, basket, owner, intake, starts>>

(***************************************************************************)
(* Failures.                                                               *)
(***************************************************************************)
\* A new process takes the collector's lease: after a crash in the place of
\* the owner, or beside an owner that stalled past its lease, whose lock
\* connection may be lost as well.
Start(p) ==
  /\ starts < MaxStarts
  /\ starts' = starts + 1
  /\ owner' = p
  /\ proc' = [proc EXCEPT ![p] = Fresh]
  /\ lock' \in IF lock = p THEN {NoOne} ELSE {lock, NoOne}
  /\ UNCHANGED <<event, ckpt, work, gap, mark, basket, intake>>

\* The connection that holds the advisory lock is lost.
LoseLock(p) ==
  /\ starts < MaxStarts
  /\ starts' = starts + 1
  /\ lock = p /\ lock' = NoOne
  /\ UNCHANGED <<event, ckpt, work, gap, mark, basket, owner, proc, intake>>

\* A drain whose guard fails raises: the maintenance loop stops the process.
Abort(p) ==
  /\ proc[p].pc # "idle" /\ ~Guarded(p)
  /\ proc' = [proc EXCEPT ![p] = Fresh]
  /\ lock' = IF lock = p THEN NoOne ELSE lock
  /\ UNCHANGED <<event, ckpt, work, gap, mark, basket, owner, intake, starts>>

Step(p) ==
  \/ Drain(p) \/ Inspect(p) \/ ReadMinutes(p)
  \/ RecordGap(p) \/ RepairGap(p) \/ GapsDone(p)
  \/ Materialize(p) \/ ReadAggregates(p)
  \/ TakeFence(p) \/ StartScan(p) \/ Scan(p) \/ Publish(p)
  \/ RefreshBasket(p) \/ Acknowledge(p) \/ Abort(p)

Intake ==
  \/ \E s \in Symbols, t \in Intervals["1Min"] \cap Traded, complete \in BOOLEAN : Deliver(s, t, complete)
  \/ \E d \in 1..Days, b \in 0..Horizon : Cover(d, b)
  \/ \E d \in 1..Days : CoverClosed(d)

DerivedNext ==
  \/ Intake
  \/ \E p \in Procs : Step(p) \/ Start(p) \/ LoseLock(p)
DerivedSpec == DerivedInit /\ [][DerivedNext]_derivedVars

\* The maintenance loop drains every second, and a process that stops on an
\* error is restarted; intake and failures are not owed.
FairDerivedSpec == DerivedSpec /\ \A p \in Procs : WF_derivedVars(Step(p))

-----------------------------------------------------------------------------
(***************************************************************************)
(* Properties.                                                             *)
(***************************************************************************)

Quiet(s) == \A d \in 1..Days : work[s][d] = NoWork
\* What a scan of the whole history sees now.
Rescan(s, f) ==
  [t \in Expected(f, 0, Inspected(s, 0)) |-> Component(f, t, event[s][f][t], Unresolved(s, f))]

\* A symbol with nothing queued has the readiness that its bars and gaps give
\* now, and the aggregates that its minutes give now: no interleaving of intake
\* with the drain, takeover or reused prefix leaves derived data behind
\* (derived.py drain, _refresh_readiness and _acknowledge).
QuietExact ==
  \A s \in Symbols : Quiet(s) =>
    /\ \A f \in Frames : mark[s][f] = Rescan(s, f)
    /\ \A b \in Expected("15Min", 0, Inspected(s, 0)) :
         LET now == Constituents(event[s]["1Min"], b)
         IN (\A i \in DOMAIN now : now[i] # Missing) => event[s]["15Min"][b] = now

\* What is published is the readiness of one moment, the present: the scan reads
\* the history in many transactions, and intake between two of them, or before a
\* prefix kept from an earlier scan, makes the publication fail or start over
\* (derived.py _refresh_readiness, watermarks.py publish_symbol_snapshot).
PublishedExact ==
  [][\A s \in Symbols, f \in Frames : mark'[s][f] # mark[s][f] => mark'[s][f] = Rescan(s, f)]_derivedVars

\* A symbol with nothing queued has an unresolved gap over every interval it
\* lacks below its checkpoint, so that readiness that is blocked there can be
\* repaired, and no unresolved gap without such an interval (derived.py
\* _synchronize_gaps, canonical.py _coverage_sessions).
GapsTracked ==
  \A s \in Symbols, f \in Frames : Quiet(s) =>
    LET Lost(to) == {t \in Expected(f, 0, to) : event[s][f][t] = Missing}
    IN /\ \A t \in Lost(ckpt[s]) : Over(f, t, Unresolved(s, f)) # {}
       /\ \A r \in Unresolved(s, f) : \E t \in Lost(Horizon) : r \in Over(f, t, {r})

\* When nothing is queued the basket is the one the published watermarks give
\* (watermarks.py recompute_active_basket after every publication).
BasketExact ==
  (\A s \in Symbols : Quiet(s)) =>
    \A f \in Frames : basket[f] = BasketOf(f) \/ \A s \in Symbols : mark[s][f] = <<>>

\* Once intake stops the queue empties and stays empty: no drain loops on a
\* changed fence or a gap left in repair, and no lock stays with a lost process.
EventuallyQuiet == <>[](\A s \in Symbols : Quiet(s))
=============================================================================
