------------------------------ MODULE Collector ------------------------------
(***************************************************************************)
(* The continuous market-data collector: its lease, runs, REST catch-up,   *)
(* checkpoints, gap repair and shutdown (CollectorService of collection/   *)
(* service.py, PostgresMarketDataRepository of postgres.py, next_gap_      *)
(* repair of recovery.py).                                                 *)
(*                                                                         *)
(* A process collects once and ends, or runs on with a live stream in its  *)
(* main thread and reconciliation in another; every write verifies the     *)
(* process's fencing token against the lease row.  Processes crash, stall  *)
(* past their lease and are succeeded, at any point between two calls.     *)
(*                                                                         *)
(* Time is a minute; the lease has no clock of its own but may expire at   *)
(* any moment.  A bar is its symbol and minute: which of several           *)
(* observations of a minute is current, and what is derived from it, is    *)
(* not kept here (DerivedData has the latter).                             *)
(***************************************************************************)
EXTENDS Integers, FiniteSets

CONSTANTS
  Procs,         \* processes that may be started
  Once,          \* those that collect once and end; the others run on
  Symbols,       \* 1..n, requested one by one (api_symbol_batch_size is 1)
  Sessions,      \* the calendar: <<open, close>> of every session
  Prompt,        \* external: minutes whose bar is there when the minute is complete
  Late,          \* external: minutes whose bar comes later, or never
  Overlap,       \* reconciliation_overlap_minutes
  Cutoffs,       \* bound: the completed-bar cutoffs at which the collector looks
  MaxToken,      \* bound: acquisitions of the lease; those that faults may cost are kept for
                 \* collectors that run on
  MaxFaults      \* bound: crashes, stalls, signals and errors

ASSUME CollectorAssumption ==
  /\ Once \subseteq Procs
  /\ Symbols # {} /\ IsFiniteSet(Symbols) /\ Symbols = 1..Cardinality(Symbols)
  /\ \A s \in Sessions : s \in Nat \X Nat /\ s[1] < s[2]
  /\ Prompt \cup Late \subseteq UNION {s[1]..(s[2] - 1) : s \in Sessions}
  /\ Overlap \in Nat /\ Cutoffs \subseteq Nat \ {0} /\ Cutoffs # {} /\ MaxToken \in Nat \ {0} /\ MaxFaults \in Nat /\ MaxFaults < MaxToken

VARIABLES
  cutoff,   \* completed_bar_cutoff of the clock
  came,     \* external: the late minutes whose bar the provider has now
  lease,    \* collector_leases: token, and whether it has not expired
  run,      \* ingestion_runs: the status of the run of each fencing token
  stored,   \* bar_observations: minutes with a bar, by symbol
  ckpt,     \* collector_checkpoints: committed_through, 0 before the first, by symbol
  cursor,   \* the gap of the last repair event
  proc,     \* memory of a process
  faults
vars == <<cutoff, came, lease, run, stored, ckpt, cursor, proc, faults>>

Least(S) == CHOOSE x \in S : \A y \in S : x <= y
Most(S) == CHOOSE x \in S : \A y \in S : x >= y

\* _session_windows, one at a time: the first session of at..end, clipped.
InRange(at, end) == {s \in Sessions : s[2] > at /\ s[1] < end}
First(at, end) == CHOOSE s \in InRange(at, end) : \A t \in InRange(at, end) : s[1] <= t[1]
Window(at, end) == LET s == First(at, end) IN <<Most({at, s[1]}), Least({end, s[2]})>>
Trading == UNION {s[1]..(s[2] - 1) : s \in Sessions}

\* The work of _backfill_range: who does it, the range left, the symbol and
\* what was fetched for it and is not yet stored.
NoJob == [by |-> "none", at |-> 0, end |-> 0, sym |-> 0, got |-> {}, fetched |-> FALSE]
Job(by, at, end) == [by |-> by, at |-> at, end |-> end, sym |-> 1, got |-> {}, fetched |-> FALSE]
Off == [pc |-> "off", once |-> FALSE, token |-> 0, stop |-> FALSE, fatal |-> FALSE,
        recon |-> "none", status |-> "none", job |-> NoJob]

Init ==
  /\ cutoff = Least(Cutoffs) /\ came = {}
  /\ lease = [token |-> 0, live |-> FALSE]
  /\ run = [t \in 1..MaxToken |-> "none"]
  /\ stored = [s \in Symbols |-> {}]
  /\ ckpt = [s \in Symbols |-> 0]
  /\ cursor = <<0, 0>>
  /\ proc = [p \in Procs |-> Off]
  /\ faults = 0

(***************************************************************************)
(* Lease and runs.                                                         *)
(***************************************************************************)
\* _verify_lease, in the transaction of every write.
Valid(p) == lease.token = proc[p].token /\ lease.live

\* try_acquire_lease.
Acquire(p) ==
  /\ proc[p].pc = "off" /\ ~lease.live /\ lease.token < MaxToken
  /\ p \in Once => lease.token + 1 + (MaxFaults - faults) < MaxToken
  /\ lease' = [token |-> lease.token + 1, live |-> TRUE]
  /\ proc' = [proc EXCEPT ![p] = [Off EXCEPT !.pc = "acquired", !.once = p \in Once, !.token = lease.token + 1]]
  /\ UNCHANGED <<cutoff, came, run, stored, ckpt, cursor, faults>>

\* start_run: a run that is still open belongs to a process that lost its lease.
Superseded == [t \in 1..MaxToken |->
  IF run[t] = "running" THEN "failed" ELSE run[t]]

\* release_lease: the row expires if it is still of this token.
Release(p) == lease' = IF lease.token = proc[p].token THEN [lease EXCEPT !.live = FALSE] ELSE lease

StartRun(p) ==
  /\ proc[p].pc = "acquired"
  /\ \/ /\ Valid(p)
        /\ run' = [Superseded EXCEPT ![proc[p].token] = "running"]
        /\ proc' = [proc EXCEPT ![p].pc = "ready"]
        /\ lease' = lease
     \/ /\ ~Valid(p)
        /\ Release(p)
        /\ proc' = [proc EXCEPT ![p] = Off]
        /\ run' = run
  /\ UNCHANGED <<cutoff, came, stored, ckpt, cursor, faults>>

(***************************************************************************)
(* Where a thread goes when its work is done, refused or interrupted.      *)
(***************************************************************************)
Closing(m, status) == [m EXCEPT !.pc = "closing", !.status = status, !.stop = TRUE,
                                !.job = IF @.by = "main" THEN NoJob ELSE @]

\* The end of _reconcile_once or of the repair, in the thread that did it; a
\* run that collects once has completed unless a stop was asked for.
Done(m) ==
  IF m.job.by = "recon" \/ m.recon = "repair" THEN
    [m EXCEPT !.recon = IF @ = "reconcile" THEN "repair" ELSE "wait", !.job = NoJob]
  ELSE IF ~m.once THEN [m EXCEPT !.pc = "stream", !.recon = "wait", !.job = NoJob]
  ELSE IF m.pc = "reconcile" THEN [m EXCEPT !.pc = "repair", !.job = NoJob]
  ELSE Closing(m, IF ~m.stop THEN "completed" ELSE IF m.fatal THEN "failed" ELSE "stopped")

\* A write is refused: the main thread fails; in the reconciliation thread the
\* event of the failure is refused too, which is fatal.
Refused(m) ==
  IF m.job.by = "main" THEN Closing(m, "failed")
  ELSE [m EXCEPT !.recon = "ended", !.job = NoJob, !.fatal = TRUE, !.stop = TRUE]

\* InterruptedError: collect_once reports the fatal error behind it, run does not.
Interrupted(m) ==
  IF m.job.by = "main" THEN Closing(m, IF m.once /\ m.fatal THEN "failed" ELSE "stopped")
  ELSE [m EXCEPT !.recon = "ended", !.job = NoJob]

(***************************************************************************)
(* REST catch-up.                                                          *)
(***************************************************************************)
\* _resume_start: from the checkpoint furthest behind, with overlap.
ResumeStart == Most({0, Least({ckpt[s] - Overlap : s \in Symbols})})

\* _reconcile_once, in the main thread and then in the reconciliation loop.
Reconcile(p) ==
  LET m == proc[p]
      main == m.pc = "ready"
      begun == IF main THEN [m EXCEPT !.pc = "reconcile", !.job = Job("main", ResumeStart, cutoff)]
               ELSE [m EXCEPT !.recon = "reconcile", !.job = Job("recon", ResumeStart, cutoff)]
      unborn == \E s \in Symbols : ckpt[s] = 0
      bad == (\E s \in Symbols : ckpt[s] > cutoff) \/ (unborn /\ ResumeStart >= cutoff)
  IN /\ main \/ (m.recon = "wait" /\ ~m.stop)
     /\ proc' = [proc EXCEPT ![p] =
                   IF bad THEN Refused(begun)
                   ELSE IF ResumeStart < cutoff THEN begun
                   ELSE Done(begun)]
     /\ UNCHANGED <<cutoff, came, lease, run, stored, ckpt, cursor, faults>>

\* External: the minutes the provider has a bar for.
Available == {t \in Prompt : t <= cutoff} \cup came

\* _fetch_with_retry: what the provider has of the window.
Fetch(p) ==
  LET m == proc[p]
      w == Window(m.job.at, m.job.end)
  IN /\ m.job.by # "none" /\ ~m.job.fetched /\ ~m.stop /\ InRange(m.job.at, m.job.end) # {}
     /\ proc' = [proc EXCEPT ![p].job.fetched = TRUE,
                   ![p].job.got = {t \in Available : w[1] <= t /\ t < w[2]}]
     /\ UNCHANGED <<cutoff, came, lease, run, stored, ckpt, cursor, faults>>

\* The last attempt fails: the main thread ends, the loop waits for its next
\* turn unless the error is one that a retry does not mend.
FetchFails(p, retryable) ==
  LET m == proc[p]
  IN /\ faults < MaxFaults /\ faults' = faults + 1
     /\ m.job.by # "none" /\ ~m.job.fetched /\ ~m.stop /\ InRange(m.job.at, m.job.end) # {}
     /\ proc' = [proc EXCEPT ![p] = IF retryable /\ Valid(p) /\ m.job.by = "recon" THEN [m EXCEPT !.recon = "wait", !.job = NoJob]
                                    ELSE Refused(m)]
     /\ UNCHANGED <<cutoff, came, lease, run, stored, ckpt, cursor>>

\* _store_observations, a batch (here one bar) in a transaction.  Interrupt has
\* the checks for a stop before the writes; a stop that comes after such a check
\* does not hold back the write.
Store(p) ==
  LET m == proc[p]
      t == Least(m.job.got)
  IN /\ m.job.fetched /\ m.job.got # {}
     /\ \/ /\ Valid(p)
           /\ stored' = [stored EXCEPT ![m.job.sym] = @ \cup {t}]
           /\ proc' = [proc EXCEPT ![p].job.got = @ \ {t}]
        \/ /\ ~Valid(p)
           /\ proc' = [proc EXCEPT ![p] = Refused(m)]
           /\ stored' = stored
     /\ UNCHANGED <<cutoff, came, lease, run, ckpt, cursor, faults>>

\* After a window of a symbol: the next symbol, then the next window, then the end.
Onward(m) ==
  LET w == Window(m.job.at, m.job.end)
      next == IF m.job.sym + 1 \in Symbols THEN [m.job EXCEPT !.sym = @ + 1, !.fetched = FALSE]
              ELSE [m.job EXCEPT !.at = w[2], !.sym = 1, !.fetched = FALSE]
  IN IF next.at < next.end THEN [m EXCEPT !.job = next] ELSE Done(m)

\* Mutant: the checkpoint does not wait for what was fetched to be stored.
AdvanceEarly(p) ==
  LET m == proc[p]
  IN /\ m.job.fetched /\ Valid(p)
     /\ ckpt' = [ckpt EXCEPT ![m.job.sym] = Most({@, Window(m.job.at, m.job.end)[2]})]
     /\ proc' = [proc EXCEPT ![p] = Onward(m)]
     /\ UNCHANGED <<cutoff, came, lease, run, stored, cursor, faults>>

\* _coverage_advances and _advance_checkpoints: never backward.
Advance(p) ==
  LET m == proc[p]
      to == Window(m.job.at, m.job.end)[2]
  IN /\ m.job.fetched /\ m.job.got = {}
     /\ \/ /\ Valid(p)
           /\ ckpt' = [ckpt EXCEPT ![m.job.sym] = Most({@, to})]
           /\ proc' = [proc EXCEPT ![p] = Onward(m)]
        \/ /\ ~Valid(p)
           /\ proc' = [proc EXCEPT ![p] = Refused(m)]
           /\ ckpt' = ckpt
     /\ UNCHANGED <<cutoff, came, lease, run, stored, cursor, faults>>

\* The range ends in closed time: the checkpoints of all symbols follow.
AdvanceClosed(p) ==
  LET m == proc[p]
  IN /\ m.job.by # "none" /\ ~m.job.fetched /\ InRange(m.job.at, m.job.end) = {}
     /\ \/ /\ Valid(p)
           /\ ckpt' = [s \in Symbols |-> Most({ckpt[s], m.job.end})]
           /\ proc' = [proc EXCEPT ![p] = Done(m)]
        \/ /\ ~Valid(p)
           /\ proc' = [proc EXCEPT ![p] = Refused(m)]
           /\ ckpt' = ckpt
     /\ UNCHANGED <<cutoff, came, lease, run, stored, cursor, faults>>

\* Every loop of the catch-up looks for a stop.
Interrupt(p) ==
  /\ proc[p].stop /\ proc[p].job.by # "none"
  /\ proc' = [proc EXCEPT ![p] = Interrupted(@)]
  /\ UNCHANGED <<cutoff, came, lease, run, stored, ckpt, cursor, faults>>

(***************************************************************************)
(* Gap repair.                                                             *)
(***************************************************************************)
\* The gaps that the derived data has of a symbol below its checkpoint, minute
\* by minute; they are visited in the order of their identities.
Gaps == {g \in (Symbols \X Trading) : g[2] < ckpt[g[1]] /\ g[2] \notin stored[g[1]]}
After(g, h) == g[1] > h[1] \/ (g[1] = h[1] /\ g[2] > h[2])
FirstOf(G) == CHOOSE g \in G : \A h \in G \ {g} : After(h, g)

\* Mutant: the cursor is not looked at.
NextGapFirst == FirstOf(Gaps)

\* next_gap_repair: the first gap after the durable cursor, or the first of all.
\* The turns in which the cooldown holds a repair back are left out.
NextGap == LET after == {g \in Gaps : After(g, cursor)}
           IN FirstOf(IF after = {} THEN Gaps ELSE after)

\* _repair_gap_once: the attempt is recorded, then the window is fetched again.
RepairGap(p) ==
  LET m == proc[p]
      by == IF m.pc = "repair" THEN "main" ELSE "recon"
      claim == [m EXCEPT !.job = Job(by, NextGap[2], NextGap[2] + 1)]
  IN /\ m.job.by = "none" /\ (m.pc = "repair" \/ m.recon = "repair")
     /\ IF Gaps = {} \/ m.stop THEN proc' = [proc EXCEPT ![p] = Done(m)] /\ cursor' = cursor
        ELSE \/ Valid(p) /\ cursor' = NextGap /\ proc' = [proc EXCEPT ![p] = claim]
             \/ ~Valid(p) /\ cursor' = cursor /\ proc' = [proc EXCEPT ![p] = Refused(claim)]
     /\ UNCHANGED <<cutoff, came, lease, run, stored, ckpt, faults>>

(***************************************************************************)
(* The live stream, renewal and shutdown.                                  *)
(***************************************************************************)
\* _live_observation: the bar of a minute that has just ended, ahead of the
\* cutoff.  A refused write is fatal and ends the stream.
LiveBar(p, s, t) ==
  LET m == proc[p]
  IN /\ m.pc = "stream" /\ ~m.stop /\ t \in Available /\ t >= cutoff /\ t \notin stored[s]
     /\ \/ Valid(p) /\ stored' = [stored EXCEPT ![s] = @ \cup {t}] /\ proc' = proc
        \/ /\ ~Valid(p) /\ stored' = stored
           /\ proc' = [proc EXCEPT ![p] = Closing([m EXCEPT !.fatal = TRUE], "failed")]
     /\ UNCHANGED <<cutoff, came, lease, run, ckpt, cursor, faults>>

\* The stream fails for good, or the event of its start is refused.
StreamFails(p) ==
  /\ proc[p].pc = "stream" /\ ~proc[p].stop
  /\ \/ ~Valid(p) /\ faults' = faults
     \/ Valid(p) /\ faults < MaxFaults /\ faults' = faults + 1
  /\ proc' = [proc EXCEPT ![p] = Closing(@, "failed")]
  /\ UNCHANGED <<cutoff, came, lease, run, stored, ckpt, cursor>>

\* The stream returns when a stop is requested; a fatal error is raised then.
StreamEnds(p) ==
  /\ proc[p].pc = "stream" /\ proc[p].stop
  /\ proc' = [proc EXCEPT ![p] = Closing(@, IF @.fatal THEN "failed" ELSE "stopped")]
  /\ UNCHANGED <<cutoff, came, lease, run, stored, ckpt, cursor, faults>>

\* _renew_lease_loop: a renewal that is refused, or fails, is fatal.
RenewFails(p) ==
  /\ proc[p].pc \in {"ready", "reconcile", "repair", "stream"} /\ ~proc[p].stop
  /\ \/ ~Valid(p) /\ faults' = faults
     \/ Valid(p) /\ faults < MaxFaults /\ faults' = faults + 1
  /\ proc' = [proc EXCEPT ![p].fatal = TRUE, ![p].stop = TRUE]
  /\ UNCHANGED <<cutoff, came, lease, run, stored, ckpt, cursor>>

ReconEnds(p) ==
  /\ proc[p].recon = "wait" /\ proc[p].stop
  /\ proc' = [proc EXCEPT ![p].recon = "ended"]
  /\ UNCHANGED <<cutoff, came, lease, run, stored, ckpt, cursor, faults>>

\* Mutant: the run is closed without waiting for the reconciliation thread.
JoinedAlways(m) == TRUE

\* _join_workers.
Joined(m) == m.recon \in {"none", "ended"}

\* _finish_and_release: finish_run closes the run if it is still open and the
\* lease row still has its token, expired or not; the lease is released anyway.
Finish(p) ==
  LET m == proc[p]
      mine == lease.token = m.token /\ run[m.token] = "running"
  IN /\ m.pc = "closing" /\ Joined(m)
     /\ run' = IF mine THEN [run EXCEPT ![m.token] = m.status] ELSE run
     /\ proc' = [proc EXCEPT ![p].pc = "finished"]
     /\ UNCHANGED <<cutoff, came, lease, stored, ckpt, cursor, faults>>

ReleaseLease(p) ==
  /\ proc[p].pc = "finished"
  /\ Release(p)
  /\ proc' = [proc EXCEPT ![p] = Off]
  /\ UNCHANGED <<cutoff, came, run, stored, ckpt, cursor, faults>>

(***************************************************************************)
(* The environment.                                                        *)
(***************************************************************************)
Tick ==
  /\ \E c \in Cutoffs : c > cutoff
  /\ cutoff' = Least({c \in Cutoffs : c > cutoff})
  /\ UNCHANGED <<came, lease, run, stored, ckpt, cursor, proc, faults>>

LateBar(t) ==
  /\ t < cutoff /\ t \notin came /\ came' = came \cup {t}
  /\ UNCHANGED <<cutoff, lease, run, stored, ckpt, cursor, proc, faults>>

\* A lease that nobody renews expires.
Expire ==
  /\ lease.live /\ \A p \in Procs : proc[p].token # lease.token
  /\ lease' = [lease EXCEPT !.live = FALSE]
  /\ UNCHANGED <<cutoff, came, run, stored, ckpt, cursor, proc, faults>>

\* A process stalls past its lease.
Stall ==
  /\ lease.live /\ faults < MaxFaults
  /\ lease' = [lease EXCEPT !.live = FALSE] /\ faults' = faults + 1
  /\ UNCHANGED <<cutoff, came, run, stored, ckpt, cursor, proc>>

\* A crash, or a worker that does not end within the shutdown deadline: nothing
\* is finished or released.
Crash(p) ==
  /\ proc[p].pc # "off" /\ faults < MaxFaults
  /\ proc' = [proc EXCEPT ![p] = Off] /\ faults' = faults + 1
  /\ UNCHANGED <<cutoff, came, lease, run, stored, ckpt, cursor>>

\* SIGTERM.
Signal(p) ==
  /\ proc[p].pc \notin {"off", "closing", "finished"} /\ ~proc[p].stop /\ faults < MaxFaults
  /\ proc' = [proc EXCEPT ![p].stop = TRUE] /\ faults' = faults + 1
  /\ UNCHANGED <<cutoff, came, lease, run, stored, ckpt, cursor>>

Main(p) ==
  \/ Acquire(p) \/ StartRun(p) \/ Finish(p) \/ ReleaseLease(p) \/ StreamEnds(p)
\* The catch-up, wherever it runs.
CatchUp(p) ==
  \/ Reconcile(p) \/ Fetch(p) \/ Store(p) \/ Advance(p) \/ AdvanceClosed(p)
  \/ Interrupt(p) \/ RepairGap(p) \/ ReconEnds(p)

Next ==
  \/ \E p \in Procs : \/ Main(p) \/ CatchUp(p) \/ RenewFails(p) \/ StreamFails(p) \/ Crash(p) \/ Signal(p)
                      \/ \E r \in BOOLEAN : FetchFails(p, r)
                      \/ \E s \in Symbols, t \in Prompt : LiveBar(p, s, t)
  \/ Tick \/ (\E t \in Late : LateBar(t)) \/ Expire \/ Stall
Spec == Init /\ [][Next]_vars

\* Threads run, the clock moves, an unrenewed lease expires and a collector
\* that ended is started again (by its supervisor or its schedule); stream
\* bars, late bars and faults are not owed.
FairSpec ==
  /\ Spec /\ WF_vars(Tick) /\ WF_vars(Expire)
  /\ \A p \in Procs : WF_vars(Main(p)) /\ WF_vars(CatchUp(p)) /\ WF_vars(RenewFails(p) /\ faults' = faults)

-----------------------------------------------------------------------------
(***************************************************************************)
(* Properties.                                                             *)
(***************************************************************************)

\* No checkpoint is ahead of the cutoff, which _reconcile_once would refuse from
\* then on, and one is past a minute only when the bar the provider had for it is
\* stored, whatever failed, was interrupted or was taken over between fetch,
\* store and checkpoint (service.py _backfill_range; runbook: "Durably
\* committed half-open REST coverage per symbol").
CheckpointStored ==
  \A s \in Symbols :
    ckpt[s] <= cutoff /\ \A t \in Prompt : t < ckpt[s] => t \in stored[s]

\* Bars, coverage and repair attempts are written only while the run of the
\* current lease is open: no thread writes on after its run was closed
\* (service.py _join_workers before _finish_and_release).
WritesUnderRun ==
  [][ <<stored, ckpt, cursor>>' # <<stored, ckpt, cursor>> =>
        lease.token > 0 /\ run[lease.token] = "running" ]_vars

\* A bar that comes late is stored in the end for every symbol, through crashes
\* and takeovers and behind gaps that no fetch ever fills (recovery.py
\* next_gap_repair: "repeatedly starve later gaps").
LateBarsStored ==
  \A t \in Late : t \in came ~> \A s \in Symbols : t \in stored[s]
=============================================================================
