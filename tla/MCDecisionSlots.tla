-------------------------- MODULE MCDecisionSlots --------------------------
(***************************************************************************)
(* Instances of DecisionSlots for TLC.  As in the timetable, slots follow  *)
(* one another, two leases fit between ready_at and deadline_at, and a     *)
(* forced flat has longer until its required completion.                   *)
(***************************************************************************)
EXTENDS DecisionSlots

MCReady == [s \in Slots |-> 2 * Lease * (s - 1)]
MCDeadline == [s \in Slots |-> MCReady[s] + 2 * Lease]
MCRequired == [s \in Slots |-> MCDeadline[s] + (IF s \in Forced THEN Lease ELSE 0)]
=============================================================================
