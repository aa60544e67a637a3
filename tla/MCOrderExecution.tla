-------------------------- MODULE MCOrderExecution --------------------------
(***************************************************************************)
(* Instances of OrderExecution for TLC.                                    *)
(***************************************************************************)
EXTENDS OrderExecution, TLC

\* Exits of one unit; entries that may trade in parts.
MCQty == [c \in Orders |-> IF c \in Exits THEN 1 ELSE MaxQty]

\* Processes are interchangeable.
Symmetric == Permutations(Procs)
=============================================================================
