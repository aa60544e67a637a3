--------------------------- MODULE MCServiceCycles ---------------------------
(***************************************************************************)
(* Instances of ServiceCycles for TLC: both sides at once, one reversed,   *)
(* and nothing.                                                            *)
(***************************************************************************)
EXTENDS ServiceCycles

MCProposals == {[y \in Symbols |-> IF y = 1 THEN 1 ELSE -1],
                [y \in Symbols |-> IF y = 1 THEN -1 ELSE 0], Flat}
=============================================================================
