--------------------------- MODULE MCJobProgress ---------------------------
(***************************************************************************)
(* Instance of JobProgress for TLC.                                        *)
(***************************************************************************)
EXTENDS JobProgress

MCDelays == [k \in 1..MaxAttempts |-> k]
=============================================================================
