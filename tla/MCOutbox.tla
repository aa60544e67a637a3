------------------------------ MODULE MCOutbox ------------------------------
(***************************************************************************)
(* Instance of Outbox for TLC.                                             *)
(***************************************************************************)
EXTENDS Outbox

MCDelays == [k \in 1..MaxAttempts |-> k]
=============================================================================
