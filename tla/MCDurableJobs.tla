--------------------------- MODULE MCDurableJobs ---------------------------
(***************************************************************************)
(* Instances of DurableJobs for TLC.                                       *)
(***************************************************************************)
EXTENDS DurableJobs

\* Replicas of the worker container: each is pid 1 and calls itself job-worker-1.
MCOwnerOf == [w \in Workers |-> "job-worker-1"]
MCHandlesAll == [w \in Workers |-> JobIds]
MCDelays == [k \in 1..MaxAttempts |-> k]
=============================================================================
