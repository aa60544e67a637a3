---------------------------- MODULE MCDerivedData ----------------------------
(***************************************************************************)
(* Instances of DerivedData for TLC; the bounds are in the configuration.  *)
(***************************************************************************)
EXTENDS DerivedData
=============================================================================
