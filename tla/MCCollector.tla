----------------------------- MODULE MCCollector -----------------------------
(***************************************************************************)
(* Instances of Collector for TLC: the calendar, two sessions with closed  *)
(* time between them, and a cutoff that may fall within the first.         *)
(***************************************************************************)
EXTENDS Collector
Calendar == {<<0, 2>>, <<3, 4>>}
=============================================================================
