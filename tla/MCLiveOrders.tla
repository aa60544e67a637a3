---------------------------- MODULE MCLiveOrders ----------------------------
(***************************************************************************)
(* Instances of LiveOrders for TLC: the first sell trades in two parts.    *)
(***************************************************************************)
EXTENDS LiveOrders

MCQty == [o \in Orders |-> IF o \in Sells THEN 2 ELSE 1]
=============================================================================
