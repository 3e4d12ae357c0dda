----------------------------- MODULE MCPromoScan ----------------------------
(***************************************************************************)
(* Instances of PromoScan for TLC.                                          *)
(***************************************************************************)
EXTENDS PromoScan

\* Every group has a city of its own.
OwnCities == [g \in Groups |-> g]
=============================================================================
