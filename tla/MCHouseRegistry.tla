--------------------------- MODULE MCHouseRegistry ---------------------------
(***************************************************************************)
(* Instances of HouseRegistry for TLC: tasks and cities are interchangeable.*)
(***************************************************************************)
EXTENDS HouseRegistry, TLC

Symmetries == Permutations(Tasks) \cup Permutations(Cities)
=============================================================================
