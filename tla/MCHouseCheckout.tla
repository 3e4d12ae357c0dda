-------------------------- MODULE MCHouseCheckout ---------------------------
(***************************************************************************)
(* Instances of HouseCheckout for TLC: which handler, deal, status or data  *)
(* has which name does not matter.                                          *)
(***************************************************************************)
EXTENDS HouseCheckout, TLC

Symmetries ==
    Permutations(Tasks) \cup Permutations(Deals) \cup Permutations(Clicks)
        \cup Permutations(Infos)
=============================================================================
