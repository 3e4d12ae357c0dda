---------------------------- MODULE MCDealPosts -----------------------------
(***************************************************************************)
(* Instances of DealPosts for TLC: what a press adds and how large a pack   *)
(* is.  A unit is one piece, or 100 g where the deal is sold by weight.     *)
(***************************************************************************)
EXTENDS DealPosts, TLC

\* One press of a piece deal; a pack of one, or two.
One == [d \in Deals |-> 1]
Two == [d \in Deals |-> 2]

\* A deal sold by weight: presses of 500 g, a pack of 700 g.
HalfKilo == [d \in Deals |-> 5]
SevenHundredGrams == [d \in Deals |-> 7]

\* Which task or which reset has which name does not matter.
TaskSymmetry  == Permutations(Tasks)
ResetSymmetry == Permutations(Resets)
Symmetries    == TaskSymmetry \cup ResetSymmetry
=============================================================================
