----------------------------- MODULE MCRelevance ----------------------------
(***************************************************************************)
(* Instances of Relevance for TLC: the categories with a keyword are alike. *)
(***************************************************************************)
EXTENDS Relevance, TLC

KeywordSymmetry == Permutations(Category \ {Default})
=============================================================================
