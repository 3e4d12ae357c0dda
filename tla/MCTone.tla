------------------------------- MODULE MCTone --------------------------------
(***************************************************************************)
(* Instances of Tone for TLC.                                               *)
(***************************************************************************)
EXTENDS Tone
=============================================================================
