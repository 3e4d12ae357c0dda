----------------------------- MODULE Relevance ------------------------------
(***************************************************************************)
(* rank_products_for_group as a whole (core/relevance_scorer.py): the       *)
(* history of the group is turned into scores of the categories             *)
(* (GroupProfile), then the batch is chosen with these scores (Ranking).    *)
(* The dictionary category_scores is the one variable the two share.        *)
(***************************************************************************)
EXTENDS Ranking

CONSTANTS
    IGNORE_STREAK_TO_PENALIZE,
    MaxHistory   \* bound: how many deals the history has

ASSUME StreakAssumption == IGNORE_STREAK_TO_PENALIZE \in Nat \ {0}

\* A deal moves a score by one at most.
ASSUME HistoryAssumption == MaxHistory \in Nat /\ MaxHistory <= MaxScore

VARIABLES history, category_ignore_streak

Profile == INSTANCE GroupProfile

profileVars == <<history, category_ignore_streak>>
-----------------------------------------------------------------------------
\* Nothing has been chosen yet.
Profiling == pc = "diversify" /\ i = 1

RelevanceInit == Profile!Init /\ Init

\* build_group_profile reads one more record of the history ...
ReadRecord ==
    /\ Profiling
    /\ Profile!Next
    /\ UNCHANGED <<cat, daily_limit, explore_slots, pc, i, counts, picks, todo>>

\* ... and when it has read all, whatever they are, the choice follows.
Choose == Next /\ UNCHANGED profileVars

RelevanceNext == ReadRecord \/ Choose

RelevanceSpec == RelevanceInit /\ [][RelevanceNext]_<<vars, profileVars>>
-----------------------------------------------------------------------------
(* PROPERTIES                                                              *)

\* The scores the choice is made with are those the definition of a score gives
\* for the history (relevance_scorer.py:173-174), until the choice is over.
ScoresDefined == Profile!ScoresDefined
-----------------------------------------------------------------------------
(* DISAGREEMENTS: what the documents say and the code does not do.  No run  *)
(* checks these; README.md says in which instance TLC shows each to fail.   *)

\* "Only after N ignored deals in a row" (relevance_scorer.py:174).
PenaltyInARow == Profile!PenaltyInARow

\* From the second ignored deal in a row on (relevance_scorer.py:183-184).
SecondPenalised == Profile!SecondPenalised
=============================================================================
