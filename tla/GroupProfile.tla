---------------------------- MODULE GroupProfile ----------------------------
(***************************************************************************)
(* What the past deals of a group say of the categories                     *)
(* (build_group_profile in core/relevance_scorer.py): one pass over the     *)
(* history, a point for a deal the house ordered, and one off for a deal    *)
(* that was ignored when the category has been ignored often enough.        *)
(*                                                                         *)
(* The history comes from a query without ORDER BY, so every order of the   *)
(* records has to make sense.                                               *)
(***************************************************************************)
EXTENDS Integers, Sequences, FiniteSets

CONSTANTS
    Category,
    IGNORE_STREAK_TO_PENALIZE,
    MaxHistory   \* bound: how many deals the history has

VARIABLES
    history,                \* the records read so far
    category_scores,        \* a dictionary: no entry without a point
    category_ignore_streak

vars == <<history, category_scores, category_ignore_streak>>
-----------------------------------------------------------------------------
\* A deal is "confirmed"; "ignored" is "expired" with fewer participants than
\* the threshold, "joined" is "expired" with enough; the rest is "open".
Outcome == {"confirmed", "ignored", "joined", "open"}

Record == [category : Category, outcome : Outcome]

Get(dict, c) == IF c \in DOMAIN dict THEN dict[c] ELSE 0

Set(dict, c, n) == [x \in DOMAIN dict \cup {c} |-> IF x = c THEN n ELSE dict[x]]

TypeOK ==
    /\ history \in Seq(Record)
    /\ DOMAIN category_scores \subseteq Category
    /\ \A c \in DOMAIN category_scores : category_scores[c] \in Int
    /\ DOMAIN category_ignore_streak \subseteq Category
    /\ \A c \in DOMAIN category_ignore_streak : category_ignore_streak[c] \in Nat

Init == history = <<>> /\ category_scores = <<>> /\ category_ignore_streak = <<>>

Read(c, outcome) ==
    /\ Len(history) < MaxHistory
    /\ history' = Append(history, [category |-> c, outcome |-> outcome])
-----------------------------------------------------------------------------
\* Mistake: an order does not end the streak.
Confirmed_keepsStreak(c) ==
    /\ Read(c, "confirmed")
    /\ category_scores' = Set(category_scores, c, Get(category_scores, c) + 1)
    /\ UNCHANGED category_ignore_streak

Confirmed(c) ==
    /\ Read(c, "confirmed")
    /\ category_scores' = Set(category_scores, c, Get(category_scores, c) + 1)
    /\ category_ignore_streak' = Set(category_ignore_streak, c, 0)

Ignored(c) ==
    LET streak == Get(category_ignore_streak, c) + 1 IN
    /\ Read(c, "ignored")
    /\ category_ignore_streak' = Set(category_ignore_streak, c, streak)
    /\ category_scores' = IF streak >= IGNORE_STREAK_TO_PENALIZE
                          THEN Set(category_scores, c, Get(category_scores, c) - 1)
                          ELSE category_scores

PassOver(c) ==
    /\ \E outcome \in {"joined", "open"} : Read(c, outcome)
    /\ UNCHANGED <<category_scores, category_ignore_streak>>

Next == \E c \in Category : Confirmed(c) \/ Ignored(c) \/ PassOver(c)

Spec == Init /\ [][Next]_vars
-----------------------------------------------------------------------------
(* PROPERTIES                                                              *)

\* The records of category c with the outcome, up to place k.
Places(c, outcome, k) ==
    {j \in 1..k : history[j] = [category |-> c, outcome |-> outcome]}

\* The ignored deals of category c up to place k that follow its last order.
Since(c, k) == {j \in Places(c, "ignored", k) :
                   \A l \in Places(c, "confirmed", k) : l < j}

\* What the scores mean by the constants (relevance_scorer.py:173-174): a point
\* for every order, one off for every ignored deal from the N-th since the last
\* order on.  The pass over the history, which remembers only a counter, computes
\* that.  (The docstring says something else: SecondPenalised.)
ScoresDefined ==
    \A c \in Category :
        Get(category_scores, c) =
            Cardinality(Places(c, "confirmed", Len(history)))
            - Cardinality({k \in Places(c, "ignored", Len(history)) :
                  Cardinality(Since(c, k)) >= IGNORE_STREAK_TO_PENALIZE})
-----------------------------------------------------------------------------
(* DISAGREEMENTS: what the documents say and the code does not do.  No run  *)
(* checks these; README.md says in which instance TLC shows each to fail.   *)

\* The closed deals of category c, in the order read.
Closed(c) == SelectSeq(history', LAMBDA r : r.category = c /\ r.outcome # "open")

\* "Only after N ignored deals in a row" (relevance_scorer.py:174): when a
\* category loses a point its last N closed deals were all ignored.
PenaltyInARow ==
    [][\A c \in Category :
          Get(category_scores', c) < Get(category_scores, c) =>
              \A k \in 0..(IGNORE_STREAK_TO_PENALIZE - 1) :
                  Closed(c)[Len(Closed(c)) - k].outcome = "ignored"]_vars

\* "-1 for every expired deal with few participants, but only if it is not the
\* first ignored in a row for the category" (relevance_scorer.py:183-184): from
\* the second on each takes a point off.
SecondPenalised ==
    [][\A c \in Category :
          LET n == Len(Closed(c)) IN
          Ignored(c) /\ n > 1 /\ Closed(c)[n - 1].outcome = "ignored"
              => Get(category_scores', c) < Get(category_scores, c)]_vars
=============================================================================
