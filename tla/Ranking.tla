------------------------------ MODULE Ranking -------------------------------
(***************************************************************************)
(* Which offers a scan posts in a group (core/relevance_scorer.py): the     *)
(* offers are scored, the best are taken while no category takes more than  *)
(* its share (_diversify), and what is left of the batch should go to the   *)
(* categories the group has ignored (_add_explore).                         *)
(*                                                                         *)
(* An offer is its place in the list sorted by score; of an offer only the  *)
(* category matters here, of the scores only the order they give.          *)
(***************************************************************************)
EXTENDS Integers, Sequences, FiniteSets

CONSTANTS
    Category,    \* CATEGORY_KEYWORDS and the default category
    Default,     \* DEFAULT_CATEGORY, of offers without a keyword
    MaxOffers,   \* bound: the length of the list of offers
    MaxLimit,    \* bound: daily_limit
    MaxScore     \* bound: how far a category's score is from zero

ASSUME DefaultAssumption == Default \in Category
ASSUME BoundsAssumption == /\ MaxOffers \in Nat /\ MaxScore \in Nat
                           /\ MaxLimit \in Nat \ {0}

VARIABLES
    cat,             \* the categories of the offers, best offer first
    category_scores, \* what the history says of the categories
    daily_limit,     \* how many offers to pick
    explore_slots,   \* how many of them the exploration may add
    pc,              \* "diversify", "explore" or "done"
    i,               \* the offer _diversify looks at
    counts,          \* how many picks a category has
    picks,           \* the offers picked
    todo             \* the categories _add_explore has still to look at

input == <<cat, category_scores, daily_limit>>
vars == <<cat, category_scores, daily_limit, explore_slots, pc, i, counts,
          picks, todo>>
-----------------------------------------------------------------------------
EXPLORE_SLOTS == 1

Offers == 1..Len(cat)

\* The scores are a dictionary: a category the history says nothing of has none.
Scores == UNION {[D -> -MaxScore..MaxScore] : D \in SUBSET Category}

ScoreOf(c) == IF c \in DOMAIN category_scores THEN category_scores[c] ELSE 0

\* No history: the offers are sorted by discount alone.
ColdStart == DOMAIN category_scores = {}

\* ceil(n / 2)
HalfUp(n) == (n + 1) \div 2

\* Mistake: the share of a category is half of the offers.
Cap_offers == IF \E j, k \in Offers : cat[j] # cat[k]
              THEN HalfUp(Len(cat)) ELSE daily_limit

\* The share of a category.
Cap == IF \E j, k \in Offers : cat[j] # cat[k]
       THEN HalfUp(daily_limit) ELSE daily_limit

PickedCategories == {cat[j] : j \in picks}

TypeOK ==
    /\ cat \in Seq(Category) /\ Len(cat) \in 1..MaxOffers
    /\ category_scores \in Scores
    /\ daily_limit \in 1..MaxLimit
    /\ explore_slots \in 0..EXPLORE_SLOTS
    /\ pc \in {"diversify", "explore", "done"}
    /\ i \in 1..(Len(cat) + 1)
    /\ counts \in [Category -> Nat]
    /\ picks \subseteq Offers
    /\ todo \subseteq Category

Init ==
    /\ cat \in UNION {[1..n -> Category] : n \in 1..MaxOffers}
    /\ category_scores \in Scores
    /\ daily_limit \in 1..MaxLimit
    /\ explore_slots = EXPLORE_SLOTS
    /\ pc = "diversify"
    /\ i = 1
    /\ counts = [c \in Category |-> 0]
    /\ picks = {}
    /\ todo = {}
-----------------------------------------------------------------------------
\* Mistake: the place is advanced before the offer is taken.
Take_next ==
    /\ pc = "diversify" /\ i \in Offers /\ Cardinality(picks) < daily_limit
    /\ counts[cat[i]] < Cap
    /\ picks' = picks \cup {i + 1}
    /\ counts' = [counts EXCEPT ![cat[i]] = @ + 1]
    /\ i' = i + 1
    /\ UNCHANGED <<input, explore_slots, pc, todo>>

\* _diversify takes the next offer if its category has room ...
Take ==
    /\ pc = "diversify" /\ i \in Offers /\ Cardinality(picks) < daily_limit
    /\ counts[cat[i]] < Cap
    /\ picks' = picks \cup {i}
    /\ counts' = [counts EXCEPT ![cat[i]] = @ + 1]
    /\ i' = i + 1
    /\ UNCHANGED <<input, explore_slots, pc, todo>>

\* Mistake: an offer is passed over when its category has any pick.
Pass_one ==
    /\ pc = "diversify" /\ i \in Offers /\ Cardinality(picks) < daily_limit
    /\ counts[cat[i]] > 0
    /\ i' = i + 1
    /\ UNCHANGED <<input, explore_slots, pc, counts, picks, todo>>

\* ... and passes over it if not.
Pass ==
    /\ pc = "diversify" /\ i \in Offers /\ Cardinality(picks) < daily_limit
    /\ counts[cat[i]] >= Cap
    /\ i' = i + 1
    /\ UNCHANGED <<input, explore_slots, pc, counts, picks, todo>>

\* Mistake: the first category without room ends the choice.
EndDiversify_early ==
    /\ pc = "diversify"
    /\ i \in Offers => (counts[cat[i]] >= Cap \/ Cardinality(picks) >= daily_limit)
    /\ IF ColdStart \/ explore_slots = 0 \/ Cardinality(picks) >= daily_limit
       THEN pc' = "done" /\ UNCHANGED todo
       ELSE /\ pc' = "explore"
            /\ todo' = (Category \ {Default}) \cup DOMAIN category_scores
    /\ UNCHANGED <<input, explore_slots, i, counts, picks>>

\* It is over.  A cold start, a full batch or no slot ends the ranking;
\* otherwise the exploration looks at the categories with a keyword and at
\* those with a score.
EndDiversify ==
    /\ pc = "diversify"
    /\ i \notin Offers \/ Cardinality(picks) >= daily_limit
    /\ IF ColdStart \/ explore_slots = 0 \/ Cardinality(picks) >= daily_limit
       THEN pc' = "done" /\ UNCHANGED todo
       ELSE /\ pc' = "explore"
            /\ todo' = (Category \ {Default}) \cup DOMAIN category_scores
    /\ UNCHANGED <<input, explore_slots, i, counts, picks>>

\* The offers of category c that exploration can add.
Candidates(c) == {j \in Offers \ picks : cat[j] = c}

\* One of the lowest score among those still to look at.
Lowest(c) == c \in todo /\ \A c2 \in todo : ScoreOf(c) <= ScoreOf(c2)

\* _add_explore: the next category gets its best offer, if it is not among the
\* picks and has one.
Explore(c) ==
    LET adds == c \notin PickedCategories /\ Candidates(c) # {} IN
    /\ pc = "explore" /\ Lowest(c)
    /\ explore_slots > 0 /\ Cardinality(picks) < daily_limit
    /\ picks' \in IF adds THEN {picks \cup {best} : best \in Candidates(c)} ELSE {picks}
    /\ explore_slots' = IF adds THEN explore_slots - 1 ELSE explore_slots
    /\ todo' = todo \ {c}
    /\ UNCHANGED <<input, pc, i, counts>>

EndExplore ==
    /\ pc = "explore"
    /\ todo = {} \/ explore_slots = 0 \/ Cardinality(picks) >= daily_limit
    /\ pc' = "done"
    /\ UNCHANGED <<input, explore_slots, i, counts, picks, todo>>

Next == \/ Take \/ Pass \/ EndDiversify
        \/ \E c \in Category : Explore(c)
        \/ EndExplore

Spec == Init /\ [][Next]_vars
-----------------------------------------------------------------------------
(* PROPERTIES                                                              *)

\* The picks of category c.
Share(c) == {j \in picks : cat[j] = c}

\* "At most half of the batch for a category, when there are several"
\* (relevance_scorer.py:262-264): at no time has one more, the exploration
\* included.
CapHolds ==
    (\E j, k \in Offers : cat[j] # cat[k])
        => \A c \in Category : Cardinality(Share(c)) <= HalfUp(daily_limit)

\* An offer is passed over for a worse one only where its category has its
\* share (relevance_scorer.py:273-280).
BestFirst ==
    \A j \in Offers \ picks, k \in picks :
        j < k => Cardinality(Share(cat[j])) = Cap

\* The exploration adds nothing: when _diversify leaves room in the batch it has
\* seen every offer, and every category it has seen is among its picks.
ExploreAddsNothing == [][pc = "explore" => picks' = picks]_vars
-----------------------------------------------------------------------------
(* DISAGREEMENTS: what the documents say and the code does not do.  No run  *)
(* checks these; README.md says in which instance TLC shows each to fail.   *)

\* "A place is reserved for a category that has done badly"
\* (relevance_scorer.py:13-15): of a batch of two or more, one goes to a
\* category of the lowest score.
IgnoredServed ==
    pc = "done" /\ ~ColdStart /\ daily_limit > 1
        => \E j \in picks : \A k \in Offers : ScoreOf(cat[j]) <= ScoreOf(cat[k])

\* "No category gets more than half of the posts" (relevance_scorer.py:231-232).
HalfOfPosts ==
    pc = "done" /\ (\E j, k \in Offers : cat[j] # cat[k])
        => \A c \in Category : Cardinality(Share(c)) <= HalfUp(Cardinality(picks))
=============================================================================
