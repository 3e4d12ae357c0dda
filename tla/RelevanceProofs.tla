-------------------------- MODULE RelevanceProofs ---------------------------
(***************************************************************************)
(* The batch of a group, for every history, every list of offers and every  *)
(* limit: the scores the history gives, the types, the share of a category, *)
(* the order, and that the exploration never adds an offer.                 *)
(*                                                                         *)
(* First the choice of the batch alone (Ranking), with any dictionary of    *)
(* scores; then the pass over the history that gives the scores             *)
(* (GroupProfile); then the two together (Relevance).                       *)
(***************************************************************************)
EXTENDS Relevance, FiniteSetTheorems, SequenceTheorems, TLAPS

\* What _diversify has counted is what it has picked, and no category is above
\* its share.
Counted ==
    \A c \in Category : /\ IsFiniteSet(Share(c))
                        /\ counts[c] = Cardinality(Share(c))
                        /\ counts[c] <= Cap

\* The picks are among the offers it has seen; an offer it has passed over is
\* of a category that has its share.
Seen ==
    /\ picks \subseteq 1..(i - 1)
    /\ \A j \in 1..(i - 1) : j \notin picks => counts[cat[j]] = Cap

\* The exploration starts when every offer has been seen.
AllSeen == pc = "explore" => i = Len(cat) + 1

IInv == TypeOK /\ Counted /\ Seen /\ AllSeen
-----------------------------------------------------------------------------
\* A share is at least one offer, and half of the batch if there are several
\* categories.
LEMMA CapFacts ==
    ASSUME TypeOK
    PROVE  /\ Cap \in Nat \ {0}
           /\ (\E j, k \in Offers : cat[j] # cat[k]) => Cap = HalfUp(daily_limit)
<1>1. daily_limit \in Nat \ {0}
  BY BoundsAssumption DEF TypeOK
<1>2. HalfUp(daily_limit) \in Nat \ {0}
  BY <1>1 DEF HalfUp
<1> QED
  BY <1>1, <1>2 DEF Cap

\* The length of the list.
LEMMA LenType ==
    ASSUME TypeOK
    PROVE  Len(cat) \in Nat /\ cat \in [1..Len(cat) -> Category]
BY LenProperties DEF TypeOK

\* A category with a count is among the picks.
LEMMA CountedIsPicked ==
    ASSUME TypeOK, Counted, NEW c \in Category, counts[c] # 0
    PROVE  c \in PickedCategories
<1>1. Share(c) # {}
  BY FS_EmptySet DEF Counted
<1> QED
  BY <1>1 DEF Share, PickedCategories

\* When every offer has been seen, every category of an offer is picked.
LEMMA SeenArePicked ==
    ASSUME IInv, pc = "explore", NEW j \in Offers
    PROVE  cat[j] \in PickedCategories
<1>1. Len(cat) \in Nat /\ cat[j] \in Category /\ j \in 1..(i - 1)
  BY LenType DEF IInv, AllSeen, Offers
<1>2. CASE j \in picks
  BY <1>2 DEF PickedCategories
<1>3. CASE j \notin picks
  <2>1. counts[cat[j]] = Cap /\ Cap # 0
    BY <1>1, <1>3, CapFacts DEF IInv, Seen
  <2> QED
    BY <1>1, <2>1, CountedIsPicked DEF IInv
<1> QED
  BY <1>2, <1>3

\* The step of the exploration that the code would have to take.
LEMMA ExploreKeepsPicks ==
    ASSUME IInv, NEW c \in Category, Explore(c)
    PROVE  picks' = picks /\ explore_slots' = explore_slots
<1>1. Candidates(c) # {} => c \in PickedCategories
  <2> SUFFICES ASSUME NEW j \in Offers \ picks, cat[j] = c
               PROVE  c \in PickedCategories
    BY DEF Candidates
  <2> QED
    BY SeenArePicked DEF Explore
<1> QED
  BY <1>1 DEF Explore
-----------------------------------------------------------------------------
LEMMA InitIInv == ASSUME Init PROVE IInv
<1> USE DEF Init
<1>1. /\ cat \in Seq(Category) /\ Len(cat) \in 1..MaxOffers /\ Len(cat) \in Nat
  <2>1. PICK n \in 1..MaxOffers : cat \in [1..n -> Category]
    OBVIOUS
  <2>2. n \in Nat /\ n >= 1
    BY <2>1, BoundsAssumption
  <2>3. cat \in Seq(Category)
    BY <2>1, <2>2, SeqDef
  <2>4. Len(cat) = n
    BY <2>1, <2>2, <2>3, LenProperties
  <2> QED
    BY <2>2, <2>3, <2>4
<1>2. TypeOK
  BY <1>1 DEF TypeOK, EXPLORE_SLOTS
<1>3. \A c \in Category : Share(c) = {}
  BY DEF Share
<1>4. Counted
  <2>1. Cap \in Nat /\ IsFiniteSet({}) /\ Cardinality({}) = 0
    BY <1>2, CapFacts, FS_EmptySet
  <2>2. ASSUME NEW c \in Category
        PROVE  /\ IsFiniteSet(Share(c)) /\ Cardinality(Share(c)) = 0
               /\ counts[c] = 0
    BY <1>3, <2>1, Zenon
  <2> HIDE DEF Init
  <2> QED
    BY <2>1, <2>2 DEF Counted
<1>5. Seen /\ AllSeen
  BY DEF Seen, AllSeen
<1> QED
  BY <1>2, <1>4, <1>5 DEF IInv

\* The types: of the steps, only Take and Explore change what is picked.
LEMMA TypeStep == ASSUME IInv, [Next]_vars PROVE TypeOK'
<1> USE DEF IInv, TypeOK, input, Offers
<1>1. CASE Take
  <2>1. cat[i] \in Category /\ Len(cat) \in Nat
    BY <1>1, LenType DEF Take
  <2> QED
    BY <1>1, <2>1 DEF Take
<1>2. CASE Pass
  BY <1>2, LenType DEF Pass
<1>3. CASE EndDiversify
  <2>1. category_scores \in Scores => DOMAIN category_scores \subseteq Category
    BY DEF Scores
  <2> QED
    BY <1>3, <2>1 DEF EndDiversify
<1>4. ASSUME NEW c \in Category, Explore(c) PROVE TypeOK'
  BY <1>4, ExploreKeepsPicks DEF Explore
<1>5. CASE EndExplore
  BY <1>5 DEF EndExplore
<1>6. CASE UNCHANGED vars
  BY <1>6 DEF vars
<1> QED
  BY <1>1, <1>2, <1>3, <1>4, <1>5, <1>6 DEF Next

\* Cap is computed from the input, which no step changes.
LEMMA CapConstant == ASSUME [Next]_vars PROVE Cap' = Cap /\ cat' = cat
BY DEF Next, Take, Pass, EndDiversify, Explore, EndExplore, vars, input, Cap,
       Offers, HalfUp

\* A step that changes neither the picks, the counts nor the offer looked at.
LEMMA SamePicks ==
    ASSUME IInv, [Next]_vars, picks' = picks, counts' = counts, i' = i
    PROVE  Counted' /\ Seen'
<1>1. \A c \in Category : Share(c)' = Share(c)
  BY CapConstant DEF Share
<1> QED
  BY <1>1, CapConstant DEF IInv, Counted, Seen

LEMMA TakeStep == ASSUME IInv, Take PROVE Counted' /\ Seen' /\ AllSeen'
<1> DEFINE c0 == cat[i]
<1>1. c0 \in Category /\ Len(cat) \in Nat /\ i \in Nat
  BY LenType DEF Take, IInv, TypeOK, Offers
<1>2. i \notin picks
  BY <1>1 DEF IInv, Seen
<1>3. Cap' = Cap /\ cat' = cat
  BY CapConstant DEF Next
<1>4. ASSUME NEW c \in Category
      PROVE  /\ IsFiniteSet(Share(c)')
             /\ counts'[c] = Cardinality(Share(c)')
             /\ counts'[c] <= Cap
  <2>1. CASE c = c0
    <3>1. Share(c)' = Share(c) \cup {i}
      BY <1>3, <2>1 DEF Take, Share
    <3>2. i \notin Share(c)
      BY <1>2 DEF Share
    <3>3. IsFiniteSet(Share(c)') /\ Cardinality(Share(c)') = counts[c] + 1
      BY <3>1, <3>2, FS_AddElement DEF IInv, Counted
    <3>4. counts'[c] = counts[c] + 1
      BY <2>1, <1>1 DEF Take, IInv, TypeOK
    <3>5. counts[c] < Cap /\ counts[c] \in Nat /\ Cap \in Nat
      BY <2>1, <1>1, CapFacts DEF Take, IInv, TypeOK
    <3> QED
      BY <3>3, <3>4, <3>5
  <2>2. CASE c # c0
    <3>1. Share(c)' = Share(c)
      BY <1>3, <2>2 DEF Take, Share
    <3>2. counts'[c] = counts[c]
      BY <2>2, <1>1 DEF Take, IInv, TypeOK
    <3> QED
      BY <3>1, <3>2 DEF IInv, Counted
  <2> QED
    BY <2>1, <2>2
<1>5. Counted'
  BY <1>3, <1>4 DEF Counted
<1>6. Seen'
  <2>1. picks' \subseteq 1..(i' - 1)
    BY <1>1 DEF Take, IInv, Seen, TypeOK
  <2>2. ASSUME NEW j \in 1..(i' - 1), j \notin picks'
        PROVE  counts'[cat[j]] = Cap
    <3>1. j \in 1..(i - 1) /\ j \notin picks
      BY <1>1, <2>2 DEF Take
    <3>2. counts[cat[j]] = Cap
      BY <3>1 DEF IInv, Seen
    <3>3. cat[j] \in Category
      BY <3>1, <1>1, LenType DEF IInv, TypeOK, Take, Offers
    <3>4. cat[j] # c0
      BY <3>2, CapFacts DEF Take, IInv
    <3> QED
      BY <3>2, <3>3, <3>4, <1>1 DEF Take, IInv, TypeOK
  <2> QED
    BY <2>1, <2>2, <1>3 DEF Seen
<1>7. AllSeen'
  BY DEF Take, AllSeen
<1> QED
  BY <1>5, <1>6, <1>7

LEMMA PassStep == ASSUME IInv, Pass PROVE Counted' /\ Seen' /\ AllSeen'
<1>1. cat[i] \in Category /\ Len(cat) \in Nat /\ i \in Nat
  BY LenType DEF Pass, IInv, TypeOK, Offers
<1>2. Cap' = Cap /\ cat' = cat
  BY CapConstant DEF Next
<1>3. \A c \in Category : Share(c)' = Share(c)
  BY <1>2 DEF Pass, Share
<1>4. counts[cat[i]] = Cap
  BY <1>1, CapFacts DEF Pass, IInv, Counted, TypeOK
<1>5. Counted'
  BY <1>2, <1>3 DEF Pass, IInv, Counted
<1>6. Seen'
  BY <1>1, <1>2, <1>4 DEF Pass, IInv, Seen, TypeOK
<1> QED
  BY <1>5, <1>6 DEF Pass, AllSeen

LEMMA Inductive == ASSUME IInv, [Next]_vars PROVE IInv'
<1>1. TypeOK'
  BY TypeStep
<1>2. CASE Take
  BY <1>1, <1>2, TakeStep DEF IInv
<1>3. CASE Pass
  BY <1>1, <1>3, PassStep DEF IInv
<1>4. CASE EndDiversify
  <2>1. pc' = "explore" => i = Len(cat) + 1
    BY <1>4, LenType DEF EndDiversify, IInv, TypeOK, Offers
  <2> QED
    BY <1>1, <1>4, <2>1, SamePicks DEF EndDiversify, IInv, AllSeen, input
<1>5. ASSUME NEW c \in Category, Explore(c) PROVE IInv'
  BY <1>1, <1>5, SamePicks, ExploreKeepsPicks DEF Explore, IInv, AllSeen, input
<1>6. CASE EndExplore
  BY <1>1, <1>6, SamePicks DEF EndExplore, IInv, AllSeen, input
<1>7. CASE UNCHANGED vars
  BY <1>1, <1>7, SamePicks DEF vars, IInv, AllSeen
<1> QED
  BY <1>2, <1>3, <1>4, <1>5, <1>6, <1>7 DEF Next

THEOREM Invariance == Spec => []IInv
<1>1. Init => IInv
  BY InitIInv
<1>2. IInv /\ [Next]_vars => IInv'
  BY Inductive
<1> QED
  BY <1>1, <1>2, PTL DEF Spec
-----------------------------------------------------------------------------
\* Every variable keeps its type.
THEOREM TypeCorrect == Spec => []TypeOK
<1>1. IInv => TypeOK
  BY DEF IInv
<1> QED
  BY <1>1, Invariance, PTL

\* What the invariant says of the shares, of the order and of the exploration.
LEMMA InvariantShares == IInv => CapHolds
BY CapFacts DEF IInv, Counted, CapHolds

LEMMA InvariantOrder == ASSUME IInv PROVE BestFirst
<1> SUFFICES ASSUME NEW j \in Offers \ picks, NEW k \in picks, j < k
             PROVE  Cardinality(Share(cat[j])) = Cap
  BY DEF BestFirst
<1>1. i \in Nat /\ j \in 1..(i - 1) /\ cat[j] \in Category
  BY LenType DEF IInv, Seen, TypeOK, Offers
<1> QED
  BY <1>1 DEF IInv, Seen, Counted

LEMMA InvariantIdle ==
    ASSUME IInv, [Next]_vars, pc = "explore"
    PROVE  picks' = picks
BY ExploreKeepsPicks DEF Next, Take, Pass, EndDiversify, EndExplore, vars

\* No category is ever above half of the batch, for any offers and scores.
THEOREM ShareBounded == Spec => []CapHolds
BY InvariantShares, Invariance, PTL

\* An offer is left out for a worse one only where its category is full.
THEOREM OrderKept == Spec => []BestFirst
<1>1. IInv => BestFirst
  BY InvariantOrder
<1> QED
  BY <1>1, Invariance, PTL

\* The exploration never adds an offer, whatever the offers, the scores and the
\* limit: the place it should reserve does not exist.
THEOREM ExplorationIsIdle == Spec => ExploreAddsNothing
<1>1. ASSUME IInv, [Next]_vars PROVE [pc = "explore" => picks' = picks]_vars
  BY <1>1, InvariantIdle
<1> QED
  BY <1>1, Invariance, PTL DEF Spec, ExploreAddsNothing
-----------------------------------------------------------------------------
(* THE HISTORY.  What the pass remembers of a category, a score and a streak, *)
(* is what the records read so far say of it.                                 *)

\* The definitions of GroupProfile, of any history h.
PlacesOf(h, c, outcome, k) ==
    {j \in 1..k : h[j] = [category |-> c, outcome |-> outcome]}

SinceOf(h, c, k) == {j \in PlacesOf(h, c, "ignored", k) :
                        \A l \in PlacesOf(h, c, "confirmed", k) : l < j}

\* The ignored deals of category c that cost it a point.
Penalised(h, c) == {k \in PlacesOf(h, c, "ignored", Len(h)) :
                       Cardinality(SinceOf(h, c, k)) >= IGNORE_STREAK_TO_PENALIZE}

\* The score a history gives.
Meant(h, c) == Cardinality(PlacesOf(h, c, "confirmed", Len(h)))
                   - Cardinality(Penalised(h, c))

\* A streak is the number of ignored deals since the last order.
StreaksDefined ==
    \A c \in Category : Profile!Get(category_ignore_streak, c)
                            = Cardinality(SinceOf(history, c, Len(history)))

HistoryInv == /\ Profile!TypeOK
              /\ Len(history) \in 0..MaxHistory
              /\ StreaksDefined
              /\ \A c \in Category :
                    Profile!Get(category_scores, c) = Meant(history, c)
-----------------------------------------------------------------------------
\* GroupProfile counts as the library does.
LEMMA SameCardinality == \A S : Profile!Cardinality(S) = Cardinality(S)
BY DEF Profile!Cardinality, Cardinality

\* The scores meant are those of the property.
LEMMA ScoresMeant ==
    (\A c \in Category : Profile!Get(category_scores, c) = Meant(history, c))
        => ScoresDefined
<1> SUFFICES ASSUME NEW c \in Category,
                    Profile!Get(category_scores, c) = Meant(history, c)
             PROVE  Profile!Get(category_scores, c) =
                        Cardinality(Profile!Places(c, "confirmed", Len(history)))
                        - Cardinality({k \in Profile!Places(c, "ignored", Len(history)) :
                              Cardinality(Profile!Since(c, k)) >= IGNORE_STREAK_TO_PENALIZE})
  BY SameCardinality DEF ScoresDefined, Profile!ScoresDefined
<1>1. \A outcome, k : Profile!Places(c, outcome, k) = PlacesOf(history, c, outcome, k)
  BY DEF Profile!Places, PlacesOf
<1>2. \A k : Profile!Since(c, k) = SinceOf(history, c, k)
  BY <1>1 DEF Profile!Since, SinceOf
<1>3. {k \in Profile!Places(c, "ignored", Len(history)) :
          Cardinality(Profile!Since(c, k)) >= IGNORE_STREAK_TO_PENALIZE}
          = Penalised(history, c)
  BY <1>1, <1>2 DEF Penalised
<1> QED BY <1>1, <1>3 DEF Meant

\* An assignment to an entry of a dictionary is seen by `get` of that entry only.
LEMMA GetSet ==
    ASSUME NEW dict, NEW c, NEW c2, NEW n
    PROVE  Profile!Get(Profile!Set(dict, c, n), c2)
               = IF c2 = c THEN n ELSE Profile!Get(dict, c2)
BY DEF Profile!Get, Profile!Set

\* The places of records are finitely many, at most as many as are looked at.
LEMMA PlacesFinite ==
    ASSUME NEW h, NEW c, NEW outcome, NEW k \in Nat
    PROVE  /\ IsFiniteSet(PlacesOf(h, c, outcome, k))
           /\ Cardinality(PlacesOf(h, c, outcome, k)) \in 0..k
           /\ PlacesOf(h, c, outcome, k) \subseteq 1..k
<1>1. IsFiniteSet(1..k) /\ Cardinality(1..k) = k
  BY FS_Interval
<1>2. PlacesOf(h, c, outcome, k) \subseteq 1..k
  BY DEF PlacesOf
<1>3. /\ IsFiniteSet(PlacesOf(h, c, outcome, k))
      /\ Cardinality(PlacesOf(h, c, outcome, k)) <= k
  BY <1>1, <1>2, FS_Subset
<1>4. Cardinality(PlacesOf(h, c, outcome, k)) \in Nat
  BY <1>3, FS_CardinalityType
<1> QED BY <1>2, <1>3, <1>4

LEMMA SinceFinite ==
    ASSUME NEW h, NEW c, NEW k \in Nat
    PROVE  /\ SinceOf(h, c, k) \subseteq 1..k
           /\ IsFiniteSet(SinceOf(h, c, k))
<1>1. IsFiniteSet(1..k) /\ SinceOf(h, c, k) \subseteq 1..k
  BY FS_Interval DEF SinceOf, PlacesOf
<1> QED BY <1>1, FS_Subset

\* One more record is read: the old ones stay where they are.
LEMMA Reading ==
    ASSUME NEW h \in Seq(Profile!Record), NEW r \in Profile!Record
    PROVE  /\ Len(h) \in Nat /\ Len(Append(h, r)) = Len(h) + 1
           /\ Append(h, r) \in Seq(Profile!Record)
           /\ \A j \in 1..Len(h) : Append(h, r)[j] = h[j]
           /\ Append(h, r)[Len(h) + 1] = r
BY AppendProperties, LenProperties

\* What the records up to an old place say stays as it is.
LEMMA PlacesKept ==
    ASSUME NEW h \in Seq(Profile!Record), NEW r \in Profile!Record,
           NEW c, NEW k \in 0..Len(h)
    PROVE  /\ \A outcome : PlacesOf(Append(h, r), c, outcome, k) = PlacesOf(h, c, outcome, k)
           /\ SinceOf(Append(h, r), c, k) = SinceOf(h, c, k)
<1>1. \A j \in 1..k : Append(h, r)[j] = h[j]
  BY Reading
<1>2. \A outcome : PlacesOf(Append(h, r), c, outcome, k) = PlacesOf(h, c, outcome, k)
  BY <1>1 DEF PlacesOf
<1> QED BY <1>2 DEF SinceOf

\* The new record adds its place to those of its category and outcome.
LEMMA PlacesAdded ==
    ASSUME NEW h \in Seq(Profile!Record), NEW r \in Profile!Record, NEW c, NEW outcome
    PROVE  PlacesOf(Append(h, r), c, outcome, Len(h) + 1)
               = IF c = r.category /\ outcome = r.outcome
                 THEN PlacesOf(h, c, outcome, Len(h)) \cup {Len(h) + 1}
                 ELSE PlacesOf(h, c, outcome, Len(h))
<1> DEFINE h2 == Append(h, r)
           n == Len(h)
<1>2. /\ n \in Nat /\ h2[n + 1] = r
      /\ \A j \in 1..n : h2[j] = h[j]
  BY Reading
<1>3. r = [category |-> c, outcome |-> outcome] <=> c = r.category /\ outcome = r.outcome
  BY DEF Profile!Record
<1> HIDE DEF h2, n
<1>4. 1..(n + 1) = (1..n) \cup {n + 1}
  BY <1>2
<1>5. PlacesOf(h2, c, outcome, n + 1)
          = IF c = r.category /\ outcome = r.outcome THEN PlacesOf(h, c, outcome, n) \cup {n + 1}
            ELSE PlacesOf(h, c, outcome, n)
  BY <1>2, <1>3, <1>4 DEF PlacesOf
<1> QED BY <1>5 DEF h2, n

\* The ignored deals since the last order, after one more record.
LEMMA SinceAdded ==
    ASSUME NEW h \in Seq(Profile!Record), NEW r \in Profile!Record, NEW c
    PROVE  SinceOf(Append(h, r), c, Len(h) + 1)
               = IF c = r.category /\ r.outcome = "confirmed" THEN {}
                 ELSE IF c = r.category /\ r.outcome = "ignored"
                      THEN SinceOf(h, c, Len(h)) \cup {Len(h) + 1}
                      ELSE SinceOf(h, c, Len(h))
<1> DEFINE h2 == Append(h, r)
           n == Len(h)
           ign == PlacesOf(h, c, "ignored", n)
           con == PlacesOf(h, c, "confirmed", n)
           ign2 == PlacesOf(h2, c, "ignored", n + 1)
           con2 == PlacesOf(h2, c, "confirmed", n + 1)
<1>1. n \in Nat
  BY LenProperties
<1>2. /\ ign2 = IF c = r.category /\ r.outcome = "ignored" THEN ign \cup {n + 1} ELSE ign
      /\ con2 = IF c = r.category /\ r.outcome = "confirmed" THEN con \cup {n + 1} ELSE con
  BY PlacesAdded
<1>3. ign \subseteq 1..n /\ con \subseteq 1..n
  BY <1>1, PlacesFinite
<1>4. /\ SinceOf(h, c, n) = {j \in ign : \A l \in con : l < j}
      /\ SinceOf(h2, c, n + 1) = {j \in ign2 : \A l \in con2 : l < j}
  BY DEF SinceOf
<1> HIDE DEF h2, n, ign, con, ign2, con2
<1>5. CASE c = r.category /\ r.outcome = "confirmed"
  <2>1. ign2 = ign /\ n + 1 \in con2
    BY <1>2, <1>5
  <2>2. \A j \in ign2 : ~(n + 1 < j)
    BY <1>1, <1>3, <2>1
  <2>3. SinceOf(h2, c, n + 1) = {}
    BY <1>4, <2>1, <2>2
  <2> QED BY <1>5, <2>3 DEF h2, n
<1>6. CASE c = r.category /\ r.outcome = "ignored"
  <2>1. ign2 = ign \cup {n + 1} /\ con2 = con
    BY <1>2, <1>6
  <2>2. \A l \in con2 : l < n + 1
    BY <1>1, <1>3, <2>1
  <2>3. SinceOf(h2, c, n + 1) = SinceOf(h, c, n) \cup {n + 1}
    BY <1>4, <2>1, <2>2
  <2> QED BY <1>6, <2>3 DEF h2, n
<1>7. CASE ~(c = r.category /\ r.outcome \in {"confirmed", "ignored"})
  <2>1. ign2 = ign /\ con2 = con
    BY <1>2, <1>7
  <2> QED BY <1>4, <1>7, <2>1 DEF h2, n
<1> QED BY <1>5, <1>6, <1>7

\* The deals that cost a point, after one more record.
LEMMA PenalisedAdded ==
    ASSUME NEW h \in Seq(Profile!Record), NEW r \in Profile!Record, NEW c
    PROVE  Penalised(Append(h, r), c)
               = IF /\ c = r.category /\ r.outcome = "ignored"
                    /\ Cardinality(SinceOf(Append(h, r),
                                           c, Len(h) + 1))
                           >= IGNORE_STREAK_TO_PENALIZE
                 THEN Penalised(h, c) \cup {Len(h) + 1} ELSE Penalised(h, c)
<1> DEFINE h2 == Append(h, r)
           n == Len(h)
           ign == PlacesOf(h, c, "ignored", n)
           ign2 == PlacesOf(h2, c, "ignored", n + 1)
<1>2. n \in Nat /\ Len(h2) = n + 1
  BY Reading
<1>3. ign2 = IF c = r.category /\ r.outcome = "ignored" THEN ign \cup {n + 1} ELSE ign
  BY PlacesAdded
<1>4. ign \subseteq 1..n
  BY <1>2, PlacesFinite
<1>5. ASSUME NEW k \in ign PROVE SinceOf(h2, c, k) = SinceOf(h, c, k)
  <2>1. k \in 0..Len(h)
    BY <1>2, <1>4
  <2> QED BY <2>1, PlacesKept
<1>6. /\ Penalised(h, c) = {k \in ign : Cardinality(SinceOf(h, c, k))
                                            >= IGNORE_STREAK_TO_PENALIZE}
      /\ Penalised(h2, c) = {k \in ign2 : Cardinality(SinceOf(h2, c, k))
                                              >= IGNORE_STREAK_TO_PENALIZE}
  BY <1>2 DEF Penalised
<1> HIDE DEF h2, n, ign, ign2
<1>7. {k \in ign : Cardinality(SinceOf(h2, c, k)) >= IGNORE_STREAK_TO_PENALIZE}
          = Penalised(h, c)
  BY <1>5, <1>6
<1>8. CASE c = r.category /\ r.outcome = "ignored"
  <2>1. Penalised(h2, c) = IF Cardinality(SinceOf(h2, c, n + 1)) >= IGNORE_STREAK_TO_PENALIZE
                           THEN Penalised(h, c) \cup {n + 1} ELSE Penalised(h, c)
    BY <1>3, <1>6, <1>7, <1>8
  <2> QED BY <1>8, <2>1 DEF h2, n
<1>9. CASE ~(c = r.category /\ r.outcome = "ignored")
  <2>1. Penalised(h2, c) = Penalised(h, c)
    BY <1>3, <1>6, <1>7, <1>9
  <2> QED BY <1>9, <2>1 DEF h2
<1> QED BY <1>8, <1>9

\* A score stays within the number of deals: each moves one score, by one.
LEMMA MeantBounded ==
    ASSUME NEW h, Len(h) \in Nat, NEW c
    PROVE  /\ Meant(h, c) \in -Len(h)..Len(h)
           /\ IsFiniteSet(Penalised(h, c))
           /\ Cardinality(Penalised(h, c)) \in Nat
           /\ Penalised(h, c) \subseteq 1..Len(h)
<1> DEFINE n == Len(h)
           ign == PlacesOf(h, c, "ignored", n)
           con == PlacesOf(h, c, "confirmed", n)
<1>1. /\ IsFiniteSet(ign) /\ Cardinality(ign) \in 0..n /\ ign \subseteq 1..n
      /\ Cardinality(con) \in 0..n
  BY PlacesFinite
<1>2. Penalised(h, c) \subseteq ign
  BY DEF Penalised
<1>3. /\ IsFiniteSet(Penalised(h, c)) /\ Cardinality(Penalised(h, c)) <= Cardinality(ign)
  BY <1>1, <1>2, FS_Subset
<1>4. Cardinality(Penalised(h, c)) \in Nat
  BY <1>3, FS_CardinalityType
<1>5. Meant(h, c) = Cardinality(con) - Cardinality(Penalised(h, c))
  BY DEF Meant
<1>6. Meant(h, c) \in -n..n
  <2>1. n \in Nat
    OBVIOUS
  <2> HIDE DEF con, ign, n
  <2> QED BY <1>1, <1>3, <1>4, <1>5, <2>1
<1>7. Penalised(h, c) \subseteq 1..n
  BY <1>1, <1>2
<1> QED BY <1>3, <1>4, <1>6, <1>7

\* What one more record does to the streak and to the score of a category.
LEMMA StreakAdded ==
    ASSUME NEW h \in Seq(Profile!Record), NEW r \in Profile!Record, NEW c
    PROVE  Cardinality(SinceOf(Append(h, r), c, Len(h) + 1))
               = IF c = r.category /\ r.outcome = "confirmed" THEN 0
                 ELSE IF c = r.category /\ r.outcome = "ignored"
                      THEN Cardinality(SinceOf(h, c, Len(h))) + 1
                      ELSE Cardinality(SinceOf(h, c, Len(h)))
<1> DEFINE n == Len(h)
           since == SinceOf(h, c, n)
<1>1. n \in Nat
  BY LenProperties
<1>2. IsFiniteSet(since) /\ n + 1 \notin since
  BY <1>1, SinceFinite
<1>3. Cardinality(since \cup {n + 1}) = Cardinality(since) + 1 /\ Cardinality({}) = 0
  BY <1>2, FS_AddElement, FS_EmptySet
<1> QED BY <1>3, SinceAdded

LEMMA MeantAdded ==
    ASSUME NEW h \in Seq(Profile!Record), NEW r \in Profile!Record, NEW c
    PROVE  Meant(Append(h, r), c)
               = IF c = r.category /\ r.outcome = "confirmed" THEN Meant(h, c) + 1
                 ELSE IF /\ c = r.category /\ r.outcome = "ignored"
                         /\ Cardinality(SinceOf(h, c, Len(h))) + 1
                                >= IGNORE_STREAK_TO_PENALIZE
                      THEN Meant(h, c) - 1
                      ELSE Meant(h, c)
<1> DEFINE h2 == Append(h, r)
           n == Len(h)
           con == PlacesOf(h, c, "confirmed", n)
           con2 == PlacesOf(h2, c, "confirmed", n + 1)
           pen == Penalised(h, c)
           pen2 == Penalised(h2, c)
<1>2. n \in Nat /\ Len(h2) = n + 1
  BY Reading
<1>3. /\ IsFiniteSet(con) /\ Cardinality(con) \in Nat /\ n + 1 \notin con
      /\ IsFiniteSet(pen) /\ Cardinality(pen) \in Nat /\ n + 1 \notin pen
  <2>1. IsFiniteSet(con) /\ Cardinality(con) \in 0..n /\ con \subseteq 1..n
    BY <1>2, PlacesFinite
  <2>2. IsFiniteSet(pen) /\ Cardinality(pen) \in Nat /\ pen \subseteq 1..n
    BY <1>2, MeantBounded
  <2> QED BY <1>2, <2>1, <2>2
<1>4. con2 = IF c = r.category /\ r.outcome = "confirmed" THEN con \cup {n + 1} ELSE con
  BY PlacesAdded
<1>5. pen2 = IF /\ c = r.category /\ r.outcome = "ignored"
                /\ Cardinality(SinceOf(h, c, n)) + 1 >= IGNORE_STREAK_TO_PENALIZE
             THEN pen \cup {n + 1} ELSE pen
  BY PenalisedAdded, StreakAdded
<1>6. /\ Cardinality(con \cup {n + 1}) = Cardinality(con) + 1
      /\ Cardinality(pen \cup {n + 1}) = Cardinality(pen) + 1
  BY <1>3, FS_AddElement
<1>7. /\ Meant(h, c) = Cardinality(con) - Cardinality(pen)
      /\ Meant(h2, c) = Cardinality(con2) - Cardinality(pen2)
  BY <1>2 DEF Meant
<1>8. Meant(h2, c) = IF c = r.category /\ r.outcome = "confirmed" THEN Meant(h, c) + 1
                     ELSE IF /\ c = r.category /\ r.outcome = "ignored"
                             /\ Cardinality(SinceOf(h, c, n)) + 1
                                    >= IGNORE_STREAK_TO_PENALIZE
                          THEN Meant(h, c) - 1
                          ELSE Meant(h, c)
  <2> HIDE DEF h2, n, con, con2, pen, pen2
  <2> QED BY <1>3, <1>4, <1>5, <1>6, <1>7
<1> QED BY <1>8

\* What a reading of a record with outcome o0 of category c0 must do to the
\* scores and streaks, read entry by entry, for the definitions to stay true.
LEMMA RecordStep ==
    ASSUME HistoryInv, NEW c0 \in Category, NEW o0 \in Profile!Outcome,
           Profile!Read(c0, o0),
           Profile!TypeOK',
           \A c \in Category : Profile!Get(category_ignore_streak', c)
              = IF c = c0 /\ o0 = "confirmed" THEN 0
                ELSE IF c = c0 /\ o0 = "ignored"
                     THEN Profile!Get(category_ignore_streak, c) + 1
                     ELSE Profile!Get(category_ignore_streak, c),
           \A c \in Category : Profile!Get(category_scores', c)
              = IF c = c0 /\ o0 = "confirmed" THEN Profile!Get(category_scores, c) + 1
                ELSE IF /\ c = c0 /\ o0 = "ignored"
                        /\ Profile!Get(category_ignore_streak, c) + 1
                               >= IGNORE_STREAK_TO_PENALIZE
                     THEN Profile!Get(category_scores, c) - 1
                     ELSE Profile!Get(category_scores, c)
    PROVE  HistoryInv'
<1> DEFINE r == [category |-> c0, outcome |-> o0]
<1>1. /\ history \in Seq(Profile!Record) /\ r \in Profile!Record
      /\ Len(history) < MaxHistory /\ history' = Append(history, r)
  BY DEF HistoryInv, Profile!TypeOK, Profile!Read, Profile!Record
<1>2. /\ Len(history) \in Nat /\ Len(history') = Len(history) + 1 /\ MaxHistory \in Nat
  BY <1>1, Reading, HistoryAssumption
<1>3. StreaksDefined'
  BY <1>1, <1>2, StreakAdded DEF StreaksDefined, HistoryInv
<1>4. \A c \in Category : Profile!Get(category_scores', c) = Meant(history', c)
  BY <1>1, <1>2, MeantAdded DEF StreaksDefined, HistoryInv
<1>5. Len(history') \in 0..MaxHistory
  BY <1>1, <1>2
<1> QED BY <1>3, <1>4, <1>5 DEF HistoryInv

\* One record of the history.
LEMMA HistoryStep ==
    ASSUME HistoryInv, Profile!Next,
           category_scores = [c \in DOMAIN category_scores |-> category_scores[c]]
    PROVE  /\ HistoryInv'
           /\ category_scores' = [c \in DOMAIN category_scores' |-> category_scores'[c]]
<1> DEFINE scores == category_scores
           streak == category_ignore_streak
<1>1. /\ history \in Seq(Profile!Record)
      /\ DOMAIN scores \subseteq Category /\ \A c \in DOMAIN scores : scores[c] \in Int
      /\ DOMAIN streak \subseteq Category /\ \A c \in DOMAIN streak : streak[c] \in Nat
  BY DEF HistoryInv, Profile!TypeOK
<1>2. \A c : Profile!Get(scores, c) \in Int /\ Profile!Get(streak, c) \in Nat
  BY <1>1 DEF Profile!Get
<1>3. ASSUME NEW c0 \in Category, NEW o0 \in Profile!Outcome, Profile!Read(c0, o0)
      PROVE  history' \in Seq(Profile!Record)
  BY <1>1, <1>3, Reading DEF Profile!Read, Profile!Record
<1>4. ASSUME NEW c0 \in Category, Profile!Confirmed(c0)
      PROVE  HistoryInv' /\ scores' = [c \in DOMAIN scores' |-> scores'[c]]
  <2>1. /\ Profile!Read(c0, "confirmed") /\ "confirmed" \in Profile!Outcome
        /\ scores' = Profile!Set(scores, c0, Profile!Get(scores, c0) + 1)
        /\ streak' = Profile!Set(streak, c0, 0)
    BY <1>4 DEF Profile!Confirmed, Profile!Outcome
  <2>2. /\ DOMAIN scores' \subseteq Category /\ \A c \in DOMAIN scores' : scores'[c] \in Int
        /\ scores' = [c \in DOMAIN scores' |-> scores'[c]]
    BY <1>1, <1>2, <2>1 DEF Profile!Set
  <2>3. /\ DOMAIN streak' \subseteq Category /\ \A c \in DOMAIN streak' : streak'[c] \in Nat
    BY <1>1, <2>1 DEF Profile!Set
  <2>4. Profile!TypeOK'
    BY <1>3, <2>1, <2>2, <2>3 DEF Profile!TypeOK
  <2>5. /\ \A c \in Category : Profile!Get(scores', c)
              = IF c = c0 THEN Profile!Get(scores, c0) + 1 ELSE Profile!Get(scores, c)
        /\ \A c \in Category : Profile!Get(streak', c)
              = IF c = c0 THEN 0 ELSE Profile!Get(streak, c)
    BY <2>1, GetSet
  <2> HIDE DEF scores, streak
  <2> QED BY <2>1, <2>2, <2>4, <2>5, RecordStep DEF scores, streak
<1>5. ASSUME NEW c0 \in Category, Profile!Ignored(c0)
      PROVE  HistoryInv' /\ scores' = [c \in DOMAIN scores' |-> scores'[c]]
  <2> DEFINE m == Profile!Get(streak, c0) + 1
  <2>1. /\ Profile!Read(c0, "ignored") /\ "ignored" \in Profile!Outcome
        /\ scores' = IF m >= IGNORE_STREAK_TO_PENALIZE
                     THEN Profile!Set(scores, c0, Profile!Get(scores, c0) - 1) ELSE scores
        /\ streak' = Profile!Set(streak, c0, m)
    BY <1>5 DEF Profile!Ignored, Profile!Outcome
  <2>2. /\ DOMAIN scores' \subseteq Category /\ \A c \in DOMAIN scores' : scores'[c] \in Int
        /\ scores' = [c \in DOMAIN scores' |-> scores'[c]]
    <3>1. CASE m >= IGNORE_STREAK_TO_PENALIZE
      BY <1>1, <1>2, <2>1, <3>1 DEF Profile!Set
    <3>2. CASE ~(m >= IGNORE_STREAK_TO_PENALIZE)
      <4>1. scores' = scores
        BY <2>1, <3>2
      <4> QED BY <1>1, <4>1
    <3> QED BY <3>1, <3>2
  <2>3. /\ DOMAIN streak' \subseteq Category /\ \A c \in DOMAIN streak' : streak'[c] \in Nat
    BY <1>1, <1>2, <2>1 DEF Profile!Set
  <2>4. Profile!TypeOK'
    BY <1>3, <2>1, <2>2, <2>3 DEF Profile!TypeOK
  <2>5. /\ \A c \in Category : Profile!Get(scores', c)
              = IF c = c0 /\ m >= IGNORE_STREAK_TO_PENALIZE
                THEN Profile!Get(scores, c0) - 1 ELSE Profile!Get(scores, c)
        /\ \A c \in Category : Profile!Get(streak', c)
              = IF c = c0 THEN m ELSE Profile!Get(streak, c)
    BY <2>1, GetSet
  <2> HIDE DEF scores, streak
  <2> QED BY <2>1, <2>2, <2>4, <2>5, RecordStep DEF scores, streak
<1>6. ASSUME NEW c0 \in Category, Profile!PassOver(c0)
      PROVE  HistoryInv' /\ scores' = [c \in DOMAIN scores' |-> scores'[c]]
  <2>1. PICK o0 \in {"joined", "open"} : Profile!Read(c0, o0)
    BY <1>6 DEF Profile!PassOver
  <2>2. o0 \in Profile!Outcome /\ scores' = scores /\ streak' = streak
    BY <1>6 DEF Profile!PassOver, Profile!Outcome
  <2>3. Profile!TypeOK'
    BY <1>1, <1>3, <2>1, <2>2 DEF Profile!TypeOK
  <2>4. \A c : /\ Profile!Get(scores', c) = Profile!Get(scores, c)
               /\ Profile!Get(streak', c) = Profile!Get(streak, c)
    BY <2>2
  <2> QED BY <2>1, <2>2, <2>3, <2>4, RecordStep
<1> QED BY <1>4, <1>5, <1>6 DEF Profile!Next
-----------------------------------------------------------------------------
(* THE WHOLE.  The records are read before an offer is looked at; the choice  *)
(* leaves the scores alone.                                                   *)

BatchInv == IInv /\ HistoryInv

LEMMA BatchInit == ASSUME RelevanceInit PROVE BatchInv
<1>1. IInv
  BY InitIInv DEF RelevanceInit
<1>2. /\ history = <<>> /\ category_scores = <<>> /\ category_ignore_streak = <<>>
  BY DEF RelevanceInit, Profile!Init
<1>3. /\ Len(history) = 0 /\ history \in Seq(Profile!Record)
      /\ DOMAIN category_scores = {} /\ DOMAIN category_ignore_streak = {}
  BY <1>2, EmptySeq
<1>4. Profile!TypeOK /\ Len(history) \in 0..MaxHistory
  BY <1>3, HistoryAssumption DEF Profile!TypeOK
<1>5. ASSUME NEW c \in Category
      PROVE  /\ Profile!Get(category_scores, c) = 0
             /\ Profile!Get(category_ignore_streak, c) = 0
             /\ PlacesOf(history, c, "confirmed", 0) = {}
             /\ SinceOf(history, c, 0) = {}
             /\ Penalised(history, c) = {}
  BY <1>3 DEF Profile!Get, PlacesOf, SinceOf, Penalised
<1>6. Cardinality({}) = 0
  BY FS_EmptySet
<1>7. StreaksDefined
  BY <1>3, <1>5, <1>6 DEF StreaksDefined
<1>8. ASSUME NEW c \in Category
      PROVE  Profile!Get(category_scores, c) = Meant(history, c)
  <2>1. Meant(history, c) = Cardinality({}) - Cardinality({})
    BY <1>3, <1>5 DEF Meant
  <2> QED BY <1>5, <1>6, <2>1
<1> QED BY <1>1, <1>4, <1>7, <1>8 DEF BatchInv, HistoryInv

\* One more record leaves the batch empty and the scores in their bounds.
LEMMA ReadRecordStep == ASSUME BatchInv, ReadRecord PROVE BatchInv'
<1>1. category_scores = [c \in DOMAIN category_scores |-> category_scores[c]]
  BY DEF BatchInv, IInv, TypeOK, Scores
<1>2. /\ HistoryInv'
      /\ category_scores' = [c \in DOMAIN category_scores' |-> category_scores'[c]]
  BY <1>1, HistoryStep DEF BatchInv, ReadRecord
<1>3. category_scores' \in Scores
  <2>1. DOMAIN category_scores' \in SUBSET Category
    BY <1>2 DEF HistoryInv, Profile!TypeOK
  <2>2. ASSUME NEW c \in DOMAIN category_scores'
        PROVE  category_scores'[c] \in -MaxScore..MaxScore
    <3>1. category_scores'[c] = Profile!Get(category_scores', c) /\ c \in Category
      BY <2>1 DEF Profile!Get
    <3>2. Profile!Get(category_scores', c) = Meant(history', c)
      BY <1>2, <3>1 DEF HistoryInv
    <3>3. Meant(history', c) \in -Len(history')..Len(history')
      BY <1>2, HistoryAssumption, MeantBounded DEF HistoryInv
    <3>4. Len(history') \in 0..MaxHistory /\ MaxHistory \in Nat /\ MaxScore \in Nat
          /\ MaxHistory <= MaxScore
      BY <1>2, HistoryAssumption, BoundsAssumption DEF HistoryInv
    <3> QED BY <3>1, <3>2, <3>3, <3>4
  <2> QED BY <1>2, <2>1, <2>2 DEF Scores
<1>4. UNCHANGED <<cat, daily_limit, explore_slots, pc, i, counts, picks, todo>>
  BY DEF ReadRecord
<1>5. IInv'
  <2>1. Cap' = Cap /\ \A c : Share(c)' = Share(c)
    BY <1>4 DEF Cap, Share, Offers
  <2> QED BY <1>3, <1>4, <2>1 DEF BatchInv, IInv, TypeOK, Counted, Seen, AllSeen, Offers
<1> QED BY <1>2, <1>5 DEF BatchInv

LEMMA HistoryKept ==
    ASSUME HistoryInv, UNCHANGED profileVars, category_scores' = category_scores
    PROVE  HistoryInv'
BY DEF HistoryInv, profileVars, Profile!TypeOK, StreaksDefined

LEMMA BatchStep == ASSUME BatchInv, [RelevanceNext]_<<vars, profileVars>> PROVE BatchInv'
<1>1. CASE ReadRecord
  BY <1>1, ReadRecordStep
<1>2. CASE Choose \/ UNCHANGED <<vars, profileVars>>
  <2>1. [Next]_vars /\ UNCHANGED profileVars
    BY <1>2 DEF Choose
  <2>2. category_scores' = category_scores
    BY <2>1 DEF Next, Take, Pass, EndDiversify, Explore, EndExplore, vars, input
  <2> QED BY <2>1, <2>2, Inductive, HistoryKept DEF BatchInv
<1> QED BY <1>1, <1>2 DEF RelevanceNext

LEMMA BatchInvariance == RelevanceSpec => []BatchInv
<1>1. RelevanceInit => BatchInv
  BY BatchInit
<1>2. BatchInv /\ [RelevanceNext]_<<vars, profileVars>> => BatchInv'
  BY BatchStep
<1> QED BY <1>1, <1>2, PTL DEF RelevanceSpec

\* The pass over the history gives every category the score its definition
\* gives, for any history and in any order of it (relevance_scorer.py:173-187),
\* and the batch is chosen with these.
THEOREM HistoryScores == RelevanceSpec => []ScoresDefined
<1>1. BatchInv => ScoresDefined
  BY ScoresMeant DEF BatchInv, HistoryInv
<1> QED BY <1>1, BatchInvariance, PTL

\* The types, with the scores a history can give.
THEOREM BatchTypes == RelevanceSpec => []TypeOK
<1>1. BatchInv => TypeOK
  BY DEF BatchInv, IInv
<1> QED BY <1>1, BatchInvariance, PTL

\* No category is above half of the batch, whatever the history says of it
\* (relevance_scorer.py:262-264).
THEOREM BatchShares == RelevanceSpec => []CapHolds
<1>1. BatchInv => CapHolds
  BY InvariantShares DEF BatchInv
<1> QED BY <1>1, BatchInvariance, PTL

\* The best offers come first but for the shares (relevance_scorer.py:273-280).
THEOREM BatchOrder == RelevanceSpec => []BestFirst
<1>1. BatchInv => BestFirst
  BY InvariantOrder DEF BatchInv
<1> QED BY <1>1, BatchInvariance, PTL

\* No history makes the exploration add an offer (relevance_scorer.py:284-319).
THEOREM BatchExploration == RelevanceSpec => ExploreAddsNothing
<1> DEFINE A == pc = "explore" => picks' = picks
<1>1. ASSUME BatchInv, [RelevanceNext]_<<vars, profileVars>> PROVE [A]_vars
  <2>1. CASE ReadRecord
    BY <2>1 DEF ReadRecord
  <2>2. CASE Choose
    BY <1>1, <2>2, InvariantIdle DEF Choose, BatchInv
  <2>3. CASE UNCHANGED <<vars, profileVars>>
    BY <2>3
  <2> QED BY <1>1, <2>1, <2>2, <2>3 DEF RelevanceNext
<1> HIDE DEF A
<1>2. RelevanceSpec => [][A]_vars
  BY <1>1, BatchInvariance, PTL DEF RelevanceSpec
<1> QED BY <1>2 DEF ExploreAddsNothing, A
=============================================================================
