----------------------------- MODULE ToneProofs ------------------------------
(***************************************************************************)
(* Proofs about MessageLog and Tone, for any number of tasks and any limit. *)
(***************************************************************************)
EXTENDS Tone, FiniteSetTheorems, TLAPS

(* FINITE SETS OF MESSAGES                                                 *)

UpTo(m, L) == {k \in L : k <= m}

LEMMA UpToType ==
    ASSUME NEW L, IsFiniteSet(L), NEW m
    PROVE  /\ IsFiniteSet(UpTo(m, L))
           /\ Cardinality(UpTo(m, L)) \in Nat
           /\ Cardinality(UpTo(m, L)) <= Cardinality(L)
<1>1. UpTo(m, L) \in SUBSET L
  BY DEF UpTo
<1> QED BY <1>1, FS_Subset, FS_CardinalityType

\* The place of a message rises with the message.
LEMMA PlaceRises ==
    ASSUME NEW L \in SUBSET Int, IsFiniteSet(L), NEW x \in L, NEW y \in L, x < y
    PROVE  Cardinality(UpTo(x, L)) < Cardinality(UpTo(y, L))
<1>1. /\ UpTo(x, L) \in SUBSET UpTo(y, L)
      /\ y \in UpTo(y, L) /\ y \notin UpTo(x, L)
  <2>1. /\ x \in Int /\ y \in Int
        /\ \A k \in L : k \in Int /\ (k <= x => k <= y)
    OBVIOUS
  <2>2. y <= y /\ ~(y <= x)
    BY <2>1
  <2> QED BY <2>1, <2>2 DEF UpTo
<1>2. Cardinality(UpTo(x, L)) \in Nat /\ Cardinality(UpTo(y, L)) \in Nat
  BY UpToType
<1>3. /\ Cardinality(UpTo(x, L)) <= Cardinality(UpTo(y, L))
      /\ Cardinality(UpTo(x, L)) # Cardinality(UpTo(y, L))
  BY <1>1, UpToType, FS_Subset
<1> QED BY <1>2, <1>3

\* Of the n oldest there are at most n, and at most so many less are left.
LEMMA OldestCount ==
    ASSUME NEW L \in SUBSET Int, IsFiniteSet(L), NEW n \in Nat
    PROVE  /\ IsFiniteSet(Oldest(n, L)) /\ Cardinality(Oldest(n, L)) <= n
           /\ n <= Cardinality(L) =>
                Cardinality(L \ Oldest(n, L)) <= Cardinality(L) - n
<1> DEFINE place == [m \in L |-> Cardinality(UpTo(m, L))]
           A == Oldest(n, L)
           B == L \ A
           f == [m \in A |-> place[m]]
           g == [m \in B |-> place[m]]
<1>1. \A m \in L : place[m] \in 1..Cardinality(L)
  <2> SUFFICES ASSUME NEW m \in L
               PROVE  Cardinality(UpTo(m, L)) \in 1..Cardinality(L)
    OBVIOUS
  <2>1. UpTo(m, L) # {}
    BY DEF UpTo
  <2>2. Cardinality(UpTo(m, L)) # 0
    BY <2>1, UpToType, FS_EmptySet
  <2> QED BY <2>2, UpToType, FS_CardinalityType
<1>2. \A x, y \in L : place[x] = place[y] => x = y
  <2> SUFFICES ASSUME NEW x \in L, NEW y \in L, x # y, place[x] = place[y]
               PROVE  FALSE
    OBVIOUS
  <2>1. x < y \/ y < x
    OBVIOUS
  <2>2. Cardinality(UpTo(x, L)) = Cardinality(UpTo(y, L))
    OBVIOUS
  <2>3. Cardinality(UpTo(x, L)) \in Nat
    BY UpToType
  <2> QED BY <2>1, <2>2, <2>3, PlaceRises
<1>3. /\ A = {m \in L : place[m] <= n} /\ B = {m \in L : ~(place[m] <= n)}
      /\ Cardinality(L) \in Nat
  BY FS_CardinalityType DEF Oldest, UpTo
<1> HIDE DEF A, place
<1>4. f \in Injection(A, 1..n)
  <2>1. f \in [A -> 1..n] /\ DOMAIN f = A
    <3>1. \A m \in A : place[m] \in 1..n
      BY <1>1, <1>3
    <3> QED BY <3>1
  <2>2. \A a, b \in A : f[a] = f[b] => a = b
    BY <1>2, <1>3
  <2> HIDE DEF f
  <2> QED BY <2>1, <2>2 DEF Injection, IsInjective
<1>5. IsFiniteSet(A) /\ Cardinality(A) <= n
  <2>1. IsFiniteSet(1..n) /\ Cardinality(1..n) = n
    BY FS_Interval
  <2> QED BY <1>4, <2>1, FS_Injection
<1>6. ASSUME n <= Cardinality(L)
      PROVE  Cardinality(B) <= Cardinality(L) - n
  <2>1. g \in Injection(B, (n + 1)..Cardinality(L))
    <3>1. g \in [B -> (n + 1)..Cardinality(L)] /\ DOMAIN g = B
      <4>1. \A m \in B : place[m] \in (n + 1)..Cardinality(L)
        <5> SUFFICES ASSUME NEW m \in B PROVE place[m] \in (n + 1)..Cardinality(L)
          OBVIOUS
        <5>1. place[m] \in 1..Cardinality(L) /\ ~(place[m] <= n)
          BY <1>1, <1>3
        <5> QED BY <1>3, <5>1
      <4> QED BY <4>1
    <3>2. \A a, b \in B : g[a] = g[b] => a = b
      BY <1>2, <1>3
    <3> HIDE DEF g
    <3> QED BY <3>1, <3>2 DEF Injection, IsInjective
  <2>2. /\ IsFiniteSet((n + 1)..Cardinality(L))
        /\ Cardinality((n + 1)..Cardinality(L)) = Cardinality(L) - n
    BY <1>3, <1>6, FS_Interval
  <2> QED BY <2>1, <2>2, FS_Injection
<1> QED BY <1>5, <1>6 DEF A

\* What is among the oldest stays so when others go ...
LEMMA OldestOfFewer ==
    ASSUME NEW L \in SUBSET Int, IsFiniteSet(L), NEW n \in Nat, NEW X,
           NEW m \in Oldest(n, L), m \notin X
    PROVE  m \in Oldest(n, L \ X)
<1>1. UpTo(m, L \ X) \in SUBSET UpTo(m, L) /\ IsFiniteSet(L \ X)
  BY FS_Subset DEF UpTo
<1>2. /\ Cardinality(UpTo(m, L \ X)) <= Cardinality(UpTo(m, L))
      /\ Cardinality(UpTo(m, L \ X)) \in Nat /\ Cardinality(UpTo(m, L)) \in Nat
  BY <1>1, UpToType, FS_Subset
<1>3. m \in L /\ Cardinality(UpTo(m, L)) <= n
  BY DEF Oldest, UpTo
<1>4. Cardinality(UpTo(m, L \ X)) <= n
  BY <1>2, <1>3
<1> QED BY <1>3, <1>4 DEF Oldest, UpTo

\* ... and gives way to a message that is older, being the last of them.
LEMMA OldestOfMore ==
    ASSUME NEW L \in SUBSET Int, IsFiniteSet(L), NEW n \in Nat, NEW o \in Int,
           o \notin L, NEW m \in Oldest(n, L), m \notin Oldest(n, L \cup {o})
    PROVE  o < m /\ Cardinality(UpTo(m, L \cup {o})) = n + 1
<1>1. m \in L /\ m # o /\ Cardinality(UpTo(m, L)) <= n
  BY DEF Oldest, UpTo
<1>2. ~(Cardinality(UpTo(m, L \cup {o})) <= n)
  BY <1>1 DEF Oldest, UpTo
<1>3. IsFiniteSet(UpTo(m, L)) /\ Cardinality(UpTo(m, L)) \in Nat
  BY UpToType
<1>4. o <= m
  <2> SUFFICES ASSUME ~(o <= m) PROVE FALSE
    OBVIOUS
  <2>1. UpTo(m, L \cup {o}) = UpTo(m, L)
    BY DEF UpTo
  <2> QED BY <1>1, <1>2, <2>1
<1>5. UpTo(m, L \cup {o}) = UpTo(m, L) \cup {o} /\ o \notin UpTo(m, L)
  BY <1>4 DEF UpTo
<1>6. Cardinality(UpTo(m, L \cup {o})) = Cardinality(UpTo(m, L)) + 1
  BY <1>3, <1>5, FS_AddElement
<1> QED BY <1>1, <1>2, <1>3, <1>4, <1>6

\* A set with at most one element that another has not.
LEMMA OneMore ==
    ASSUME NEW A, IsFiniteSet(A), NEW B, \A x, y \in B \ A : x = y
    PROVE  IsFiniteSet(B) /\ Cardinality(B) <= Cardinality(A) + 1
<1>1. CASE B \subseteq A
  BY <1>1, FS_Subset, FS_CardinalityType
<1>2. CASE ~(B \subseteq A)
  <2>1. PICK x \in B : x \notin A
    BY <1>2
  <2>2. B \in SUBSET (A \cup {x})
    BY <2>1
  <2>3. IsFiniteSet(A \cup {x}) /\ Cardinality(A \cup {x}) = Cardinality(A) + 1
    BY <2>1, FS_AddElement
  <2> QED BY <2>2, <2>3, FS_Subset
<1> QED BY <1>1, <1>2
-----------------------------------------------------------------------------
(* THE TYPES OF THE LOG                                                    *)

LEMMA Sizes ==
    ASSUME TypeOK
    PROVE  /\ IsFiniteSet(log) /\ log \in SUBSET Int /\ Cardinality(log) \in Nat
           /\ Cardinality(Tasks) \in Nat /\ Keep \in Nat \ {0}
           /\ MaxMessages \in Nat /\ written \in Nat
           /\ \A t \in Tasks :
                /\ IsFiniteSet(Seen(t)) /\ Seen(t) \in SUBSET Int
                /\ Cardinality(Seen(t)) \in 0..(MaxMessages + 1)
<1>1. /\ Keep \in Nat \ {0} /\ MaxMessages \in Nat /\ Cardinality(Tasks) \in Nat
  BY KeepAssumption, MaxMessagesAssumption, TasksAssumption, FS_CardinalityType
<1>2. IsFiniteSet(1..MaxMessages) /\ IsFiniteSet(0..MaxMessages)
      /\ Cardinality(0..MaxMessages) = MaxMessages + 1
  BY <1>1, FS_Interval
<1>3. log \in SUBSET (1..MaxMessages)
  BY DEF TypeOK, GroupMessage
<1>4. /\ IsFiniteSet(log) /\ log \in SUBSET Int /\ Cardinality(log) \in Nat
  <2>1. IsFiniteSet(log)
    BY <1>2, <1>3, FS_Subset
  <2>2. 1..MaxMessages \in SUBSET Int
    BY <1>1
  <2> QED BY <1>3, <2>1, <2>2, FS_CardinalityType
<1>5. ASSUME NEW t \in Tasks
      PROVE  /\ IsFiniteSet(Seen(t)) /\ Seen(t) \in SUBSET Int
             /\ Cardinality(Seen(t)) \in 0..(MaxMessages + 1)
  <2>1. task[t].own \in 0..MaxMessages
    BY <1>1 DEF TypeOK, Task, GroupMessage
  <2>2. Seen(t) \in SUBSET (0..MaxMessages)
    BY <1>3, <2>1 DEF Seen
  <2>3. IsFiniteSet(Seen(t)) /\ Cardinality(Seen(t)) <= MaxMessages + 1
    BY <1>2, <2>2, FS_Subset
  <2>4. Cardinality(Seen(t)) \in Nat
    BY <2>3, FS_CardinalityType
  <2> QED BY <1>1, <2>2, <2>3, <2>4
<1> QED BY <1>1, <1>4, <1>5 DEF TypeOK

\* The messages of the tasks that run are their own, and not in the log; what a
\* task has not come to is empty.
Owns ==
    /\ log \subseteq 1..written
    /\ \A t \in Tasks :
         /\ task[t].pc = "idle" => task[t] = NoTask
         /\ task[t].pc # "idle" => task[t].own \in (1..written) \ log
         /\ task[t].pc = "count" => task[t].excess = 0
         /\ task[t].pc \in {"count", "select"} => task[t].old = {}
         /\ task[t].pc = "select" => task[t].excess # 0
    /\ \A t, t2 \in Tasks :
         t # t2 /\ task[t].pc # "idle" => task[t].own # task[t2].own

LEMMA TypeHolds ==
    ASSUME TypeOK, Owns, [Next]_vars
    PROVE  TypeOK'
<1>1. NoTask \in Task
  BY MaxMessagesAssumption DEF NoTask, Task
<1>2. ASSUME NEW t \in Tasks, Store(t) PROVE TypeOK'
  <2>1. written' \in GroupMessage /\ written' \in 0..MaxMessages
    BY <1>2, Sizes DEF TypeOK, Store, GroupMessage
  <2> QED BY <1>2, <2>1 DEF TypeOK, Store, Task
<1>3. ASSUME NEW t \in Tasks, Count(t) PROVE TypeOK'
  <2>1. CASE Cardinality(Seen(t)) <= Keep
    BY <1>3, <2>1 DEF TypeOK, Count, Task
  <2>2. CASE ~(Cardinality(Seen(t)) <= Keep)
    <3> DEFINE n == Cardinality(Seen(t)) - Keep
    <3>1. n \in 0..MaxMessages
      BY <2>2, Sizes
    <3>2. /\ task' = [task EXCEPT ![t].pc = "select", ![t].excess = n]
          /\ UNCHANGED <<log, written>>
      BY <1>3, <2>2 DEF Count
    <3> HIDE DEF n
    <3> QED BY <3>1, <3>2 DEF TypeOK, Task
  <2> QED BY <2>1, <2>2
<1>4. ASSUME NEW t \in Tasks, task[t].pc # "idle"
      PROVE  Seen(t) \subseteq GroupMessage
  <2>1. task[t].own \in GroupMessage \cup {0} /\ task[t].own # 0
    BY <1>4 DEF TypeOK, Owns, Task
  <2> QED BY <2>1 DEF TypeOK, Seen
<1>5. ASSUME NEW t \in Tasks, Select(t) PROVE TypeOK'
  <2> DEFINE o == Oldest(task[t].excess, Seen(t))
  <2>1. o \in SUBSET GroupMessage
    BY <1>4, <1>5 DEF Select, Oldest
  <2>2. /\ task' = [task EXCEPT ![t].pc = "delete", ![t].old = o]
        /\ UNCHANGED <<log, written>>
    BY <1>5 DEF Select
  <2> HIDE DEF o
  <2> QED BY <2>1, <2>2 DEF TypeOK, Task
<1>6. ASSUME NEW t \in Tasks, Delete(t) PROVE TypeOK'
  BY <1>6 DEF TypeOK, Delete, Task
<1>7. ASSUME NEW t \in Tasks, Commit(t) PROVE TypeOK'
  BY <1>1, <1>4, <1>7 DEF TypeOK, Commit
<1>8. CASE Crash
  BY <1>1, <1>8 DEF TypeOK, Crash
<1>9. CASE UNCHANGED vars
  BY <1>9 DEF TypeOK, vars
<1> QED BY <1>2, <1>3, <1>5, <1>6, <1>7, <1>8, <1>9 DEF Next, TaskStep

LEMMA OwnsHolds ==
    ASSUME TypeOK, Owns, [Next]_vars
    PROVE  Owns'
<1>1. ASSUME NEW t \in Tasks, Store(t) PROVE Owns'
  <2>1. /\ task[t] = NoTask /\ written' = written + 1 /\ log' = log
        /\ written \in Nat /\ t \in DOMAIN task
    BY <1>1, Sizes DEF Store, Owns, TypeOK
  <2>2. /\ task'[t].pc = "count" /\ task'[t].own = written + 1
        /\ task'[t].excess = 0 /\ task'[t].old = {}
        /\ \A t2 \in Tasks : t2 # t => task'[t2] = task[t2]
    <3>1. task' = [task EXCEPT ![t] = [NoTask EXCEPT !.pc = "count",
                                                     !.own = written + 1]]
      BY <1>1, <2>1 DEF Store
    <3>2. task'[t] = [NoTask EXCEPT !.pc = "count", !.own = written + 1]
      BY <2>1, <3>1
    <3> QED BY <3>1, <3>2 DEF NoTask, TypeOK
  <2>3. /\ 1..written \subseteq 1..written' /\ written + 1 \in 1..written'
        /\ written + 1 \notin 1..written /\ written + 1 # 0
    BY <2>1
  <2>4. \A t2 \in Tasks : t2 # t => task[t2].own # written + 1
    BY <2>3 DEF Owns, NoTask
  <2> QED BY <2>1, <2>2, <2>3, <2>4 DEF Owns
<1>2. ASSUME NEW t \in Tasks, Count(t) PROVE Owns'
  <2>1. CASE Cardinality(Seen(t)) <= Keep
    BY <1>2, <2>1 DEF Count, Owns, TypeOK
  <2>2. CASE ~(Cardinality(Seen(t)) <= Keep)
    <3> DEFINE n == Cardinality(Seen(t)) - Keep
    <3>1. n # 0
      BY <2>2, Sizes
    <3>2. /\ task' = [task EXCEPT ![t].pc = "select", ![t].excess = n]
          /\ task[t].pc = "count" /\ UNCHANGED <<log, written>>
      BY <1>2, <2>2 DEF Count
    <3> HIDE DEF n
    <3>3. task' = [task EXCEPT ![t] = [task[t] EXCEPT !.pc = "select", !.excess = n]]
      BY <3>2
    <3> QED BY <3>1, <3>2 DEF Owns, TypeOK, Task
  <2> QED BY <2>1, <2>2
<1>3. ASSUME NEW t \in Tasks, Select(t) PROVE Owns'
  <2> DEFINE o == Oldest(task[t].excess, Seen(t))
  <2>1. /\ task' = [task EXCEPT ![t].pc = "delete", ![t].old = o]
        /\ task[t].pc = "select" /\ UNCHANGED <<log, written>>
    BY <1>3 DEF Select
  <2> HIDE DEF o
  <2> QED BY <2>1 DEF Owns, TypeOK, Task
<1>4. ASSUME NEW t \in Tasks, Delete(t) PROVE Owns'
  BY <1>4 DEF Delete, Owns, TypeOK, Task
<1>5. ASSUME NEW t \in Tasks, Commit(t) PROVE Owns'
  <2>1. /\ task'[t] = NoTask /\ task[t].pc # "idle" /\ written' = written
        /\ \A t2 \in Tasks : t2 # t => task'[t2] = task[t2]
        /\ log' \subseteq log \cup {task[t].own}
    BY <1>5 DEF Commit, Seen, TypeOK
  <2>2. \A t2 \in Tasks : t2 # t /\ task[t2].pc # "idle"
                            => task[t2].own \in (1..written) \ log'
    BY <2>1 DEF Owns
  <2> QED BY <2>1, <2>2 DEF Owns, NoTask
<1>6. CASE Crash
  BY <1>6 DEF Crash, Owns, NoTask
<1>7. CASE UNCHANGED vars
  BY <1>7 DEF vars, Owns
<1> QED BY <1>1, <1>2, <1>3, <1>4, <1>5, <1>6, <1>7 DEF Next, TaskStep
-----------------------------------------------------------------------------
(* THE LENGTH OF THE LOG.  A task that has counted makes room: it will      *)
(* delete what WillGo says, and add its own message unless that is deleted  *)
(* as well.  What is left of the log without the messages that any of these *)
(* tasks will delete, and what they add, never exceeds the bound.           *)

Counted == {t \in Tasks : task[t].pc \in {"select", "delete", "commit"}}

WillGo(t) == IF task[t].pc = "select" THEN Oldest(task[t].excess, log)
             ELSE task[t].old

Left(S) == {m \in log : \A t \in S : m \notin WillGo(t)}
Adding(S) == {t \in S : task[t].own \notin task[t].old}

Room == \A S \in SUBSET Counted :
           Cardinality(Left(S)) + Cardinality(Adding(S))
               <= Keep + Cardinality(Tasks) - 1

LEMMA SetOfTasks ==
    ASSUME NEW S \in SUBSET Tasks
    PROVE  /\ IsFiniteSet(S) /\ Cardinality(S) \in Nat
           /\ Cardinality(Tasks) \in Nat /\ Cardinality(S) <= Cardinality(Tasks)
BY TasksAssumption, FS_Subset, FS_CardinalityType

LEMMA PartTypes ==
    ASSUME TypeOK, NEW S \in SUBSET Tasks
    PROVE  /\ IsFiniteSet(Left(S)) /\ Cardinality(Left(S)) \in Nat
           /\ Cardinality(Left(S)) <= Cardinality(log)
           /\ IsFiniteSet(Adding(S)) /\ Cardinality(Adding(S)) \in Nat
<1>1. Left(S) \in SUBSET log /\ Adding(S) \in SUBSET Tasks
  BY DEF Left, Adding
<1> QED BY <1>1, Sizes, SetOfTasks, FS_Subset, FS_CardinalityType

\* A set of tasks none of which moves.
LEMMA RoomStays ==
    ASSUME Room, log' = log, NEW S \in SUBSET Counted,
           \A t \in S : /\ WillGo(t)' = WillGo(t)
                        /\ task'[t].own = task[t].own /\ task'[t].old = task[t].old
    PROVE  Cardinality(Left(S)') + Cardinality(Adding(S)')
               <= Keep + Cardinality(Tasks) - 1
<1>1. Left(S)' = Left(S) /\ Adding(S)' = Adding(S)
  BY DEF Left, Adding
<1> QED BY <1>1 DEF Room

LEMMA RoomCount ==
    ASSUME TypeOK, Owns, Room, NEW t \in Tasks, Count(t)
    PROVE  Room'
<1>1. /\ log' = log /\ task[t].pc = "count"
      /\ \A t2 \in Tasks : t2 # t => task'[t2] = task[t2]
  BY DEF Count, TypeOK
<1>2. /\ IsFiniteSet(log) /\ log \in SUBSET Int /\ Cardinality(log) \in Nat
      /\ Keep \in Nat \ {0} /\ Cardinality(Tasks) \in Nat
  BY Sizes
<1>3. Cardinality(Seen(t)) = Cardinality(log) + 1
  BY <1>1, <1>2, FS_AddElement DEF Seen, Owns
<1> SUFFICES ASSUME NEW S \in SUBSET Counted'
             PROVE  Cardinality(Left(S)') + Cardinality(Adding(S)')
                        <= Keep + Cardinality(Tasks) - 1
  BY DEF Room
<1>4. CASE t \notin S
  <2>1. \A t2 \in S : t2 \in Tasks /\ task'[t2] = task[t2]
    BY <1>1, <1>4 DEF Counted
  <2>2. S \in SUBSET Counted
    BY <2>1 DEF Counted
  <2> QED BY <1>1, <2>1, <2>2, RoomStays DEF WillGo
<1>5. CASE t \in S
  <2>1. \/ /\ Cardinality(log) + 1 <= Keep
           /\ task'[t].pc = "commit"
        \/ /\ ~(Cardinality(log) + 1 <= Keep)
           /\ task'[t].pc = "select"
           /\ task'[t].excess = Cardinality(log) + 1 - Keep
    <3> DEFINE n == Cardinality(Seen(t)) - Keep
    <3>1. CASE Cardinality(log) + 1 <= Keep
      BY <1>3, <3>1 DEF Count, TypeOK, Task
    <3>2. CASE ~(Cardinality(log) + 1 <= Keep)
      <4>1. task' = [task EXCEPT ![t].pc = "select", ![t].excess = n]
        BY <1>3, <3>2 DEF Count
      <4>2. n = Cardinality(log) + 1 - Keep
        BY <1>2, <1>3
      <4> HIDE DEF n
      <4>3. task'[t].pc = "select" /\ task'[t].excess = n
        BY <4>1 DEF TypeOK, Task
      <4> QED BY <3>2, <4>2, <4>3
    <3> QED BY <3>1, <3>2
  <2>2. Left(S)' \in SUBSET log
    BY <1>1 DEF Left
  <2>3. Cardinality(Left(S)') \in Nat /\ Cardinality(Left(S)') <= Keep - 1
    <3>1. CASE Cardinality(log) + 1 <= Keep
      <4>1. /\ Cardinality(Left(S)') \in Nat
            /\ Cardinality(Left(S)') <= Cardinality(log)
        BY <1>2, <2>2, FS_Subset, FS_CardinalityType
      <4> QED BY <1>2, <3>1, <4>1
    <3>2. CASE ~(Cardinality(log) + 1 <= Keep)
      <4> DEFINE n == Cardinality(log) + 1 - Keep
                 rest == log \ Oldest(n, log)
      <4>1. n \in Nat /\ n <= Cardinality(log)
        BY <1>2, <3>2
      <4>2. Cardinality(rest) <= Cardinality(log) - n /\ IsFiniteSet(rest)
        BY <1>2, <4>1, OldestCount, FS_Subset
      <4>3. WillGo(t)' = Oldest(n, log)
        BY <1>1, <2>1, <3>2 DEF WillGo
      <4>4. Left(S)' \in SUBSET rest
        BY <1>1, <1>5, <4>3 DEF Left
      <4>5. /\ Cardinality(Left(S)') \in Nat /\ Cardinality(rest) \in Nat
            /\ Cardinality(Left(S)') <= Cardinality(rest)
        BY <4>2, <4>4, FS_Subset, FS_CardinalityType
      <4> QED BY <1>2, <4>2, <4>5
    <3> QED BY <3>1, <3>2
  <2>4. Adding(S)' \in SUBSET Tasks
    BY DEF Adding, Counted
  <2>5. /\ Cardinality(Adding(S)') \in Nat
        /\ Cardinality(Adding(S)') <= Cardinality(Tasks)
    BY <2>4, SetOfTasks
  <2> QED BY <1>2, <2>3, <2>5
<1> QED BY <1>4, <1>5

\* Between the count and the selection a message may slip away from what the
\* task deletes; then its own takes the place.
LEMMA RoomSelect ==
    ASSUME TypeOK, Owns, Room, NEW t \in Tasks, Select(t)
    PROVE  Room'
<1> DEFINE e == task[t].excess
           o == task[t].own
           gone == Oldest(e, log \cup {o})
<1>1. /\ log' = log /\ task[t].pc = "select" /\ task[t].old = {}
      /\ o \in Int /\ o \notin log /\ e \in Nat
      /\ \A t2 \in Tasks : t2 # t => task'[t2] = task[t2]
  <2>1. task[t].pc = "select"
    BY DEF Select
  <2>2. o \in (1..written) \ log /\ task[t].old = {}
    BY <2>1 DEF Owns
  <2> QED BY <2>1, <2>2 DEF Select, TypeOK, Task
<1>2. task'[t].pc = "delete" /\ task'[t].own = o /\ task'[t].old = gone
  BY DEF Select, TypeOK, Seen, Task
<1>3. /\ IsFiniteSet(log) /\ log \in SUBSET Int /\ Cardinality(log) \in Nat
      /\ Keep \in Nat \ {0} /\ Cardinality(Tasks) \in Nat
      /\ IsFiniteSet(log \cup {o}) /\ log \cup {o} \in SUBSET Int
  BY <1>1, Sizes, FS_AddElement
<1> SUFFICES ASSUME NEW S \in SUBSET Counted'
             PROVE  Cardinality(Left(S)') + Cardinality(Adding(S)')
                        <= Keep + Cardinality(Tasks) - 1
  BY DEF Room
<1>4. CASE t \notin S
  <2>1. \A t2 \in S : t2 \in Tasks /\ task'[t2] = task[t2]
    BY <1>1, <1>4 DEF Counted
  <2>2. S \in SUBSET Counted
    BY <2>1 DEF Counted
  <2> QED BY <1>1, <2>1, <2>2, RoomStays DEF WillGo
<1>5. CASE t \in S
  <2>1. S \in SUBSET Counted
    BY <1>1 DEF Counted
  <2>2. /\ IsFiniteSet(Left(S)) /\ Cardinality(Left(S)) \in Nat
        /\ IsFiniteSet(Adding(S)) /\ Cardinality(Adding(S)) \in Nat
    BY <2>1, PartTypes DEF Counted
  <2>3. Cardinality(Left(S)) + Cardinality(Adding(S)) <= Keep + Cardinality(Tasks) - 1
    BY <2>1 DEF Room
  <2>4. WillGo(t) = Oldest(e, log) /\ WillGo(t)' = gone
    BY <1>1, <1>2 DEF WillGo
  <2>5. \A t2 \in S : t2 # t => WillGo(t2)' = WillGo(t2)
    BY <1>1, <2>1 DEF WillGo, Counted
  <2> HIDE DEF e, o
  <2>6. ASSUME NEW x \in Left(S)' \ Left(S)
        PROVE  x \in log /\ o < x /\ Cardinality(UpTo(x, log \cup {o})) = e + 1
    <3>1. x \in log /\ x \in Oldest(e, log) /\ x \notin gone
      BY <1>1, <1>5, <2>4, <2>5 DEF Left
    <3> QED BY <1>1, <1>3, <3>1, OldestOfMore
  <2>7. \A x, y \in Left(S)' \ Left(S) : x = y
    <3> SUFFICES ASSUME NEW x \in Left(S)' \ Left(S), NEW y \in Left(S)' \ Left(S),
                        x < y
                 PROVE  FALSE
      <4>1. \A x \in Left(S)' \ Left(S) : x \in Int
        BY <1>3, <2>6
      <4> QED BY <4>1
    <3>1. Cardinality(UpTo(x, log \cup {o})) < Cardinality(UpTo(y, log \cup {o}))
      BY <1>3, <2>6, PlaceRises
    <3> QED BY <1>1, <2>6, <3>1
  <2>8. IsFiniteSet(Left(S)') /\ Cardinality(Left(S)') \in Nat
        /\ Cardinality(Left(S)') <= Cardinality(Left(S)) + 1
    BY <2>2, <2>7, OneMore, FS_CardinalityType
  <2>9. \A t2 \in S : t2 # t => (t2 \in Adding(S)' <=> t2 \in Adding(S))
    BY <1>1, <2>1 DEF Adding, Counted
  <2>10. t \in Adding(S)
    BY <1>1, <1>5 DEF Adding
  <2>11. Adding(S)' \in SUBSET Adding(S)
    BY <2>9, <2>10 DEF Adding
  <2>12. /\ Cardinality(Adding(S)') \in Nat
         /\ Cardinality(Adding(S)') <= Cardinality(Adding(S))
    BY <2>2, <2>11, FS_Subset, FS_CardinalityType
  <2>13. CASE Left(S)' \subseteq Left(S)
    <3>1. Cardinality(Left(S)') <= Cardinality(Left(S))
      BY <2>2, <2>13, FS_Subset
    <3> QED BY <1>3, <2>2, <2>3, <2>8, <2>12, <3>1
  <2>14. CASE ~(Left(S)' \subseteq Left(S))
    <3>1. PICK x \in Left(S)' \ Left(S) : TRUE
      BY <2>14
    <3>2. x \in log /\ o < x /\ Cardinality(UpTo(x, log \cup {o})) = e + 1
      BY <2>6
    <3>3. /\ Cardinality(UpTo(o, log \cup {o})) < e + 1
          /\ Cardinality(UpTo(o, log \cup {o})) \in Nat
      BY <1>3, <3>2, PlaceRises, UpToType
    <3>4. o \in gone
      BY <1>1, <3>3 DEF Oldest, UpTo
    <3>5. t \notin Adding(S)'
      BY <1>2, <3>4 DEF Adding, o
    <3>6. Adding(S)' \in SUBSET (Adding(S) \ {t})
      BY <2>11, <3>5
    <3>7. /\ IsFiniteSet(Adding(S) \ {t})
          /\ Cardinality(Adding(S) \ {t}) = Cardinality(Adding(S)) - 1
      BY <2>2, <2>10, FS_RemoveElement
    <3>8. Cardinality(Adding(S)') <= Cardinality(Adding(S)) - 1
      BY <3>6, <3>7, FS_Subset
    <3> QED BY <1>3, <2>2, <2>3, <2>8, <2>12, <3>8
  <2> QED BY <2>13, <2>14
<1> QED BY <1>4, <1>5

\* What a task deletes has been counted out already; if its own message stays,
\* that, or the last of those another task was to delete, is one more.
LEMMA RoomCommit ==
    ASSUME TypeOK, Owns, Room, NEW u \in Tasks, Commit(u)
    PROVE  Room'
<1> DEFINE o == task[u].own
           old == task[u].old
<1>1. /\ task[u].pc = "commit" /\ log' = (log \cup {o}) \ old
      /\ \A t \in Tasks : t # u => task'[t] = task[t]
      /\ task'[u].pc = "idle"
  BY DEF Commit, Seen, TypeOK, NoTask
<1>2. /\ IsFiniteSet(log) /\ log \in SUBSET Int /\ o \in Int /\ o \notin log
      /\ Keep \in Nat \ {0} /\ Cardinality(Tasks) \in Nat
  BY <1>1, Sizes DEF Owns
<1>3. IsFiniteSet(log \cup {o}) /\ log \cup {o} \in SUBSET Int
  BY <1>2, FS_AddElement
<1>4. u \in Counted
  BY <1>1 DEF Counted
<1> SUFFICES ASSUME NEW S \in SUBSET Counted'
             PROVE  Cardinality(Left(S)') + Cardinality(Adding(S)')
                        <= Keep + Cardinality(Tasks) - 1
  BY DEF Room
<1> DEFINE R == S \cup {u}
<1>5. /\ u \notin S /\ R \in SUBSET Counted /\ S \in SUBSET Tasks
      /\ \A t \in S : task'[t] = task[t]
  BY <1>1, <1>4 DEF Counted
<1>6. \A t \in S : \/ /\ task[t].pc = "select" /\ task[t].excess \in Nat
                      /\ WillGo(t) = Oldest(task[t].excess, log)
                      /\ WillGo(t)' = Oldest(task[t].excess, log')
                   \/ WillGo(t)' = WillGo(t)
  BY <1>5 DEF WillGo, TypeOK, Task
<1>7. Adding(S)' = Adding(S)
  BY <1>5 DEF Adding
<1>8. /\ IsFiniteSet(Left(R)) /\ Cardinality(Left(R)) \in Nat
      /\ IsFiniteSet(Adding(S)) /\ Cardinality(Adding(S)) \in Nat
      /\ Cardinality(Left(R)) + Cardinality(Adding(R)) <= Keep + Cardinality(Tasks) - 1
  BY <1>5, PartTypes DEF Room, Counted
<1>9. WillGo(u) = old
  BY <1>1 DEF WillGo
<1> HIDE DEF o, old
\* Another message than its own is new in what is left only where it was the
\* last that a selecting task was to delete.
<1>10. ASSUME NEW x \in Left(S)' \ Left(R), x # o
       PROVE  /\ x \in log /\ x \notin old
              /\ \E t \in S : /\ WillGo(t)' = Oldest(task[t].excess, log')
                             /\ task[t].excess \in Nat
                             /\ x \in Oldest(task[t].excess, log)
                             /\ x \notin Oldest(task[t].excess, log')
  <2>1. x \in log /\ x \notin old
    BY <1>1, <1>10 DEF Left
  <2>2. PICK t \in S : x \in WillGo(t)
    BY <1>9, <2>1 DEF Left
  <2>3. x \notin WillGo(t)'
    BY DEF Left
  <2> QED BY <1>6, <2>1, <2>2, <2>3
<1>11. CASE o \in old
  <2>1. log' = log \ old
    BY <1>1, <1>11
  <2>2. Left(S)' \in SUBSET Left(R)
    <3> SUFFICES ASSUME NEW x \in Left(S)' \ Left(R) PROVE FALSE
      OBVIOUS
    <3>1. x # o
      BY <1>1, <1>11 DEF Left
    <3> QED BY <1>2, <1>10, <2>1, <3>1, OldestOfFewer
  <2>3. Adding(R) = Adding(S)
    BY <1>11 DEF Adding, o, old
  <2>4. /\ Cardinality(Left(S)') \in Nat
        /\ Cardinality(Left(S)') <= Cardinality(Left(R))
    BY <1>8, <2>2, FS_Subset, FS_CardinalityType
  <2> QED BY <1>2, <1>7, <1>8, <2>3, <2>4
<1>12. CASE o \notin old
  <2>1. ASSUME NEW x \in Left(S)' \ Left(R), NEW y \in Left(S)' \ Left(R), x < y
        PROVE  FALSE
    <3>1. x \in log' /\ x \in log \cup {o} /\ x \notin old /\ x \in Int
      BY <1>1, <1>3 DEF Left
    <3>2. y \in log' /\ y \in log \cup {o} /\ y \notin old /\ y \in Int
      BY <1>1, <1>3 DEF Left
    <3>3. ASSUME NEW n \in Nat, NEW z \in Oldest(n, log), z \notin Oldest(n, log'),
                 z \notin old
          PROVE  o < z /\ Cardinality(UpTo(z, log \cup {o})) = n + 1
      <4>1. z \notin Oldest(n, log \cup {o})
        BY <1>1, <1>3, <3>3, OldestOfFewer
      <4> QED BY <1>2, <3>3, <4>1, OldestOfMore
    <3>4. x # o => o < x
      BY <1>10, <3>3
    <3>5. y # o
      BY <1>2, <2>1, <3>1, <3>4
    <3>6. PICK t \in S : /\ WillGo(t)' = Oldest(task[t].excess, log')
                         /\ task[t].excess \in Nat
                         /\ y \in Oldest(task[t].excess, log)
                         /\ y \notin Oldest(task[t].excess, log')
      BY <1>10, <3>5
    <3>7. Cardinality(UpTo(y, log \cup {o})) = task[t].excess + 1
      BY <3>2, <3>3, <3>6
    <3>8. /\ Cardinality(UpTo(x, log \cup {o})) < task[t].excess + 1
          /\ Cardinality(UpTo(x, log \cup {o})) \in Nat
      BY <1>3, <2>1, <3>1, <3>2, <3>7, PlaceRises, UpToType
    <3>9. x \in Oldest(task[t].excess, log \cup {o})
      BY <3>1, <3>6, <3>8 DEF Oldest, UpTo
    <3>10. x \in Oldest(task[t].excess, log')
      BY <1>1, <1>3, <3>1, <3>6, <3>9, OldestOfFewer
    <3> QED BY <3>6, <3>10 DEF Left
  <2>2. \A x, y \in Left(S)' \ Left(R) : x = y
    <3>1. \A x \in Left(S)' : x \in Int
      BY <1>1, <1>3 DEF Left
    <3> QED BY <2>1, <3>1
  <2>3. /\ Cardinality(Left(S)') \in Nat
        /\ Cardinality(Left(S)') <= Cardinality(Left(R)) + 1
    <3> DEFINE A == Left(R)
               B == Left(S)'
    <3>1. IsFiniteSet(A) /\ \A x, y \in B \ A : x = y
      BY <1>8, <2>2
    <3> HIDE DEF A, B
    <3>2. IsFiniteSet(B) /\ Cardinality(B) <= Cardinality(A) + 1
      BY <3>1, OneMore
    <3>3. Cardinality(B) \in Nat
      BY <3>2, FS_CardinalityType
    <3> QED BY <3>2, <3>3 DEF A, B
  <2>4. Adding(R) = Adding(S) \cup {u} /\ u \notin Adding(S)
    BY <1>5, <1>12 DEF Adding, o, old
  <2>5. Cardinality(Adding(R)) = Cardinality(Adding(S)) + 1
    BY <1>8, <2>4, FS_AddElement
  <2> QED BY <1>2, <1>7, <1>8, <2>3, <2>5
<1> QED BY <1>11, <1>12

LEMMA RoomHolds ==
    ASSUME TypeOK, Owns, Room, [Next]_vars
    PROVE  Room'
<1>1. ASSUME NEW t \in Tasks, Store(t) \/ Delete(t) PROVE Room'
  <2>1. /\ log' = log /\ task[t].pc \in {"idle", "delete"}
        /\ task'[t].pc \in {"count", "commit"}
        /\ task[t].pc = "idle" <=> task'[t].pc = "count"
        /\ task[t].pc = "delete" => /\ task'[t].own = task[t].own
                                    /\ task'[t].old = task[t].old
        /\ \A t2 \in Tasks : t2 # t => task'[t2] = task[t2]
    BY <1>1 DEF Store, Delete, TypeOK, Task
  <2>2. Counted' = Counted
    BY <2>1 DEF Counted
  <2>3. ASSUME NEW S \in SUBSET Counted
        PROVE  Cardinality(Left(S)') + Cardinality(Adding(S)')
                   <= Keep + Cardinality(Tasks) - 1
    <3>1. \A t2 \in S : /\ WillGo(t2)' = WillGo(t2)
                        /\ task'[t2].own = task[t2].own
                        /\ task'[t2].old = task[t2].old
      BY <2>1 DEF Counted, WillGo
    <3> QED BY <2>1, <3>1, RoomStays
  <2> QED BY <2>2, <2>3 DEF Room
<1>2. CASE Crash
  <2>1. Counted' = {} /\ log' = log
    BY <1>2 DEF Crash, Counted, NoTask
  <2>2. {} \in SUBSET Counted
    OBVIOUS
  <2>3. Cardinality(Left({})') + Cardinality(Adding({})')
            <= Keep + Cardinality(Tasks) - 1
    BY <2>1, <2>2, RoomStays
  <2> QED BY <2>1, <2>3 DEF Room
<1>3. CASE UNCHANGED vars
  BY <1>3 DEF vars, Room, Counted, Left, WillGo, Adding
<1> QED BY <1>1, <1>2, <1>3, RoomCount, RoomSelect, RoomCommit DEF Next, TaskStep
-----------------------------------------------------------------------------
LogInv == TypeOK /\ Owns /\ Room

LEMMA InitLog == Init => LogInv
<1> SUFFICES ASSUME Init PROVE LogInv
  OBVIOUS
<1>1. TypeOK
  BY MaxMessagesAssumption DEF Init, TypeOK, NoTask, Task
<1>2. Owns
  BY DEF Init, Owns, NoTask
<1>3. Room
  <2>1. Counted = {} /\ log = {}
    BY DEF Init, Counted, NoTask
  <2>2. Left({}) = {} /\ Adding({}) = {}
    BY <2>1 DEF Left, Adding
  <2>3. Cardinality({}) = 0
    BY FS_EmptySet
  <2>4. Keep \in Nat \ {0} /\ Cardinality(Tasks) \in Nat
    BY <1>1, Sizes
  <2> QED BY <2>1, <2>2, <2>3, <2>4 DEF Room
<1> QED BY <1>1, <1>2, <1>3 DEF LogInv

LEMMA BoundOfRoom == LogInv => LogBounded
<1> SUFFICES ASSUME LogInv PROVE LogBounded
  OBVIOUS
<1>1. Left({}) = log /\ Adding({}) = {} /\ {} \in SUBSET Counted
  BY DEF Left, Adding
<1>2. Cardinality(log) + Cardinality({}) <= Keep + Cardinality(Tasks) - 1
  BY <1>1 DEF LogInv, Room
<1>3. Cardinality(log) \in Nat /\ Cardinality({}) = 0
  BY Sizes, FS_EmptySet DEF LogInv
<1> QED BY <1>2, <1>3 DEF LogBounded

LEMMA LogInvariance == Spec => []LogInv
<1>1. LogInv /\ [Next]_vars => LogInv'
  BY TypeHolds, OwnsHolds, RoomHolds DEF LogInv
<1> QED BY <1>1, InitLog, PTL DEF Spec

\* The tasks of the texts keep the types of the log (tone_profiler.py:39-80).
THEOREM LogTypes == Spec => []TypeOK
<1>1. LogInv => TypeOK
  BY DEF LogInv
<1> QED BY <1>1, LogInvariance, PTL

\* However many tasks store, count, select, delete and commit at one time, the
\* log has at most one message too many for every task but one, at all times
\* (tone_profiler.py:50-80).
THEOREM LogStaysBounded == Spec => []LogBounded
BY LogInvariance, BoundOfRoom, PTL
-----------------------------------------------------------------------------
(* HOW FAR THE LOG FALLS.  A task that finds the log too long by n deletes  *)
(* at most n; so the k-th task that commits before the log has grown again  *)
(* has found it so long that what is left is still enough.                  *)

Pruning == {t \in Tasks : task[t].excess # 0}

Sized == \A t \in Tasks : /\ Cardinality(task[t].old) <= task[t].excess
                          /\ task[t].excess <= Cardinality(Tasks)

Fall == \/ Pruning = {}
        \/ \E t \in Pruning :
              Cardinality(log) >= Keep - Spare * Spare
                                  + (Cardinality(Pruning) - 1) * Spare
                                  + task[t].excess - 1

FallInv == LogInv /\ Sized /\ Fall

LEMMA Products ==
    ASSUME NEW d \in Nat, NEW q \in Nat, q >= 1
    PROVE  /\ (q - 1) * d \in Nat /\ (q - 1 - 1) * d = (q - 1) * d - d
           /\ q <= d + 1 => (q - 1) * d <= d * d
           /\ q >= 2 => (q - 1) * d >= d
<1>1. (q - 1) * d \in Nat /\ (q - 1 - 1) * d = (q - 1) * d - d
  OBVIOUS
<1>2. ASSUME q <= d + 1 PROVE (q - 1) * d <= d * d
  BY <1>2
<1>3. ASSUME q >= 2 PROVE (q - 1) * d >= d
  BY <1>3
<1> QED BY <1>1, <1>2, <1>3

LEMMA PruningType ==
    ASSUME TypeOK, NEW t \in Pruning
    PROVE  /\ IsFiniteSet(Pruning) /\ Cardinality(Pruning) \in Nat
           /\ Cardinality(Pruning) >= 1 /\ Cardinality(Pruning) <= Spare + 1
           /\ Spare \in Nat /\ t \in Tasks /\ task[t].excess \in Nat \ {0}
<1>1. Pruning \in SUBSET Tasks
  BY DEF Pruning
<1>2. /\ IsFiniteSet(Pruning) /\ Cardinality(Pruning) \in Nat
      /\ Cardinality(Tasks) \in Nat /\ Cardinality(Pruning) <= Cardinality(Tasks)
  BY <1>1, SetOfTasks
<1>3. Cardinality(Pruning) # 0
  BY <1>2, FS_EmptySet
<1>4. t \in Tasks /\ task[t].excess \in Nat \ {0}
  BY DEF Pruning, TypeOK, Task
<1> QED BY <1>2, <1>3, <1>4 DEF Spare

\* A commit shortens the log by less than the task has found it too long.
LEMMA Shortened ==
    ASSUME TypeOK, Owns, Sized, NEW u \in Tasks, Commit(u)
    PROVE  /\ Cardinality(log') \in Nat /\ Cardinality(log) \in Nat
           /\ Cardinality(log') >= Cardinality(log) + 1 - task[u].excess
<1> DEFINE old == task[u].old
<1>1. /\ IsFiniteSet(log) /\ Cardinality(log) \in Nat /\ IsFiniteSet(Seen(u))
      /\ task[u].excess \in Nat
  BY Sizes DEF TypeOK, Task
<1>2. IsFiniteSet(old)
  <2>1. old \in SUBSET (1..MaxMessages)
    BY DEF TypeOK, Task, GroupMessage
  <2>2. IsFiniteSet(1..MaxMessages)
    BY MaxMessagesAssumption, FS_Interval
  <2> QED BY <2>1, <2>2, FS_Subset
<1>3. Cardinality(Seen(u)) = Cardinality(log) + 1
  BY <1>1, FS_AddElement DEF Seen, Owns, Commit
<1>4. /\ IsFiniteSet(Seen(u) \ old)
      /\ Cardinality(Seen(u) \ old) = Cardinality(Seen(u)) - Cardinality(Seen(u) \cap old)
  BY <1>1, FS_Difference
<1>5. /\ Cardinality(Seen(u) \cap old) <= Cardinality(old)
      /\ Cardinality(Seen(u) \cap old) \in Nat /\ Cardinality(old) \in Nat
  <2>1. Seen(u) \cap old \in SUBSET old
    OBVIOUS
  <2> QED BY <1>2, <2>1, FS_Subset, FS_CardinalityType
<1>6. log' = Seen(u) \ old
  BY DEF Commit
<1>7. Cardinality(old) <= task[u].excess
  BY DEF Sized
<1>8. Cardinality(log') \in Nat
  BY <1>4, <1>6, FS_CardinalityType
<1> HIDE DEF old
<1> QED BY <1>1, <1>3, <1>4, <1>5, <1>6, <1>7, <1>8

LEMMA SizedHolds ==
    ASSUME FallInv, [Next]_vars
    PROVE  Sized'
<1>1. /\ Cardinality({}) = 0 /\ Cardinality(Tasks) \in Nat
      /\ TypeOK /\ Owns /\ Sized /\ LogBounded
  BY FS_EmptySet, Sizes, BoundOfRoom DEF FallInv, LogInv
<1>2. ASSUME NEW t \in Tasks, Store(t) \/ Delete(t) PROVE Sized'
  <2>1. \A t2 \in Tasks : task'[t2].old = task[t2].old
                           /\ task'[t2].excess = task[t2].excess
    BY <1>1, <1>2 DEF Store, Delete, TypeOK, Task
  <2> QED BY <1>1, <2>1 DEF Sized
<1>3. ASSUME NEW t \in Tasks, Count(t) PROVE Sized'
  <2>1. CASE Cardinality(Seen(t)) <= Keep
    BY <1>1, <1>3, <2>1 DEF Count, TypeOK, Task, Sized
  <2>2. CASE ~(Cardinality(Seen(t)) <= Keep)
    <3> DEFINE n == Cardinality(Seen(t)) - Keep
    <3>1. /\ task' = [task EXCEPT ![t].pc = "select", ![t].excess = n]
          /\ task[t].pc = "count"
      BY <1>3, <2>2 DEF Count
    <3>2. IsFiniteSet(log) /\ task[t].own \notin log /\ Cardinality(log) \in Nat
      BY <1>1, <3>1, Sizes DEF Owns
    <3>3. Cardinality(Seen(t)) = Cardinality(log) + 1
      BY <3>2, FS_AddElement DEF Seen
    <3>4. n \in Nat /\ n <= Cardinality(Tasks)
      BY <1>1, <2>2, <3>2, <3>3, KeepAssumption DEF LogBounded
    <3> HIDE DEF n
    <3>5. /\ task'[t].old = task[t].old /\ task'[t].excess = n
          /\ \A t2 \in Tasks : t2 # t => task'[t2] = task[t2]
      BY <1>1, <3>1 DEF TypeOK, Task
    <3>6. task[t].old = {}
      BY <1>1, <3>1 DEF Owns
    <3>7. /\ Cardinality(task'[t].old) <= task'[t].excess
          /\ task'[t].excess <= Cardinality(Tasks)
      BY <1>1, <3>4, <3>5, <3>6
    <3> QED BY <1>1, <3>5, <3>7 DEF Sized
  <2> QED BY <2>1, <2>2
<1>4. ASSUME NEW t \in Tasks, Select(t) PROVE Sized'
  <2> DEFINE o == Oldest(task[t].excess, Seen(t))
  <2>1. task' = [task EXCEPT ![t].pc = "delete", ![t].old = o]
    BY <1>4 DEF Select
  <2>2. task[t].excess \in Nat
    BY <1>1 DEF TypeOK, Task
  <2>3. Cardinality(o) <= task[t].excess
    BY <1>1, <2>2, Sizes, OldestCount
  <2> HIDE DEF o
  <2>4. /\ task'[t].old = o /\ task'[t].excess = task[t].excess
        /\ \A t2 \in Tasks : t2 # t => task'[t2] = task[t2]
    BY <1>1, <2>1 DEF TypeOK, Task
  <2> QED BY <1>1, <2>3, <2>4 DEF Sized
<1>5. ASSUME NEW t \in Tasks, Commit(t) PROVE Sized'
  BY <1>1, <1>5 DEF Commit, TypeOK, Sized, NoTask
<1>6. CASE Crash
  BY <1>1, <1>6 DEF Crash, Sized, NoTask
<1>7. CASE UNCHANGED vars
  BY <1>1, <1>7 DEF vars, Sized
<1> QED BY <1>2, <1>3, <1>4, <1>5, <1>6, <1>7 DEF Next, TaskStep

LEMMA FallHolds ==
    ASSUME FallInv, [Next]_vars
    PROVE  Fall'
<1>1. /\ TypeOK /\ Owns /\ Sized /\ Fall
      /\ Cardinality(log) \in Nat /\ Keep \in Nat
  BY Sizes DEF FallInv, LogInv
\* Steps that change neither the log nor what a task has counted.
<1>2. ASSUME log' = log, \A t \in Tasks : task'[t].excess = task[t].excess
      PROVE  Fall'
  BY <1>1, <1>2 DEF Fall, Pruning
<1>3. ASSUME NEW t \in Tasks, Store(t) \/ Select(t) \/ Delete(t) PROVE Fall'
  <2>1. log' = log /\ \A t2 \in Tasks : task'[t2].excess = task[t2].excess
    BY <1>1, <1>3 DEF Store, Select, Delete, TypeOK, Task
  <2> QED BY <1>2, <2>1
<1>4. ASSUME NEW t \in Tasks, Count(t) PROVE Fall'
  <2>1. CASE Cardinality(Seen(t)) <= Keep
    <3>1. log' = log /\ \A t2 \in Tasks : task'[t2].excess = task[t2].excess
      BY <1>1, <1>4, <2>1 DEF Count, TypeOK, Task
    <3> QED BY <1>2, <3>1
  <2>2. CASE ~(Cardinality(Seen(t)) <= Keep)
    <3> DEFINE n == Cardinality(Seen(t)) - Keep
               P == Pruning'
    <3>1. /\ task' = [task EXCEPT ![t].pc = "select", ![t].excess = n]
          /\ task[t].pc = "count" /\ log' = log
      BY <1>4, <2>2 DEF Count
    <3>2. IsFiniteSet(log) /\ task[t].own \notin log
      BY <1>1, <3>1, Sizes DEF Owns
    <3>3. Cardinality(Seen(t)) = Cardinality(log) + 1
      BY <3>2, FS_AddElement DEF Seen
    <3>4. n \in Nat /\ n # 0 /\ Cardinality(log) = Keep + n - 1
      BY <1>1, <2>2, <3>3
    <3> HIDE DEF n
    <3>5. task'[t].excess = n /\ t \in P
      BY <1>1, <3>1, <3>4 DEF Pruning, TypeOK, Task
    <3>6. P \in SUBSET Tasks
      BY DEF Pruning
    <3>7. /\ IsFiniteSet(P) /\ Cardinality(P) \in Nat
          /\ Cardinality(P) <= Spare + 1 /\ Cardinality(Tasks) \in Nat
      BY <3>6, SetOfTasks DEF Spare
    <3>8. Cardinality(P) # 0
      BY <3>5, <3>7, FS_EmptySet
    <3>9. Spare \in Nat
      BY <3>7, <3>8 DEF Spare
    <3> DEFINE a == Spare * Spare
               b == (Cardinality(P) - 1) * Spare
    <3>10. a \in Nat /\ b \in Nat /\ b <= a
      BY <3>7, <3>8, <3>9, Products
    <3> HIDE DEF a, b
    <3>11. Cardinality(log) >= Keep - a + b + n - 1
      BY <1>1, <3>4, <3>10
    <3>12. Cardinality(log') >= Keep - a + b + task'[t].excess - 1
      BY <3>1, <3>5, <3>11
    <3> QED BY <3>5, <3>12 DEF Fall, a, b
  <2> QED BY <2>1, <2>2
<1>5. ASSUME NEW u \in Tasks, Commit(u) PROVE Fall'
  <2>1. /\ \A t \in Tasks : t # u => task'[t] = task[t]
        /\ task'[u].excess = 0 /\ task[u].excess \in Nat
        /\ task[u].excess <= Spare + 1
    BY <1>1, <1>5, Sizes DEF Commit, TypeOK, Task, NoTask, Sized, Spare
  <2>2. /\ Cardinality(log') \in Nat
        /\ Cardinality(log') >= Cardinality(log) + 1 - task[u].excess
    BY <1>1, <1>5, Shortened
  <2>3. Pruning' = Pruning \ {u}
    BY <2>1 DEF Pruning
  <2>4. CASE Pruning' = {}
    BY <2>4 DEF Fall
  <2>5. CASE Pruning' # {}
    <3>1. Pruning # {}
      BY <2>3, <2>5
    <3>2. PICK t \in Pruning :
             Cardinality(log) >= Keep - Spare * Spare
                                 + (Cardinality(Pruning) - 1) * Spare
                                 + task[t].excess - 1
      BY <1>1, <3>1 DEF Fall
    <3>3. /\ IsFiniteSet(Pruning) /\ Cardinality(Pruning) \in Nat
          /\ Cardinality(Pruning) >= 1 /\ Spare \in Nat
          /\ t \in Tasks /\ task[t].excess \in Nat \ {0}
      BY <1>1, PruningType
    <3>4. CASE u \notin Pruning
      <4>1. /\ Pruning' = Pruning /\ task[u].excess = 0 /\ t # u
            /\ task'[t].excess = task[t].excess
        BY <2>1, <2>3, <3>3, <3>4 DEF Pruning
      <4> DEFINE a == Spare * Spare
                 b == (Cardinality(Pruning) - 1) * Spare
      <4>2. a \in Nat /\ b \in Nat
        BY <3>3, Products
      <4>3. Cardinality(log) >= Keep - a + b + task[t].excess - 1
        BY <3>2
      <4> HIDE DEF a, b
      <4>4. Cardinality(log') >= Keep - a + b + task'[t].excess - 1
        BY <1>1, <2>2, <3>3, <4>1, <4>2, <4>3
      <4> QED BY <4>1, <4>4 DEF Fall, a, b
    <3>5. CASE u \in Pruning
      <4> DEFINE a == Spare * Spare
                 b == (Cardinality(Pruning) - 1) * Spare
                 c == (Cardinality(Pruning') - 1) * Spare
      <4>1. Cardinality(Pruning') = Cardinality(Pruning) - 1
        BY <2>3, <3>3, <3>5, FS_RemoveElement
      <4>2. a \in Nat /\ b \in Nat /\ c = b - Spare
        BY <3>3, <4>1, Products
      <4>3. Cardinality(log) >= Keep - a + b + task[t].excess - 1
        BY <3>2
      <4> HIDE DEF a, b, c
      <4>4. \E v \in Pruning' :
               Cardinality(log') >= Keep - a + c + task'[v].excess - 1
        <5>1. CASE t # u
          <6>1. t \in Pruning' /\ task'[t].excess = task[t].excess
            BY <2>1, <2>3, <3>3, <5>1
          <6>2. Cardinality(log') >= Keep - a + c + task[t].excess - 1
            BY <1>1, <2>1, <2>2, <3>3, <4>2, <4>3
          <6> QED BY <6>1, <6>2
        <5>2. CASE t = u
          <6>1. PICK v \in Pruning' : TRUE
            BY <2>5
          <6>2. v \in Tasks /\ task'[v].excess = task[v].excess
            BY <2>1, <2>3, <6>1 DEF Pruning
          <6>3. task[v].excess \in Nat /\ task[v].excess <= Spare + 1
            BY <1>1, <6>2, Sizes DEF TypeOK, Task, Sized, Spare
          <6>4. Cardinality(log') >= Keep - a + c + task[v].excess - 1
            BY <1>1, <2>1, <2>2, <3>3, <4>2, <4>3, <5>2, <6>3
          <6> QED BY <6>2, <6>4
        <5> QED BY <5>1, <5>2
      <4> QED BY <4>4 DEF Fall, a, c
    <3> QED BY <3>4, <3>5
  <2> QED BY <2>4, <2>5
<1>6. CASE Crash
  BY <1>6 DEF Crash, Fall, Pruning, NoTask
<1>7. CASE UNCHANGED vars
  BY <1>1, <1>7 DEF vars, Fall, Pruning
<1> QED BY <1>3, <1>4, <1>5, <1>6, <1>7 DEF Next, TaskStep

LEMMA LeastType ==
    /\ Least \in Int /\ Spare \in Int
    /\ Least <= MinMessages /\ Least <= Keep - Spare * Spare
<1>1. Cardinality(Tasks) \in Nat /\ MinMessages \in Nat /\ Keep \in Nat
  BY FS_CardinalityType, TasksAssumption, MinAssumption, KeepAssumption
<1>2. Spare \in Int
  BY <1>1 DEF Spare
<1> DEFINE a == Spare * Spare
<1>3. a \in Int
  BY <1>2
<1> HIDE DEF a
<1>4. Least = Fewer(MinMessages, Keep - a)
  BY DEF Least, a
<1>5. Least \in Int /\ Least <= MinMessages /\ Least <= Keep - a
  BY <1>1, <1>3, <1>4 DEF Fewer
<1> QED BY <1>2, <1>5 DEF a

\* A house that has so many messages keeps so many.
LEMMA EnoughStays ==
    ASSUME FallInv, [Next]_vars, Cardinality(log) >= Least
    PROVE  Cardinality(log') >= Least
<1>1. /\ TypeOK /\ Owns /\ Sized /\ Fall /\ Least \in Int
      /\ Cardinality(log) \in Nat /\ Keep \in Nat /\ Cardinality(Tasks) \in Nat
  BY Sizes, LeastType DEF FallInv, LogInv
<1>2. CASE log' = log
  BY <1>2
<1>3. ASSUME NEW u \in Tasks, Commit(u)
      PROVE  Cardinality(log') >= Least
  <2>1. /\ Cardinality(log') \in Nat
        /\ Cardinality(log') >= Cardinality(log) + 1 - task[u].excess
    BY <1>1, <1>3, Shortened
  <2>2. CASE task[u].excess = 0
    BY <1>1, <2>1, <2>2
  <2>3. CASE task[u].excess # 0
    <3>1. u \in Pruning
      BY <2>3 DEF Pruning
    <3>2. PICK t \in Pruning :
             Cardinality(log) >= Keep - Spare * Spare
                                 + (Cardinality(Pruning) - 1) * Spare
                                 + task[t].excess - 1
      BY <1>1, <3>1 DEF Fall
    <3> DEFINE a == Spare * Spare
               b == (Cardinality(Pruning) - 1) * Spare
    <3>3. /\ IsFiniteSet(Pruning) /\ Cardinality(Pruning) \in Nat
          /\ Cardinality(Pruning) >= 1 /\ Spare \in Nat
          /\ task[t].excess \in Nat \ {0} /\ task[u].excess \in Nat
          /\ task[u].excess <= Spare + 1
      BY <1>1, <3>1, PruningType DEF Sized, Spare
    <3>4. a \in Nat /\ b \in Nat /\ (t # u => b >= Spare)
      <4>1. t # u => Cardinality(Pruning) >= 2
        <5> SUFFICES ASSUME t # u, Cardinality(Pruning) = 1 PROVE FALSE
          BY <3>3
        <5>1. PICK x : Pruning = {x}
          BY <3>3, FS_Singleton
        <5> QED BY <3>1, <5>1
      <4> QED BY <3>3, <4>1, Products
    <3>5. Least + a <= Keep
      <4>1. Least <= Keep - a
        BY LeastType
      <4> HIDE DEF a
      <4> QED BY <1>1, <3>4, <4>1
    <3>6. Cardinality(log) >= Keep - a + b + task[t].excess - 1
      BY <3>2
    <3> HIDE DEF a, b
    <3>7. CASE t = u
      BY <1>1, <2>1, <3>3, <3>4, <3>5, <3>6, <3>7
    <3>8. CASE t # u
      BY <1>1, <2>1, <3>3, <3>4, <3>5, <3>6, <3>8
    <3> QED BY <3>7, <3>8
  <2> QED BY <2>2, <2>3
<1> QED BY <1>2, <1>3 DEF Next, TaskStep, Store, Count, Select, Delete, Crash, vars
-----------------------------------------------------------------------------
(* THE TONE                                                                *)

\* What the job has seen: enough, and enough is still there.
JobSeen ==
    /\ job.pc = "read" => Cardinality(log) >= Least
    /\ job.pc = "ask" => job.read >= Fewer(Least, Recent)

ToneInv == FallInv /\ ToneTypeOK /\ JobSeen /\ ToneFromEnough

LEMMA InitTone == ToneInit => ToneInv
<1> SUFFICES ASSUME ToneInit PROVE ToneInv
  OBVIOUS
<1>1. LogInv
  BY InitLog DEF ToneInit
<1>2. Sized /\ Fall
  <2>1. Cardinality({}) = 0 /\ Cardinality(Tasks) \in Nat
    BY FS_EmptySet, <1>1, Sizes DEF LogInv
  <2>2. \A t \in Tasks : task[t].old = {} /\ task[t].excess = 0
    BY DEF ToneInit, Init, NoTask
  <2>3. Sized
    BY <2>1, <2>2 DEF Sized
  <2>4. Fall
    BY <2>2 DEF Fall, Pruning
  <2> QED BY <2>3, <2>4
<1>3. ToneTypeOK /\ JobSeen /\ ToneFromEnough
  BY <1>1, RecentAssumption
  DEF LogInv, ToneInit, ToneTypeOK, Job, NoJob, JobSeen, ToneFromEnough
<1> QED BY <1>1, <1>2, <1>3 DEF ToneInv, FallInv

\* Every step of the whole is one of the log or leaves it alone.
LEMMA LogStep == [ToneNext]_toneVars => [Next]_vars
<1> SUFFICES ASSUME [ToneNext]_toneVars PROVE [Next]_vars
  OBVIOUS
<1>1. ASSUME NEW t \in Tasks, TextStep(t) PROVE Next
  BY <1>1 DEF TextStep, Next
<1>2. CASE StartJob \/ JobStep
  BY <1>2 DEF StartJob, JobStep, CountEnough, ReadRecent, Profile, NoProfile
<1>5. CASE ComeOrGo
  BY <1>5 DEF ComeOrGo
<1>3. CASE Stop
  BY <1>3 DEF Stop, Next
<1>4. CASE UNCHANGED toneVars
  BY <1>4 DEF toneVars, vars
<1> QED BY <1>1, <1>2, <1>3, <1>4, <1>5 DEF ToneNext

LEMMA ToneHolds == ToneInv /\ [ToneNext]_toneVars => ToneInv'
<1> SUFFICES ASSUME ToneInv, [ToneNext]_toneVars PROVE ToneInv'
  OBVIOUS
<1>1. [Next]_vars /\ FallInv
  BY LogStep DEF ToneInv
<1>2. FallInv'
  BY <1>1, TypeHolds, OwnsHolds, RoomHolds, SizedHolds, FallHolds DEF FallInv, LogInv
<1>3. /\ TypeOK' /\ Recent \in Nat /\ MinMessages \in Nat
      /\ Cardinality(log) \in Nat
      /\ tone \in 0..Recent \cup {NoTone} /\ job \in Job /\ stops \in 0..MaxStops
      /\ MaxStops \in Nat /\ active \in BOOLEAN
  BY <1>1, <1>2, Sizes, RecentAssumption, MinAssumption
  DEF FallInv, LogInv, ToneInv, ToneTypeOK
<1>4. NoJob \in Job /\ NoJob.pc = "idle"
  BY <1>3 DEF NoJob, Job
<1>5. ASSUME UNCHANGED <<tone, job>> PROVE JobSeen' /\ ToneFromEnough'
  <2>1. Cardinality(log) >= Least => Cardinality(log') >= Least
    BY <1>1, EnoughStays
  <2> QED BY <1>5, <2>1 DEF ToneInv, JobSeen, ToneFromEnough
<1>13. ASSUME ComeOrGo PROVE ToneTypeOK' /\ JobSeen' /\ ToneFromEnough'
  <2>1. active' \in BOOLEAN /\ UNCHANGED <<tone, job, stops>>
    BY <1>3, <1>13 DEF ComeOrGo
  <2> QED BY <1>3, <1>5, <2>1 DEF ToneTypeOK
<1>6. ASSUME NEW t \in Tasks, TextStep(t)
      PROVE  ToneTypeOK' /\ JobSeen' /\ ToneFromEnough'
  BY <1>3, <1>5, <1>6 DEF TextStep, ToneTypeOK
<1>7. ASSUME StartJob PROVE ToneTypeOK' /\ JobSeen' /\ ToneFromEnough'
  BY <1>3, <1>7 DEF StartJob, ToneTypeOK, Job, JobSeen, ToneInv, ToneFromEnough
<1>8. ASSUME CountEnough PROVE ToneTypeOK' /\ JobSeen' /\ ToneFromEnough'
  <2>1. log' = log /\ UNCHANGED <<active, tone, stops>>
    BY <1>8 DEF CountEnough, vars
  <2>2. \/ job' = NoJob
        \/ /\ job' = [job EXCEPT !.pc = "read"]
           /\ Cardinality(log) >= Least
    BY <1>3, <1>8, LeastType DEF CountEnough
  <2> QED BY <1>3, <1>4, <2>1, <2>2
          DEF ToneTypeOK, Job, JobSeen, ToneInv, ToneFromEnough
<1>9. ASSUME ReadRecent PROVE ToneTypeOK' /\ JobSeen' /\ ToneFromEnough'
  <2> DEFINE n == Fewer(Cardinality(log), Recent)
  <2>1. /\ job' = [pc |-> "ask", read |-> n] /\ UNCHANGED <<active, tone, stops>>
        /\ job.pc = "read"
    BY <1>9 DEF ReadRecent
  <2>2. Cardinality(log) >= Least /\ Least \in Int
    BY <2>1, LeastType DEF ToneInv, JobSeen
  <2>3. n \in 0..Recent /\ n >= Fewer(Least, Recent)
    BY <1>3, <2>2 DEF Fewer
  <2> HIDE DEF n
  <2> QED BY <1>3, <2>1, <2>3 DEF ToneTypeOK, Job, JobSeen, ToneInv, ToneFromEnough
<1>10. ASSUME Profile \/ NoProfile PROVE ToneTypeOK' /\ JobSeen' /\ ToneFromEnough'
  <2>1. job' = NoJob /\ tone' \in {tone, job.read} /\ UNCHANGED <<active, stops>>
        /\ job.pc = "ask" /\ job.read \in 0..Recent
    BY <1>3, <1>10 DEF Profile, NoProfile, Job
  <2> QED BY <1>3, <1>4, <2>1 DEF ToneTypeOK, JobSeen, ToneInv, ToneFromEnough
<1>11. ASSUME Stop PROVE ToneTypeOK' /\ JobSeen' /\ ToneFromEnough'
  <2>1. job' = NoJob /\ UNCHANGED <<active, tone>> /\ stops' \in 0..MaxStops
    BY <1>3, <1>11 DEF Stop
  <2> QED BY <1>3, <1>4, <2>1 DEF ToneTypeOK, JobSeen, ToneInv, ToneFromEnough
<1>12. ASSUME UNCHANGED toneVars PROVE ToneTypeOK' /\ JobSeen' /\ ToneFromEnough'
  BY <1>3, <1>5, <1>12 DEF toneVars, ToneTypeOK
<1> QED BY <1>2, <1>6, <1>7, <1>8, <1>9, <1>10, <1>11, <1>12,
           <1>13 DEF ToneInv, ToneNext, JobStep

LEMMA ToneInvariance == ToneSpec => []ToneInv
BY InitTone, ToneHolds, PTL DEF ToneSpec

\* The job and the tasks of the texts keep the types of the whole
\* (tone_profiler.py:39-131, promo_scanner.py:252-282).
THEOREM ToneTypes == ToneSpec => []ToneTypeOK
<1>1. ToneInv => ToneTypeOK
  BY DEF ToneInv
<1> QED BY <1>1, ToneInvariance, PTL

\* The log is bounded also while the job runs and the process stops.
THEOREM BoundedBesideJob == ToneSpec => []LogBounded
<1>1. ToneInv => LogBounded
  BY BoundOfRoom DEF ToneInv, FallInv
<1> QED BY <1>1, ToneInvariance, PTL

\* A tone is drawn from enough messages, though the log may shrink between the
\* count and the reading (tone_profiler.py:109-112), or at least from what the
\* tasks in flight cannot delete, for any number of them.
THEOREM DrawnFromEnough == ToneSpec => []ToneFromEnough
<1>1. ToneInv => ToneFromEnough
  BY DEF ToneInv
<1> QED BY <1>1, ToneInvariance, PTL
=============================================================================
