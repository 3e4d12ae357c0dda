----------------------------- MODULE MessageLog ------------------------------
(***************************************************************************)
(* The last messages of a house, from which the tone of its posts is        *)
(* derived (core/tone_profiler.py).  Every text in the chat is a task of    *)
(* its own (main.py, on_group_message) and one transaction: it inserts the  *)
(* message, counts what the house has, selects the oldest ones beyond the   *)
(* limit, deletes them and commits.  Under READ COMMITTED each statement    *)
(* sees what is committed by then, and the transaction's own message.       *)
(***************************************************************************)
EXTENDS Integers, FiniteSets

CONSTANTS
    Tasks,       \* names for the tasks that can run at one time
    Keep,        \* messages_keep
    MaxMessages  \* bound: the texts the house writes

ASSUME TasksAssumption == IsFiniteSet(Tasks)
ASSUME KeepAssumption == Keep \in Nat \ {0}
ASSUME MaxMessagesAssumption == MaxMessages \in Nat

VARIABLES
    log,      \* the committed messages
    written,  \* how many texts the house has written
    task      \* the state of a task

vars == <<log, written, task>>
-----------------------------------------------------------------------------
\* A message is its place in the order of created_at.
GroupMessage == 1..MaxMessages

Task == [pc     : {"idle", "count", "select", "delete", "commit"},
         own    : GroupMessage \cup {0}, \* the message it stores
         excess : 0..MaxMessages,        \* how many it will delete ...
         old    : SUBSET GroupMessage]   \* ... and which

NoTask == [pc |-> "idle", own |-> 0, excess |-> 0, old |-> {}]

TypeOK ==
    /\ log \subseteq GroupMessage
    /\ written \in 0..MaxMessages
    /\ task \in [Tasks -> Task]

Init ==
    /\ log = {}
    /\ written = 0
    /\ task = [t \in Tasks |-> NoTask]

\* What a statement of task t sees.
Seen(t) == log \cup {task[t].own}

Newer(m, msgs) == {k \in msgs : k > m}
Oldest(n, msgs) == {m \in msgs : Cardinality({k \in msgs : k <= m}) <= n}
-----------------------------------------------------------------------------
\* store_message inserts the text; created_at is when its transaction began.
Store(t) ==
    /\ task[t].pc = "idle" /\ written < MaxMessages
    /\ written' = written + 1
    /\ task' = [task EXCEPT ![t].pc = "count", ![t].own = written + 1]
    /\ UNCHANGED log

\* Mistake: it goes on when there is nothing to delete.
Count_always(t) ==
    /\ task[t].pc = "count"
    /\ task' = [task EXCEPT ![t].pc = "select",
                            ![t].excess = Cardinality(Seen(t)) - Keep]
    /\ UNCHANGED <<log, written>>

\* Mistake: the message just stored is not counted.
Count_others(t) ==
    /\ task[t].pc = "count"
    /\ task' = IF Cardinality(log) <= Keep
               THEN [task EXCEPT ![t].pc = "commit"]
               ELSE [task EXCEPT ![t].pc = "select",
                                 ![t].excess = Cardinality(log) - Keep]
    /\ UNCHANGED <<log, written>>

\* prune_messages counts the messages of the house ...
Count(t) ==
    /\ task[t].pc = "count"
    /\ task' = IF Cardinality(Seen(t)) <= Keep
               THEN [task EXCEPT ![t].pc = "commit"]
               ELSE [task EXCEPT ![t].pc = "select",
                                 ![t].excess = Cardinality(Seen(t)) - Keep]
    /\ UNCHANGED <<log, written>>

\* ... selects that many of the oldest ...
Select(t) ==
    /\ task[t].pc = "select"
    /\ task' = [task EXCEPT ![t].pc = "delete",
                            ![t].old = Oldest(task[t].excess, Seen(t))]
    /\ UNCHANGED <<log, written>>

\* ... and deletes them, once nobody else is about to.
Delete(t) ==
    /\ task[t].pc = "delete"
    /\ \A t2 \in Tasks : task[t2].pc = "commit"
                            => task[t2].old \cap task[t].old = {}
    /\ task' = [task EXCEPT ![t].pc = "commit"]
    /\ UNCHANGED <<log, written>>

Commit(t) ==
    /\ task[t].pc = "commit"
    /\ log' = Seen(t) \ task[t].old
    /\ task' = [task EXCEPT ![t] = NoTask]
    /\ UNCHANGED written

\* The process stops: no message that is not committed is kept.
Crash ==
    /\ task' = [t \in Tasks |-> NoTask]
    /\ UNCHANGED <<log, written>>

TaskStep(t) == Store(t) \/ Count(t) \/ Select(t) \/ Delete(t) \/ Commit(t)

Next == (\E t \in Tasks : TaskStep(t)) \/ Crash

Spec == Init /\ [][Next]_vars
-----------------------------------------------------------------------------
(* PROPERTIES                                                              *)

\* "Only about the last 100 messages are stored" (README.md:56): however the
\* tasks overlap, the house has at most one message too many for every task
\* but one that ran along.  It does not grow from one overlap to the next.
LogBounded == Cardinality(log) <= Keep + Cardinality(Tasks) - 1
-----------------------------------------------------------------------------
(* DISAGREEMENTS: what the documents say and the code does not do.  No run  *)
(* checks these; README.md says in which instance TLC shows each to fail.   *)

\* prune_messages leaves the `keep` newest (tone_profiler.py:53): a message, an
\* old one or the one just stored, goes only when that many newer ones stay.
KeepsNewest ==
    [][\A t \in Tasks : Commit(t) =>
          \A m \in Seen(t) \ log' : Cardinality(Newer(m, log')) >= Keep]_vars
=============================================================================
