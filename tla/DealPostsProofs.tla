-------------------------- MODULE DealPostsProofs ---------------------------
(***************************************************************************)
(* Proofs about DealPosts, for every house, every number of button tasks    *)
(* and of resets.                                                           *)
(*                                                                         *)
(* The argument: the queue of a deal holds exactly the tasks at work on it   *)
(* and only its head works (LockDiscipline), so two tasks never hold the    *)
(* same row; a reset only deletes rows that it selected and that are still   *)
(* there (Selection), and not those a task has flushed (RowLocks).  Hence    *)
(* the row a task commits is the row it read (NoLostUpdate).                 *)
(***************************************************************************)
EXTENDS DealPosts, Folds, TLAPS, SequenceTheorems, FiniteSetTheorems

-----------------------------------------------------------------------------
\* Appending a value a sequence does not hold keeps its values distinct.
LEMMA AppendRange ==
    ASSUME NEW S, NEW s \in Seq(S), NEW e \in S, e \notin Range(s), IsInjective(s)
    PROVE  /\ Append(s, e) \in Seq(S)
           /\ Range(Append(s, e)) = Range(s) \cup {e}
           /\ IsInjective(Append(s, e))
           /\ s # <<>> => Head(Append(s, e)) = Head(s)
           /\ s = <<>> => Head(Append(s, e)) = e
<1> DEFINE q == Append(s, e)
<1>1. /\ q \in Seq(S) /\ Len(q) = Len(s) + 1 /\ Len(s) \in Nat
      /\ \A i \in 1..Len(s) : q[i] = s[i]
      /\ q[Len(s) + 1] = e
      /\ DOMAIN s = 1..Len(s) /\ DOMAIN q = 1..Len(q)
  BY AppendProperties, LenProperties
<1>2. DOMAIN q = DOMAIN s \cup {Len(s) + 1}
  BY <1>1
<1>3. Range(q) = Range(s) \cup {e}
  BY <1>1, <1>2 DEF Range
<1>4. \A i \in DOMAIN s : s[i] # e
  BY DEF Range
<1>5. IsInjective(q)
  BY <1>1, <1>2, <1>4 DEF IsInjective
<1>6. /\ s # <<>> => Head(q) = Head(s)
      /\ s = <<>> => Head(q) = e
  BY HeadTailAppend
<1> QED BY <1>1, <1>3, <1>5, <1>6

\* Taking the head from a sequence of distinct values takes exactly that value.
LEMMA TailRange ==
    ASSUME NEW S, NEW s \in Seq(S), s # <<>>, IsInjective(s)
    PROVE  /\ Tail(s) \in Seq(S)
           /\ Range(Tail(s)) = Range(s) \ {Head(s)}
           /\ IsInjective(Tail(s))
<1> DEFINE q == Tail(s)
<1>1. /\ q \in Seq(S) /\ Len(q) = Len(s) - 1 /\ Len(s) \in Nat /\ Len(s) > 0
      /\ \A i \in 1..Len(q) : q[i] = s[i + 1]
      /\ DOMAIN s = 1..Len(s) /\ DOMAIN q = 1..Len(q) /\ Head(s) = s[1]
  BY HeadTailProperties, LenProperties, EmptySeq
<1>2. \A i \in DOMAIN q : i + 1 \in DOMAIN s /\ i + 1 # 1 /\ q[i] = s[i + 1]
  BY <1>1
<1>3. \A i \in DOMAIN s : i # 1 => i - 1 \in DOMAIN q /\ q[i - 1] = s[i]
  BY <1>1
<1>4. 1 \in DOMAIN s
  BY <1>1
<1>5. Range(q) \subseteq Range(s) \ {Head(s)}
  BY <1>1, <1>2, <1>4 DEF Range, IsInjective
<1>6. Range(s) \ {Head(s)} \subseteq Range(q)
  BY <1>1, <1>3 DEF Range
<1>7. IsInjective(q)
  BY <1>1, <1>2 DEF IsInjective
<1> QED BY <1>1, <1>5, <1>6, <1>7
-----------------------------------------------------------------------------
\* A task about to commit has a row to write that the column can hold.
WriteLegal ==
    \A t \in Tasks : task[t].pc = "written" =>
        Writes(t) /\ (task[t].op = "join" \/ NewQty(t) <= MaxQty)

\* A reset has selected rows that are still there, and only of the deals whose
\* selection is behind it.
Selection ==
    \A r \in Resets :
        /\ reset[r].todo \cap (reset[r].flushed \cup reset[r].last) = {}
        /\ \A d \in Deals :
              /\ \A u \in reset[r].gone[d] : order[d][u] # NoRow
              /\ reset[r].gone[d] # {} => d \in reset[r].flushed \cup reset[r].last

\* A row a button task has flushed is not one whose delete a reset has flushed:
\* each waits for the other's lock.
RowLocks ==
    \A t \in Tasks, r \in Resets :
        task[t].pc = "written" => ~RowLocked(r, task[t].deal, task[t].user)

IInv == /\ TypeOK
        /\ LockDiscipline
        /\ NoLostUpdate
        /\ RowLocks
        /\ WriteLegal
        /\ Selection
-----------------------------------------------------------------------------
\* What a press computes and what it writes are rows the table can hold.
LEMMA NoRowType == NoRow \in Row /\ Empty \in Rows
BY MaxQtyAssumption DEF NoRow, Row, Empty, Rows

LEMMA RowUpdates ==
    ASSUME NEW row \in Row
    PROVE  /\ [row EXCEPT !.confirmed = TRUE] \in Row
           /\ \A n \in 0..MaxQty : [row EXCEPT !.qty = n] \in Row
BY DEF Row

LEMMA TotalType ==
    ASSUME NEW rows \in Rows
    PROVE  deal_total(rows) \in Totals
BY DEF Totals

LEMMA PendingType ==
    ASSUME NEW rows \in Rows
    PROVE  deal_pending(rows) \in [Users -> 0..MaxQty]
BY MaxQtyAssumption DEF deal_pending, Rows, Row

LEMMA BlankType == Blank \in Text /\ NoTask \in Task /\ NoReset \in Reset
<1>1. 0 \in Totals
  BY DEF Totals
<1>2. Blank \in Text
  BY <1>1, MaxQtyAssumption DEF Blank, Text
<1>3. NoTask \in Task
  BY <1>1, <1>2, NoRowType, DealsAssumption, UsersAssumption
  DEF NoTask, Task, Ops, DealStatus
<1>4. NoReset \in Reset
  BY DEF NoReset, Reset, DealStatus
<1> QED BY <1>2, <1>3, <1>4

LEMMA WrittenType ==
    ASSUME TypeOK, NEW t \in Tasks, Writes(t),
           task[t].op = "join" \/ NewQty(t) <= MaxQty
    PROVE  Written(t) \in Row /\ RowsAfter(t) \in Rows
<1> DEFINE d == task[t].deal
           u == task[t].user
           part == task[t].part
<1>1. task[t] \in Task /\ d \in Deals /\ u \in Users /\ part \in Row
  BY DEF TypeOK, Task
<1>2. order[d] \in Rows /\ order[d][u] \in Row
  BY <1>1 DEF TypeOK, Rows
<1>3. part.qty \in Nat /\ Step[d] \in Nat
  BY <1>1, StepAssumption, MaxQtyAssumption DEF Row
<1>4. NewQty(t) \in Nat
  BY <1>3 DEF NewQty, next_quantity
<1>5. CASE task[t].op = "join"
  <2>1. Written(t) \in Row
    BY <1>2, <1>5, RowUpdates DEF Written
  <2> QED BY <2>1, <1>1, <1>2 DEF RowsAfter, Rows
<1>6. CASE task[t].op # "join"
  <2>1. NewQty(t) \in 0..MaxQty
    BY <1>4, <1>6, MaxQtyAssumption
  <2>2. Written(t) \in Row
    BY <1>2, <1>6, <2>1, NoRowType, RowUpdates DEF Written
  <2> QED BY <2>2, <1>1, <1>2 DEF RowsAfter, Rows
<1> QED BY <1>5, <1>6
-----------------------------------------------------------------------------
\* Whoever works on a deal is at the head of its queue.
LEMMA WorkerHolds ==
    ASSUME TypeOK, LockDiscipline, NEW t \in Tasks, Working(t)
    PROVE  /\ task[t].deal \in Deals
           /\ queue[task[t].deal] # <<>>
           /\ t = Head(queue[task[t].deal])
<1>1. task[t].deal \in Deals
  BY DEF TypeOK, Task
<1>2. t \in At(task[t].deal)
  BY DEF At, Working
<1>3. t \in Range(queue[task[t].deal]) /\ t = Head(queue[task[t].deal])
  BY <1>1, <1>2 DEF LockDiscipline
<1>4. queue[task[t].deal] # <<>>
  BY <1>3 DEF Range
<1> QED BY <1>1, <1>3, <1>4

\* No two tasks work on one deal.
LEMMA OneWorker ==
    ASSUME TypeOK, LockDiscipline, NEW t1 \in Tasks, NEW t2 \in Tasks,
           Working(t1), Working(t2), task[t1].deal = task[t2].deal
    PROVE  t1 = t2
BY WorkerHolds

\* A task that ends hands the lock over, and nothing else.
LEMMA FinishStep ==
    ASSUME TypeOK, LockDiscipline, NEW t \in Tasks, Working(t), Finish(t)
    PROVE  /\ queue' \in [Deals -> Seq(Tasks)]
           /\ task' \in [Tasks -> Task]
           /\ LockDiscipline'
<1> DEFINE d == task[t].deal
<1>1. /\ d \in Deals /\ queue[d] # <<>> /\ t = Head(queue[d])
      /\ queue[d] \in Seq(Tasks) /\ IsInjective(queue[d])
  BY WorkerHolds DEF TypeOK, LockDiscipline
<1>2. /\ Tail(queue[d]) \in Seq(Tasks)
      /\ Range(Tail(queue[d])) = Range(queue[d]) \ {t}
      /\ IsInjective(Tail(queue[d]))
  BY <1>1, TailRange
<1>3. /\ queue' = [queue EXCEPT ![d] = Tail(queue[d])]
      /\ task' = [task EXCEPT ![t] = NoTask]
  BY DEF Finish
<1>4. queue' \in [Deals -> Seq(Tasks)] /\ task' \in [Tasks -> Task]
  BY <1>1, <1>2, <1>3, BlankType DEF TypeOK
<1>5. \A e \in Deals : At(e)' = At(e) \ {t}
  BY <1>3, <1>1 DEF At, NoTask, TypeOK
<1>6. \A e \in Deals : e # d => t \notin At(e)
  BY DEF At
<1>7. \A t2 \in Tasks : t2 # t => task'[t2] = task[t2]
  BY <1>3 DEF TypeOK
<1>8. ASSUME NEW e \in Deals
      PROVE  /\ Range(queue'[e]) = At(e)'
             /\ IsInjective(queue'[e])
             /\ \A t2 \in At(e)' : Working(t2)' => t2 = Head(queue'[e])
  <2>1. CASE e = d
    <3>1. ASSUME NEW t2 \in At(e)', Working(t2)'
          PROVE  FALSE
      <4>1. t2 \in At(e) /\ t2 # t /\ t2 \in Tasks
        BY <1>5 DEF At
      <4>2. Working(t2) /\ task[t2].deal = d
        BY <4>1, <3>1, <2>1, <1>7 DEF Working, At
      <4> QED BY <4>1, <4>2, OneWorker
    <3>2. queue'[e] = Tail(queue[e])
      BY <1>1, <1>3, <2>1 DEF TypeOK
    <3>3. Range(queue[e]) = At(e)
      BY DEF LockDiscipline
    <3> QED BY <2>1, <3>1, <3>2, <3>3, <1>1, <1>2, <1>5
  <2>2. CASE e # d
    <3>1. queue'[e] = queue[e] /\ At(e)' = At(e)
      BY <2>2, <1>3, <1>5, <1>6 DEF TypeOK
    <3>2. \A t2 \in At(e)' : Working(t2)' => Working(t2)
      BY <1>5, <1>7 DEF Working, At
    <3> QED BY <3>1, <3>2 DEF LockDiscipline
  <2> QED BY <2>1, <2>2
<1>9. LockDiscipline'
  BY <1>8 DEF LockDiscipline
<1> QED BY <1>4, <1>9

\* A task that goes on while it holds the lock keeps it.
LEMMA AdvanceStep ==
    ASSUME TypeOK, LockDiscipline, NEW t \in Tasks, task[t].pc # "idle",
           t = Head(queue[task[t].deal]), queue' = queue,
           task'[t].pc # "idle", task'[t].deal = task[t].deal,
           \A t2 \in Tasks : t2 # t => task'[t2] = task[t2]
    PROVE  LockDiscipline'
<1>1. \A e \in Deals : At(e)' = At(e)
  BY DEF At
<1>2. \A e \in Deals : \A t2 \in At(e) : Working(t2)' => t2 = Head(queue[e])
  BY DEF At, Working, LockDiscipline
<1> QED BY <1>1, <1>2 DEF LockDiscipline
-----------------------------------------------------------------------------
\* What the invariant says of the rows.
RowInv == NoLostUpdate /\ RowLocks /\ WriteLegal /\ Selection

\* A step of a button task that leaves it outside the transaction, and the
\* rows and the resets alone, disturbs nothing of it.
LEMMA QuietStep ==
    ASSUME RowInv, NEW t \in Tasks, order' = order, reset' = reset,
           task'[t].pc \notin {"read", "written"},
           \A t2 \in Tasks : t2 # t => task'[t2] = task[t2]
    PROVE  RowInv'
<1>1. \A t2 \in Tasks : task'[t2].pc \in {"read", "written"} => task'[t2] = task[t2]
  OBVIOUS
<1>2. \A t2 \in Tasks : task'[t2] = task[t2] =>
          /\ Written(t2)' = Written(t2) /\ Writes(t2)' = Writes(t2)
          /\ NewQty(t2)' = NewQty(t2)
  BY DEF Written, Writes, NewQty
<1>3. NoLostUpdate'
  BY <1>1, <1>2 DEF RowInv, NoLostUpdate
<1>4. RowLocks'
  BY <1>1 DEF RowInv, RowLocks, RowLocked
<1>5. WriteLegal'
  BY <1>1, <1>2 DEF RowInv, WriteLegal
<1>6. Selection'
  BY DEF RowInv, Selection
<1> QED BY <1>3, <1>4, <1>5, <1>6 DEF RowInv

LEMMA ReadPartRows ==
    ASSUME TypeOK, RowInv, NEW t \in Tasks, ReadPart(t)
    PROVE  RowInv'
<1>1. /\ order' = order /\ reset' = reset
      /\ \A t2 \in Tasks : t2 # t => task'[t2] = task[t2]
      /\ task'[t].pc = "read" /\ task'[t].deal = task[t].deal
      /\ task'[t].user = task[t].user
      /\ task'[t].part = order[task[t].deal][task[t].user]
  BY DEF ReadPart, TypeOK, Task
<1>2. \A t2 \in Tasks : task'[t2] = task[t2] =>
          /\ Written(t2)' = Written(t2) /\ Writes(t2)' = Writes(t2)
          /\ NewQty(t2)' = NewQty(t2)
  BY <1>1 DEF Written, Writes, NewQty
<1>3. NoLostUpdate'
  BY <1>1, <1>2 DEF RowInv, NoLostUpdate
<1>4. RowLocks'
  BY <1>1 DEF RowInv, RowLocks, RowLocked
<1>5. WriteLegal'
  BY <1>1, <1>2 DEF RowInv, WriteLegal
<1>6. Selection'
  BY <1>1 DEF RowInv, Selection
<1> QED BY <1>3, <1>4, <1>5, <1>6 DEF RowInv

LEMMA WriteDraftRows ==
    ASSUME TypeOK, RowInv, NEW t \in Tasks, WriteDraft(t)
    PROVE  RowInv'
<1> DEFINE now == order[task[t].deal][task[t].user]
<1>1. /\ order' = order /\ reset' = reset
      /\ \A t2 \in Tasks : t2 # t => task'[t2] = task[t2]
      /\ task[t].pc = "read" /\ task'[t].pc = "written"
      /\ task'[t].deal = task[t].deal /\ task'[t].user = task[t].user
      /\ task'[t].part = task[t].part /\ task'[t].op = task[t].op
      /\ Writes(t) /\ ~Raises(t)
      /\ \A r \in Resets : ~RowLocked(r, task[t].deal, task[t].user)
  BY DEF WriteDraft, TypeOK, Task
<1>2. \A t2 \in Tasks :
          /\ Written(t2)' = Written(t2) /\ Writes(t2)' = Writes(t2)
          /\ NewQty(t2)' = NewQty(t2)
  BY <1>1 DEF Written, Writes, NewQty
<1>3. now = task[t].part \/ (now = NoRow /\ Written(t) = NoRow)
  BY <1>1 DEF RowInv, NoLostUpdate, Raises, Written
<1>4. NoLostUpdate'
  BY <1>1, <1>2, <1>3 DEF RowInv, NoLostUpdate
<1>5. RowLocks'
  BY <1>1 DEF RowInv, RowLocks, RowLocked
<1>6. task[t] \in Task /\ task[t].deal \in Deals /\ task[t].part.qty \in Nat
  BY MaxQtyAssumption DEF TypeOK, Task, Row
<1>7. NewQty(t) \in Nat
  BY <1>6, StepAssumption DEF NewQty, next_quantity
<1>8. task[t].op = "join" \/ NewQty(t) <= MaxQty
  BY <1>1, <1>7, MaxQtyAssumption DEF Raises
<1>9. WriteLegal'
  BY <1>1, <1>2, <1>8 DEF RowInv, WriteLegal
<1>10. Selection'
  BY <1>1 DEF RowInv, Selection
<1> QED BY <1>4, <1>5, <1>9, <1>10 DEF RowInv

LEMMA ForgetGone ==
    ASSUME NEW res \in [Resets -> Reset],
           NEW d \in Deals, NEW u \in Users, NEW r \in Resets
    PROVE  /\ Forget(res, d, u)[r] \in Reset
           /\ Forget(res, d, u)[r].todo = res[r].todo
           /\ Forget(res, d, u)[r].flushed = res[r].flushed
           /\ Forget(res, d, u)[r].last = res[r].last
           /\ Forget(res, d, u)[r].gone[d] = res[r].gone[d] \ {u}
           /\ \A e \in Deals : e # d =>
                 Forget(res, d, u)[r].gone[e] = res[r].gone[e]
<1> DEFINE x == res[r]
           g == [x.gone EXCEPT ![d] = @ \ {u}]
<1>1. x \in Reset /\ x.gone \in [Deals -> SUBSET Users]
  BY DEF Reset
<1>2. g \in [Deals -> SUBSET Users]
  BY <1>1
<1>3. g[d] = x.gone[d] \ {u} /\ \A e \in Deals : e # d => g[e] = x.gone[e]
  BY <1>1
<1>4. Forget(res, d, u)[r] = [x EXCEPT !.gone = g]
  BY DEF Forget
<1> HIDE DEF x, g
<1>5. /\ [x EXCEPT !.gone = g] \in Reset
      /\ [x EXCEPT !.gone = g].todo = x.todo
      /\ [x EXCEPT !.gone = g].flushed = x.flushed
      /\ [x EXCEPT !.gone = g].last = x.last
      /\ [x EXCEPT !.gone = g].gone = g
  BY <1>1, <1>2 DEF Reset
<1> QED BY <1>3, <1>4, <1>5 DEF x

LEMMA CommitDraftRows ==
    ASSUME TypeOK, LockDiscipline, RowInv, NEW t \in Tasks, CommitDraft(t)
    PROVE  RowInv'
<1> DEFINE d == task[t].deal
           u == task[t].user
<1>1. /\ d \in Deals /\ u \in Users /\ task[t].pc = "written" /\ Working(t)
      /\ order' = [order EXCEPT ![d] = [order[d] EXCEPT ![u] = Written(t)]]
      /\ task'[t].pc = "saved"
      /\ \A t2 \in Tasks : t2 # t => task'[t2] = task[t2]
  BY DEF CommitDraft, RowsAfter, Saved, NoTask, TypeOK, Task, Working
<1>2. \A t2 \in Tasks : task'[t2].pc \in {"read", "written"} =>
          /\ task'[t2] = task[t2] /\ task[t2].deal # d /\ task[t2].deal \in Deals
          /\ order'[task[t2].deal] = order[task[t2].deal]
  BY <1>1, OneWorker DEF Working, TypeOK, Task
<1>3. \A t2 \in Tasks : task'[t2].pc \in {"read", "written"} =>
          /\ Written(t2)' = Written(t2) /\ Writes(t2)' = Writes(t2)
          /\ NewQty(t2)' = NewQty(t2)
  BY <1>2 DEF Written, Writes, NewQty
<1>4. NoLostUpdate'
  BY <1>2, <1>3 DEF RowInv, NoLostUpdate
<1>5. WriteLegal'
  BY <1>2, <1>3 DEF RowInv, WriteLegal
<1>6. \A r \in Resets :
          /\ reset'[r].todo = reset[r].todo
          /\ reset'[r].flushed = reset[r].flushed
          /\ reset'[r].last = reset[r].last
          /\ \A e \in Deals : reset'[r].gone[e] =
                IF e = d /\ Written(t) = NoRow THEN reset[r].gone[e] \ {u}
                ELSE reset[r].gone[e]
  <2>1. CASE Written(t) = NoRow
    <3>1. reset' = Forget(reset, d, u) /\ reset \in [Resets -> Reset]
      BY <2>1 DEF CommitDraft, TypeOK
    <3>2. d \in Deals /\ u \in Users /\ reset \in [Resets -> Reset]
      BY <1>1, <3>1
    <3> HIDE DEF d, u
    <3>3. ASSUME NEW r \in Resets
          PROVE  /\ reset'[r].todo = reset[r].todo
                 /\ reset'[r].flushed = reset[r].flushed
                 /\ reset'[r].last = reset[r].last
                 /\ reset'[r].gone[d] = reset[r].gone[d] \ {u}
                 /\ \A e \in Deals : e # d => reset'[r].gone[e] = reset[r].gone[e]
      <4>1. /\ Forget(reset, d, u)[r].todo = reset[r].todo
            /\ Forget(reset, d, u)[r].flushed = reset[r].flushed
            /\ Forget(reset, d, u)[r].last = reset[r].last
        BY <3>2, ForgetGone
      <4>2. /\ Forget(reset, d, u)[r].gone[d] = reset[r].gone[d] \ {u}
            /\ \A e \in Deals : e # d =>
                   Forget(reset, d, u)[r].gone[e] = reset[r].gone[e]
        BY <3>2, ForgetGone
      <4> QED BY <4>1, <4>2, <3>1
    <3> QED BY <2>1, <3>3
  <2>2. CASE Written(t) # NoRow
    <3>1. reset' = reset
      BY <2>2 DEF CommitDraft
    <3> QED BY <2>2, <3>1
  <2> QED BY <2>1, <2>2
<1>7. RowLocks'
  <2>1. \A r \in Resets, e \in Deals : reset'[r].gone[e] \subseteq reset[r].gone[e]
    BY <1>6
  <2> QED BY <1>2, <1>6, <2>1 DEF RowInv, RowLocks, RowLocked
<1>8. \A e \in Deals : \A v \in Users :
          order'[e][v] = IF e = d /\ v = u THEN Written(t) ELSE order[e][v]
  BY <1>1 DEF TypeOK, Rows
<1>9. \A r \in Resets, e \in Deals : reset[r].gone[e] \subseteq Users
  BY DEF TypeOK, Reset
<1>10. Selection'
  <2>1. \A r \in Resets, e \in Deals : \A v \in reset'[r].gone[e] :
            v \in reset[r].gone[e] /\ order'[e][v] # NoRow
    <3> SUFFICES ASSUME NEW r \in Resets, NEW e \in Deals,
                        NEW v \in reset'[r].gone[e]
                 PROVE  v \in reset[r].gone[e] /\ order'[e][v] # NoRow
      OBVIOUS
    <3>1. v \in reset[r].gone[e] /\ v \in Users
      BY <1>6, <1>9
    <3>2. order[e][v] # NoRow
      BY <3>1 DEF RowInv, Selection
    <3>3. e = d /\ v = u => Written(t) # NoRow
      BY <1>6
    <3> QED BY <3>1, <3>2, <3>3, <1>8
  <2>2. \A r \in Resets, e \in Deals :
            reset'[r].gone[e] # {} => reset[r].gone[e] # {}
    BY <2>1
  <2> QED BY <1>6, <2>1, <2>2 DEF RowInv, Selection
<1> QED BY <1>4, <1>5, <1>7, <1>10 DEF RowInv

\* While the rows and the tasks stand still, so does all that is said of them.
LEMMA SameTasks ==
    ASSUME RowInv, order' = order, task' = task
    PROVE  NoLostUpdate' /\ WriteLegal'
<1>1. \A t \in Tasks : /\ Written(t)' = Written(t) /\ Writes(t)' = Writes(t)
                       /\ NewQty(t)' = NewQty(t)
  BY DEF Written, Writes, NewQty
<1> QED BY <1>1 DEF RowInv, NoLostUpdate, WriteLegal

\* A reset that begins, ends or edits posts selects and locks nothing.
LEMMA QuietReset ==
    ASSUME RowInv, NEW r \in Resets, order' = order, task' = task,
           \A r2 \in Resets : r2 # r => reset'[r2] = reset[r2],
           \/ /\ reset'[r].flushed = {} /\ reset'[r].last = {}
              /\ \A d \in Deals : reset'[r].gone[d] = {}
           \/ /\ reset'[r].flushed = reset[r].flushed
              /\ reset'[r].last = reset[r].last
              /\ reset'[r].gone = reset[r].gone
              /\ reset'[r].todo = reset[r].todo
    PROVE  RowInv'
<1>1. NoLostUpdate' /\ WriteLegal'
  BY SameTasks
<1>2. RowLocks'
  BY DEF RowInv, RowLocks, RowLocked
<1>3. Selection'
  BY DEF RowInv, Selection
<1> QED BY <1>1, <1>2, <1>3 DEF RowInv

LEMMA SelectPartsRows ==
    ASSUME TypeOK, RowInv, NEW r \in Resets, NEW d \in Deals, SelectParts(r, d)
    PROVE  RowInv'
<1>1. /\ order' = order /\ task' = task
      /\ \A r2 \in Resets : r2 # r => reset'[r2] = reset[r2]
      /\ d \in reset[r].todo
      /\ \A t \in Tasks : ~BlockedByTask(r, t)
  BY DEF SelectParts, CanFlush, TypeOK
<1>2. /\ reset'[r].todo = reset[r].todo \ {d}
      /\ reset'[r].flushed = reset[r].flushed \cup reset[r].last
      /\ reset'[r].last = {d}
      /\ reset'[r].gone = [reset[r].gone EXCEPT ![d] =
                              {u \in Users : order[d][u] # NoRow}]
  BY DEF SelectParts, TypeOK, Reset
<1>3. /\ reset'[r].gone[d] = {u \in Users : order[d][u] # NoRow}
      /\ \A e \in Deals : e # d => reset'[r].gone[e] = reset[r].gone[e]
  BY <1>2 DEF TypeOK, Reset
<1>4. d \notin reset[r].flushed \cup reset[r].last
  BY <1>1 DEF RowInv, Selection
<1>5. NoLostUpdate' /\ WriteLegal'
  BY <1>1, SameTasks
<1>6. ASSUME NEW t \in Tasks, task[t].pc = "written"
      PROVE  ~RowLocked(r, task[t].deal, task[t].user)'
  <2>1. task[t].deal \in Deals
    BY DEF TypeOK, Task
  <2>2. ~RowLocked(r, task[t].deal, task[t].user) /\ ~BlockedByTask(r, t)
    BY <1>1, <1>6 DEF RowInv, RowLocks
  <2> QED BY <1>1, <1>2, <1>3, <1>4, <1>6, <2>1, <2>2 DEF RowLocked, BlockedByTask
<1>7. RowLocks'
  BY <1>1, <1>6 DEF RowInv, RowLocks, RowLocked
<1>8. Selection'
  <2>1. \A r2 \in Resets : r2 # r =>
            /\ reset'[r2].todo \cap (reset'[r2].flushed \cup reset'[r2].last) = {}
            /\ \A e \in Deals :
                  /\ \A u \in reset'[r2].gone[e] : order'[e][u] # NoRow
                  /\ reset'[r2].gone[e] # {} =>
                        e \in reset'[r2].flushed \cup reset'[r2].last
    BY <1>1 DEF RowInv, Selection
  <2>2. reset'[r].todo \cap (reset'[r].flushed \cup reset'[r].last) = {}
    BY <1>2 DEF RowInv, Selection
  <2>3. ASSUME NEW e \in Deals
        PROVE  /\ \A u \in reset'[r].gone[e] : order'[e][u] # NoRow
               /\ reset'[r].gone[e] # {} =>
                     e \in reset'[r].flushed \cup reset'[r].last
    <3>1. CASE e = d
      BY <3>1, <1>1, <1>2, <1>3
    <3>2. CASE e # d
      BY <3>2, <1>1, <1>2, <1>3 DEF RowInv, Selection
    <3> QED BY <3>1, <3>2
  <2> QED BY <2>1, <2>2, <2>3 DEF Selection
<1> QED BY <1>5, <1>7, <1>8 DEF RowInv

\* A reset that commits deletes no row between a task's flush and its commit.
LEMMA CommitSparesWritten ==
    ASSUME TypeOK, RowInv, NEW r \in Resets, CommitReset(r),
           NEW t \in Tasks, task[t].pc = "written"
    PROVE  task[t].user \notin reset[r].gone[task[t].deal]
<1> DEFINE d == task[t].deal
<1>1. d \in Deals
  BY DEF TypeOK, Task
<1>2. ~BlockedByTask(r, t)
  BY DEF CommitReset, CanFlush
<1>3. ~RowLocked(r, d, task[t].user)
  BY DEF RowInv, RowLocks
<1>4. reset[r].gone[d] # {} => d \in reset[r].flushed \cup reset[r].last
  BY <1>1 DEF RowInv, Selection
<1> QED BY <1>2, <1>3, <1>4 DEF BlockedByTask, RowLocked

LEMMA CommitResetRows ==
    ASSUME TypeOK, RowInv, NEW r \in Resets, CommitReset(r)
    PROVE  RowInv'
<1> DEFINE gone == reset[r].gone
<1>1. /\ task' = task
      /\ \A d \in Deals : \A u \in Users :
            order'[d][u] = IF u \in gone[d] THEN NoRow ELSE order[d][u]
  BY DEF CommitReset
<1>2. \A t \in Tasks : /\ task[t].deal \in Deals /\ task[t].user \in Users
  BY DEF TypeOK, Task
<1>3. \A t \in Tasks : Writes(t)' = Writes(t) /\ NewQty(t)' = NewQty(t)
  BY <1>1 DEF Writes, NewQty
<1>4. \A t \in Tasks : task[t].pc = "written" =>
          /\ order'[task[t].deal][task[t].user] = order[task[t].deal][task[t].user]
          /\ Written(t)' = Written(t)
  <2>1. \A t \in Tasks : task[t].pc = "written" =>
            order'[task[t].deal][task[t].user] = order[task[t].deal][task[t].user]
    BY <1>1, <1>2, CommitSparesWritten
  <2> QED BY <1>1, <1>3, <2>1 DEF Written, NewQty
<1>5. \A t \in Tasks : order'[task[t].deal][task[t].user]
          \in {order[task[t].deal][task[t].user], NoRow}
  BY <1>1, <1>2
<1>6. NoLostUpdate'
  BY <1>1, <1>4, <1>5 DEF RowInv, NoLostUpdate
<1>7. WriteLegal'
  BY <1>1, <1>3 DEF RowInv, WriteLegal
<1>8. \A r2 \in Resets : reset[r2] \in Reset
  BY DEF TypeOK
<1>9. /\ reset'[r].flushed = {} /\ reset'[r].last = {}
      /\ \A d \in Deals : reset'[r].gone[d] = {}
  BY DEF CommitReset, NoReset
<1>10. ASSUME NEW r2 \in Resets, r2 # r
       PROVE  /\ reset'[r2].flushed = reset[r2].flushed
              /\ reset'[r2].last = reset[r2].last
              /\ reset'[r2].todo = reset[r2].todo
              /\ reset'[r2].gone = [d \in Deals |-> reset[r2].gone[d] \ gone[d]]
  BY <1>8, <1>10 DEF CommitReset, Reset
<1>11. RowLocks'
  <2>1. ASSUME NEW t \in Tasks, NEW r2 \in Resets, task[t].pc = "written"
        PROVE  ~RowLocked(r2, task[t].deal, task[t].user)'
    <3>1. CASE r2 = r
      BY <3>1, <1>9 DEF RowLocked
    <3>2. CASE r2 # r
      <4>1. /\ reset'[r2].flushed = reset[r2].flushed
            /\ reset'[r2].gone[task[t].deal] =
                  reset[r2].gone[task[t].deal] \ gone[task[t].deal]
        BY <3>2, <1>2, <1>10
      <4> QED BY <2>1, <4>1, <1>1 DEF RowInv, RowLocks, RowLocked
    <3> QED BY <3>1, <3>2
  <2> QED BY <2>1, <1>1 DEF RowLocks, RowLocked
<1>12. Selection'
  <2>1. ASSUME NEW r2 \in Resets, r2 # r, NEW d \in Deals
        PROVE  /\ \A u \in reset'[r2].gone[d] : order'[d][u] # NoRow
               /\ reset'[r2].gone[d] # {} =>
                     d \in reset'[r2].flushed \cup reset'[r2].last
    <3>1. reset'[r2].gone[d] = reset[r2].gone[d] \ gone[d]
      BY <1>10, <2>1
    <3>2. reset[r2].gone[d] \subseteq Users
      BY <1>8 DEF Reset
    <3>3. /\ \A u \in reset[r2].gone[d] : order[d][u] # NoRow
          /\ reset[r2].gone[d] # {} => d \in reset[r2].flushed \cup reset[r2].last
      BY DEF RowInv, Selection
    <3>4. \A u \in reset'[r2].gone[d] : order'[d][u] # NoRow
      BY <1>1, <3>1, <3>2, <3>3
    <3>5. reset'[r2].gone[d] # {} => reset[r2].gone[d] # {}
      BY <3>1
    <3> QED BY <1>10, <2>1, <3>3, <3>4, <3>5
  <2> QED BY <1>9, <1>10, <2>1 DEF RowInv, Selection
<1> QED BY <1>6, <1>7, <1>11, <1>12 DEF RowInv
-----------------------------------------------------------------------------
\* The updates the actions make of the records keep their types.
LEMMA TaskUpdates ==
    ASSUME NEW x \in Task
    PROVE  /\ \A s \in DealStatus : [x EXCEPT !.pc = "opened", !.status = s] \in Task
           /\ \A row \in Row : [x EXCEPT !.pc = "read", !.part = row] \in Task
           /\ \A n \in Totals : [x EXCEPT !.pc = "written", !.collected = n] \in Task
           /\ \A txt \in Text :
                 [x EXCEPT !.pc = "rendered", !.collected = 0, !.text = txt] \in Task
<1>1. 0 \in Totals
  BY DEF Totals
<1> QED BY <1>1 DEF Task

LEMMA NewTask ==
    ASSUME NEW d \in Deals, NEW u \in Users
    PROVE  /\ \A op \in Ops : [NoTask EXCEPT !.pc = "waiting", !.deal = d,
                                             !.user = u, !.op = op] \in Task
           /\ \A n \in Totals : [NoTask EXCEPT !.pc = "saved", !.deal = d,
                                             !.user = u, !.collected = n] \in Task
BY BlankType DEF Task

LEMMA ResetUpdates ==
    ASSUME NEW x \in Reset
    PROVE  /\ \A g \in [Deals -> SUBSET Users] : [x EXCEPT !.gone = g] \in Reset
           /\ \A s \in SUBSET Deals : [x EXCEPT !.edits = s] \in Reset
           /\ \A a, b, c \in SUBSET Deals, g \in [Deals -> SUBSET Users] :
                 [x EXCEPT !.todo = a, !.flushed = b, !.last = c, !.gone = g] \in Reset
           /\ \A f \in [Deals -> DealStatus] :
                 [x EXCEPT !.pc = "select", !.todo = Deals, !.read = f] \in Reset
           /\ [x EXCEPT !.pc = "edit", !.edits = Deals] \in Reset
BY DEF Reset

\* No step of a button task leaves its types.
LEMMA TaskTypes ==
    ASSUME TypeOK, LockDiscipline, WriteLegal, NEW t \in Tasks, TaskStep(t)
    PROVE  TypeOK'
<1> DEFINE d == task[t].deal
           u == task[t].user
<1>1. task[t] \in Task /\ d \in Deals /\ u \in Users /\ task[t].collected \in Totals
  BY DEF TypeOK, Task
<1>2. order[d] \in Rows /\ order[d][u] \in Row /\ status[d] \in DealStatus
  BY <1>1 DEF TypeOK, Rows
<1>3. CASE OpenDeal(t)
  BY <1>1, <1>2, <1>3, TaskUpdates DEF OpenDeal, TypeOK
<1>4. CASE ReadPart(t)
  BY <1>1, <1>2, <1>4, TaskUpdates DEF ReadPart, TypeOK
<1>5. ASSUME Finish(t), Working(t),
             UNCHANGED <<order, status, reset>>, post' \in [Deals -> Text]
      PROVE  TypeOK'
  BY <1>5, FinishStep DEF TypeOK
<1>6. CASE NothingToConfirm(t)
  BY <1>6, <1>5 DEF NothingToConfirm, Working, TypeOK
<1>7. CASE DecWithoutDraft(t)
  <2>1. Saved(t, deal_total(order[d])) \in Task
    BY <1>1, <1>2, TotalType, NewTask DEF Saved
  <2> QED BY <1>7, <2>1 DEF DecWithoutDraft, TypeOK
<1>8. CASE WriteDraft(t)
  <2>1. /\ Writes(t) /\ ~Raises(t)
        /\ task' = [task EXCEPT ![t] = [task[t] EXCEPT !.pc = "written",
                                   !.collected = deal_total(RowsAfter(t))]]
    BY <1>8 DEF WriteDraft
  <2>2. task[t].part.qty \in Nat
    BY <1>1, MaxQtyAssumption DEF Task, Row
  <2>3. NewQty(t) \in Nat
    BY <1>1, <2>2, StepAssumption DEF NewQty, next_quantity
  <2>4. task[t].op = "join" \/ NewQty(t) <= MaxQty
    BY <2>1, <2>3, MaxQtyAssumption DEF Raises
  <2>5. deal_total(RowsAfter(t)) \in Totals
    BY <2>1, <2>4, WrittenType, TotalType
  <2> DEFINE x == [task[t] EXCEPT !.pc = "written",
                                  !.collected = deal_total(RowsAfter(t))]
  <2>6. x \in Task
    BY <1>1, <2>5, TaskUpdates
  <2>7. task' = [task EXCEPT ![t] = x]
    BY <2>1
  <2> HIDE DEF x
  <2>8. task' \in [Tasks -> Task]
    BY <2>6, <2>7 DEF TypeOK
  <2> QED BY <1>8, <2>8 DEF WriteDraft, TypeOK
<1>9. CASE WriteFails(t)
  BY <1>9, <1>5 DEF WriteFails, Working, TypeOK
<1>10. CASE CommitDraft(t)
  <2>1. RowsAfter(t) \in Rows
    BY <1>10, WrittenType DEF CommitDraft, WriteLegal
  <2>2. order' \in [Deals -> Rows]
    BY <1>1, <1>10, <2>1 DEF CommitDraft, TypeOK
  <2>3. status' \in [Deals -> DealStatus]
    BY <1>1, <1>10 DEF CommitDraft, TypeOK, DealStatus
  <2>4. Saved(t, task[t].collected) \in Task
    BY <1>1, NewTask DEF Saved
  <2>5. task' \in [Tasks -> Task] /\ post' = post /\ queue' = queue
    BY <1>10, <2>4 DEF CommitDraft, TypeOK
  <2>6. reset' \in [Resets -> Reset]
    <3>1. reset \in [Resets -> Reset]
      BY DEF TypeOK
    <3>2. \A r \in Resets : Forget(reset, d, u)[r] \in Reset
      BY <1>1, <3>1, ForgetGone
    <3>3. Forget(reset, d, u) \in [Resets -> Reset]
      BY <3>2 DEF Forget
    <3> QED BY <1>10, <3>1, <3>3 DEF CommitDraft
  <2> QED BY <2>2, <2>3, <2>5, <2>6 DEF TypeOK
<1>11. CASE TaskVictim(t)
  BY <1>11, <1>5 DEF TaskVictim, Working, TypeOK
<1>12. CASE Render(t)
  <2>1. [collected |-> task[t].collected, pending |-> deal_pending(order[d])] \in Text
    BY <1>1, <1>2, PendingType DEF Text
  <2> QED BY <1>1, <1>12, <2>1, TaskUpdates DEF Render, TypeOK
<1>13. CASE EditPost(t)
  <2>1. post' \in [Deals -> Text]
    BY <1>1, <1>13 DEF EditPost, TypeOK, Task
  <2> QED BY <1>13, <2>1, <1>5 DEF EditPost, Working
<1>14. CASE EditFails(t)
  BY <1>14, <1>5 DEF EditFails, Working, TypeOK
<1> QED BY <1>3, <1>4, <1>6, <1>7, <1>8, <1>9, <1>10, <1>11, <1>12, <1>13, <1>14
        DEF TaskStep

\* No step of a reset leaves its types.
LEMMA ResetTypes ==
    ASSUME TypeOK, NEW r \in Resets, StartReset(r) \/ ResetStep(r)
    PROVE  TypeOK'
<1>1. reset[r] \in Reset
  BY DEF TypeOK
<1>2. CASE StartReset(r)
  <2>1. [NoReset EXCEPT !.pc = "select", !.todo = Deals, !.read = status] \in Reset
    BY BlankType, ResetUpdates DEF TypeOK
  <2> QED BY <1>2, <2>1 DEF StartReset, TypeOK
<1>3. CASE \E d \in Deals : SelectParts(r, d)
  <2> PICK d \in Deals : SelectParts(r, d)
    BY <1>3
  <2> DEFINE g == [reset[r].gone EXCEPT ![d] = {u \in Users : order[d][u] # NoRow}]
             x == [reset[r] EXCEPT !.todo = @ \ {d}, !.flushed = @ \cup reset[r].last,
                                   !.last = {d}, !.gone = g]
  <2>1. g \in [Deals -> SUBSET Users]
    BY <1>1 DEF Reset
  <2>2. /\ reset[r].todo \ {d} \in SUBSET Deals
        /\ reset[r].flushed \cup reset[r].last \in SUBSET Deals
        /\ {d} \in SUBSET Deals
    BY <1>1 DEF Reset
  <2>3. reset' = [reset EXCEPT ![r] = x]
    BY DEF SelectParts
  <2> HIDE DEF g
  <2>4. x \in Reset
    BY <1>1, <2>1, <2>2, ResetUpdates
  <2> HIDE DEF x
  <2>5. reset' \in [Resets -> Reset]
    BY <2>3, <2>4 DEF TypeOK
  <2> QED BY <2>5 DEF SelectParts, TypeOK
<1>4. CASE CommitReset(r)
  <2>1. order' \in [Deals -> Rows]
    BY <1>4, NoRowType DEF CommitReset, TypeOK, Rows
  <2>2. status' \in [Deals -> DealStatus]
    BY <1>4 DEF CommitReset, TypeOK, DealStatus
  <2>3. [NoReset EXCEPT !.pc = "edit", !.edits = Deals] \in Reset
    BY BlankType, ResetUpdates
  <2>4. ASSUME NEW r2 \in Resets
        PROVE  [reset[r2] EXCEPT !.gone =
                   [d \in Deals |-> reset[r2].gone[d] \ reset[r].gone[d]]] \in Reset
    <3>1. reset[r2] \in Reset
      BY DEF TypeOK
    <3>2. [d \in Deals |-> reset[r2].gone[d] \ reset[r].gone[d]]
              \in [Deals -> SUBSET Users]
      BY <3>1 DEF Reset
    <3> QED BY <3>1, <3>2, ResetUpdates
  <2>5. reset' \in [Resets -> Reset]
    BY <1>4, <2>3, <2>4 DEF CommitReset
  <2> QED BY <1>4, <2>1, <2>2, <2>5 DEF CommitReset, TypeOK
<1>5. CASE ResetVictim(r)
  BY <1>5, BlankType DEF ResetVictim, TypeOK
<1>6. CASE \E d \in Deals : ResetEdit(r, d)
  <2> PICK d \in Deals : ResetEdit(r, d)
    BY <1>6
  <2>1. post' \in [Deals -> Text]
    BY BlankType DEF ResetEdit, TypeOK
  <2>2. reset[r].edits \ {d} \in SUBSET Deals
    BY <1>1 DEF Reset
  <2>3. [reset[r] EXCEPT !.edits = @ \ {d}] \in Reset
    BY <1>1, <2>2, ResetUpdates
  <2>4. reset' \in [Resets -> Reset]
    BY <2>3, BlankType DEF ResetEdit, TypeOK
  <2> QED BY <2>1, <2>4 DEF ResetEdit, TypeOK
<1> QED BY <1>2, <1>3, <1>4, <1>5, <1>6 DEF ResetStep
-----------------------------------------------------------------------------
LEMMA InitInv == Init => IInv
<1> SUFFICES ASSUME Init PROVE IInv
  OBVIOUS
<1>1. TypeOK
  BY BlankType, NoRowType DEF Init, TypeOK, DealStatus
<1>2. LockDiscipline
  BY DEF Init, LockDiscipline, At, NoTask, Range, IsInjective
<1>3. NoLostUpdate /\ RowLocks /\ WriteLegal
  BY DEF Init, NoLostUpdate, RowLocks, WriteLegal, NoTask
<1>4. Selection
  BY DEF Init, Selection, NoReset
<1> QED BY <1>1, <1>2, <1>3, <1>4 DEF IInv

\* A press: the task joins the queue of its deal.
LEMMA PressInv ==
    ASSUME IInv, NEW t \in Tasks, NEW d \in Deals, NEW u \in Users, NEW op \in Ops,
           Press(t, d, u, op)
    PROVE  IInv'
<1> DEFINE x == [NoTask EXCEPT !.pc = "waiting", !.deal = d, !.user = u, !.op = op]
<1>1. /\ x \in Task /\ x.pc = "waiting" /\ x.deal = d
      /\ task[t].pc = "idle" /\ task' = [task EXCEPT ![t] = x]
      /\ queue' = [queue EXCEPT ![d] = Append(queue[d], t)]
      /\ UNCHANGED <<order, status, post, reset>>
  BY NewTask DEF Press, NoTask
<1> HIDE DEF x
<1>2. /\ queue[d] \in Seq(Tasks) /\ IsInjective(queue[d])
      /\ t \notin Range(queue[d])
  BY <1>1 DEF IInv, TypeOK, LockDiscipline, At
<1>3. /\ Append(queue[d], t) \in Seq(Tasks)
      /\ Range(Append(queue[d], t)) = Range(queue[d]) \cup {t}
      /\ IsInjective(Append(queue[d], t))
      /\ queue[d] # <<>> => Head(Append(queue[d], t)) = Head(queue[d])
  BY <1>2, AppendRange
<1>4. TypeOK'
  BY <1>1, <1>3 DEF IInv, TypeOK
<1>5. /\ task'[t] = x
      /\ \A t2 \in Tasks : t2 # t => task'[t2] = task[t2]
  BY <1>1 DEF IInv, TypeOK
<1>6. LockDiscipline'
  <2> SUFFICES ASSUME NEW e \in Deals
               PROVE  /\ Range(queue'[e]) = At(e)'
                      /\ IsInjective(queue'[e])
                      /\ \A t2 \in At(e)' : Working(t2)' => t2 = Head(queue'[e])
    BY DEF LockDiscipline
  <2>1. /\ Range(queue[e]) = At(e) /\ IsInjective(queue[e])
        /\ \A t2 \in At(e) : Working(t2) => t2 = Head(queue[e])
    BY DEF IInv, LockDiscipline
  <2>2. /\ At(e)' = IF e = d THEN At(e) \cup {t} ELSE At(e)
        /\ t \notin At(e)
    BY <1>1, <1>5 DEF At
  <2>3. \A t2 \in At(e)' : Working(t2)' => t2 \in At(e) /\ Working(t2)
    BY <1>1, <1>5, <2>2 DEF At, Working
  <2>4. CASE e = d
    <3>1. queue'[e] = Append(queue[e], t)
      BY <1>1, <2>4 DEF IInv, TypeOK
    <3>2. \A t2 \in At(e) : queue[e] # <<>>
      BY <2>1 DEF Range
    <3> QED BY <1>3, <2>1, <2>2, <2>3, <2>4, <3>1, <3>2
  <2>5. CASE e # d
    <3>1. queue'[e] = queue[e]
      BY <1>1, <2>5 DEF IInv, TypeOK
    <3> QED BY <2>1, <2>2, <2>3, <2>5, <3>1
  <2> QED BY <2>4, <2>5
<1>7. RowInv'
  BY <1>1, <1>5, QuietStep DEF IInv, RowInv
<1> QED BY <1>4, <1>6, <1>7 DEF IInv, RowInv

\* The other steps of a button task.
LEMMA TaskInv ==
    ASSUME IInv, NEW t \in Tasks, TaskStep(t)
    PROVE  IInv'
<1> USE DEF IInv, RowInv
<1>1. TypeOK' /\ task[t] \in Task /\ task[t].deal \in Deals
  BY TaskTypes DEF TypeOK, Task
<1>2. ASSUME Finish(t), Working(t), order' = order, reset' = reset
      PROVE  IInv'
  <2>1. LockDiscipline'
    BY <1>2, FinishStep
  <2>2. /\ task'[t].pc = "idle"
        /\ \A t2 \in Tasks : t2 # t => task'[t2] = task[t2]
    BY <1>2 DEF Finish, NoTask, TypeOK
  <2>3. RowInv'
    BY <1>2, <2>2, QuietStep
  <2> QED BY <1>1, <2>1, <2>3
<1>3. CASE NothingToConfirm(t) \/ WriteFails(t) \/ TaskVictim(t)
             \/ EditPost(t) \/ EditFails(t)
  BY <1>2, <1>3
  DEF NothingToConfirm, WriteFails, TaskVictim, EditPost, EditFails, Working
<1>4. CASE OpenDeal(t)
  <2>1. /\ task[t].pc = "waiting" /\ Head(queue[task[t].deal]) = t
        /\ queue' = queue /\ order' = order /\ reset' = reset
        /\ task'[t].pc = "opened" /\ task'[t].deal = task[t].deal
        /\ \A t2 \in Tasks : t2 # t => task'[t2] = task[t2]
    BY <1>1, <1>4 DEF OpenDeal, TypeOK, Task
  <2>2. LockDiscipline'
    BY <2>1, AdvanceStep
  <2>3. RowInv'
    BY <2>1, QuietStep
  <2> QED BY <1>1, <2>2, <2>3
<1>5. CASE ReadPart(t)
  <2>1. /\ Working(t) /\ task[t].pc # "idle" /\ queue' = queue
        /\ task'[t].pc = "read" /\ task'[t].deal = task[t].deal
        /\ \A t2 \in Tasks : t2 # t => task'[t2] = task[t2]
    BY <1>1, <1>5 DEF ReadPart, TypeOK, Task, Working
  <2>2. LockDiscipline'
    BY <2>1, WorkerHolds, AdvanceStep
  <2> QED BY <1>1, <1>5, <2>2, ReadPartRows
<1>6. CASE DecWithoutDraft(t)
  <2>1. /\ Working(t) /\ task[t].pc # "idle" /\ queue' = queue
        /\ order' = order /\ reset' = reset
        /\ task'[t].pc = "saved" /\ task'[t].deal = task[t].deal
        /\ \A t2 \in Tasks : t2 # t => task'[t2] = task[t2]
    BY <1>1, <1>6 DEF DecWithoutDraft, Saved, NoTask, TypeOK, Working
  <2>2. LockDiscipline'
    BY <2>1, WorkerHolds, AdvanceStep
  <2>3. RowInv'
    BY <2>1, QuietStep
  <2> QED BY <1>1, <2>2, <2>3
<1>7. CASE WriteDraft(t)
  <2>1. /\ Working(t) /\ task[t].pc # "idle" /\ queue' = queue
        /\ task'[t].pc = "written" /\ task'[t].deal = task[t].deal
        /\ \A t2 \in Tasks : t2 # t => task'[t2] = task[t2]
    BY <1>1, <1>7 DEF WriteDraft, TypeOK, Task, Working
  <2>2. LockDiscipline'
    BY <2>1, WorkerHolds, AdvanceStep
  <2> QED BY <1>1, <1>7, <2>2, WriteDraftRows
<1>8. CASE CommitDraft(t)
  <2>1. /\ Working(t) /\ task[t].pc # "idle" /\ queue' = queue
        /\ task'[t].pc = "saved" /\ task'[t].deal = task[t].deal
        /\ \A t2 \in Tasks : t2 # t => task'[t2] = task[t2]
    BY <1>1, <1>8 DEF CommitDraft, Saved, NoTask, TypeOK, Working
  <2>2. LockDiscipline'
    BY <2>1, WorkerHolds, AdvanceStep
  <2> QED BY <1>1, <1>8, <2>2, CommitDraftRows
<1>9. CASE Render(t)
  <2>1. /\ Working(t) /\ task[t].pc # "idle" /\ queue' = queue
        /\ order' = order /\ reset' = reset
        /\ task'[t].pc = "rendered" /\ task'[t].deal = task[t].deal
        /\ \A t2 \in Tasks : t2 # t => task'[t2] = task[t2]
    BY <1>1, <1>9 DEF Render, TypeOK, Task, Working
  <2>2. LockDiscipline'
    BY <2>1, WorkerHolds, AdvanceStep
  <2>3. RowInv'
    BY <2>1, QuietStep
  <2> QED BY <1>1, <2>2, <2>3
<1> QED BY <1>3, <1>4, <1>5, <1>6, <1>7, <1>8, <1>9 DEF TaskStep

\* A reset takes no lock of a deal and leaves the button tasks alone.
LEMMA ResetInv ==
    ASSUME IInv, NEW r \in Resets, StartReset(r) \/ ResetStep(r)
    PROVE  IInv'
<1> USE DEF IInv, RowInv
<1>1. TypeOK' /\ reset[r] \in Reset
  BY ResetTypes DEF TypeOK
<1>2. task' = task /\ queue' = queue
  BY DEF StartReset, ResetStep, SelectParts, CommitReset, ResetVictim, ResetEdit
<1>3. LockDiscipline'
  BY <1>2 DEF LockDiscipline, At, Working
<1>4. CASE StartReset(r)
  <2>1. /\ order' = order /\ reset'[r].flushed = {} /\ reset'[r].last = {}
        /\ \A d \in Deals : reset'[r].gone[d] = {}
        /\ \A r2 \in Resets : r2 # r => reset'[r2] = reset[r2]
    BY <1>4 DEF StartReset, NoReset, TypeOK
  <2> QED BY <1>1, <1>2, <1>3, <2>1, QuietReset
<1>5. CASE \E d \in Deals : SelectParts(r, d)
  BY <1>1, <1>3, <1>5, SelectPartsRows
<1>6. CASE CommitReset(r)
  BY <1>1, <1>3, <1>6, CommitResetRows
<1>7. CASE ResetVictim(r)
  <2>1. /\ order' = order /\ reset'[r].flushed = {} /\ reset'[r].last = {}
        /\ \A d \in Deals : reset'[r].gone[d] = {}
        /\ \A r2 \in Resets : r2 # r => reset'[r2] = reset[r2]
    BY <1>7 DEF ResetVictim, NoReset, TypeOK
  <2> QED BY <1>1, <1>2, <1>3, <2>1, QuietReset
<1>8. CASE \E d \in Deals : ResetEdit(r, d)
  <2> PICK d \in Deals : ResetEdit(r, d)
    BY <1>8
  <2>1. order' = order /\ \A r2 \in Resets : r2 # r => reset'[r2] = reset[r2]
    BY DEF ResetEdit, TypeOK
  <2>2. CASE reset[r].edits = {d}
    <3>1. /\ reset'[r].flushed = {} /\ reset'[r].last = {}
          /\ \A e \in Deals : reset'[r].gone[e] = {}
      BY <2>2 DEF ResetEdit, NoReset, TypeOK
    <3> QED BY <1>1, <1>2, <1>3, <2>1, <3>1, QuietReset
  <2>3. CASE reset[r].edits # {d}
    <3>1. reset'[r] = [reset[r] EXCEPT !.edits = reset[r].edits \ {d}]
      BY <2>3 DEF ResetEdit, TypeOK
    <3>2. /\ reset'[r].flushed = reset[r].flushed
          /\ reset'[r].last = reset[r].last
          /\ reset'[r].gone = reset[r].gone
          /\ reset'[r].todo = reset[r].todo
      BY <1>1, <3>1 DEF Reset
    <3> QED BY <1>1, <1>2, <1>3, <2>1, <3>2, QuietReset
  <2> QED BY <2>2, <2>3
<1> QED BY <1>4, <1>5, <1>6, <1>7, <1>8 DEF ResetStep

LEMMA CrashInv ==
    ASSUME IInv, Crash
    PROVE  IInv'
<1>1. TypeOK'
  BY BlankType DEF IInv, TypeOK, Crash
<1>2. LockDiscipline'
  BY DEF Crash, LockDiscipline, At, NoTask, Range, IsInjective
<1>3. NoLostUpdate' /\ RowLocks' /\ WriteLegal'
  BY DEF Crash, NoLostUpdate, RowLocks, WriteLegal, NoTask
<1>4. Selection'
  BY DEF Crash, Selection, NoReset
<1> QED BY <1>1, <1>2, <1>3, <1>4 DEF IInv

LEMMA StepInv == IInv /\ [Next]_vars => IInv'
<1> SUFFICES ASSUME IInv, [Next]_vars PROVE IInv'
  OBVIOUS
<1>1. CASE Next
  BY <1>1, PressInv, TaskInv, ResetInv, CrashInv DEF Next
<1>2. CASE UNCHANGED vars
  <2>1. TypeOK'
    BY <1>2 DEF IInv, TypeOK, vars
  <2>2. LockDiscipline'
    BY <1>2 DEF IInv, LockDiscipline, At, Working, vars
  <2>3. NoLostUpdate' /\ WriteLegal'
    BY <1>2, SameTasks DEF IInv, RowInv, vars
  <2>4. RowLocks' /\ Selection'
    BY <1>2 DEF IInv, RowLocks, RowLocked, Selection, vars
  <2> QED BY <2>1, <2>2, <2>3, <2>4 DEF IInv
<1> QED BY <1>1, <1>2

\* The inductive invariant holds in every reachable state, of every house, for
\* every number of button tasks and of resets (DealPosts).
THEOREM Invariance == Spec => []IInv
BY InitInv, StepInv, PTL DEF Spec

\* Every variable keeps its type: no quantity outgrows its column, no task or
\* reset record is malformed.
THEOREM TypeCorrect == Spec => []TypeOK
<1>1. IInv => TypeOK
  BY DEF IInv
<1> QED BY <1>1, Invariance, PTL

\* DEAL_LOCKS serialises the tasks of a deal: its queue is its tasks, and only
\* the head of it works (main.py:809-810).
THEOREM LocksHold == Spec => []LockDiscipline
<1>1. IInv => LockDiscipline
  BY DEF IInv
<1> QED BY <1>1, Invariance, PTL

\* No update of a participant row is lost between its SELECT and its COMMIT
\* (orders.py:75-146), whatever other tasks and resets do in between.
THEOREM NoUpdateLost == Spec => []NoLostUpdate
<1>1. IInv => NoLostUpdate
  BY DEF IInv
<1> QED BY <1>1, Invariance, PTL
-----------------------------------------------------------------------------
LEMMA SameRows == OB!NoRow = NoRow /\ OB!Empty = Empty
BY DEF NoRow, Empty, OB!NoRow, OB!Empty

\* What a task commits is one press computed from the row as it then is.
LEMMA CommitIsPress ==
    ASSUME IInv, NEW t \in Tasks, CommitDraft(t)
    PROVE  OB!Next
<1> DEFINE d == task[t].deal
           u == task[t].user
           now == order[d][u]
           part == task[t].part
<1>1. /\ d \in Deals /\ u \in Users /\ part \in Row /\ now \in Row
      /\ task[t].op \in Ops /\ Step[d] \in Nat \ {0} /\ part.qty \in Nat
  BY StepAssumption, MaxQtyAssumption DEF IInv, TypeOK, Task, Rows, Row
<1>2. /\ order' = [order EXCEPT ![d][u] = Written(t)]
      /\ status' \in {status, [status EXCEPT ![d] = "goal_reached"]}
  BY DEF CommitDraft, RowsAfter
<1>3. OB!Put(d, u, Written(t))
  BY <1>2 DEF OB!Put
<1>4. Writes(t) /\ (now = part \/ (now = NoRow /\ Written(t) = NoRow))
  BY DEF CommitDraft, IInv, WriteLegal, NoLostUpdate
<1>5. NoRow.qty = 0 /\ part \in [qty : 0..MaxQty, confirmed : BOOLEAN]
  BY <1>1 DEF NoRow, Row
<1>6. CASE task[t].op = "join"
  <2>1. Written(t) = [now EXCEPT !.confirmed = TRUE]
    BY <1>6 DEF Written
  <2>2. Written(t).confirmed = TRUE
    BY <1>1, <2>1 DEF Row
  <2>3. Written(t) # NoRow
    BY <2>2 DEF NoRow
  <2>4. now = part /\ now # NoRow /\ ~now.confirmed
    BY <1>4, <1>6, <2>3 DEF Writes
  <2>5. OB!Confirm(d, u)
    BY <1>3, <2>1, <2>4, SameRows DEF OB!Confirm
  <2> QED BY <1>1, <2>5 DEF OB!Next
<1>7. CASE task[t].op = "inc"
  <2>1. NewQty(t) = part.qty + Step[d] /\ NewQty(t) # 0
    BY <1>1, <1>7 DEF NewQty, next_quantity
  <2>2. Written(t) = [now EXCEPT !.qty = part.qty + Step[d]]
    BY <1>7, <2>1 DEF Written
  <2>3. Written(t).qty = part.qty + Step[d] /\ Written(t).qty # 0
    BY <1>1, <2>1, <2>2 DEF Row
  <2>4. now = part
    BY <1>4, <1>5, <2>3
  <2>5. OB!More(d, u)
    BY <1>3, <2>2, <2>4 DEF OB!More
  <2> QED BY <1>1, <2>5 DEF OB!Next
<1>8. CASE task[t].op = "dec"
  <2>1. /\ part.qty > Step[d] => NewQty(t) = part.qty - Step[d] /\ NewQty(t) # 0
        /\ ~(part.qty > Step[d]) => NewQty(t) = 0
    BY <1>1, <1>8 DEF NewQty, next_quantity
  <2>2. Written(t) = IF part.qty > Step[d] THEN [now EXCEPT !.qty = part.qty - Step[d]]
                     ELSE NoRow
    BY <1>8, <2>1 DEF Written
  <2>3. Written(t) = IF now.qty > Step[d] THEN [now EXCEPT !.qty = now.qty - Step[d]]
                     ELSE NoRow
    <3>1. CASE now = part
      BY <2>2, <3>1
    <3>2. CASE now = NoRow /\ Written(t) = NoRow
      BY <1>1, <1>5, <3>2
    <3> QED BY <1>4, <3>1, <3>2
  <2>4. OB!Less(d, u)
    BY <1>3, <2>3, SameRows DEF OB!Less
  <2> QED BY <1>1, <2>4 DEF OB!Next
<1> QED BY <1>1, <1>6, <1>7, <1>8 DEF Ops

\* What a reset commits takes rows away and adds none.
LEMMA CommitIsClear ==
    ASSUME IInv, NEW r \in Resets, CommitReset(r)
    PROVE  OB!Next
<1> DEFINE gone == reset[r].gone
           back == {d \in Deals : reset[r].read[d] # "collecting"}
<1>1. gone \in [Deals -> SUBSET Users] /\ back \in SUBSET Deals
  BY DEF IInv, TypeOK, Reset
<1>2. order' = [d \in Deals |-> [u \in Users |->
                   IF u \in gone[d] THEN NoRow ELSE order[d][u]]]
  BY DEF CommitReset
<1>3. status' = [d \in Deals |-> IF d \in back THEN "collecting" ELSE status[d]]
  BY DEF CommitReset
<1> HIDE DEF gone, back
<1>4. OB!Clear
  BY <1>1, <1>2, <1>3, SameRows DEF OB!Clear
<1> QED BY <1>4 DEF OB!Next

LEMMA StepRefines == IInv /\ [Next]_vars => [OB!Next]_(OB!vars)
<1> SUFFICES ASSUME IInv, [Next]_vars PROVE [OB!Next]_(OB!vars)
  OBVIOUS
<1>1. CASE \E t \in Tasks : CommitDraft(t)
  BY <1>1, CommitIsPress
<1>2. CASE \E r \in Resets : CommitReset(r)
  BY <1>2, CommitIsClear
<1>3. CASE /\ \A t \in Tasks : ~CommitDraft(t)
           /\ \A r \in Resets : ~CommitReset(r)
  <2>1. order' = order /\ status' = status
    BY <1>3
    DEF Next, TaskStep, ResetStep, Press, OpenDeal, ReadPart, NothingToConfirm,
        DecWithoutDraft, WriteDraft, WriteFails, TaskVictim, Render, EditPost,
        EditFails, StartReset, SelectParts, ResetVictim, ResetEdit, Crash, vars
  <2> QED BY <2>1 DEF OB!vars
<1> QED BY <1>1, <1>2, <1>3

LEMMA InitRefines == Init => OB!Init
BY SameRows DEF Init, OB!Init

\* The tasks, locks and transactions of DealPosts implement OrderBook: every
\* press of a button takes effect once, as if it were alone.
THEOREM Implements == Spec => OneStepPresses
BY Invariance, InitRefines, StepRefines, PTL DEF Spec, OneStepPresses, OB!Spec
-----------------------------------------------------------------------------
(* BETWEEN TWO RESETS.  While no reset runs, what a task has read of its     *)
(* deal stays true until it gives the lock away: nobody else writes it.      *)

\* The sum of no quantities is zero: the recursion of the fold is satisfied by
\* the function that is zero for every set of residents, and by no other.
LEMMA NothingCollected == deal_total(Empty) = 0
<1> DEFINE f == [u \in Users |-> IF Empty[u].confirmed THEN Empty[u].qty ELSE 0]
           pick(s) == CHOOSE x \in s : TRUE
           iter == CHOOSE g : g = [s \in SUBSET Users |->
                       IF s = {} THEN 0 ELSE f[pick(s)] + g[s \ {pick(s)}]]
<1>1. deal_total(Empty) = iter[Users]
  BY DEF deal_total, SumFunction, SumFunctionOnSet, FoldFunctionOnSet, MapThenFoldSet
<1>2. \A s \in SUBSET Users : s # {} => f[pick(s)] = 0 /\ pick(s) \in s
  BY DEF Empty, NoRow
<1> HIDE DEF f, pick
<1>3. iter = [s \in SUBSET Users |->
                 IF s = {} THEN 0 ELSE f[pick(s)] + iter[s \ {pick(s)}]]
  <2> DEFINE z == [s \in SUBSET Users |-> 0]
  <2>1. \A s \in SUBSET Users :
            (IF s = {} THEN 0 ELSE f[pick(s)] + z[s \ {pick(s)}]) = 0
    BY <1>2
  <2>2. z = [s \in SUBSET Users |->
                IF s = {} THEN 0 ELSE f[pick(s)] + z[s \ {pick(s)}]]
    BY <2>1
  <2> HIDE DEF z
  <2> QED BY <2>2
<1> HIDE DEF iter
<1> DEFINE bad == {s \in SUBSET Users : iter[s] # 0}
<1>4. bad = {}
  <2> SUFFICES ASSUME bad # {} PROVE FALSE
    OBVIOUS
  <2>1. FiniteSubsetsOf(Users) = SUBSET Users
    BY UsersAssumption, FS_FiniteSubsetsOfFinite
  <2>2. IsWellFoundedOn(StrictSubsetOrdering(Users), SUBSET Users)
    BY <2>1, FS_StrictSubsetOrderingWellFounded
  <2>3. bad \subseteq SUBSET Users
    OBVIOUS
  <2> HIDE DEF bad
  <2>4. PICK s \in bad :
            \A r \in bad : ~(<<r, s>> \in StrictSubsetOrdering(Users))
    BY <2>2, <2>3, WFMin
  <2>5. s \in SUBSET Users /\ iter[s] # 0
    BY <2>4 DEF bad
  <2>6. s # {}
    BY <1>3, <2>5
  <2> DEFINE r == s \ {pick(s)}
  <2>7. r \in SUBSET Users /\ r \subseteq s /\ r # s
    BY <1>2, <2>5, <2>6
  <2>8. <<r, s>> \in StrictSubsetOrdering(Users)
    BY <2>5, <2>7 DEF StrictSubsetOrdering
  <2>9. iter[r] = 0
    BY <2>4, <2>7, <2>8 DEF bad
  <2>10. iter[s] = f[pick(s)] + iter[r]
    BY <1>3, <2>5, <2>6
  <2> QED BY <1>2, <2>5, <2>6, <2>9, <2>10
<1> QED BY <1>1, <1>4

\* What a task has read is what the tables hold.
UpToDate(t) ==
    LET d == task[t].deal IN
    /\ task[t].pc \in {"opened", "read", "written"} => task[t].status = status[d]
    /\ task[t].pc = "written" => task[t].collected = deal_total(RowsAfter(t))
    /\ task[t].pc = "saved" => task[t].collected = deal_total(order[d])
    /\ task[t].pc = "rendered" => task[t].text = Shown(d)

GoalInv == /\ \A t \in Tasks : UpToDate(t)
           /\ \A d \in Deals : status[d] \in {"collecting", "goal_reached"}
           /\ GoalMarked

LEMMA InitGoal == Init => GoalInv
<1> SUFFICES ASSUME Init PROVE GoalInv
  OBVIOUS
<1>1. \A t \in Tasks : UpToDate(t)
  BY DEF Init, UpToDate, NoTask
<1>2. \A d \in Deals : status[d] \in {"collecting", "goal_reached"}
  BY DEF Init
<1>3. GoalMarked
  <2> SUFFICES ASSUME NEW d \in Deals PROVE ~(deal_total(order[d]) >= Pack[d])
    BY DEF GoalMarked
  <2>1. order[d] = Empty /\ Pack[d] \in Nat \ {0}
    BY PackAssumption DEF Init
  <2> QED BY <2>1, NothingCollected
<1> QED BY <1>1, <1>2, <1>3 DEF GoalInv

\* A task that does not move, and whose deal nobody writes.
LEMMA StaysUpToDate ==
    ASSUME NEW t \in Tasks, UpToDate(t), task'[t] = task[t],
           order'[task[t].deal] = order[task[t].deal],
           status'[task[t].deal] = status[task[t].deal]
    PROVE  UpToDate(t)'
<1>1. RowsAfter(t)' = RowsAfter(t)
  BY DEF RowsAfter, Written, NewQty
<1> QED BY <1>1 DEF UpToDate, Shown

\* A step of one task that writes no row.
LEMMA GoalKept ==
    ASSUME IInv, GoalInv, NEW t \in Tasks, UNCHANGED <<order, status>>,
           \A t2 \in Tasks : t2 # t => task'[t2] = task[t2],
           UpToDate(t)'
    PROVE  GoalInv'
<1>1. \A t2 \in Tasks : t2 # t => UpToDate(t2)'
  BY StaysUpToDate DEF GoalInv
<1> QED BY <1>1 DEF GoalInv, GoalMarked

LEMMA OneMoves ==
    ASSUME TypeOK, NEW t \in Tasks, NEW x, task' = [task EXCEPT ![t] = x]
    PROVE  /\ task'[t] = x
           /\ \A t2 \in Tasks : t2 # t => task'[t2] = task[t2]
BY DEF TypeOK

LEMMA GoalTask ==
    ASSUME IInv, GoalInv, NEW t \in Tasks, TaskStep(t)
    PROVE  GoalInv'
<1> DEFINE d == task[t].deal
<1>1. /\ task[t] \in Task /\ d \in Deals /\ t \in DOMAIN task /\ UpToDate(t)
      /\ TypeOK /\ LockDiscipline /\ DOMAIN status = Deals /\ DOMAIN order = Deals
  BY DEF IInv, TypeOK, Task, GoalInv
<1>2. ASSUME Finish(t), UNCHANGED <<order, status>> PROVE GoalInv'
  <2>1. /\ task'[t].pc = "idle"
        /\ \A t2 \in Tasks : t2 # t => task'[t2] = task[t2]
    BY <1>1, <1>2 DEF Finish, NoTask
  <2>2. UpToDate(t)'
    BY <2>1 DEF UpToDate
  <2> QED BY <1>2, <2>1, <2>2, GoalKept
<1>3. CASE NothingToConfirm(t) \/ WriteFails(t) \/ TaskVictim(t) \/ EditPost(t)
              \/ EditFails(t)
  BY <1>2, <1>3 DEF NothingToConfirm, WriteFails, TaskVictim, EditPost, EditFails
<1>4. CASE OpenDeal(t)
  <2>1. /\ task'[t].pc = "opened" /\ task'[t].deal = d /\ task'[t].status = status[d]
        /\ \A t2 \in Tasks : t2 # t => task'[t2] = task[t2]
        /\ UNCHANGED <<order, status>>
    <3> DEFINE x == [task[t] EXCEPT !.pc = "opened", !.status = status[d]]
    <3>1. task' = [task EXCEPT ![t] = x] /\ UNCHANGED <<order, status>>
      BY <1>4 DEF OpenDeal
    <3>2. x.pc = "opened" /\ x.deal = d /\ x.status = status[d]
      BY <1>1 DEF Task
    <3> HIDE DEF x
    <3> QED BY <1>1, <3>1, <3>2, OneMoves
  <2>2. UpToDate(t)'
    BY <2>1 DEF UpToDate
  <2> QED BY <2>1, <2>2, GoalKept
<1>5. CASE ReadPart(t)
  <2>1. /\ task'[t].pc = "read" /\ task'[t].deal = d
        /\ task'[t].status = task[t].status /\ task[t].pc = "opened"
        /\ \A t2 \in Tasks : t2 # t => task'[t2] = task[t2]
        /\ UNCHANGED <<order, status>>
    <3> DEFINE x == [task[t] EXCEPT !.pc = "read", !.part = order[d][task[t].user]]
    <3>1. /\ task' = [task EXCEPT ![t] = x] /\ task[t].pc = "opened"
          /\ UNCHANGED <<order, status>>
      BY <1>5 DEF ReadPart
    <3>2. x.pc = "read" /\ x.deal = d /\ x.status = task[t].status
      BY <1>1 DEF Task
    <3> HIDE DEF x
    <3> QED BY <1>1, <3>1, <3>2, OneMoves
  <2>2. UpToDate(t)'
    BY <1>1, <2>1 DEF UpToDate
  <2> QED BY <2>1, <2>2, GoalKept
<1>6. CASE DecWithoutDraft(t)
  <2>1. /\ task'[t] = Saved(t, deal_total(order[d]))
        /\ \A t2 \in Tasks : t2 # t => task'[t2] = task[t2]
        /\ UNCHANGED <<order, status>>
    BY <1>1, <1>6 DEF DecWithoutDraft
  <2>2. /\ task'[t].pc = "saved" /\ task'[t].deal = d
        /\ task'[t].collected = deal_total(order[d])
    BY <2>1 DEF Saved, NoTask
  <2>3. UpToDate(t)'
    BY <2>1, <2>2 DEF UpToDate
  <2> QED BY <2>1, <2>3, GoalKept
<1>7. CASE WriteDraft(t)
  <2> DEFINE n == deal_total(RowsAfter(t))
  <2>1. /\ task' = [task EXCEPT ![t] = [task[t] EXCEPT !.pc = "written",
                                                      !.collected = n]]
        /\ task[t].pc = "read" /\ UNCHANGED <<order, status>>
    BY <1>7 DEF WriteDraft
  <2> HIDE DEF n
  <2>2. /\ task'[t].pc = "written" /\ task'[t].deal = d /\ task'[t].collected = n
        /\ task'[t].user = task[t].user /\ task'[t].op = task[t].op
        /\ task'[t].part = task[t].part /\ task'[t].status = task[t].status
        /\ \A t2 \in Tasks : t2 # t => task'[t2] = task[t2]
    <3> DEFINE x == [task[t] EXCEPT !.pc = "written", !.collected = n]
    <3>1. /\ x.pc = "written" /\ x.deal = d /\ x.collected = n
          /\ x.user = task[t].user /\ x.op = task[t].op
          /\ x.part = task[t].part /\ x.status = task[t].status
      BY <1>1 DEF Task
    <3>2. task' = [task EXCEPT ![t] = x]
      BY <2>1
    <3> HIDE DEF x
    <3> QED BY <1>1, <3>1, <3>2, OneMoves
  <2>3. RowsAfter(t)' = RowsAfter(t)
    BY <2>1, <2>2 DEF RowsAfter, Written, NewQty
  <2>4. UpToDate(t)'
    BY <1>1, <2>1, <2>2, <2>3 DEF UpToDate, n
  <2> QED BY <2>1, <2>2, <2>4, GoalKept
<1>8. CASE Render(t)
  <2>1. /\ task[t].pc = "saved" /\ UNCHANGED <<order, status>>
        /\ task'[t].pc = "rendered" /\ task'[t].deal = d
        /\ task'[t].text = [collected |-> task[t].collected,
                            pending |-> deal_pending(order[d])]
        /\ \A t2 \in Tasks : t2 # t => task'[t2] = task[t2]
    <3> DEFINE txt == [collected |-> task[t].collected,
                       pending |-> deal_pending(order[d])]
               x == [task[t] EXCEPT !.pc = "rendered", !.collected = 0, !.text = txt]
    <3>1. /\ task' = [task EXCEPT ![t] = x] /\ task[t].pc = "saved"
          /\ UNCHANGED <<order, status>>
      BY <1>8 DEF Render
    <3> HIDE DEF txt
    <3>2. x.pc = "rendered" /\ x.deal = d /\ x.text = txt
      BY <1>1 DEF Task
    <3> HIDE DEF x
    <3> QED BY <1>1, <3>1, <3>2, OneMoves DEF txt
  <2>2. task[t].collected = deal_total(order[d])
    BY <1>1, <2>1 DEF UpToDate
  <2>3. UpToDate(t)'
    BY <2>1, <2>2 DEF UpToDate, Shown
  <2> QED BY <2>1, <2>3, GoalKept
<1>9. CASE CommitDraft(t)
  <2>1. /\ task[t].pc = "written" /\ order' = [order EXCEPT ![d] = RowsAfter(t)]
        /\ status' = IF Marks(t) THEN [status EXCEPT ![d] = "goal_reached"]
                     ELSE status
        /\ task' = [task EXCEPT ![t] = Saved(t, task[t].collected)]
    BY <1>9 DEF CommitDraft
  <2>2. /\ task'[t].pc = "saved" /\ task'[t].deal = d
        /\ task'[t].collected = task[t].collected
        /\ \A t2 \in Tasks : t2 # t => task'[t2] = task[t2]
    <3> DEFINE x == Saved(t, task[t].collected)
    <3>1. x.pc = "saved" /\ x.deal = d /\ x.collected = task[t].collected
      BY DEF Saved, NoTask
    <3> HIDE DEF x
    <3> QED BY <1>1, <2>1, <3>1, OneMoves DEF x
  <2>3. /\ order'[d] = RowsAfter(t) /\ task[t].collected = deal_total(RowsAfter(t))
        /\ task[t].status = status[d]
    BY <1>1, <2>1 DEF UpToDate
  <2>4. \A e \in Deals : e # d => order'[e] = order[e] /\ status'[e] = status[e]
    BY <1>1, <2>1
  <2>5. UpToDate(t)'
    BY <2>2, <2>3 DEF UpToDate
  <2>6. ASSUME NEW t2 \in Tasks, t2 # t PROVE UpToDate(t2)'
    <3>1. CASE task[t2].pc \in {"idle", "waiting"}
      BY <2>2, <2>6, <3>1 DEF UpToDate
    <3>2. CASE task[t2].pc \notin {"idle", "waiting"}
      <4>1. task[t2].deal \in Deals /\ task[t2].deal # d
        BY <1>1, <2>1, <2>6, <3>2, OneWorker DEF Working, TypeOK, Task
      <4> QED BY <2>2, <2>4, <2>6, <4>1, StaysUpToDate DEF GoalInv
    <3> QED BY <3>1, <3>2
  <2>7. \A e \in Deals : status'[e] \in {"collecting", "goal_reached"}
    BY <1>1, <2>1 DEF GoalInv
  <2>8. deal_total(order'[d]) >= Pack[d] => status'[d] = "goal_reached"
    BY <1>1, <2>1, <2>3 DEF GoalInv, Marks, _maybe_mark_reached
  <2>9. GoalMarked'
    BY <2>4, <2>8 DEF GoalInv, GoalMarked
  <2> QED BY <2>5, <2>6, <2>7, <2>9 DEF GoalInv
<1> QED BY <1>3, <1>4, <1>5, <1>6, <1>7, <1>8, <1>9 DEF TaskStep

LEMMA GoalStep ==
    ASSUME Resets = {}
    PROVE  IInv /\ GoalInv /\ [Next]_vars => GoalInv'
<1> SUFFICES ASSUME IInv, GoalInv, [Next]_vars PROVE GoalInv'
  OBVIOUS
<1>1. ASSUME NEW t \in Tasks, NEW d \in Deals, NEW u \in Users, NEW op \in Ops,
             Press(t, d, u, op)
      PROVE  GoalInv'
  <2>1. /\ task'[t].pc = "waiting" /\ UNCHANGED <<order, status>>
        /\ \A t2 \in Tasks : t2 # t => task'[t2] = task[t2]
    BY <1>1 DEF Press, NoTask, IInv, TypeOK
  <2>2. UpToDate(t)'
    BY <2>1 DEF UpToDate
  <2> QED BY <2>1, <2>2, GoalKept
<1>2. CASE Crash
  BY <1>2 DEF Crash, GoalInv, GoalMarked, UpToDate, NoTask
<1>3. CASE UNCHANGED vars
  BY <1>3, StaysUpToDate DEF vars, GoalInv, GoalMarked
<1> QED BY <1>1, <1>2, <1>3, GoalTask DEF Next

LEMMA GoalInvariance ==
    ASSUME Resets = {}
    PROVE  Spec => [](IInv /\ GoalInv)
BY InitInv, StepInv, InitGoal, GoalStep, PTL DEF Spec

\* Between two resets a deal whose confirmed total has reached its pack is
\* marked (orders.py:149-155).
THEOREM FullDealsMarked ==
    ASSUME Resets = {}
    PROVE  Spec => []GoalMarked
<1>1. GoalInv => GoalMarked
  BY DEF GoalInv
<1> QED BY <1>1, GoalInvariance, PTL

\* Between two resets a deal is marked only when its confirmed total has reached
\* its pack, whatever other tasks do since the total was read.
THEOREM MarkedWhenFull ==
    ASSUME Resets = {}
    PROVE  Spec => GoalEntry
<1> DEFINE A == \A d \in Deals :
                   status[d] # "goal_reached" /\ status'[d] = "goal_reached"
                       => deal_total(order'[d]) >= Pack[d]
<1>1. IInv /\ GoalInv /\ [Next]_vars => A
  <2> SUFFICES ASSUME IInv, GoalInv, [Next]_vars, NEW d \in Deals,
                      status[d] # "goal_reached", status'[d] = "goal_reached"
               PROVE  deal_total(order'[d]) >= Pack[d]
    OBVIOUS
  <2>1. PICK t \in Tasks : CommitDraft(t)
    BY DEF Next, TaskStep, ResetStep, Press, OpenDeal, ReadPart, NothingToConfirm,
           DecWithoutDraft, WriteDraft, WriteFails, TaskVictim, Render, EditPost,
           EditFails, Crash, vars
  <2>2. /\ task[t].pc = "written" /\ UpToDate(t) /\ task[t].deal \in Deals
        /\ order' = [order EXCEPT ![task[t].deal] = RowsAfter(t)]
        /\ status' = IF Marks(t) THEN [status EXCEPT ![task[t].deal] = "goal_reached"]
                     ELSE status
        /\ DOMAIN status = Deals /\ DOMAIN order = Deals
    BY <2>1 DEF CommitDraft, GoalInv, IInv, TypeOK, Task
  <2>3. Marks(t) /\ d = task[t].deal
    BY <2>2
  <2>4. deal_total(order'[d]) = task[t].collected
    BY <2>2, <2>3 DEF UpToDate
  <2> QED BY <2>3, <2>4 DEF Marks, _maybe_mark_reached
<1>2. IInv /\ GoalInv /\ [Next]_vars => [A]_vars
  BY <1>1
<1> HIDE DEF A
<1>3. Spec => [][A]_vars
  BY <1>2, GoalInvariance, PTL DEF Spec
<1> QED BY <1>3 DEF GoalEntry, A

\* Between two resets a post that changes shows the order as it then is, though
\* the total and the drafts are read before the edit, in two statements.
THEOREM PostsTellTheOrder ==
    ASSUME Resets = {}
    PROVE  Spec => PostTellsOrder
<1> DEFINE A == \A d \in Deals : post'[d] # post[d] => post'[d] = Shown(d)
<1>1. IInv /\ GoalInv /\ [Next]_vars => A
  <2> SUFFICES ASSUME IInv, GoalInv, [Next]_vars, NEW d \in Deals,
                      post'[d] # post[d]
               PROVE  post'[d] = Shown(d)
    OBVIOUS
  <2>1. PICK t \in Tasks : EditPost(t)
    BY DEF Next, TaskStep, ResetStep, Press, OpenDeal, ReadPart, NothingToConfirm,
           DecWithoutDraft, WriteDraft, WriteFails, CommitDraft, TaskVictim, Render,
           EditFails, Crash, vars
  <2>2. /\ task[t].pc = "rendered" /\ UpToDate(t) /\ DOMAIN post = Deals
        /\ post' = [post EXCEPT ![task[t].deal] = task[t].text]
    BY <2>1 DEF EditPost, GoalInv, IInv, TypeOK
  <2>3. d = task[t].deal /\ post'[d] = task[t].text
    BY <2>2
  <2> QED BY <2>2, <2>3 DEF UpToDate
<1>2. IInv /\ GoalInv /\ [Next]_vars => [A]_vars
  BY <1>1
<1> HIDE DEF A
<1>3. Spec => [][A]_vars
  BY <1>2, GoalInvariance, PTL DEF Spec
<1> QED BY <1>3 DEF PostTellsOrder, A
=============================================================================
