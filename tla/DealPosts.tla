----------------------------- MODULE DealPosts ------------------------------
(***************************************************************************)
(* The posts of a house's deals and the tasks that work on them: one        *)
(* asyncio task per pressed button (on_callback in main.py, under the       *)
(* per-deal lock DEAL_LOCKS) and one per running reset (reset_house_order   *)
(* and _reset_order, which take no lock).  A task gives way to the others   *)
(* at every `await`; an action here is what it does between two awaits that *)
(* read or change something another task can see.                          *)
(*                                                                         *)
(* The database is PostgreSQL at READ COMMITTED: a SELECT sees the          *)
(* committed rows, a flushed INSERT, UPDATE or DELETE holds its row locks    *)
(* until the transaction ends.  A reset flushes the deletes of one deal     *)
(* when it queries the participants of the next, and commits after the last. *)
(***************************************************************************)
EXTENDS DealRows, Sequences, FiniteSets

CONSTANTS Tasks,   \* names for the button tasks that can run at one time
          Resets   \* names for the resets that can run at one time

ASSUME TransactionsAssumption == Tasks \cap Resets = {}

VARIABLES
    order,    \* committed participants: order[d][u], NoRow if there is none
    status,   \* committed deals.status
    post,     \* what the post of the deal in the chat shows
    queue,    \* DEAL_LOCKS[d]: its holder, then its waiters, first come first
    task,     \* the state of a button task
    reset     \* the state of a reset

vars == <<order, status, post, queue, task, reset>>
-----------------------------------------------------------------------------
\* The part of a post that changes: the total and who is still to confirm.
Text == [collected : Totals, pending : [Users -> 0..MaxQty]]

Blank == [collected |-> 0, pending |-> [u \in Users |-> 0]]

Ops == {"inc", "dec", "join"}

Task == [pc : {"idle", "waiting", "opened", "read", "written", "saved",
               "rendered"},
         deal : Deals, user : Users, op : Ops,
         status : DealStatus,     \* deal.status as the task loaded it
         part : Row,              \* the participant as the task loaded it
         collected : Totals,      \* what deal_total returned to the task
         text : Text]             \* the text it is about to show

NoTask == [pc |-> "idle", deal |-> CHOOSE d \in Deals : TRUE,
           user |-> CHOOSE u \in Users : TRUE, op |-> "inc",
           status |-> "collecting", part |-> NoRow, collected |-> 0,
           text |-> Blank]

Reset == [pc : {"idle", "select", "edit"},
          todo : SUBSET Deals,            \* deals whose rows are still to select
          read : [Deals -> DealStatus],   \* the statuses the reset loaded
          last : SUBSET Deals,            \* selected, its deletes not yet flushed
          flushed : SUBSET Deals,         \* deletes flushed: row locks are held
          gone : [Deals -> SUBSET Users], \* the rows it selected, still there
          edits : SUBSET Deals]           \* posts still to edit

NoReset == [pc |-> "idle", todo |-> {},
            read |-> [d \in Deals |-> "collecting"], last |-> {},
            flushed |-> {}, gone |-> [d \in Deals |-> {}], edits |-> {}]

TypeOK ==
    /\ order \in [Deals -> Rows]
    /\ status \in [Deals -> DealStatus]
    /\ post \in [Deals -> Text]
    /\ queue \in [Deals -> Seq(Tasks)]
    /\ task \in [Tasks -> Task]
    /\ reset \in [Resets -> Reset]

Init ==
    /\ order = [d \in Deals |-> Empty]
    /\ status = [d \in Deals |-> "collecting"]
    /\ post = [d \in Deals |-> Blank]
    /\ queue = [d \in Deals |-> <<>>]
    /\ task = [t \in Tasks |-> NoTask]
    /\ reset = [r \in Resets |-> NoReset]
-----------------------------------------------------------------------------
\* Row locks a reset holds: the deletes it has flushed, and the UPDATE of a
\* deal whose status it loaded as something else than "collecting".
RowLocked(r, d, u) == d \in reset[r].flushed /\ u \in reset[r].gone[d]
DealLocked(r, d)   == d \in reset[r].flushed /\ reset[r].read[d] # "collecting"

\* A row that leaves the table is no longer among the rows a reset selected:
\* a later row of the same resident has another id.
Forget(res, d, u) ==
    [r \in Resets |-> [res[r] EXCEPT !.gone[d] = @ \ {u}]]

\* The task ends: `async with lock` lets the next waiter in.
Finish(t) ==
    /\ queue' = [queue EXCEPT ![task[t].deal] = Tail(@)]
    /\ task' = [task EXCEPT ![t] = NoTask]

\* The draft is dealt with; what the task read for it is of no more use.
Saved(t, total) == [NoTask EXCEPT !.pc = "saved", !.deal = task[t].deal,
                                  !.user = task[t].user, !.collected = total]
-----------------------------------------------------------------------------
\* A resident presses a button of a post; the task queues for the deal's lock.
Press(t, d, u, op) ==
    /\ task[t].pc = "idle"
    /\ task' = [task EXCEPT ![t] = [NoTask EXCEPT !.pc = "waiting", !.deal = d,
                                                  !.user = u, !.op = op]]
    /\ queue' = [queue EXCEPT ![d] = Append(@, t)]
    /\ UNCHANGED <<order, status, post, reset>>

\* Mistake: the deal's lock is not taken.
OpenDeal_unlocked(t) ==
    LET d == task[t].deal IN
    /\ task[t].pc = "waiting"
    /\ status[d] \in OPEN_STATUSES
    /\ task' = [task EXCEPT ![t].pc = "opened", ![t].status = status[d]]
    /\ UNCHANGED <<order, status, post, queue, reset>>

\* It holds the lock and loads the deal.  (Nothing in the program closes a
\* deal, so the answer "this deal is closed" is never given.)
OpenDeal(t) ==
    LET d == task[t].deal IN
    /\ task[t].pc = "waiting"
    /\ Head(queue[d]) = t
    /\ status[d] \in OPEN_STATUSES
    /\ task' = [task EXCEPT ![t].pc = "opened", ![t].status = status[d]]
    /\ UNCHANGED <<order, status, post, queue, reset>>

\* It loads the participant row of its resident, if there is one.
ReadPart(t) ==
    /\ task[t].pc = "opened"
    /\ task' = [task EXCEPT ![t].pc = "read",
                            ![t].part = order[task[t].deal][task[t].user]]
    /\ UNCHANGED <<order, status, post, queue, reset>>

\* Mistake: the early return leaves the lock taken.
NothingToConfirm_keepsLock(t) ==
    /\ task[t].pc = "read" /\ task[t].op = "join"
    /\ task[t].part = NoRow \/ task[t].part.confirmed
    /\ UNCHANGED vars

\* confirm_draft with nothing to confirm: answer and return, post untouched.
NothingToConfirm(t) ==
    /\ task[t].pc = "read" /\ task[t].op = "join"
    /\ task[t].part = NoRow \/ task[t].part.confirmed
    /\ Finish(t)
    /\ UNCHANGED <<order, status, post, reset>>

\* update_draft taking from a draft that does not exist: no write, no commit.
DecWithoutDraft(t) ==
    LET d == task[t].deal IN
    /\ task[t].pc = "read" /\ task[t].op = "dec" /\ task[t].part = NoRow
    /\ task' = [task EXCEPT ![t] = Saved(t, deal_total(order[d]))]
    /\ UNCHANGED <<order, status, post, queue, reset>>

\* Whether the task has a row to write, and the quantity it writes.
Writes(t) ==
    \/ task[t].op = "inc"
    \/ task[t].op = "dec" /\ task[t].part # NoRow
    \/ task[t].op = "join" /\ task[t].part # NoRow /\ ~task[t].part.confirmed

NewQty(t) == next_quantity(task[t].part, task[t].op, Step[task[t].deal])

\* Its row as the columns it sets leave it: an INSERT or an UPDATE of the
\* quantity, an UPDATE of `confirmed`, or a DELETE (which may match nothing).
Written(t) ==
    LET now == order[task[t].deal][task[t].user] IN
    IF task[t].op = "join" THEN [now EXCEPT !.confirmed = TRUE]
    ELSE IF NewQty(t) = 0 THEN NoRow
    ELSE [now EXCEPT !.qty = NewQty(t)]

\* Mistake: nothing bounds the quantity.
Raises_unbounded(t) ==
    LET now == order[task[t].deal][task[t].user] IN
    (task[t].part = NoRow) # (now = NoRow) /\ (task[t].op = "join" \/ NewQty(t) # 0)

\* Mistake: a write to a row that is gone brings it back.
Raises_upsert(t) == task[t].op # "join" /\ NewQty(t) > MaxQty

\* An UPDATE of a row a reset has removed (StaleDataError), an INSERT beside a
\* row that is there (uq_participant_deal_user), a quantity too large for the
\* column: the flush raises.
Raises(t) ==
    LET now == order[task[t].deal][task[t].user] IN
    \/ (task[t].part = NoRow) # (now = NoRow)
          /\ (task[t].op = "join" \/ NewQty(t) # 0)
    \/ task[t].op # "join" /\ NewQty(t) > MaxQty

\* The rows of the deal as the task sees them once it has written.
RowsAfter(t) ==
    [order[task[t].deal] EXCEPT ![task[t].user] = Written(t)]

\* Mistake: the total is read before the row is written.
WriteDraft_oldTotal(t) ==
    /\ task[t].pc = "read" /\ Writes(t) /\ ~Raises(t)
    /\ \A r \in Resets : ~RowLocked(r, task[t].deal, task[t].user)
    /\ task' = [task EXCEPT ![t].pc = "written",
                            ![t].collected = deal_total(order[task[t].deal])]
    /\ UNCHANGED <<order, status, post, queue, reset>>

\* Mistake: the drafts count as collected.
WriteDraft_countsDrafts(t) ==
    /\ task[t].pc = "read" /\ Writes(t) /\ ~Raises(t)
    /\ \A r \in Resets : ~RowLocked(r, task[t].deal, task[t].user)
    /\ task' = [task EXCEPT ![t].pc = "written", ![t].collected =
                   SumFunction([u \in Users |-> RowsAfter(t)[u].qty])]
    /\ UNCHANGED <<order, status, post, queue, reset>>

\* update_draft and confirm_draft flush the row, which locks it, and total the
\* confirmed rows.  The statement waits for a row a reset has locked.
WriteDraft(t) ==
    /\ task[t].pc = "read" /\ Writes(t) /\ ~Raises(t)
    /\ \A r \in Resets : ~RowLocked(r, task[t].deal, task[t].user)
    /\ task' = [task EXCEPT ![t].pc = "written",
                            ![t].collected = deal_total(RowsAfter(t))]
    /\ UNCHANGED <<order, status, post, queue, reset>>

\* The flush raises: the session rolls back and the task ends.
WriteFails(t) ==
    /\ task[t].pc = "read" /\ Writes(t) /\ Raises(t)
    /\ \A r \in Resets : ~RowLocked(r, task[t].deal, task[t].user)
    /\ Finish(t)
    /\ UNCHANGED <<order, status, post, reset>>

Marks(t) ==
    _maybe_mark_reached(task[t].deal, task[t].status, task[t].collected)

\* They mark the deal if the total they read reaches its pack, and commit.
\* The UPDATE of the deal waits for a reset that is writing it.
CommitDraft(t) ==
    LET d == task[t].deal
        u == task[t].user IN
    /\ task[t].pc = "written"
    /\ Marks(t) => \A r \in Resets : ~DealLocked(r, d)
    /\ order' = [order EXCEPT ![d] = RowsAfter(t)]
    /\ status' = IF Marks(t) THEN [status EXCEPT ![d] = "goal_reached"]
                 ELSE status
    /\ reset' = IF Written(t) = NoRow THEN Forget(reset, d, u) ELSE reset
    /\ task' = [task EXCEPT ![t] = Saved(t, task[t].collected)]
    /\ UNCHANGED <<post, queue>>

\* Mistake: the post is composed from the drafts alone, with no new total.
Render_oldTotal(t) ==
    /\ task[t].pc = "saved"
    /\ task' = [task EXCEPT ![t].pc = "rendered", ![t].collected = 0,
                  ![t].text = [collected |-> post[task[t].deal].collected,
                               pending |-> deal_pending(order[task[t].deal])]]
    /\ UNCHANGED <<order, status, post, queue, reset>>

\* It reads the drafts and composes the post.
Render(t) ==
    /\ task[t].pc = "saved"
    /\ task' = [task EXCEPT ![t].pc = "rendered", ![t].collected = 0,
                  ![t].text = [collected |-> task[t].collected,
                               pending |-> deal_pending(order[task[t].deal])]]
    /\ UNCHANGED <<order, status, post, queue, reset>>

\* edit_deal_post, still under the lock; then the answer to the press.
EditPost(t) ==
    /\ task[t].pc = "rendered"
    /\ post' = [post EXCEPT ![task[t].deal] = task[t].text]
    /\ Finish(t)
    /\ UNCHANGED <<order, status, reset>>

\* Telegram refuses the edit, or the third retry is refused, or the request
\* fails: the post stays as it was and the task ends.
EditFails(t) ==
    /\ task[t].pc = "rendered"
    /\ Finish(t)
    /\ UNCHANGED <<order, status, post, reset>>
-----------------------------------------------------------------------------
\* reset_house_order begins: it loads the deals of the house.
StartReset(r) ==
    /\ reset[r].pc = "idle"
    /\ reset' = [reset EXCEPT ![r] = [NoReset EXCEPT !.pc = "select",
                                        !.todo = Deals, !.read = status]]
    /\ UNCHANGED <<order, status, post, queue, task>>

\* The flush of reset r must wait: for rows and deals another reset has
\* locked, or for the row of a button task that has not committed yet.
BlockedByReset(r, r2) ==
    \E d \in reset[r].last :
        \/ \E u \in reset[r].gone[d] : RowLocked(r2, d, u)
        \/ reset[r].read[d] # "collecting" /\ DealLocked(r2, d)

BlockedByTask(r, t) ==
    /\ task[t].pc = "written"
    /\ task[t].deal \in reset[r].last
    /\ task[t].user \in reset[r].gone[task[t].deal]

CanFlush(r) == /\ \A r2 \in Resets \ {r} : ~BlockedByReset(r, r2)
               /\ \A t \in Tasks : ~BlockedByTask(r, t)

\* It selects the participants of one more deal; the query first flushes the
\* deletes, and the status, of the deal before it.
SelectParts(r, d) ==
    /\ reset[r].pc = "select" /\ d \in reset[r].todo
    /\ CanFlush(r)
    /\ reset' = [reset EXCEPT
                    ![r].todo = @ \ {d},
                    ![r].flushed = @ \cup reset[r].last,
                    ![r].last = {d},
                    ![r].gone[d] = {u \in Users : order[d][u] # NoRow}]
    /\ UNCHANGED <<order, status, post, queue, task>>

\* It commits: the rows it selected are gone, and every deal it loaded with
\* another status is collecting.  A deal it loaded as "collecting" is not
\* written: assigning the value an attribute already has changes nothing.
CommitReset(r) ==
    LET gone == reset[r].gone IN
    /\ reset[r].pc = "select" /\ reset[r].todo = {}
    /\ CanFlush(r)
    /\ order' = [d \in Deals |-> [u \in Users |->
                    IF u \in gone[d] THEN NoRow ELSE order[d][u]]]
    /\ status' = [d \in Deals |->
                    IF reset[r].read[d] # "collecting" THEN "collecting"
                    ELSE status[d]]
    /\ reset' = [r2 \in Resets |->
                    IF r2 = r
                    THEN [NoReset EXCEPT !.pc = "edit", !.edits = Deals]
                    ELSE [reset[r2] EXCEPT !.gone =
                            [d \in Deals |-> reset[r2].gone[d] \ gone[d]]]]
    /\ UNCHANGED <<post, queue, task>>

\* Mistake: the reset does not end when its last post is edited.
ResetEdit_neverEnds(r, d) ==
    /\ reset[r].pc = "edit" /\ d \in reset[r].edits
    /\ post' \in {post, [post EXCEPT ![d] = Blank]}
    /\ reset' = [reset EXCEPT ![r].edits = @ \ {d}]
    /\ UNCHANGED <<order, status, queue, task>>

\* _reset_order edits the posts one after the other, outside the deal locks:
\* nothing collected, nobody waiting.  A failed edit is counted and passed.
ResetEdit(r, d) ==
    /\ reset[r].pc = "edit" /\ d \in reset[r].edits
    /\ post' \in {post, [post EXCEPT ![d] = Blank]}
    /\ reset' = [reset EXCEPT ![r] = IF reset[r].edits = {d} THEN NoReset
                                     ELSE [reset[r] EXCEPT !.edits = @ \ {d}]]
    /\ UNCHANGED <<order, status, queue, task>>
-----------------------------------------------------------------------------
\* Which transaction waits for which.  A flush writes the deal before it
\* deletes the rows, so a reset that waits for a row of its deal may already
\* hold the deal itself.
WaitsFor(x, y) ==
    \/ /\ x \in Tasks /\ y \in Resets
       /\ task[x].pc = "written" /\ Marks(x)
       /\ \/ DealLocked(y, task[x].deal)
          \/ BlockedByTask(y, x) /\ reset[y].read[task[x].deal] # "collecting"
    \/ x \in Resets /\ y \in Tasks  /\ BlockedByTask(x, y)
    \/ x \in Resets /\ y \in Resets /\ x # y /\ BlockedByReset(x, y)

Stuck(S) == S # {} /\ \A x \in S : \E y \in S : WaitsFor(x, y)

\* PostgreSQL breaks a cycle of waiting transactions: it rolls back one.
InCycle(x) == \E S \in SUBSET (Tasks \cup Resets) :
                  x \in S /\ Stuck(S) /\ ~Stuck(S \ {x})

TaskVictim(t) ==
    /\ task[t].pc = "written" /\ InCycle(t)
    /\ Finish(t)
    /\ UNCHANGED <<order, status, post, reset>>

ResetVictim(r) ==
    /\ reset[r].pc = "select" /\ InCycle(r)
    /\ reset' = [reset EXCEPT ![r] = NoReset]
    /\ UNCHANGED <<order, status, post, queue, task>>
-----------------------------------------------------------------------------
\* The process stops and starts again: tasks, resets and locks are gone, the
\* open transactions are rolled back, pending updates are dropped.
Crash ==
    /\ queue' = [d \in Deals |-> <<>>]
    /\ task' = [t \in Tasks |-> NoTask]
    /\ reset' = [r \in Resets |-> NoReset]
    /\ UNCHANGED <<order, status, post>>

TaskStep(t) == \/ OpenDeal(t) \/ ReadPart(t) \/ NothingToConfirm(t)
               \/ DecWithoutDraft(t) \/ WriteDraft(t) \/ WriteFails(t)
               \/ CommitDraft(t) \/ TaskVictim(t)
               \/ Render(t) \/ EditPost(t) \/ EditFails(t)

ResetStep(r) == \/ \E d \in Deals : SelectParts(r, d) \/ ResetEdit(r, d)
                \/ CommitReset(r) \/ ResetVictim(r)

Next == \/ \E t \in Tasks : \/ \E d \in Deals, u \in Users, op \in Ops :
                                  Press(t, d, u, op)
                            \/ TaskStep(t)
        \/ \E r \in Resets : StartReset(r) \/ ResetStep(r)
        \/ Crash

Spec == Init /\ [][Next]_vars

\* The event loop runs every task that can go on; the database serves the
\* statements that wait for a lock in turn, and the database and Telegram
\* answer every request or fail it.  Nobody has to press or to reset.
FairSpec == Spec /\ \A t \in Tasks : SF_vars(TaskStep(t))
                 /\ \A r \in Resets : SF_vars(ResetStep(r))
-----------------------------------------------------------------------------
(* PROPERTIES                                                              *)

\* The tasks that work on deal d, holding or waiting for its lock.
At(d) == {t \in Tasks : task[t].pc # "idle" /\ task[t].deal = d}

Working(t) == task[t].pc \notin {"idle", "waiting"}

\* async with lock (main.py:809-810): the queue of a deal is exactly its
\* tasks, once each, and only its head works.
LockDiscipline ==
    \A d \in Deals :
        /\ Range(queue[d]) = At(d)
        /\ IsInjective(queue[d])
        /\ \A t \in At(d) : Working(t) => t = Head(queue[d])

\* No lost update (orders.py:75-146): between the SELECT of a participant row
\* and the commit that writes it, nobody else changes that row, except that a
\* reset may delete it before it is flushed; once flushed not even a reset.
NoLostUpdate ==
    \A t \in Tasks :
        LET now == order[task[t].deal][task[t].user] IN
        /\ task[t].pc = "read" => now \in {task[t].part, NoRow}
        /\ task[t].pc = "written" => \/ now = task[t].part
                                     \/ now = NoRow /\ Written(t) = NoRow

\* What one press promises, without tasks and locks (OrderBook).
OB == INSTANCE OrderBook WITH order <- order, status <- status

\* Every commit of a button task is one press computed from the row as it is
\* at the commit; every commit of a reset takes rows away and adds none.
OneStepPresses == OB!Spec

\* A deal is marked goal_reached only when its confirmed total has reached the
\* pack (orders.py:149-155), whatever other tasks do in between.
GoalEntry ==
    [][\A d \in Deals : status[d] # "goal_reached" /\ status'[d] = "goal_reached"
                            => deal_total(order'[d]) >= Pack[d]]_vars

\* A deal whose confirmed total has reached its pack is marked.
GoalMarked ==
    \A d \in Deals : deal_total(order[d]) >= Pack[d] => status[d] = "goal_reached"

\* The text of deal d as its committed rows give it.
Shown(d) == [collected |-> deal_total(order[d]), pending |-> deal_pending(order[d])]

\* "The post always shows what is collected and who waits" (README.md:27):
\* whenever a post changes, it changes to the rows as they then are.
PostTellsOrder ==
    [][\A d \in Deals : post'[d] # post[d] => post'[d] = Shown(d)]_vars

\* Every press is answered: a task that queues for the lock of its deal gets
\* through and ends, however many others press and reset, and whatever fails or
\* is rolled back (main.py:809-864).
PressAnswered == \A t \in Tasks : []<>(task[t].pc = "idle")

\* Every reset comes to its end, or is rolled back, whatever rows it waits for
\* (main.py:211-243, 616-636).
ResetEnds == \A r \in Resets : []<>(reset[r].pc = "idle")
-----------------------------------------------------------------------------
(* DISAGREEMENTS: what the documents say and the code does not do.  No run  *)
(* checks these; README.md says in which instance TLC shows each to fail.   *)

\* A reset "returns the deals to the state collecting" (main.py:211-213).
ResetReturnsDeals ==
    [][\A r \in Resets : CommitReset(r) =>
           \A d \in Deals : status'[d] = "collecting"]_vars

\* "Does not add to the order: that happens only after Confirm"
\* (orders.py:82): + and - never change what a deal has collected.
DraftOutsideOrder ==
    [][\A t \in Tasks : CommitDraft(t) /\ task[t].op # "join" =>
           deal_total(order'[task[t].deal]) = deal_total(order[task[t].deal])]_vars

\* The same of the posts a reset edits after its commit (main.py:620-635).
ResetShowsOrder ==
    [][\A r \in Resets, d \in Deals :
          ResetEdit(r, d) /\ post'[d] # post[d] => post'[d] = Shown(d)]_vars

\* "The post always shows" what the rows say (README.md:27), once nobody works
\* on the deal.
PostAlwaysTells ==
    \A d \in Deals : queue[d] = <<>> /\ (\A r \in Resets : reset[r].pc = "idle")
                        => post[d] = Shown(d)
=============================================================================
