------------------------ MODULE HouseCheckoutProofs -------------------------
(***************************************************************************)
(* Proofs about HouseCheckout, for every number of handlers, deals, orders  *)
(* and statuses.                                                            *)
(*                                                                         *)
(* The argument: the house's row never goes back to "no order", so a status *)
(* a handler has loaded is still a reason for the row to have one when the  *)
(* handler writes (or, because nothing differs, does not write); and every  *)
(* message id a handler holds is that of a message in the manager's chat.   *)
(***************************************************************************)
EXTENDS HouseCheckout, TLAPS, SequenceTheorems

\* A row g of the house fits a manager's chat of n messages.
RowFits(g, n) ==
    /\ g.manager_message_id \in 0..n
    /\ g.manager_message_id = NoOrder <=> g.order_status = "none"

\* A handler x fits the row and the chat.
HandlerFits(x, g, n) ==
    /\ x \in Task
    /\ x.msg \in 0..n
    /\ x.seen.order_status # "none" => g.order_status # "none"
    /\ x.pc \in {"click", "label"} => x.msg # NoOrder
    /\ x.pc \in {"click", "label"} => g.manager_message_id # NoOrder
    /\ x.pc \in {"click", "label"} => x.new \in Clicks

IInv == /\ TypeOK
        /\ RowFits(group, Len(sent))
        /\ \A t \in Tasks : HandlerFits(task[t], group, Len(sent))
-----------------------------------------------------------------------------
LEMMA NewTypes == NewGroup \in Group /\ NoTask \in Task
BY MaxOrdersAssumption
   DEF NewGroup, NoTask, Group, Task, NoOrder, ORDER_STATUS_LABELS

\* The places of the chat, in a state of the invariant.
LEMMA Chat ==
    ASSUME TypeOK
    PROVE  /\ sent \in Seq(Message) /\ Len(sent) \in Nat /\ Len(sent) <= MaxOrders
           /\ DOMAIN sent = 1..Len(sent)
           /\ MaxOrders \in Nat
BY MaxOrdersAssumption, LenProperties DEF TypeOK

\* A handler stays fit when the row keeps its order and the chat its messages.
LEMMA StaysFit ==
    ASSUME NEW x, NEW g, NEW n \in Nat, NEW g2, NEW n2 \in Nat, n <= n2,
           HandlerFits(x, g, n),
           g.order_status # "none" => g2.order_status # "none",
           g.manager_message_id # NoOrder => g2.manager_message_id # NoOrder
    PROVE  HandlerFits(x, g2, n2)
BY DEF HandlerFits

\* A step of one handler: what has to be shown of it.
LEMMA HandlerStep ==
    ASSUME IInv, NEW t \in Tasks, NEW x,
           task' = [task EXCEPT ![t] = x],
           draft' \subseteq Deals,
           order' \subseteq Deals \ draft',
           group' \in Group,
           sent' \in Seq(Message), Len(sent') <= MaxOrders, Len(sent) <= Len(sent'),
           RowFits(group', Len(sent')),
           group.order_status # "none" => group'.order_status # "none",
           group.manager_message_id # NoOrder => group'.manager_message_id # NoOrder,
           HandlerFits(x, group', Len(sent'))
    PROVE  IInv'
<1>1. Len(sent) \in Nat /\ Len(sent') \in Nat
  BY Chat, LenProperties DEF IInv
<1>2. \A t2 \in Tasks : HandlerFits(task'[t2], group', Len(sent'))
  <2> SUFFICES ASSUME NEW t2 \in Tasks
               PROVE  HandlerFits(task'[t2], group', Len(sent'))
    OBVIOUS
  <2>1. task'[t2] = IF t2 = t THEN x ELSE task[t2]
    BY DEF IInv, TypeOK
  <2>2. HandlerFits(task[t2], group', Len(sent'))
    BY <1>1, StaysFit DEF IInv
  <2> QED BY <2>1, <2>2
<1>3. x \in Task
  BY DEF HandlerFits
<1>4. TypeOK'
  BY <1>3 DEF IInv, TypeOK
<1> QED BY <1>2, <1>4 DEF IInv

\* A step of one handler that only changes its own state.
LEMMA LocalStep ==
    ASSUME IInv, NEW t \in Tasks, NEW x,
           task' = [task EXCEPT ![t] = x],
           UNCHANGED <<rows, group, sent>>,
           HandlerFits(x, group, Len(sent))
    PROVE  IInv'
<1>1. /\ draft' \subseteq Deals /\ order' \subseteq Deals \ draft'
      /\ group \in Group /\ RowFits(group, Len(sent))
  BY DEF IInv, TypeOK, rows
<1>2. sent \in Seq(Message) /\ Len(sent) <= MaxOrders /\ Len(sent) <= Len(sent)
  BY Chat DEF IInv
<1> QED BY <1>1, <1>2, HandlerStep

\* A handler that ends leaves a name that fits.
LEMMA NoTaskFits ==
    ASSUME NEW g, NEW n \in Nat
    PROVE  HandlerFits(NoTask, g, n)
<1>1. /\ NoTask.pc = "idle" /\ NoTask.msg = 0 /\ NoTask.seen.order_status = "none"
  BY DEF NoTask, NewGroup, NoOrder
<1> QED BY <1>1, NewTypes DEF HandlerFits, NoOrder

\* What a handler loads of the row is a row, and its status is the row's.
LEMMA Loaded ==
    ASSUME TypeOK, NEW attrs
    PROVE  LET seen == [a \in DOMAIN group |-> IF a \in attrs THEN group[a]
                                               ELSE NewGroup[a]] IN
           /\ seen \in Group
           /\ seen.order_status # "none" => group.order_status # "none"
<1> DEFINE seen == [a \in DOMAIN group |-> IF a \in attrs THEN group[a]
                                           ELSE NewGroup[a]]
<1>1. group \in Group /\ NewGroup \in Group
  BY NewTypes DEF TypeOK
<1>2. DOMAIN group = {"checkout_pending", "delivery_info", "manager_message_id",
                      "order_status"}
  BY <1>1 DEF Group
<1>3. seen = [checkout_pending |-> seen.checkout_pending,
              delivery_info |-> seen.delivery_info,
              manager_message_id |-> seen.manager_message_id,
              order_status |-> seen.order_status]
  BY <1>2
<1>4. /\ seen.checkout_pending \in {group.checkout_pending, NewGroup.checkout_pending}
      /\ seen.delivery_info \in {group.delivery_info, NewGroup.delivery_info}
      /\ seen.manager_message_id \in
            {group.manager_message_id, NewGroup.manager_message_id}
      /\ seen.order_status \in {group.order_status, NewGroup.order_status}
  BY <1>2
<1>5. NewGroup.order_status = "none"
  BY DEF NewGroup
<1>6. seen \in Group
  <2>1. /\ seen.checkout_pending \in BOOLEAN
        /\ seen.delivery_info \in Infos \cup {"none"}
    BY <1>1, <1>4 DEF Group
  <2>2. /\ seen.manager_message_id \in NoOrder..MaxOrders
        /\ seen.order_status \in ORDER_STATUS_LABELS \cup {"none"}
    BY <1>1, <1>4 DEF Group
  <2> HIDE DEF seen
  <2> QED BY <1>3, <2>1, <2>2 DEF Group
<1> QED BY <1>4, <1>5, <1>6

\* A handler that begins.
LEMMA BeginFits ==
    ASSUME IInv, NEW t \in Tasks, NEW attrs, NEW pc \in {"text", "reset", "asked", "thinking"},
           Begin(t, pc, attrs), UNCHANGED <<rows, group, sent>>
    PROVE  IInv'
<1> DEFINE seen == [a \in DOMAIN group |-> IF a \in attrs THEN group[a]
                                           ELSE NewGroup[a]]
           x == [NoTask EXCEPT !.pc = pc, !.seen = seen]
<1>1. seen \in Group /\ (seen.order_status # "none" => group.order_status # "none")
  BY Loaded DEF IInv
<1>2. task' = [task EXCEPT ![t] = x]
  BY DEF Begin
<1> HIDE DEF seen
<1>3. x \in Task /\ x.pc = pc /\ x.seen = seen /\ x.msg = 0
  BY <1>1, NewTypes DEF Task, NoTask, NoOrder
<1>4. HandlerFits(x, group, Len(sent))
  BY <1>1, <1>3, Chat DEF HandlerFits, IInv
<1> HIDE DEF x
<1> QED BY <1>2, <1>4, LocalStep
-----------------------------------------------------------------------------
\* The actions.  A new state of a handler that keeps what it has loaded and
\* which message it holds fits as the old one did.
LEMMA Onward ==
    ASSUME NEW x, NEW g, NEW n \in Nat, HandlerFits(x, g, n),
           NEW y \in Task,
           y.msg = x.msg, y.seen.order_status = x.seen.order_status,
           y.pc \notin {"click", "label"}
    PROVE  HandlerFits(y, g, n)
BY DEF HandlerFits

\* Reading: the order of the house, and the rows to delete.
LEMMA Reads ==
    ASSUME IInv, NEW t \in Tasks,
           \/ SeeOrder(t) \/ SelectRows(t)
           \/ \E d \in Deals : ReadDeal(t, d)
           \/ SendFails(t)
    PROVE  IInv'
<1> USE Chat DEF IInv
<1>1. /\ task[t] \in Task /\ HandlerFits(task[t], group, Len(sent))
      /\ draft \subseteq Deals /\ order \subseteq Deals
  BY DEF TypeOK
<1>2. CASE SeeOrder(t)
  <2> DEFINE x == [task[t] EXCEPT !.pc = "opening"]
  <2>1. task' = [task EXCEPT ![t] = x] /\ UNCHANGED <<rows, group, sent>>
    BY <1>2 DEF SeeOrder
  <2>2. x \in Task /\ x.msg = task[t].msg /\ x.seen = task[t].seen /\ x.pc = "opening"
    BY <1>1 DEF Task
  <2>3. HandlerFits(x, group, Len(sent))
    BY <1>1, <2>2, Onward
  <2> HIDE DEF x
  <2> QED BY <2>1, <2>3, LocalStep
<1>3. CASE SelectRows(t)
  <2> DEFINE x == [task[t] EXCEPT !.pc = "selected", !.items = draft \cup order]
  <2>1. task' = [task EXCEPT ![t] = x] /\ UNCHANGED <<rows, group, sent>>
    BY <1>3 DEF SelectRows
  <2>2. x \in Task /\ x.msg = task[t].msg /\ x.seen = task[t].seen /\ x.pc = "selected"
    BY <1>1 DEF Task
  <2>3. HandlerFits(x, group, Len(sent))
    BY <1>1, <2>2, Onward
  <2> HIDE DEF x
  <2> QED BY <2>1, <2>3, LocalStep
<1>4. ASSUME NEW d \in Deals, ReadDeal(t, d) PROVE IInv'
  <2> DEFINE x == [task[t] EXCEPT !.todo = @ \ {d}, !.items = @ \cup (order \cap {d})]
  <2>1. /\ task' = [task EXCEPT ![t] = x] /\ UNCHANGED <<rows, group, sent>>
        /\ task[t].pc = "summary"
    BY <1>4 DEF ReadDeal
  <2>2. x \in Task /\ x.msg = task[t].msg /\ x.seen = task[t].seen /\ x.pc = task[t].pc
    BY <1>1 DEF Task
  <2>3. HandlerFits(x, group, Len(sent))
    BY <1>1, <2>1, <2>2, Onward
  <2> HIDE DEF x
  <2> QED BY <2>1, <2>3, LocalStep
<1>5. CASE SendFails(t)
  <2> DEFINE x == [task[t] EXCEPT !.pc = "failed"]
  <2>1. task' = [task EXCEPT ![t] = x] /\ UNCHANGED <<rows, group, sent>>
    BY <1>5 DEF SendFails
  <2>2. x \in Task /\ x.msg = task[t].msg /\ x.seen = task[t].seen /\ x.pc = "failed"
    BY <1>1 DEF Task
  <2>3. HandlerFits(x, group, Len(sent))
    BY <1>1, <2>2, Onward
  <2> HIDE DEF x
  <2> QED BY <2>1, <2>3, LocalStep
<1> QED BY <1>2, <1>3, <1>4, <1>5

\* A handler that ends without a change.
LEMMA Ends ==
    ASSUME IInv, NEW t \in Tasks,
           RefuseCheckout(t) \/ IgnoreText(t) \/ ThanksFail(t) \/ EditLabelFails(t)
    PROVE  IInv'
<1>1. task' = [task EXCEPT ![t] = NoTask] /\ UNCHANGED <<rows, group, sent>>
  BY DEF RefuseCheckout, IgnoreText, ThanksFail, EditLabelFails, End
<1>2. HandlerFits(NoTask, group, Len(sent))
  BY NoTaskFits, Chat DEF IInv
<1> QED BY <1>1, <1>2, LocalStep

\* A commit that leaves the order of the house as it is.
LEMMA OrderKept ==
    ASSUME IInv, NEW t \in Tasks, NEW x,
           task' = [task EXCEPT ![t] = x], UNCHANGED <<rows, sent>>,
           group' \in Group,
           group'.manager_message_id = group.manager_message_id,
           group'.order_status = group.order_status,
           HandlerFits(x, group', Len(sent))
    PROVE  IInv'
<1>1. /\ draft' \subseteq Deals /\ order' \subseteq Deals \ draft'
      /\ RowFits(group', Len(sent))
  BY DEF IInv, TypeOK, RowFits, rows
<1>2. sent \in Seq(Message) /\ Len(sent) <= MaxOrders /\ Len(sent) <= Len(sent)
  BY Chat DEF IInv
<1> QED BY <1>1, <1>2, HandlerStep

\* An administrator opens the checkout, a resident closes it.
LEMMA Opens ==
    ASSUME IInv, NEW t \in Tasks, OpenCheckout(t) \/ CloseCheckout(t)
    PROVE  IInv'
<1>1. group \in Group
  BY DEF IInv, TypeOK
<1>2. task' = [task EXCEPT ![t] = NoTask] /\ UNCHANGED <<rows, sent>>
  BY DEF OpenCheckout, CloseCheckout, End
<1>3. \E b \in BOOLEAN : group' = [group EXCEPT !.checkout_pending = b]
  <2>1. Put(group.checkout_pending, task[t].seen.checkout_pending, TRUE) \in BOOLEAN
    BY <1>1 DEF Put, Group
  <2>2. Put(group.checkout_pending, task[t].seen.checkout_pending, FALSE) \in BOOLEAN
    BY <1>1 DEF Put, Group
  <2> QED BY <2>1, <2>2 DEF OpenCheckout, CloseCheckout
<1>4. /\ group' \in Group
      /\ group'.manager_message_id = group.manager_message_id
      /\ group'.order_status = group.order_status
  BY <1>1, <1>3 DEF Group
<1>5. HandlerFits(NoTask, group', Len(sent))
  BY NoTaskFits, Chat DEF IInv
<1> QED BY <1>2, <1>4, <1>5, OrderKept

\* The delivery data are stored.
LEMMA Accepts ==
    ASSUME IInv, NEW t \in Tasks, NEW info \in Infos, AcceptText(t, info)
    PROVE  IInv'
<1> DEFINE closed == [task[t].seen EXCEPT !.delivery_info = info,
                                          !.checkout_pending = FALSE]
           stored == Put(group.delivery_info, task[t].seen.delivery_info, info)
           x == [task[t] EXCEPT !.pc = "summary", !.seen = closed, !.todo = Deals]
<1>1. group \in Group /\ task[t] \in Task /\ HandlerFits(task[t], group, Len(sent))
  BY DEF IInv, TypeOK
<1>2. task[t].seen \in Group
  BY <1>1 DEF Task
<1>3. closed \in Group /\ closed.order_status = task[t].seen.order_status
  BY <1>2 DEF Group
<1>4. /\ task' = [task EXCEPT ![t] = x] /\ UNCHANGED <<rows, sent>>
      /\ group' = [group EXCEPT !.delivery_info = stored, !.checkout_pending = FALSE]
  BY DEF AcceptText
<1>8. stored \in Infos \cup {"none"}
  BY <1>1 DEF Put, Group
<1> HIDE DEF stored
<1>5. /\ group' \in Group
      /\ group'.manager_message_id = group.manager_message_id
      /\ group'.order_status = group.order_status
  BY <1>1, <1>4, <1>8 DEF Group
<1> HIDE DEF closed
<1>6. x \in Task /\ x.msg = task[t].msg /\ x.seen = closed /\ x.pc = "summary"
  BY <1>1, <1>3 DEF Task
<1>7. HandlerFits(x, group', Len(sent))
  BY <1>1, <1>3, <1>5, <1>6 DEF HandlerFits
<1> HIDE DEF x
<1> QED BY <1>4, <1>5, <1>7, OrderKept

\* The message to the manager.
LEMMA Sends ==
    ASSUME IInv, NEW t \in Tasks, Send(t)
    PROVE  IInv'
<1> DEFINE n == Len(sent)
           m == [items |-> task[t].items, label |-> "pending"]
<1>1. /\ group \in Group /\ task[t] \in Task /\ HandlerFits(task[t], group, n)
      /\ draft \subseteq Deals /\ order \subseteq Deals \ draft /\ RowFits(group, n)
  BY DEF IInv, TypeOK
<1>2. /\ sent \in Seq(Message) /\ n \in Nat /\ MaxOrders \in Nat
      /\ n < MaxOrders
  BY Chat DEF Send, IInv
<1>3. m \in Message
  BY <1>1 DEF Message, Task, ORDER_STATUS_LABELS
<1>4. sent' = Append(sent, m) /\ UNCHANGED <<rows, group>>
  BY DEF Send
<1> HIDE DEF m
<1>5. sent' \in Seq(Message) /\ Len(sent') = n + 1
  BY <1>2, <1>3, <1>4, AppendProperties
<1>6. RowFits(group, n + 1) /\ HandlerFits(task[t], group, n + 1)
  BY <1>1, <1>2 DEF RowFits, HandlerFits, NoOrder
<1>7. PICK pc \in {"reset", "failed"}, msg \in {NoOrder, n + 1} :
         task' = [task EXCEPT ![t].pc = pc, ![t].msg = msg]
  BY DEF Send
<1> DEFINE x == [task[t] EXCEPT !.pc = pc, !.msg = msg]
<1>8. task' = [task EXCEPT ![t] = x]
  BY <1>7
<1>9. msg \in 0..n + 1 /\ msg \in 0..MaxOrders
  BY <1>2, MaxOrdersAssumption DEF NoOrder
<1>10. x \in Task /\ x.msg = msg /\ x.seen = task[t].seen /\ x.pc = pc
  BY <1>1, <1>9 DEF Task, NoOrder
<1>11. HandlerFits(x, group, n + 1)
  <2> HIDE DEF x
  <2> QED BY <1>2, <1>6, <1>9, <1>10 DEF HandlerFits
<1> HIDE DEF x
<1>12. Len(sent) <= Len(sent') /\ Len(sent') <= MaxOrders
  BY <1>2, <1>5
<1>13. draft' \subseteq Deals /\ order' \subseteq Deals \ draft'
  BY <1>1, <1>4 DEF rows
<1> HIDE DEF n
<1> QED BY <1>1, <1>4, <1>5, <1>6, <1>8, <1>11, <1>12, <1>13, HandlerStep

\* The id of a message that a commit writes comes with a status.
LEMMA AdoptedFits ==
    ASSUME IInv, NEW t \in Tasks
    PROVE  /\ Adopted(t) \in Group /\ RowFits(Adopted(t), Len(sent))
           /\ group.order_status # "none" => Adopted(t).order_status # "none"
           /\ group.manager_message_id # NoOrder
                 => Adopted(t).manager_message_id # NoOrder
<1> DEFINE st == Put(group.order_status, task[t].seen.order_status, "pending")
<1>1. /\ group \in Group /\ task[t] \in Task /\ RowFits(group, Len(sent))
      /\ HandlerFits(task[t], group, Len(sent))
  BY DEF IInv, TypeOK
<1>2. CASE task[t].msg = NoOrder
  BY <1>1, <1>2 DEF Adopted
<1>3. CASE task[t].msg # NoOrder
  <2>1. Adopted(t) = [group EXCEPT !.manager_message_id = task[t].msg,
                                   !.order_status = st]
    BY <1>3 DEF Adopted
  <2>2. st \in ORDER_STATUS_LABELS \cup {"none"} /\ st # "none"
    BY <1>1 DEF Put, Group, HandlerFits, ORDER_STATUS_LABELS
  <2>3. task[t].msg \in NoOrder..MaxOrders /\ task[t].msg \in 0..Len(sent)
    BY <1>1 DEF Task, HandlerFits
  <2> HIDE DEF st
  <2>4. /\ Adopted(t) \in Group /\ Adopted(t).manager_message_id = task[t].msg
        /\ Adopted(t).order_status = st
    BY <1>1, <2>1, <2>2, <2>3 DEF Group
  <2> QED BY <1>1, <1>3, <2>2, <2>3, <2>4 DEF RowFits
<1> QED BY <1>2, <1>3

\* A handler that ends with a commit of the message it sent, if any, and of a
\* flag and delivery data.
LEMMA CommitsMessage ==
    ASSUME IInv, NEW t \in Tasks,
           NEW open \in BOOLEAN, NEW info \in Infos \cup {"none"},
           group' = [Adopted(t) EXCEPT !.checkout_pending = open,
                                       !.delivery_info = info],
           End(t), sent' = sent,
           draft' \subseteq Deals, order' \subseteq Deals \ draft'
    PROVE  IInv'
<1>1. /\ Adopted(t) \in Group /\ RowFits(Adopted(t), Len(sent))
      /\ group.order_status # "none" => Adopted(t).order_status # "none"
      /\ group.manager_message_id # NoOrder
            => Adopted(t).manager_message_id # NoOrder
  BY AdoptedFits
<1>2. /\ group' \in Group
      /\ group'.manager_message_id = Adopted(t).manager_message_id
      /\ group'.order_status = Adopted(t).order_status
  BY <1>1 DEF Group
<1>3. RowFits(group', Len(sent))
  BY <1>1, <1>2 DEF RowFits
<1>4. /\ sent' \in Seq(Message) /\ Len(sent') = Len(sent)
      /\ Len(sent') <= MaxOrders /\ Len(sent) <= Len(sent')
  BY Chat DEF IInv
<1>5. HandlerFits(NoTask, group', Len(sent'))
  BY <1>4, NoTaskFits, Chat DEF IInv
<1>6. task' = [task EXCEPT ![t] = NoTask]
  BY DEF End
<1> QED BY <1>1, <1>2, <1>3, <1>4, <1>5, <1>6, HandlerStep

\* The delivery failed, as far as the handler knows.
LEMMA Reopens ==
    ASSUME IInv, NEW t \in Tasks, Reopen(t)
    PROVE  IInv'
<1>1. Adopted(t) \in Group
  BY AdoptedFits
<1>2. group' = [Adopted(t) EXCEPT !.checkout_pending = TRUE,
                                  !.delivery_info = Adopted(t).delivery_info]
  BY <1>1 DEF Reopen, Group
<1>3. Adopted(t).delivery_info \in Infos \cup {"none"}
  BY <1>1 DEF Group
<1>4. /\ End(t) /\ sent' = sent
      /\ draft' \subseteq Deals /\ order' \subseteq Deals \ draft'
  BY DEF Reopen, rows, IInv, TypeOK
<1> QED BY <1>2, <1>3, <1>4, CommitsMessage

\* The reset commits: a row that gets the id of a message gets a status too.
LEMMA Resets ==
    ASSUME IInv, NEW t \in Tasks, CommitReset(t)
    PROVE  IInv'
<1> DEFINE open == Put(Adopted(t).checkout_pending,
                       task[t].seen.checkout_pending, FALSE)
           info == Put(Adopted(t).delivery_info, task[t].seen.delivery_info, "none")
<1>1. Adopted(t) \in Group
  BY AdoptedFits
<1>2. open \in BOOLEAN /\ info \in Infos \cup {"none"}
  BY <1>1 DEF Put, Group
<1>3. group' = [Adopted(t) EXCEPT !.checkout_pending = open,
                                  !.delivery_info = info]
  BY DEF CommitReset, Cleared
<1> HIDE DEF open, info
<1>4. /\ End(t) /\ sent' = sent
      /\ draft' \subseteq Deals /\ order' \subseteq Deals \ draft'
  BY DEF CommitReset, IInv, TypeOK
<1> QED BY <1>2, <1>3, <1>4, CommitsMessage

\* The manager presses a status under the current message.
LEMMA Clicked ==
    ASSUME IInv, NEW t \in Tasks, NEW i \in DOMAIN sent, NEW s \in Clicks,
           Click(t, i, s)
    PROVE  IInv'
<1> DEFINE old == [NewGroup EXCEPT !.order_status = group.order_status]
           x == [NoTask EXCEPT !.pc = "click", !.seen.order_status = group.order_status,
                               !.msg = i, !.new = s]
<1>1. group \in Group /\ RowFits(group, Len(sent))
  BY DEF IInv, TypeOK
<1>2. /\ task' = [task EXCEPT ![t] = x] /\ UNCHANGED <<rows, group, sent>>
      /\ group.manager_message_id = i
  BY DEF Click
<1>3. i \in 1..Len(sent) /\ i \in NoOrder..MaxOrders /\ i # NoOrder
  BY Chat DEF IInv, NoOrder
<1>4. x = [pc |-> "click", seen |-> old, todo |-> {}, items |-> {},
           msg |-> i, new |-> s]
  <2>1. x = [[[[NoTask EXCEPT !.pc = "click"] EXCEPT !.seen = old] EXCEPT !.msg = i]
                EXCEPT !.new = s]
    BY DEF NoTask
  <2> HIDE DEF x, old
  <2> QED BY <2>1 DEF NoTask
<1>5. old \in Group /\ old.order_status = group.order_status
  BY <1>1, NewTypes DEF Group, NewGroup
<1>6. s \in ORDER_STATUS_LABELS
  BY DEF ORDER_STATUS_LABELS
<1> HIDE DEF old, x
<1>7. x \in Task /\ x.msg = i /\ x.seen = old /\ x.pc = "click" /\ x.new = s
  BY <1>3, <1>4, <1>5, <1>6 DEF Task
<1>8. HandlerFits(x, group, Len(sent))
  BY <1>2, <1>3, <1>5, <1>7, Chat DEF HandlerFits, IInv
<1> QED BY <1>2, <1>8, LocalStep

\* The status that was pressed is committed.
LEMMA Sets ==
    ASSUME IInv, NEW t \in Tasks, SetStatus(t)
    PROVE  IInv'
<1> DEFINE n == Len(sent)
           st == Put(group.order_status, task[t].seen.order_status, task[t].new)
           x == [task[t] EXCEPT !.pc = "label"]
<1>1. /\ group \in Group /\ task[t] \in Task /\ HandlerFits(task[t], group, n)
      /\ draft \subseteq Deals /\ order \subseteq Deals \ draft /\ RowFits(group, n)
  BY DEF IInv, TypeOK
<1>2. /\ task' = [task EXCEPT ![t] = x] /\ UNCHANGED <<rows, sent>>
      /\ group' = [group EXCEPT !.order_status = st]
      /\ task[t].pc = "click"
  BY DEF SetStatus
<1>3. group.manager_message_id # NoOrder /\ task[t].msg # NoOrder
  BY <1>1, <1>2 DEF HandlerFits
<1>4. st \in ORDER_STATUS_LABELS
  <2>1. task[t].new \in ORDER_STATUS_LABELS
    BY <1>1 DEF Task
  <2>2. group.order_status \in ORDER_STATUS_LABELS
    BY <1>1, <1>3 DEF RowFits, Group
  <2> QED BY <2>1, <2>2 DEF Put
<1>5. "none" \notin ORDER_STATUS_LABELS
  BY ClicksAssumption DEF ORDER_STATUS_LABELS
<1> HIDE DEF st
<1>6. /\ group' \in Group
      /\ group'.manager_message_id = group.manager_message_id
      /\ group'.order_status = st
  BY <1>1, <1>2, <1>4 DEF Group
<1>7. /\ x \in Task /\ x.msg = task[t].msg /\ x.seen = task[t].seen
      /\ x.pc = "label" /\ x.new = task[t].new
  BY <1>1 DEF Task
<1>12. task[t].new \in Clicks
  BY <1>1, <1>2 DEF HandlerFits
<1> HIDE DEF x
<1>8. st # "none"
  BY <1>4, <1>5
<1>9. RowFits(group', n)
  BY <1>1, <1>3, <1>6, <1>8 DEF RowFits
<1>10. HandlerFits(x, group', n)
  BY <1>1, <1>3, <1>6, <1>7, <1>8, <1>12 DEF HandlerFits
<1>11. /\ sent' \in Seq(Message) /\ Len(sent') = n
       /\ Len(sent') <= MaxOrders /\ Len(sent) <= Len(sent')
  BY <1>2, Chat DEF IInv
<1>13. draft' \subseteq Deals /\ order' \subseteq Deals \ draft'
  BY <1>1, <1>2 DEF rows
<1> QED BY <1>1, <1>2, <1>3, <1>6, <1>8, <1>9, <1>10, <1>11, <1>13, HandlerStep

\* The message is edited.
LEMMA Edits ==
    ASSUME IInv, NEW t \in Tasks, EditLabel(t)
    PROVE  IInv'
<1> DEFINE n == Len(sent)
           i == task[t].msg
           m == [sent[i] EXCEPT !.label = task[t].new]
<1>1. /\ group \in Group /\ task[t] \in Task /\ HandlerFits(task[t], group, n)
      /\ draft \subseteq Deals /\ order \subseteq Deals \ draft /\ RowFits(group, n)
  BY DEF IInv, TypeOK
<1>2. /\ task' = [task EXCEPT ![t] = NoTask] /\ UNCHANGED <<rows, group>>
      /\ sent' = [sent EXCEPT ![i] = m]
      /\ task[t].pc = "label"
  BY DEF EditLabel, End
<1>3. sent \in Seq(Message) /\ n \in Nat /\ n <= MaxOrders /\ MaxOrders \in Nat
  BY Chat DEF IInv
<1>4. i \in 1..n
  BY <1>1, <1>2, <1>3 DEF HandlerFits, NoOrder
<1>5. m \in Message
  <2>1. sent[i] \in Message
    BY <1>3, <1>4, ElementOfSeq
  <2>2. task[t].new \in ORDER_STATUS_LABELS
    BY <1>1 DEF Task
  <2> QED BY <2>1, <2>2 DEF Message
<1> HIDE DEF m, i
<1>6. /\ sent' \in Seq(Message) /\ Len(sent') = n
      /\ Len(sent') <= MaxOrders /\ Len(sent) <= Len(sent')
  BY <1>2, <1>3, <1>4, <1>5, ExceptSeq
<1>7. HandlerFits(NoTask, group, n)
  BY <1>3, NoTaskFits
<1>8. draft' \subseteq Deals /\ order' \subseteq Deals \ draft'
  BY <1>1, <1>2 DEF rows
<1> QED BY <1>1, <1>2, <1>6, <1>7, <1>8, HandlerStep

\* A press of a resident changes the order, and what a reset has selected.
LEMMA Presses ==
    ASSUME IInv, NEW d \in Deals, Draft(d) \/ Confirm(d) \/ Withdraw(d)
    PROVE  IInv'
<1> DEFINE less(t) == [task[t] EXCEPT !.items = @ \ {d}]
<1>1. /\ draft' \subseteq Deals /\ order' \subseteq Deals \ draft'
      /\ UNCHANGED <<group, sent>>
  BY DEF Draft, Confirm, Withdraw, IInv, TypeOK
<1>2. task' \in [Tasks -> Task] /\ \A t \in Tasks : task'[t] \in {task[t], less(t)}
  <2>1. CASE Draft(d) \/ Confirm(d)
    BY <2>1 DEF Draft, Confirm, IInv, TypeOK
  <2>2. CASE Withdraw(d)
    <3>1. \A t \in Tasks : task[t] \in Task /\ less(t) \in Task
      BY DEF IInv, TypeOK, Task
    <3>2. task' = [t \in Tasks |-> IF task[t].pc = "selected" THEN less(t)
                                   ELSE task[t]]
      BY <2>2 DEF Withdraw
    <3> HIDE DEF less
    <3> QED BY <3>1, <3>2
  <2> QED BY <2>1, <2>2
<1>3. ASSUME NEW t \in Tasks PROVE HandlerFits(task'[t], group, Len(sent))
  <2>1. task[t] \in Task /\ HandlerFits(task[t], group, Len(sent))
    BY DEF IInv, TypeOK
  <2>2. task'[t] \in Task /\ task'[t] \in {task[t], less(t)}
    BY <1>2
  <2>3. /\ less(t).pc = task[t].pc /\ less(t).msg = task[t].msg
        /\ less(t).seen = task[t].seen /\ less(t).new = task[t].new
    BY <2>1 DEF Task
  <2> HIDE DEF less
  <2> QED BY <2>1, <2>2, <2>3 DEF HandlerFits
<1> HIDE DEF less
<1>4. TypeOK'
  BY <1>1, <1>2 DEF IInv, TypeOK
<1> QED BY <1>1, <1>3, <1>4 DEF IInv

\* The process stops: its handlers are gone.
LEMMA Stops ==
    ASSUME IInv, Crash
    PROVE  IInv'
<1>1. \A t \in Tasks : task'[t] = NoTask
  BY DEF Crash
<1>2. TypeOK'
  BY NewTypes DEF Crash, IInv, TypeOK, rows
<1>3. HandlerFits(NoTask, group, Len(sent))
  BY NoTaskFits, Chat DEF IInv
<1>4. group' = group /\ sent' = sent
  BY DEF Crash
<1> QED BY <1>1, <1>2, <1>3, <1>4 DEF IInv
-----------------------------------------------------------------------------
LEMMA Starts == Init => IInv
<1> SUFFICES ASSUME Init PROVE IInv
  OBVIOUS
<1>1. TypeOK
  BY NewTypes, MaxOrdersAssumption DEF Init, TypeOK
<1>2. Len(sent) = 0
  BY DEF Init
<1>3. RowFits(group, Len(sent))
  BY <1>2 DEF Init, RowFits, NewGroup, NoOrder
<1>4. \A t \in Tasks : HandlerFits(task[t], group, Len(sent))
  BY <1>2, NoTaskFits DEF Init
<1> QED BY <1>1, <1>3, <1>4 DEF IInv

\* One step of the system.
LEMMA Continues == IInv /\ [Next]_vars => IInv'
<1> SUFFICES ASSUME IInv, [Next]_vars PROVE IInv'
  OBVIOUS
<1>1. CASE UNCHANGED vars
  BY <1>1 DEF vars, IInv, TypeOK
<1>2. CASE \E d \in Deals : Draft(d) \/ Confirm(d) \/ Withdraw(d)
  BY <1>2, Presses
<1>3. ASSUME NEW t \in Tasks, PressCheckout(t) PROVE IInv'
  BY <1>3, BeginFits DEF PressCheckout
<1>4. ASSUME NEW t \in Tasks, PressThinking(t) PROVE IInv'
  BY <1>4, BeginFits DEF PressThinking
<1>5. ASSUME NEW t \in Tasks, ReceiveText(t) PROVE IInv'
  BY <1>5, BeginFits DEF ReceiveText
<1>6. ASSUME NEW t \in Tasks, PressReset(t) PROVE IInv'
  BY <1>6, BeginFits DEF PressReset
<1>7. ASSUME NEW t \in Tasks, NEW i \in DOMAIN sent, NEW s \in Clicks,
             Click(t, i, s)
      PROVE  IInv'
  BY <1>7, Clicked
<1>8. ASSUME NEW t \in Tasks, Step(t) PROVE IInv'
  BY <1>8, Reads, Ends, Opens, Accepts, Sends, Reopens, Resets,
         Sets, Edits DEF Step
<1>9. CASE Crash
  BY <1>9, Stops
<1> QED BY <1>1, <1>2, <1>3, <1>4, <1>5, <1>6, <1>7, <1>8, <1>9 DEF Next

LEMMA Invariance == Spec => []IInv
BY Starts, Continues, PTL DEF Spec

\* In every state of every run, for every number of handlers, deals, statuses
\* and orders, the order, the row of the house, the manager's chat and the
\* handlers have their types: no handler writes what the row cannot hold.
THEOREM TypeCorrect == Spec => []TypeOK
<1>1. IInv => TypeOK
  BY DEF IInv
<1> QED BY <1>1, Invariance, PTL

\* The house knows a status exactly when it knows the message of an order that
\* is in the manager's chat, however checkouts, resets, presses of the manager
\* and restarts interleave (orders.py:318-319, main.py:900-904).
THEOREM StatusKeptWithMessage == Spec => []StatusHasMessage
<1>1. IInv => StatusHasMessage
  <2> SUFFICES ASSUME IInv PROVE StatusHasMessage
    OBVIOUS
  <2>1. group.manager_message_id \in 0..Len(sent)
    BY DEF IInv, RowFits
  <2>2. DOMAIN sent = 1..Len(sent) /\ Len(sent) \in Nat
    BY Chat DEF IInv
  <2> QED BY <2>1, <2>2 DEF IInv, RowFits, StatusHasMessage, NoOrder
<1> QED BY <1>1, Invariance, PTL
-----------------------------------------------------------------------------
(* THE REFINEMENT: what the house and the manager see is Delivery.          *)

\* Steps that change neither the order, nor the chat, nor what the house knows
\* of it: the handlers' reading, waiting and failing, and the checkout's flag.
LEMMA Unseen ==
    ASSUME order' = order, sent' = sent,
           group'.manager_message_id = group.manager_message_id,
           group'.order_status = group.order_status
    PROVE  UNCHANGED D!vars
BY DEF D!vars

\* A write of one attribute leaves the two that Delivery sees.
LEMMA FlagOnly ==
    ASSUME IInv, NEW b,
           \/ group' = [group EXCEPT !.checkout_pending = b]
           \/ \E i : group' = [group EXCEPT !.delivery_info = i,
                                            !.checkout_pending = b]
    PROVE  /\ group'.manager_message_id = group.manager_message_id
           /\ group'.order_status = group.order_status
BY DEF IInv, TypeOK, Group

LEMMA SendIsSend ==
    ASSUME IInv, NEW t \in Tasks, Send(t)
    PROVE  D!Next
<1>1. task[t].items \in SUBSET Deals
  BY DEF IInv, TypeOK, Task
<1>2. D!Send(task[t].items)
  BY DEF Send, D!Send, rows
<1> QED BY <1>1, <1>2 DEF D!Next

\* A commit that writes the message a handler has sent, if any.
LEMMA CommitIsAdopt ==
    ASSUME IInv, NEW t \in Tasks, order' \subseteq order, sent' = sent,
           group'.manager_message_id = Adopted(t).manager_message_id,
           group'.order_status = Adopted(t).order_status
    PROVE  D!Next
<1> DEFINE st == Put(group.order_status, task[t].seen.order_status, "pending")
<1>1. /\ group \in Group /\ task[t] \in Task
      /\ HandlerFits(task[t], group, Len(sent))
  BY DEF IInv, TypeOK
<1>2. CASE task[t].msg = NoOrder
  <2>1. D!Clear
    BY <1>2 DEF Adopted, D!Clear
  <2> QED BY <2>1 DEF D!Next
<1>3. CASE task[t].msg # NoOrder
  <2>1. task[t].msg \in DOMAIN sent
    BY <1>1, <1>3, Chat DEF IInv, HandlerFits, NoOrder
  <2>2. group'.manager_message_id = task[t].msg /\ group'.order_status = st
    BY <1>1, <1>3 DEF Adopted, Group
  <2>3. st \in {"pending"} \cup ({group.order_status} \ {"none"})
    BY <1>1 DEF Put, HandlerFits
  <2>4. D!Adopt(task[t].msg)
    BY <2>2, <2>3 DEF D!Adopt
  <2> QED BY <2>1, <2>4 DEF D!Next
<1> QED BY <1>2, <1>3

LEMMA ResetIsReset ==
    ASSUME IInv, NEW t \in Tasks, CommitReset(t) \/ Reopen(t)
    PROVE  D!Next
<1>1. Adopted(t) \in Group
  BY AdoptedFits
<1>2. order' \subseteq order /\ sent' = sent
  BY DEF CommitReset, Reopen, rows
<1>3. /\ group'.manager_message_id = Adopted(t).manager_message_id
      /\ group'.order_status = Adopted(t).order_status
  BY <1>1 DEF CommitReset, Reopen, Cleared, Group
<1> QED BY <1>2, <1>3, CommitIsAdopt

LEMMA ClickIsReport ==
    ASSUME IInv, NEW t \in Tasks, SetStatus(t)
    PROVE  [D!Next]_(D!vars)
<1> DEFINE s == Put(group.order_status, task[t].seen.order_status, task[t].new)
<1>1. HandlerFits(task[t], group, Len(sent)) /\ task[t].pc = "click"
  BY DEF IInv, SetStatus
<1>2. group' = [group EXCEPT !.order_status = s] /\ order' = order /\ sent' = sent
  BY DEF SetStatus, rows
<1>3. /\ group'.manager_message_id = group.manager_message_id
      /\ group'.order_status = s
  BY <1>2 DEF IInv, TypeOK, Group
<1>4. group.manager_message_id # NoOrder /\ task[t].new \in Clicks
  BY <1>1 DEF HandlerFits
<1>5. CASE s = task[t].new
  <2>1. D!Report(task[t].new)
    BY <1>2, <1>3, <1>4, <1>5 DEF D!Report, D!NoOrder, NoOrder
  <2> QED BY <1>4, <2>1 DEF D!Next
<1>6. CASE s = group.order_status
  BY <1>2, <1>3, <1>6, Unseen
<1> QED BY <1>5, <1>6 DEF Put

LEMMA EditIsShow ==
    ASSUME IInv, NEW t \in Tasks, EditLabel(t)
    PROVE  D!Next
<1>1. HandlerFits(task[t], group, Len(sent)) /\ task[t].pc = "label"
  BY DEF IInv, EditLabel
<1>2. task[t].msg \in DOMAIN sent /\ task[t].new \in Clicks
  BY <1>1, Chat DEF IInv, HandlerFits, NoOrder
<1>3. D!Show(task[t].msg, task[t].new)
  BY DEF EditLabel, D!Show, rows
<1> QED BY <1>2, <1>3 DEF D!Next

\* A step of a handler is a step of Delivery, or one it does not see.
LEMMA HandlerRefines ==
    ASSUME IInv, NEW t \in Tasks, Step(t)
    PROVE  [D!Next]_(D!vars)
<1>1. CASE SeeOrder(t) \/ RefuseCheckout(t) \/ IgnoreText(t) \/ SendFails(t)
           \/ ThanksFail(t) \/ SelectRows(t) \/ EditLabelFails(t)
           \/ \E d \in Deals : ReadDeal(t, d)
  BY <1>1, Unseen DEF SeeOrder, RefuseCheckout, IgnoreText, SendFails, ThanksFail,
     SelectRows, EditLabelFails, ReadDeal, rows
<1>2. CASE OpenCheckout(t)
  BY <1>2, FlagOnly, Unseen DEF OpenCheckout, rows
<1>3. CASE CloseCheckout(t)
  BY <1>3, FlagOnly, Unseen DEF CloseCheckout, rows
<1>4. ASSUME NEW info \in Infos, AcceptText(t, info) PROVE UNCHANGED D!vars
  BY <1>4, FlagOnly, Unseen DEF AcceptText, rows
<1>5. CASE Reopen(t)
  BY <1>5, ResetIsReset
<1>6. CASE Send(t)
  BY <1>6, SendIsSend
<1>7. CASE CommitReset(t)
  BY <1>7, ResetIsReset
<1>8. CASE SetStatus(t)
  BY <1>8, ClickIsReport
<1>9. CASE EditLabel(t)
  BY <1>9, EditIsShow
<1> QED BY <1>1, <1>2, <1>3, <1>4, <1>5, <1>6, <1>7, <1>8, <1>9 DEF Step

LEMMA StepRefines == IInv /\ [Next]_vars => [D!Next]_(D!vars)
<1> SUFFICES ASSUME IInv, [Next]_vars PROVE [D!Next]_(D!vars)
  OBVIOUS
<1>1. CASE UNCHANGED vars
  BY <1>1, Unseen DEF vars
<1>6. ASSUME NEW d \in Deals, Draft(d) PROVE UNCHANGED D!vars
  BY <1>6, Unseen DEF Draft
<1>2. ASSUME NEW d \in Deals, Confirm(d) \/ Withdraw(d) PROVE D!Next
  BY <1>2 DEF Confirm, Withdraw, D!Confirm, D!Withdraw, D!Next
<1>3. ASSUME NEW t \in Tasks,
             \/ PressCheckout(t) \/ PressThinking(t) \/ ReceiveText(t)
             \/ PressReset(t) \/ \E i \in DOMAIN sent, s \in Clicks : Click(t, i, s)
      PROVE  UNCHANGED D!vars
  BY <1>3, Unseen DEF PressCheckout, PressThinking, ReceiveText, PressReset, Click,
                           rows
<1>4. ASSUME NEW t \in Tasks, Step(t) PROVE [D!Next]_(D!vars)
  BY <1>4, HandlerRefines
<1>5. CASE Crash
  BY <1>5, Unseen DEF Crash, rows
<1> QED BY <1>1, <1>2, <1>3, <1>4, <1>5, <1>6 DEF Next

\* Whatever handlers overlap, are lost or stopped, the house and the manager see
\* a Delivery: messages stay what they were sent as, the house never forgets
\* that it has an order, and only presses of the manager and a new order move
\* the status (orders.py:267-325, main.py:567-605, 880-925).
THEOREM Implements == Spec => Delivers
<1>1. Init => D!Init
  BY DEF Init, NewGroup, NoOrder, D!Init, D!NoOrder
<1> QED BY <1>1, StepRefines, Invariance, PTL DEF Spec, Delivers, D!Spec
-----------------------------------------------------------------------------
(* HANDLERS THAT DO NOT OVERLAP.  The code has no lock for a house; where its *)
(* handlers happen to run one after the other, what one of them loaded of the *)
(* row is still what the row holds when it writes.                            *)

\* At most one handler runs.
Apart == \A t, t2 \in Tasks :
            task[t].pc # "idle" /\ task[t2].pc # "idle" => t = t2

\* What handler x has loaded and will go by is what the row g holds.
InStep(x, g) ==
    /\ x.pc \in {"text", "summary", "reset", "selected"} =>
          x.seen.checkout_pending = g.checkout_pending
    /\ x.pc \in {"text", "summary", "reset", "selected"} =>
          x.seen.delivery_info = g.delivery_info
    /\ \/ x.pc \in {"text", "summary"}
       \/ x.pc \in {"reset", "selected", "failed"} /\ x.msg # NoOrder
       => x.seen.order_status = g.order_status

AloneInv == \A t \in Tasks : InStep(task[t], group)

\* A handler that has ended, or stands before a step that goes by nothing it
\* has loaded, is in step.
LEMMA NothingLoaded ==
    ASSUME NEW x, NEW g, x.pc \in {"idle", "asked", "opening", "thinking", "click", "label"}
    PROVE  InStep(x, g)
BY DEF InStep

\* A handler runs alone: the others have nothing loaded.
LEMMA AloneStep ==
    ASSUME TypeOK, Apart, NEW t \in Tasks, task[t].pc # "idle", NEW x,
           task' = [task EXCEPT ![t] = x], InStep(x, group')
    PROVE  AloneInv'
<1> SUFFICES ASSUME NEW t2 \in Tasks PROVE InStep(task'[t2], group')
  BY DEF AloneInv
<1>1. CASE t2 = t
  BY <1>1 DEF TypeOK
<1>2. CASE t2 # t
  <2>1. task'[t2] = task[t2] /\ task[t2].pc = "idle"
    BY <1>2 DEF TypeOK, Apart
  <2> QED BY <2>1, NothingLoaded
<1> QED BY <1>1, <1>2

\* A step that leaves the row as it is disturbs no other handler.
LEMMA SameRow ==
    ASSUME TypeOK, AloneInv, NEW t \in Tasks, NEW x,
           task' = [task EXCEPT ![t] = x], group' = group, InStep(x, group)
    PROVE  AloneInv'
BY DEF AloneInv, TypeOK

\* A handler that begins has just loaded the row.
LEMMA BeginsInStep ==
    ASSUME TypeOK, AloneInv, NEW t \in Tasks, NEW pc, NEW attrs, Begin(t, pc, attrs),
           group' = group,
           pc \in {"text", "reset"} => "checkout_pending" \in attrs,
           pc \in {"text", "reset"} => "delivery_info" \in attrs,
           pc = "text" => "order_status" \in attrs,
           pc \in {"asked", "thinking", "text", "reset"}
    PROVE  AloneInv'
<1> DEFINE seen == [a \in DOMAIN group |-> IF a \in attrs THEN group[a]
                                           ELSE NewGroup[a]]
           x == [NoTask EXCEPT !.pc = pc, !.seen = seen]
<1>1. task' = [task EXCEPT ![t] = x]
  BY DEF Begin
<1>2. x.pc = pc /\ x.msg = NoOrder /\ x.seen = seen
  BY DEF NoTask
<1>3. DOMAIN group = {"checkout_pending", "delivery_info", "manager_message_id",
                      "order_status"}
  BY DEF TypeOK, Group
<1>4. /\ "checkout_pending" \in attrs => seen.checkout_pending = group.checkout_pending
      /\ "delivery_info" \in attrs => seen.delivery_info = group.delivery_info
      /\ "order_status" \in attrs => seen.order_status = group.order_status
  BY <1>3
<1>5. InStep(x, group)
  <2> HIDE DEF seen, x
  <2> QED BY <1>2, <1>4 DEF InStep
<1> QED BY <1>1, <1>5, SameRow

\* Every step of a handler that runs alone leaves it in step.
LEMMA AloneKept ==
    ASSUME TypeOK, Apart, AloneInv, NEW t \in Tasks, Step(t)
    PROVE  AloneInv'
<1>1. task[t] \in Task /\ group \in Group /\ InStep(task[t], group)
  BY DEF TypeOK, AloneInv
<1>2. task[t].pc # "idle"
  BY DEF Step, SeeOrder, OpenCheckout, RefuseCheckout, CloseCheckout, IgnoreText,
         AcceptText, ReadDeal, Send, SendFails, Reopen, ThanksFail, SelectRows,
         CommitReset, SetStatus, EditLabel, EditLabelFails
<1>3. ASSUME End(t) PROVE AloneInv'
  <2>1. InStep(NoTask, group')
    BY NothingLoaded DEF NoTask
  <2> QED BY <1>2, <1>3, <2>1, AloneStep DEF End
<1>4. ASSUME OpenCheckout(t) \/ RefuseCheckout(t) \/ CloseCheckout(t) \/ IgnoreText(t)
             \/ Reopen(t) \/ ThanksFail(t) \/ CommitReset(t) \/ EditLabel(t)
             \/ EditLabelFails(t)
      PROVE  AloneInv'
  BY <1>3, <1>4 DEF OpenCheckout, RefuseCheckout, CloseCheckout, IgnoreText, Reopen,
                    ThanksFail, CommitReset, EditLabel, EditLabelFails
<1>5. CASE SeeOrder(t)
  <2> DEFINE x == [task[t] EXCEPT !.pc = "opening"]
  <2>1. task' = [task EXCEPT ![t] = x]
    BY <1>1, <1>5 DEF SeeOrder, TypeOK
  <2>2. InStep(x, group')
    BY <1>1, NothingLoaded DEF Task
  <2> QED BY <1>2, <2>1, <2>2, AloneStep
<1>6. ASSUME NEW info \in Infos, AcceptText(t, info) PROVE AloneInv'
  <2> DEFINE closed == [task[t].seen EXCEPT !.delivery_info = info,
                                            !.checkout_pending = FALSE]
             stored == Put(group.delivery_info, task[t].seen.delivery_info, info)
             x == [task[t] EXCEPT !.pc = "summary", !.seen = closed, !.todo = Deals]
  <2>1. task' = [task EXCEPT ![t] = x]
    BY <1>1, <1>6 DEF AcceptText, TypeOK
  <2>2. /\ task[t].seen \in Group /\ task[t].pc = "text"
        /\ group' = [group EXCEPT !.delivery_info = stored,
                                  !.checkout_pending = FALSE]
    BY <1>1, <1>6 DEF AcceptText, Task
  <2>3. /\ closed.delivery_info = info /\ closed.checkout_pending = FALSE
        /\ closed.order_status = task[t].seen.order_status
    BY <2>2 DEF Group
  <2>4. /\ group'.delivery_info = stored /\ group'.checkout_pending = FALSE
        /\ group'.order_status = group.order_status
    BY <1>1, <2>2 DEF Group
  <2>5. x.pc = "summary" /\ x.seen = closed
    BY <1>1 DEF Task
  <2>6. /\ task[t].seen.order_status = group.order_status
        /\ task[t].seen.delivery_info = group.delivery_info
    BY <1>1, <2>2 DEF InStep
  <2>7. stored = info
    BY <2>6 DEF Put
  <2>8. InStep(x, group')
    <3> HIDE DEF closed, stored, x
    <3> QED BY <2>3, <2>4, <2>5, <2>6, <2>7 DEF InStep
  <2> QED BY <1>2, <2>1, <2>8, AloneStep
<1>7. CASE \E d \in Deals : ReadDeal(t, d)
  <2> PICK d \in Deals : ReadDeal(t, d)
    BY <1>7
  <2> DEFINE x == [task[t] EXCEPT !.todo = @ \ {d}, !.items = @ \cup (order \cap {d})]
  <2>1. task' = [task EXCEPT ![t] = x]
    BY <1>1 DEF ReadDeal, TypeOK
  <2>2. /\ group' = group /\ x.pc = task[t].pc /\ x.seen = task[t].seen
        /\ x.msg = task[t].msg /\ x.new = task[t].new
    BY <1>1 DEF ReadDeal, Task
  <2>3. InStep(x, group')
    <3> HIDE DEF x
    <3> QED BY <1>1, <2>2 DEF InStep
  <2> QED BY <1>2, <2>1, <2>3, AloneStep
<1>8. CASE Send(t) \/ SendFails(t)
  <2>1. /\ task[t].pc = "summary" /\ group' = group
        /\ \E pc \in {"reset", "failed"} : \E msg :
              task' = [task EXCEPT ![t].pc = pc, ![t].msg = msg]
    <3>1. CASE Send(t)
      BY <3>1 DEF Send
    <3>2. CASE SendFails(t)
      <4>1. task' = [task EXCEPT ![t].pc = "failed", ![t].msg = task[t].msg]
        BY <1>1, <3>2 DEF SendFails, TypeOK, Task
      <4> QED BY <3>2, <4>1 DEF SendFails
    <3> QED BY <1>8, <3>1, <3>2
  <2>2. PICK pc \in {"reset", "failed"} :
           \E msg : task' = [task EXCEPT ![t].pc = pc, ![t].msg = msg]
    BY <2>1
  <2>3. PICK msg : task' = [task EXCEPT ![t].pc = pc, ![t].msg = msg]
    BY <2>2
  <2> DEFINE x == [task[t] EXCEPT !.pc = pc, !.msg = msg]
  <2>4. task' = [task EXCEPT ![t] = x]
    BY <1>1, <2>3 DEF TypeOK
  <2>5. x.pc = pc /\ x.seen = task[t].seen
    BY <1>1 DEF Task
  <2>6. InStep(x, group')
    <3> HIDE DEF x
    <3> QED BY <1>1, <2>1, <2>5 DEF InStep
  <2> QED BY <1>2, <2>4, <2>6, AloneStep
<1>9. CASE SelectRows(t)
  <2> DEFINE x == [task[t] EXCEPT !.pc = "selected", !.items = draft \cup order]
  <2>1. task' = [task EXCEPT ![t] = x] /\ group' = group /\ task[t].pc = "reset"
    BY <1>1, <1>9 DEF SelectRows, TypeOK
  <2>2. x.pc = "selected" /\ x.seen = task[t].seen /\ x.msg = task[t].msg
    BY <1>1 DEF Task
  <2>3. InStep(x, group')
    <3> HIDE DEF x
    <3> QED BY <1>1, <2>1, <2>2 DEF InStep
  <2> QED BY <1>2, <2>1, <2>3, AloneStep
<1>10. CASE SetStatus(t)
  <2> DEFINE x == [task[t] EXCEPT !.pc = "label"]
  <2>1. task' = [task EXCEPT ![t] = x]
    BY <1>1, <1>10 DEF SetStatus, TypeOK
  <2>2. InStep(x, group')
    BY <1>1, NothingLoaded DEF Task
  <2> QED BY <1>2, <2>1, <2>2, AloneStep
<1> QED BY <1>4, <1>5, <1>6, <1>7, <1>8, <1>9, <1>10 DEF Step

\* As long as handlers do not overlap the one that runs is in step with the row.
LEMMA AloneContinues == TypeOK /\ Apart /\ AloneInv /\ [Next]_vars => AloneInv'
<1> SUFFICES ASSUME TypeOK, Apart, AloneInv, [Next]_vars PROVE AloneInv'
  OBVIOUS
<1>1. CASE UNCHANGED vars
  BY <1>1 DEF vars, AloneInv
<1>2. ASSUME NEW d \in Deals, Draft(d) \/ Confirm(d) PROVE AloneInv'
  BY <1>2 DEF Draft, Confirm, AloneInv
<1>3. ASSUME NEW d \in Deals, Withdraw(d) PROVE AloneInv'
  <2> SUFFICES ASSUME NEW t \in Tasks PROVE InStep(task'[t], group')
    BY DEF AloneInv
  <2>1. group' = group /\ InStep(task[t], group) /\ task[t] \in Task
    BY <1>3 DEF Withdraw, AloneInv, TypeOK
  <2>2. /\ task'[t].pc = task[t].pc /\ task'[t].seen = task[t].seen
        /\ task'[t].msg = task[t].msg /\ task'[t].new = task[t].new
    BY <1>3, <2>1 DEF Withdraw, Task
  <2> QED BY <2>1, <2>2 DEF InStep
<1>4. ASSUME NEW t \in Tasks,
             PressCheckout(t) \/ PressThinking(t) \/ ReceiveText(t) \/ PressReset(t)
      PROVE  AloneInv'
  BY <1>4, BeginsInStep DEF PressCheckout, PressThinking, ReceiveText, PressReset
<1>5. ASSUME NEW t \in Tasks, NEW i \in DOMAIN sent, NEW s \in Clicks, Click(t, i, s)
      PROVE  AloneInv'
  <2> DEFINE x == [NoTask EXCEPT !.pc = "click", !.seen.order_status = group.order_status,
                                 !.msg = i, !.new = s]
  <2>1. task' = [task EXCEPT ![t] = x] /\ group' = group
    BY <1>5 DEF Click
  <2>2. x.pc = "click"
    BY DEF NoTask
  <2>3. InStep(x, group)
    <3> HIDE DEF x
    <3> QED BY <2>2, NothingLoaded
  <2> QED BY <2>1, <2>3, SameRow
<1>6. ASSUME NEW t \in Tasks, Step(t) PROVE AloneInv'
  BY <1>6, AloneKept
<1>7. CASE Crash
  BY <1>7, NothingLoaded DEF Crash, AloneInv, NoTask
<1> QED BY <1>1, <1>2, <1>3, <1>4, <1>5, <1>6, <1>7 DEF Next

LEMMA AloneInvariance == Spec /\ []Apart => []AloneInv
<1>1. Init => AloneInv
  BY NothingLoaded DEF Init, AloneInv, NoTask
<1>2. IInv => TypeOK
  BY DEF IInv
<1> QED BY <1>1, <1>2, AloneContinues, Invariance, PTL DEF Spec

\* Where handlers do not overlap, a new order starts with "pending", whatever
\* status the one before had when it was sent (orders.py:318-319).
THEOREM OrdersStartPending == Spec /\ []Apart => NewOrderPending
<1> DEFINE A == group'.manager_message_id # group.manager_message_id
                    => group'.order_status = "pending"
<1>1. ASSUME TypeOK, AloneInv, [Next]_vars PROVE [A]_vars
  <2> SUFFICES ASSUME Next, group'.manager_message_id # group.manager_message_id
               PROVE  group'.order_status = "pending"
    BY <1>1
  <2>1. group \in Group
    BY <1>1 DEF TypeOK
  <2>2. PICK t \in Tasks : CommitReset(t) \/ Reopen(t)
    BY <2>1 DEF Next, Step, Draft, Confirm, Withdraw, PressCheckout, PressThinking,
                ReceiveText, PressReset, Click, SeeOrder, OpenCheckout, RefuseCheckout,
                CloseCheckout, IgnoreText, AcceptText, ReadDeal, Send, SendFails,
                ThanksFail, SelectRows, SetStatus, EditLabel, EditLabelFails,
                Crash, Group
  <2>3. /\ group'.manager_message_id = Adopted(t).manager_message_id
        /\ group'.order_status = Adopted(t).order_status
    BY <2>1, <2>2 DEF CommitReset, Cleared, Reopen, Adopted, Group
  <2>4. task[t].msg # NoOrder /\ task[t].pc \in {"selected", "failed"}
    BY <2>2, <2>3 DEF CommitReset, Reopen, Adopted
  <2>5. task[t].seen.order_status = group.order_status
    BY <1>1, <2>4 DEF AloneInv, InStep
  <2> QED BY <2>1, <2>3, <2>4, <2>5 DEF Adopted, Put, Group
<1>2. IInv => TypeOK
  BY DEF IInv
<1> HIDE DEF A
<1>3. Spec /\ []Apart => [][A]_vars
  BY <1>1, <1>2, AloneInvariance, Invariance, PTL DEF Spec
<1> QED BY <1>3 DEF NewOrderPending, A

\* Where handlers do not overlap, a reset closes the checkout and forgets its
\* delivery data (main.py:211-214).
THEOREM ResetsClear == Spec /\ []Apart => ResetClearsCheckout
<1> DEFINE A == \A t \in Tasks : CommitReset(t) =>
                   ~group'.checkout_pending /\ group'.delivery_info = "none"
<1>1. ASSUME TypeOK, AloneInv PROVE A
  <2> SUFFICES ASSUME NEW t \in Tasks, CommitReset(t)
               PROVE  ~group'.checkout_pending /\ group'.delivery_info = "none"
    OBVIOUS
  <2>1. task[t].pc = "selected" /\ group \in Group
    BY <1>1 DEF CommitReset, TypeOK
  <2>2. /\ task[t].seen.checkout_pending = group.checkout_pending
        /\ task[t].seen.delivery_info = group.delivery_info
    BY <1>1, <2>1 DEF AloneInv, InStep
  <2>3. /\ Adopted(t).checkout_pending = group.checkout_pending
        /\ Adopted(t).delivery_info = group.delivery_info
    BY <2>1 DEF Adopted, Group
  <2>4. /\ group'.checkout_pending = Put(group.checkout_pending,
                                         task[t].seen.checkout_pending, FALSE)
        /\ group'.delivery_info = Put(group.delivery_info,
                                      task[t].seen.delivery_info, "none")
    <3>1. DOMAIN Adopted(t) = DOMAIN group
      BY DEF Adopted
    <3> QED BY <2>1, <2>3, <3>1 DEF CommitReset, Cleared, Group
  <2> QED BY <2>1, <2>2, <2>4 DEF Put, Group
<1>2. IInv => TypeOK
  BY DEF IInv
<1> HIDE DEF A
<1>3. Spec /\ []Apart => [][A]_vars
  BY <1>1, <1>2, AloneInvariance, Invariance, PTL DEF Spec
<1> QED BY <1>3 DEF ResetClearsCheckout, A
=============================================================================
