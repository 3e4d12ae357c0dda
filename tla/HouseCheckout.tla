--------------------------- MODULE HouseCheckout ----------------------------
(***************************************************************************)
(* How the order of one house reaches the manager: an administrator opens   *)
(* the checkout and writes the delivery data, the bot sends the order to    *)
(* the manager's chat and resets it, and the manager reports its status     *)
(* with the buttons of the message (main.py and core/orders.py).            *)
(*                                                                         *)
(* Every handler is an asyncio task with a session of its own.  It loads    *)
(* the row of `groups` once; at a commit SQLAlchemy writes the attributes   *)
(* whose value differs from the one loaded, and no others.  Nothing keeps   *)
(* two handlers of one house apart.  Presses on the deals are one step      *)
(* each, as OrderBook promises; a deal has the row of one resident here.    *)
(***************************************************************************)
EXTENDS Naturals, Sequences, FiniteSets

CONSTANTS
    Deals,      \* the deals of the house
    Tasks,      \* names for the handlers that can run at one time
    Clicks,     \* the statuses on the buttons of the manager's message
    Infos,      \* the delivery data administrators write
    MaxOrders   \* bound: how often an order is sent to the manager

ASSUME MaxOrdersAssumption == MaxOrders \in Nat \ {0}
ASSUME ClicksAssumption == Clicks \cap {"pending", "none"} = {}
ASSUME InfosAssumption == "none" \notin Infos

VARIABLES
    draft,   \* the deals whose row is a draft
    order,   \* the deals whose row is confirmed
    group,   \* the committed row of the house in `groups`
    sent,    \* the messages in the manager's chat, oldest first
    task     \* the state of a handler

rows == <<draft, order>>
vars == <<draft, order, group, sent, task>>
-----------------------------------------------------------------------------
ORDER_STATUS_LABELS == Clicks \cup {"pending"}

NoOrder == 0

Group == [checkout_pending   : BOOLEAN,
          delivery_info      : Infos \cup {"none"},
          manager_message_id : NoOrder..MaxOrders, \* an index of `sent`
          order_status       : ORDER_STATUS_LABELS \cup {"none"}]

Message == [items : SUBSET Deals, label : ORDER_STATUS_LABELS]

Task == [pc : {"idle", "text", "summary", "failed", "reset", "selected",
               "asked", "opening", "thinking", "click", "label"},
         seen  : Group,               \* the attributes it loaded and may change
         todo  : SUBSET Deals,        \* deals the summary has still to read
         items : SUBSET Deals,        \* summary: confirmed; reset: selected
         msg   : NoOrder..MaxOrders,  \* the message it sent or was pressed on
         new   : ORDER_STATUS_LABELS] \* the status that was pressed

NewGroup == [checkout_pending |-> FALSE, delivery_info |-> "none",
             manager_message_id |-> NoOrder, order_status |-> "none"]

NoTask == [pc |-> "idle", seen |-> NewGroup, todo |-> {}, items |-> {},
           msg |-> NoOrder, new |-> "pending"]

TypeOK ==
    /\ draft \in SUBSET Deals /\ order \in SUBSET (Deals \ draft)
    /\ group \in Group
    /\ sent \in Seq(Message) /\ Len(sent) <= MaxOrders
    /\ task \in [Tasks -> Task]

Init ==
    /\ draft = {} /\ order = {}
    /\ group = NewGroup
    /\ sent = <<>>
    /\ task = [t \in Tasks |-> NoTask]

\* A handler begins by loading the row of the house; it remembers what it will
\* compare with, the attributes `attrs`.
Begin(t, pc, attrs) ==
    /\ task[t].pc = "idle"
    /\ task' = [task EXCEPT ![t] =
                   [NoTask EXCEPT !.pc = pc, !.seen =
                      [a \in DOMAIN group |-> IF a \in attrs THEN group[a]
                                              ELSE NewGroup[a]]]]

End(t) == task' = [task EXCEPT ![t] = NoTask]

\* The reset after a delivery flushes the new message id before it reads the
\* deals, and holds the lock of the row from then on.
Free(t) == \A t2 \in Tasks \ {t} :
               ~(task[t2].pc = "selected" /\ task[t2].msg # NoOrder)

\* The value a commit leaves: `new` where the handler changed what it loaded.
Put(now, loaded, new) == IF new # loaded THEN new ELSE now

\* The row of the house as handler t leaves it, before what else t changes: with
\* the id and the first status of the message it sent, if its answer came.
Adopted(t) ==
    IF task[t].msg = NoOrder THEN group
    ELSE [group EXCEPT !.manager_message_id = task[t].msg,
                       !.order_status = Put(@, task[t].seen.order_status, "pending")]
-----------------------------------------------------------------------------
\* A resident drafts a row of deal d, confirms it, or takes the last of it back.
\* The row that is gone is no longer one a reset has selected.
Draft(d) ==
    /\ d \notin draft \cup order
    /\ draft' = draft \cup {d}
    /\ UNCHANGED <<order, group, sent, task>>

Confirm(d) ==
    /\ d \in draft
    /\ draft' = draft \ {d} /\ order' = order \cup {d}
    /\ UNCHANGED <<group, sent, task>>

Withdraw(d) ==
    /\ d \in draft \cup order
    /\ draft' = draft \ {d} /\ order' = order \ {d}
    /\ task' = [t \in Tasks |-> IF task[t].pc = "selected"
                                THEN [task[t] EXCEPT !.items = @ \ {d}]
                                ELSE task[t]]
    /\ UNCHANGED <<group, sent>>
-----------------------------------------------------------------------------
\* HOUSE_CHECKOUT: an administrator opens the checkout of a house in which
\* something is confirmed; anyone else, or an empty order, is refused.
PressCheckout(t) ==
    /\ Begin(t, "asked", {"checkout_pending"})
    /\ UNCHANGED <<rows, group, sent>>

\* The summary of the house is not empty; it is used for nothing else.
SeeOrder(t) ==
    /\ task[t].pc = "asked" /\ order # {}
    /\ task' = [task EXCEPT ![t].pc = "opening"]
    /\ UNCHANGED <<rows, group, sent>>

OpenCheckout(t) ==
    /\ task[t].pc = "opening" /\ Free(t)
    /\ group' = [group EXCEPT !.checkout_pending =
                    Put(@, task[t].seen.checkout_pending, TRUE)]
    /\ End(t)
    /\ UNCHANGED <<rows, sent>>

RefuseCheckout(t) ==
    /\ task[t].pc = "asked"
    /\ End(t)
    /\ UNCHANGED <<rows, group, sent>>

\* HOUSE_THINKING: any resident closes it again.
PressThinking(t) ==
    /\ Begin(t, "thinking", {"checkout_pending"})
    /\ UNCHANGED <<rows, group, sent>>

CloseCheckout(t) ==
    /\ task[t].pc = "thinking" /\ Free(t)
    /\ group' = [group EXCEPT !.checkout_pending =
                    Put(@, task[t].seen.checkout_pending, FALSE)]
    /\ End(t)
    /\ UNCHANGED <<rows, sent>>
-----------------------------------------------------------------------------
\* on_group_message while the checkout is open.  (While it is closed the text
\* is stored for the tone of the house.)
ReceiveText(t) ==
    /\ group.checkout_pending
    /\ Begin(t, "text", {"checkout_pending", "delivery_info", "order_status"})
    /\ UNCHANGED <<rows, group, sent>>

\* Not an administrator, or not delivery data.
IgnoreText(t) ==
    /\ task[t].pc = "text"
    /\ End(t)
    /\ UNCHANGED <<rows, group, sent>>

\* The delivery data are stored, the checkout is closed, the row committed.
AcceptText(t, info) ==
    LET seen == task[t].seen IN
    /\ task[t].pc = "text" /\ Free(t)
    /\ group' = [group EXCEPT !.delivery_info = Put(@, seen.delivery_info, info),
                              !.checkout_pending = FALSE]
    /\ task' = [task EXCEPT ![t].pc = "summary", ![t].todo = Deals,
                   ![t].seen = [seen EXCEPT !.delivery_info = info,
                                            !.checkout_pending = FALSE]]
    /\ UNCHANGED <<rows, sent>>

\* build_house_order_summary reads the confirmed rows deal by deal.
ReadDeal(t, d) ==
    /\ task[t].pc = "summary" /\ d \in task[t].todo
    /\ task' = [task EXCEPT ![t].todo = @ \ {d},
                            ![t].items = @ \cup (order \cap {d})]
    /\ UNCHANGED <<rows, group, sent>>

\* Mistake: the message shows the status the house has, not the first one.
Send_showsStored(t) ==
    /\ task[t].pc = "summary" /\ task[t].todo = {} /\ task[t].items # {}
    /\ Len(sent) < MaxOrders
    /\ sent' = Append(sent, [items |-> task[t].items,
                             label |-> task[t].seen.order_status])
    /\ \E pc \in {"reset", "failed"}, msg \in {NoOrder, Len(sent) + 1} :
          /\ pc = "reset" => msg # NoOrder
          /\ task' = [task EXCEPT ![t].pc = pc, ![t].msg = msg]
    /\ UNCHANGED <<rows, group>>

\* The message arrives in the manager's chat; its id is kept in memory.  When
\* the answer to the request is lost the bot takes it for a failure; when the
\* answer came but the session of the bot cannot be closed it does so too.
Send(t) ==
    /\ task[t].pc = "summary" /\ task[t].todo = {} /\ task[t].items # {}
    /\ Len(sent) < MaxOrders
    /\ sent' = Append(sent, [items |-> task[t].items, label |-> "pending"])
    /\ \E pc \in {"reset", "failed"}, msg \in {NoOrder, Len(sent) + 1} :
          /\ pc = "reset" => msg # NoOrder
          /\ task' = [task EXCEPT ![t].pc = pc, ![t].msg = msg]
    /\ UNCHANGED <<rows, group>>

\* Mistake: with nothing confirmed the handler waits for a confirmation.
SendFails_waits(t) ==
    /\ task[t].pc = "summary" /\ task[t].todo = {} /\ task[t].items # {}
    /\ task' = [task EXCEPT ![t].pc = "failed"]
    /\ UNCHANGED <<rows, group, sent>>

\* Nothing is confirmed, no manager is configured, or the request fails.
SendFails(t) ==
    /\ task[t].pc = "summary" /\ task[t].todo = {}
    /\ task' = [task EXCEPT ![t].pc = "failed"]
    /\ UNCHANGED <<rows, group, sent>>

\* Then the checkout is open again.
Reopen(t) ==
    /\ task[t].pc = "failed" /\ Free(t)
    /\ group' = [Adopted(t) EXCEPT !.checkout_pending = TRUE]
    /\ End(t)
    /\ UNCHANGED <<rows, sent>>
-----------------------------------------------------------------------------
\* /reset of an administrator; the reset after a delivery follows Send.
PressReset(t) ==
    /\ Begin(t, "reset", {"checkout_pending", "delivery_info"})
    /\ UNCHANGED <<rows, group, sent>>

\* The word of thanks to the house cannot be sent: the handler ends.
ThanksFail(t) ==
    /\ task[t].pc = "reset"
    /\ End(t)
    /\ UNCHANGED <<rows, group, sent>>

\* It selects the rows it will delete, drafts as well (DealPosts has this deal
\* by deal).
SelectRows(t) ==
    /\ task[t].pc = "reset"
    /\ task[t].msg # NoOrder => Free(t)
    /\ task' = [task EXCEPT ![t].pc = "selected", ![t].items = draft \cup order]
    /\ UNCHANGED <<rows, group, sent>>

\* What the reset leaves of the row.
Cleared(t) ==
    [Adopted(t) EXCEPT
        !.checkout_pending = Put(@, task[t].seen.checkout_pending, FALSE),
        !.delivery_info = Put(@, task[t].seen.delivery_info, "none")]

\* Mistake: the reset leaves the checkout open.
CommitReset_keepsCheckout(t) ==
    /\ task[t].pc = "selected" /\ Free(t)
    /\ draft' = draft \ task[t].items /\ order' = order \ task[t].items
    /\ group' = [Cleared(t) EXCEPT !.checkout_pending = group.checkout_pending]
    /\ End(t)
    /\ UNCHANGED sent

\* Mistake: the status of the order is not started anew.
CommitReset_keepsStatus(t) ==
    /\ task[t].pc = "selected" /\ Free(t)
    /\ draft' = draft \ task[t].items /\ order' = order \ task[t].items
    /\ group' = [Cleared(t) EXCEPT !.order_status = group.order_status]
    /\ End(t)
    /\ UNCHANGED sent

\* Mistake: a reset also forgets the order that is with the manager.
CommitReset_forgets(t) ==
    /\ task[t].pc = "selected" /\ Free(t)
    /\ draft' = draft \ task[t].items /\ order' = order \ task[t].items
    /\ group' = IF task[t].msg # NoOrder THEN Cleared(t) ELSE NewGroup
    /\ End(t)
    /\ UNCHANGED sent

\* reset_house_order commits: the rows it selected are gone.
CommitReset(t) ==
    /\ task[t].pc = "selected" /\ Free(t)
    /\ draft' = draft \ task[t].items /\ order' = order \ task[t].items
    /\ group' = Cleared(t)
    /\ End(t)
    /\ UNCHANGED sent
-----------------------------------------------------------------------------
\* The manager presses status s under message i; only the message whose id the
\* house has is current.  (A message that shows the order done or cancelled has
\* no buttons, but a press may still be on its way.)
Click(t, i, s) ==
    /\ task[t].pc = "idle"
    /\ group.manager_message_id = i
    /\ task' = [task EXCEPT ![t] = [NoTask EXCEPT
                   !.pc = "click", !.seen.order_status = group.order_status,
                   !.msg = i, !.new = s]]
    /\ UNCHANGED <<rows, group, sent>>

\* The status is committed ...
SetStatus(t) ==
    /\ task[t].pc = "click" /\ Free(t)
    /\ group' = [group EXCEPT !.order_status =
                    Put(@, task[t].seen.order_status, task[t].new)]
    /\ task' = [task EXCEPT ![t].pc = "label"]
    /\ UNCHANGED <<rows, sent>>

\* ... then shown under the message, and the house is told.
EditLabel(t) ==
    /\ task[t].pc = "label"
    /\ sent' = [sent EXCEPT ![task[t].msg].label = task[t].new]
    /\ End(t)
    /\ UNCHANGED <<rows, group>>

EditLabelFails(t) ==
    /\ task[t].pc = "label"
    /\ End(t)
    /\ UNCHANGED <<rows, group, sent>>
-----------------------------------------------------------------------------
\* The process stops and starts again.
Crash ==
    /\ task' = [t \in Tasks |-> NoTask]
    /\ UNCHANGED <<rows, group, sent>>

Step(t) == \/ SeeOrder(t) \/ OpenCheckout(t) \/ RefuseCheckout(t)
           \/ CloseCheckout(t)
           \/ IgnoreText(t) \/ \E info \in Infos : AcceptText(t, info)
           \/ \E d \in Deals : ReadDeal(t, d)
           \/ Send(t) \/ SendFails(t) \/ Reopen(t)
           \/ ThanksFail(t) \/ SelectRows(t) \/ CommitReset(t)
           \/ SetStatus(t) \/ EditLabel(t) \/ EditLabelFails(t)

Next == \/ \E d \in Deals : Draft(d) \/ Confirm(d) \/ Withdraw(d)
        \/ \E t \in Tasks :
              \/ PressCheckout(t) \/ PressThinking(t) \/ ReceiveText(t)
              \/ PressReset(t)
              \/ \E i \in DOMAIN sent, s \in Clicks : Click(t, i, s)
              \/ Step(t)
        \/ Crash

Spec == Init /\ [][Next]_vars

\* A handler that can go on does; the lock of a row is granted in turn.
FairSpec == Spec /\ \A t \in Tasks : SF_vars(Step(t))
-----------------------------------------------------------------------------
(* PROPERTIES                                                              *)

\* The house knows a status exactly when it knows the message of an order that
\* is in the manager's chat (orders.py:318-319, main.py:900-904): whatever is
\* lost, in memory or in flight, the two are never apart.
StatusHasMessage ==
    /\ group.manager_message_id \in {NoOrder} \cup DOMAIN sent
    /\ group.manager_message_id = NoOrder <=> group.order_status = "none"

\* A new order starts with the status "pending" (orders.py:319), the one its
\* message shows.
NewOrderPending ==
    [][group'.manager_message_id # group.manager_message_id
           => group'.order_status = "pending"]_vars

\* A reset clears an unfinished checkout and its delivery data (main.py:213).
ResetClearsCheckout ==
    [][\A t \in Tasks : CommitReset(t) =>
          ~group'.checkout_pending /\ group'.delivery_info = "none"]_vars

\* What the house and the manager see of all this is Delivery: orders sent as
\* messages, one of them current, its status the manager's (orders.py:267-325).
D == INSTANCE Delivery WITH
         chat <- sent,
         current <- group.manager_message_id,
         status <- group.order_status
Delivers == D!Spec

\* Every handler comes to its end: no checkout hangs between the delivery data
\* and the answer to the administrator.
HandlersEnd == \A t \in Tasks : task[t].pc # "idle" ~> task[t].pc = "idle"
-----------------------------------------------------------------------------
(* DISAGREEMENTS: what the documents say and the code does not do.  No run  *)
(* checks these; README.md says in which instance TLC shows each to fail.   *)

\* "Confirm adds the draft to the order" (orders.py:128): what the reset after
\* a delivery deletes is what the delivered message says.
DeliveredIsReset ==
    [][\A t \in Tasks : CommitReset(t) /\ task[t].msg # NoOrder =>
          order \ order' \subseteq sent[task[t].msg].items]_vars

\* "A change of the status updates the manager's message" (README.md:45-46):
\* when the current message changes, it shows the status of the order.
LabelTellsStatus ==
    [][\A i \in DOMAIN sent :
          sent'[i].label # sent[i].label /\ i = group.manager_message_id
              => sent'[i].label = group.order_status]_vars

\* A press under the message of an earlier order is refused ("no longer
\* current", main.py:901): a status is only set for the order it was pressed on.
StatusOfCurrentOrder ==
    [][\A t \in Tasks : SetStatus(t) => task[t].msg = group.manager_message_id]_vars
=============================================================================
