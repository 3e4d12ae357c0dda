------------------------------ MODULE Delivery -------------------------------
(***************************************************************************)
(* What the checkout of a house promises, without handlers, stored           *)
(* attributes or restarts: an order goes to the manager's chat as one        *)
(* message that never changes but in its label; the house knows one message  *)
(* as its current order, and once it knows one it always does; only the      *)
(* manager's presses move the status of the current order, and only a        *)
(* reset takes deals away that nobody took back.                             *)
(***************************************************************************)
EXTENDS Naturals, Sequences

CONSTANTS Deals,  \* the deals of the house
          Clicks  \* the statuses on the buttons of a message

VARIABLES order,    \* the deals with a confirmed row
          chat,     \* the messages in the manager's chat, oldest first
          current,  \* the message of the house's order, NoOrder before the first
          status    \* the status of that order

vars == <<order, chat, current, status>>

NoOrder == 0

Init == /\ order = {}
        /\ chat = <<>>
        /\ current = NoOrder
        /\ status = "none"

\* A resident's deal enters or leaves the order.
Confirm(d)  == order' = order \cup {d} /\ UNCHANGED <<chat, current, status>>
Withdraw(d) == order' = order \ {d} /\ UNCHANGED <<chat, current, status>>

\* An order of at least one deal goes to the manager.
Send(items) ==
    /\ items # {}
    /\ chat' = Append(chat, [items |-> items, label |-> "pending"])
    /\ UNCHANGED <<order, current, status>>

\* A reset takes deals away and leaves the order that was sent as it is.
Clear ==
    /\ order' \subseteq order
    /\ UNCHANGED <<chat, current, status>>

\* The reset after a delivery also makes its message the current order; a
\* status the house had before may stay.
Adopt(i) ==
    /\ order' \subseteq order
    /\ current' = i
    /\ status' \in {"pending"} \cup ({status} \ {"none"})
    /\ UNCHANGED chat

\* The manager reports on the current order.
Report(s) ==
    /\ current # NoOrder
    /\ status' = s
    /\ UNCHANGED <<order, chat, current>>

\* A reported status is shown under its message.
Show(i, s) ==
    /\ chat' = [chat EXCEPT ![i].label = s]
    /\ UNCHANGED <<order, current, status>>

Next == \/ \E d \in Deals : Confirm(d) \/ Withdraw(d)
        \/ \E items \in SUBSET Deals : Send(items)
        \/ Clear
        \/ \E i \in DOMAIN chat : Adopt(i) \/ \E s \in Clicks : Show(i, s)
        \/ \E s \in Clicks : Report(s)

Spec == Init /\ [][Next]_vars
=============================================================================
