----------------------------- MODULE OrderBook ------------------------------
(***************************************************************************)
(* What the order of a house promises, without tasks, locks, transactions  *)
(* or chat posts: every press of a button changes one resident's row in    *)
(* one step, by exactly one press, computed from the row as it is; and a    *)
(* reset takes rows away and adds none.  A deal is marked as having         *)
(* collected its pack only in a press, and unmarked only in a reset.        *)
(***************************************************************************)
EXTENDS DealRows

VARIABLES order,    \* order[d][u]: the participant row of u in deal d
          status    \* status[d]: the status of deal d

vars == <<order, status>>

Init == /\ order = [d \in Deals |-> Empty]
        /\ status = [d \in Deals |-> "collecting"]

\* A press on deal d: its row of u becomes `row`, and the deal may be marked.
Put(d, u, row) ==
    /\ order' = [order EXCEPT ![d][u] = row]
    /\ status' \in {status, [status EXCEPT ![d] = "goal_reached"]}

More(d, u) ==
    Put(d, u, [order[d][u] EXCEPT !.qty = @ + Step[d]])

Less(d, u) ==
    Put(d, u, IF order[d][u].qty > Step[d]
              THEN [order[d][u] EXCEPT !.qty = @ - Step[d]]
              ELSE NoRow)

Confirm(d, u) ==
    /\ order[d][u] # NoRow
    /\ ~order[d][u].confirmed
    /\ Put(d, u, [order[d][u] EXCEPT !.confirmed = TRUE])

\* A reset removes rows; a deal it returns to collecting is collecting.
Clear ==
    \E gone \in [Deals -> SUBSET Users], back \in SUBSET Deals :
        /\ order' = [d \in Deals |-> [u \in Users |->
                        IF u \in gone[d] THEN NoRow ELSE order[d][u]]]
        /\ status' = [d \in Deals |->
                        IF d \in back THEN "collecting" ELSE status[d]]

Next == \/ \E d \in Deals, u \in Users : More(d, u) \/ Less(d, u) \/ Confirm(d, u)
        \/ Clear

Spec == Init /\ [][Next]_vars
=============================================================================
