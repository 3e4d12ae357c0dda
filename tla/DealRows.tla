------------------------------ MODULE DealRows ------------------------------
(***************************************************************************)
(* The two tables a house's order lives in: one row of `deals` per posted   *)
(* product and at most one row of `participants` per deal and resident      *)
(* (db/models.py), with the pure helpers core/orders.py computes on them.   *)
(*                                                                         *)
(* A quantity is counted in the column's own unit (thousandths of a piece  *)
(* or of a kilogram, Numeric(10, 3)), so it is a natural number here.  No   *)
(* committed row has quantity zero, so a missing row is the quantity 0.     *)
(***************************************************************************)
EXTENDS Naturals, FiniteSets, Functions

CONSTANTS
    Deals,   \* ids of the deals of one house
    Users,   \* telegram ids of its residents
    Step,    \* Step[d]: what one press of the + or - button adds or takes
    Pack,    \* Pack[d]: the wholesale pack size of the deal
    MaxQty   \* the largest quantity the column holds

ASSUME DealsAssumption  == Deals # {}
ASSUME UsersAssumption  == Users # {} /\ IsFiniteSet(Users)
ASSUME StepAssumption   == Step \in [Deals -> Nat \ {0}]
ASSUME PackAssumption   == Pack \in [Deals -> Nat \ {0}]
ASSUME MaxQtyAssumption == MaxQty \in Nat

-----------------------------------------------------------------------------
DealStatus == {"collecting", "goal_reached", "expired", "cancelled",
               "sent_to_manager", "confirmed"}

OPEN_STATUSES == {"collecting", "goal_reached", "sent_to_manager", "confirmed"}

Row == [qty : 0..MaxQty, confirmed : BOOLEAN]

NoRow == [qty |-> 0, confirmed |-> FALSE]

\* The participants of one deal: one row, or none, per resident.
Rows == [Users -> Row]

Empty == [u \in Users |-> NoRow]

\* The sum of the CONFIRMED quantities of a deal ("collected").
deal_total(rows) ==
    SumFunction([u \in Users |-> IF rows[u].confirmed THEN rows[u].qty ELSE 0])

\* The drafts of a deal that wait for confirmation: a quantity per resident.
deal_pending(rows) ==
    [u \in Users |-> IF rows[u].confirmed THEN 0 ELSE rows[u].qty]

\* The quantity after one press, without the row when nothing is left of it:
\* next_quantity and should_remove together.
next_quantity(row, op, step) ==
    IF op = "inc" THEN row.qty + step
    ELSE IF row.qty > step THEN row.qty - step ELSE 0

\* Whether a deal that was read with this status is marked as having
\* collected its pack, now that its confirmed total is `total`.
_maybe_mark_reached(d, readStatus, total) ==
    readStatus = "collecting" /\ total >= Pack[d]

\* What the column can hold of the totals (a total is never typed further:
\* it is computed, shown and compared with the pack size).
Totals == {0} \cup {deal_total(rows) : rows \in Rows}
=============================================================================
