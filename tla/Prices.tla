------------------------------- MODULE Prices --------------------------------
(***************************************************************************)
(* What an item of the shop costs a house that buys it by the pack:         *)
(* core/savings.py, Product.from_mcp (core/mcp_client.py) and               *)
(* filter_new_deals (core/promo_scanner.py), over whole kopecks.            *)
(*                                                                         *)
(* The shop gives the retail price of goods by weight for a kilogram and    *)
(* their wholesale prices for 100 g.                                        *)
(***************************************************************************)
EXTENDS Integers

\* A wholesale price: from `count` on, if `from` holds.  It does not for a tier
\* of another type, or one whose price or count is not a number.
Tier == [price : Nat, count : Nat, from : BOOLEAN]

Item(Ids) == [id       : Ids,
              price    : Nat \ {0},     \* retail
              tiers    : SUBSET Tier,   \* specialPrices
              weighted : BOOLEAN,
              in_stock : BOOLEAN]       \* available, and some are left
-----------------------------------------------------------------------------
\* Percent in hundredths, as `round(..., 2)` leaves it.
calc_discount_percent(retail, wholesale) ==
    (20000 * (retail - wholesale) + retail) \div (2 * retail)

\* The cheapest tier that is below the retail price, and of several the one with
\* the smallest count: a set of one, or of none for None.
best_special_price(tiers, retail) ==
    LET candidates == {t \in tiers : t.from /\ t.count > 0 /\ t.price < retail}
    IN  {t \in candidates : \A u \in candidates :
            t.price < u.price \/ (t.price = u.price /\ t.count <= u.count)}

\* What a group is shown of an item that costs `wholesale`, from `pack` on.
Product(item, wholesale, pack) ==
    [id        |-> item.id,
     retail    |-> item.price,
     wholesale |-> wholesale,
     pack      |-> pack,
     discount  |-> calc_discount_percent(item.price, wholesale),
     in_stock  |-> item.in_stock]

\* Mistake: the price of 100 g is taken for that of a kilogram.
from_mcp_raw(item) ==
    {Product(item, t.price, t.count) : t \in best_special_price(item.tiers, item.price)}

\* The product an item is, or none.
from_mcp(item) ==
    {Product(item, IF item.weighted THEN 10 * t.price ELSE t.price, t.count) :
        t \in best_special_price(item.tiers, item.price)}

\* What of the products is posted to a group that has seen `posted`.  Their
\* order is left out (Ranking takes any), the limit too: the scan sets none.
filter_new_deals(products, posted, min_discount) ==
    {p \in products : /\ p.id \notin posted
                      /\ p.in_stock
                      /\ p.discount >= 100 * min_discount}
-----------------------------------------------------------------------------
(* REFERENCE: what an offer is, in the units of the retail price.           *)

PriceOf(item, tier) == IF item.weighted THEN 10 * tier.price ELSE tier.price

Discounts(item) ==
    {t \in item.tiers : t.from /\ t.count > 0 /\ PriceOf(item, t) < item.price}

\* The cheapest discount, and the smallest pack it is to be had for.
IsBest(item, t) ==
    /\ t \in Discounts(item)
    /\ \A u \in Discounts(item) :
          \/ PriceOf(item, t) < PriceOf(item, u)
          \/ PriceOf(item, t) = PriceOf(item, u) /\ t.count <= u.count

\* The offers an item is good for: one, or none.
OffersOf(item, min_discount) ==
    {Product(item, PriceOf(item, t), t.count) :
        t \in {u \in item.tiers :
                 /\ item.in_stock
                 /\ IsBest(item, u)
                 /\ calc_discount_percent(item.price, PriceOf(item, u))
                        >= 100 * min_discount}}
=============================================================================
