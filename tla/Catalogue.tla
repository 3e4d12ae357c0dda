------------------------------ MODULE Catalogue ------------------------------
(***************************************************************************)
(* How a scan gets the offers of a city: get_wholesale_products             *)
(* (core/mcp_client.py) and filter_new_deals (core/promo_scanner.py).  The  *)
(* first page says how many goods there are; the others are asked for       *)
(* together, and one that fails is left out.  Meanwhile the shop goes on    *)
(* selling, so goods move from page to page.                                *)
(*                                                                         *)
(* A request here is a call of McpClient, with all its retries.             *)
(***************************************************************************)
EXTENDS Prices, FiniteSets, Sequences

CONSTANTS
    Ids,          \* of products
    Shelves,      \* bound: what the shop offers when the fetch begins
    Limit,        \* goods on a page
    MaxPages,     \* max_pages
    MinDiscount,  \* min_discount_percent
    Malformed,    \* products whose items lack a key that from_mcp reads
    NewItems,     \* bound: what may come during the fetch
    Retail,       \* bound: the prices an item may change to
    MaxChanges    \* bound: changes of the shelf during the fetch

\* The shop lists a product once.
ASSUME ShelvesAssumption ==
    /\ Shelves \subseteq Seq(Item(Ids))
    /\ \A s \in Shelves : \A m, n \in 1..Len(s) : s[m].id = s[n].id => m = n
ASSUME MalformedAssumption == Malformed \subseteq Ids
ASSUME NewAssumption == NewItems \subseteq Item(Ids) /\ Retail \subseteq Nat \ {0}
ASSUME PagesAssumption == {Limit, MaxPages} \subseteq Nat \ {0} /\ MaxChanges \in Nat

\* The default is 25 per cent (config.py:25).  With any other than zero, an offer
\* without a discount is none.
ASSUME DiscountAssumption == MinDiscount \in Nat \ {0}

VARIABLES
    shelf,     \* what the shop offers, in its order
    shown,     \* every item it has offered since the fetch began
    changes,   \* how often it changed
    page,      \* the answers by page number, "page", "empty" or "failed" with
               \* its goods; those still out left away
    asked,     \* the pages asked for
    products,  \* what the fetch returns ...
    returned,  \* ... when it has ...
    raised     \* ... or has raised an exception instead

vars == <<shelf, shown, changes, page, asked, products, returned, raised>>
-----------------------------------------------------------------------------
On(s) == {s[n] : n \in 1..Len(s)}

Init ==
    /\ shelf \in Shelves
    /\ shown = On(shelf)
    /\ changes = 0
    /\ page = <<>>
    /\ asked = {0}
    /\ products = {}
    /\ returned = FALSE
    /\ raised = FALSE

Out(k) == k \in asked \ DOMAIN page

\* The goods of page k; a page beyond the last has none.
Page(k) == LET last == (k + 1) * Limit IN
           SubSeq(shelf, k * Limit + 1, IF last < Len(shelf) THEN last ELSE Len(shelf))

Put(k, answer, items) ==
    page' = [j \in DOMAIN page \cup {k} |->
                IF j = k THEN [answer |-> answer, items |-> items] ELSE page[j]]

\* Mistake: only pages that are full are asked for.
OtherPages_full(total) == {k \in 1..(MaxPages - 1) : (k + 1) * Limit <= total}

\* The pages after the first, when there are `total` goods.
OtherPages(total) == {k \in 1..(MaxPages - 1) : k * Limit < total}
-----------------------------------------------------------------------------
\* The first page is there.  If it says how many goods there are, the others
\* are asked for, else all there may be.
FirstPage ==
    /\ Out(0)
    /\ Put(0, "page", Page(0))
    /\ asked' = asked \cup OtherPages(Len(shelf))
    /\ UNCHANGED <<shelf, shown, changes, products, returned, raised>>

FirstWithoutTotal ==
    /\ Out(0)
    /\ \/ Put(0, "page", Page(0))
       \/ Put(0, "empty", <<>>)
    /\ asked' = 0..(MaxPages - 1)
    /\ UNCHANGED <<shelf, shown, changes, products, returned, raised>>

\* Another page is there ...
NextPage(k) ==
    /\ k # 0 /\ Out(k)
    /\ Put(k, "page", Page(k))
    /\ UNCHANGED <<shelf, shown, changes, asked, products, returned, raised>>

\* ... or the call gave up, or was answered with an error or with nothing:
\* call_tool raises for the one and returns {} for the others.
NoPage(k) ==
    /\ k # 0 /\ Out(k)
    /\ \E answer \in {"failed", "empty"} : Put(k, answer, <<>>)
    /\ UNCHANGED <<shelf, shown, changes, asked, products, returned, raised>>

Places == UNION {{<<k, n>> : n \in 1..Len(page[k].items)} : k \in DOMAIN page}
At(p)  == page[p[1]].items[p[2]]

\* A place comes before another when the pages are read in order.
Before(p, q) == p[1] < q[1] \/ (p[1] = q[1] /\ p[2] < q[2])

\* Mistake: an item that is on two pages is taken twice.
Collected_all == UNION {from_mcp(At(p)) : p \in Places}

\* The products of all pages, of each the first that has a tier.
Collected ==
    LET usable == {p \in Places : from_mcp(At(p)) # {}}
        first  == {p \in usable : ~\E q \in usable : Before(q, p) /\ At(q).id = At(p).id}
    IN  UNION {from_mcp(At(p)) : p \in first}

Done     == returned \/ raised
Answered == asked = DOMAIN page

\* An item that from_mcp does not survive: it reads the keys of one with a tier.
Broken(p) == At(p).id \in Malformed /\ from_mcp(At(p)) # {}

\* All pages are there or have failed: the products are returned.
Return ==
    /\ ~Done /\ Answered
    /\ ~\E p \in Places : Broken(p)
    /\ products' = Collected
    /\ returned' = TRUE
    /\ UNCHANGED <<shelf, shown, changes, page, asked, raised>>

\* One broken item and the products of all pages are lost.
ItemRaises ==
    /\ ~Done /\ Answered
    /\ \E p \in Places : Broken(p)
    /\ raised' = TRUE
    /\ UNCHANGED <<shelf, shown, changes, page, asked, products, returned>>

\* The first page fails.  After either exception the city is left out.
Raise ==
    /\ Out(0)
    /\ Put(0, "failed", <<>>)
    /\ raised' = TRUE
    /\ UNCHANGED <<shelf, shown, changes, asked, products, returned>>

\* An item is sold out, or comes, or gets another price.
Change ==
    /\ changes < MaxChanges /\ ~Done
    /\ \/ \E n \in 1..Len(shelf) :
             shelf' = [m \in 1..(Len(shelf) - 1) |-> IF m < n THEN shelf[m] ELSE shelf[m + 1]]
       \/ \E item \in NewItems :
             /\ \A i \in On(shelf) : i.id # item.id
             /\ shelf' = <<item>> \o shelf
       \/ \E n \in 1..Len(shelf), price \in Retail :
             shelf' = [shelf EXCEPT ![n].price = price]
    /\ shown' = shown \cup On(shelf')
    /\ changes' = changes + 1
    /\ UNCHANGED <<page, asked, products, returned, raised>>

\* A group that has seen `posted` is offered these.
Offers(posted) == filter_new_deals(products, posted, MinDiscount)

Next == \/ FirstPage \/ FirstWithoutTotal \/ Raise
        \/ Return \/ ItemRaises \/ Change
        \/ \E k \in asked : NextPage(k) \/ NoPage(k)

Spec == Init /\ [][Next]_vars
-----------------------------------------------------------------------------
(* PROPERTIES                                                              *)

\* Every offer is one the shop really had while it was asked: in stock, with its
\* best discount in the units of the retail price, and a product comes once, at
\* one price, though it may have been on two pages (savings.py:46,
\* mcp_client.py:74, 310).
OffersReal ==
    returned => \A posted \in SUBSET Ids : \A p \in Offers(posted) :
        /\ p.id \notin posted
        /\ \E item \in shown : p \in OffersOf(item, MinDiscount)
        /\ \A q \in Offers(posted) : q.id = p.id => q = p

\* While the shelf does not change, a fetch that returns has all that is worth an
\* offer, unless the page it is on failed or there are too many: no page between is
\* left out, and the failure of one costs only its own goods (mcp_client.py:284-303).
NothingMissed ==
    returned /\ changes = 0 =>
        \A n \in 1..Len(shelf) :
            LET k == (n - 1) \div Limit IN
            k < MaxPages /\ (k \in DOMAIN page => page[k].answer = "page")
                => OffersOf(shelf[n], MinDiscount) \subseteq Offers({})
-----------------------------------------------------------------------------
(* DISAGREEMENTS: what the documents say and the code does not do.  No run  *)
(* checks these; README.md says in which instance TLC shows each to fail.   *)

\* from_mcp gives None for an item that is not available (mcp_client.py:62).
OnlyAvailable == returned => \A p \in products : p.in_stock

\* "Tiers with price >= retail (no real discount) are ignored" (savings.py:32).
TiersDiscounted == returned => \A p \in products : p.wholesale < p.retail

\* An error payload raises MCPToolError (mcp_client.py:34): when nothing but
\* errors came, the fetch does not return as if the shop had no offers.
ErrorsTell == returned => \E k \in DOMAIN page : page[k].answer # "empty"
=============================================================================
