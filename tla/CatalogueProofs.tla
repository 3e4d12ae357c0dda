--------------------------- MODULE CatalogueProofs ---------------------------
(***************************************************************************)
(* What a scan is offered, for every shelf, every number of pages and goods *)
(* and every change of the shelf during the fetch: the offers are real, and *)
(* on a shelf that stands still none is missed.                             *)
(*                                                                         *)
(* First the prices: what from_mcp makes of an item is an offer in the      *)
(* units of the retail price exactly when it passes the filter.  Then the   *)
(* fetch: what is on a page has been on the shelf, and each product comes   *)
(* from the first place it has.                                             *)
(***************************************************************************)
EXTENDS Catalogue, SequenceTheorems, TLAPS

(* PRICES                                                                  *)

\* A discount of a percent or more is one.
LEMMA DiscountIsOne ==
    ASSUME NEW retail \in Nat \ {0}, NEW wholesale \in Nat, NEW min \in Nat \ {0},
           calc_discount_percent(retail, wholesale) >= 100 * min
    PROVE  wholesale < retail
<1> DEFINE a == 20000 * (retail - wholesale) + retail
           b == 2 * retail
<1>1. a \in Int /\ b \in Nat \ {0}
  OBVIOUS
<1>2. a \div b >= 1
  BY DEF calc_discount_percent
<1>3. a >= b
  <2> HIDE DEF a, b
  <2>1. b * (a \div b) <= a
    BY <1>1
  <2>2. a \div b \in Int
    BY <1>1
  <2>3. b * (a \div b) >= b
    BY <1>1, <1>2, <2>2
  <2> QED BY <1>1, <2>1, <2>2, <2>3
<1> QED BY <1>3

\* The best tier is one in price and count.
LEMMA BestIsOne ==
    ASSUME NEW tiers \in SUBSET Tier, NEW retail \in Nat,
           NEW t \in best_special_price(tiers, retail),
           NEW u \in best_special_price(tiers, retail)
    PROVE  t.price = u.price /\ t.count = u.count
<1>1. t \in Tier /\ u \in Tier
  BY DEF best_special_price
<1>2. t.price \in Nat /\ u.price \in Nat /\ t.count \in Nat /\ u.count \in Nat
  BY <1>1 DEF Tier
<1>3. /\ t.price < u.price \/ (t.price = u.price /\ t.count <= u.count)
      /\ u.price < t.price \/ (u.price = t.price /\ u.count <= t.count)
  BY DEF best_special_price
<1> QED BY <1>2, <1>3

\* An item is one product at most, with its id.
LEMMA ProductIsOne ==
    ASSUME NEW item \in Item(Ids), NEW p \in from_mcp(item)
    PROVE  /\ p.id = item.id
           /\ \A q \in from_mcp(item) : q = p
<1>1. item.tiers \in SUBSET Tier /\ item.price \in Nat
  BY DEF Item
<1>2. PICK t \in best_special_price(item.tiers, item.price) :
         p = Product(item, IF item.weighted THEN 10 * t.price ELSE t.price, t.count)
  BY DEF from_mcp
<1>3. ASSUME NEW q \in from_mcp(item) PROVE q = p
  <2>1. PICK u \in best_special_price(item.tiers, item.price) :
           q = Product(item, IF item.weighted THEN 10 * u.price ELSE u.price, u.count)
    BY DEF from_mcp
  <2>2. t.price = u.price /\ t.count = u.count
    BY <1>1, BestIsOne
  <2> QED BY <1>2, <2>1, <2>2
<1>4. p.id = item.id
  BY <1>2 DEF Product
<1> QED BY <1>3, <1>4

\* The order of the prices is the same in both units.
LEMMA SameOrder ==
    ASSUME NEW item \in Item(Ids), NEW t \in item.tiers, NEW u \in item.tiers
    PROVE  /\ t.price \in Nat /\ t.count \in Nat /\ u.price \in Nat /\ u.count \in Nat
           /\ PriceOf(item, t) \in Nat /\ PriceOf(item, u) \in Nat
           /\ t.price <= PriceOf(item, t) /\ u.price <= PriceOf(item, u)
           /\ PriceOf(item, t) < PriceOf(item, u) <=> t.price < u.price
           /\ PriceOf(item, t) = PriceOf(item, u) <=> t.price = u.price
<1>1. /\ t.price \in Nat /\ t.count \in Nat /\ u.price \in Nat /\ u.count \in Nat
  BY DEF Item, Tier
<1> QED BY <1>1 DEF PriceOf

\* A product that passes the filter is the best discount of its item.
LEMMA ProductIsOffer ==
    ASSUME NEW item \in Item(Ids), NEW p \in from_mcp(item),
           p.in_stock, p.discount >= 100 * MinDiscount
    PROVE  p \in OffersOf(item, MinDiscount)
<1>1. PICK t \in best_special_price(item.tiers, item.price) :
         p = Product(item, PriceOf(item, t), t.count)
  BY DEF from_mcp, PriceOf
<1>2. /\ p.in_stock = item.in_stock
      /\ p.discount = calc_discount_percent(item.price, PriceOf(item, t))
  BY <1>1 DEF Product
<1>3. /\ t \in item.tiers /\ t.from /\ t.count > 0
      /\ \A u \in item.tiers : u.from /\ u.count > 0 /\ u.price < item.price =>
            t.price < u.price \/ (t.price = u.price /\ t.count <= u.count)
  BY DEF best_special_price
<1>4. item.price \in Nat \ {0} /\ PriceOf(item, t) \in Nat
  BY <1>3, SameOrder DEF Item
<1>5. PriceOf(item, t) < item.price
  BY <1>2, <1>4, DiscountIsOne, DiscountAssumption
<1>6. ASSUME NEW u \in Discounts(item)
      PROVE  \/ PriceOf(item, t) < PriceOf(item, u)
             \/ PriceOf(item, t) = PriceOf(item, u) /\ t.count <= u.count
  <2>1. u \in item.tiers /\ u.from /\ u.count > 0 /\ PriceOf(item, u) < item.price
    BY DEF Discounts
  <2>2. u.price < item.price
    BY <1>3, <1>4, <2>1, SameOrder
  <2> QED BY <1>3, <2>1, <2>2, SameOrder
<1>7. IsBest(item, t)
  BY <1>3, <1>5, <1>6 DEF IsBest, Discounts
<1> QED BY <1>1, <1>2, <1>3, <1>7 DEF OffersOf

\* And the best discount of an item is its product.
LEMMA OfferIsProduct ==
    ASSUME NEW item \in Item(Ids), NEW p \in OffersOf(item, MinDiscount)
    PROVE  /\ p \in from_mcp(item)
           /\ p.in_stock /\ p.discount >= 100 * MinDiscount
<1>1. PICK t \in item.tiers :
         /\ item.in_stock /\ IsBest(item, t)
         /\ calc_discount_percent(item.price, PriceOf(item, t)) >= 100 * MinDiscount
         /\ p = Product(item, PriceOf(item, t), t.count)
  BY DEF OffersOf
<1>2. p.in_stock /\ p.discount >= 100 * MinDiscount
  BY <1>1 DEF Product
<1>3. item.price \in Nat
  BY DEF Item
<1>4. t.from /\ t.count > 0 /\ PriceOf(item, t) < item.price
  BY <1>1 DEF IsBest, Discounts
<1>5. t.price < item.price
  BY <1>3, <1>4, SameOrder
<1>6. ASSUME NEW u \in item.tiers, u.from, u.count > 0, u.price < item.price
      PROVE  t.price < u.price \/ (t.price = u.price /\ t.count <= u.count)
  <2>1. CASE PriceOf(item, u) < item.price
    <3>1. \/ PriceOf(item, t) < PriceOf(item, u)
          \/ PriceOf(item, t) = PriceOf(item, u) /\ t.count <= u.count
      BY <1>1, <1>6, <2>1 DEF IsBest, Discounts
    <3> QED BY <3>1, SameOrder
  <2>2. CASE ~(PriceOf(item, u) < item.price)
    BY <1>3, <1>4, <2>2, SameOrder
  <2> QED BY <2>1, <2>2
<1>7. t \in best_special_price(item.tiers, item.price)
  BY <1>4, <1>5, <1>6 DEF best_special_price
<1>8. p \in from_mcp(item)
  BY <1>1, <1>7 DEF from_mcp, PriceOf
<1> QED BY <1>2, <1>8
-----------------------------------------------------------------------------
(* THE FETCH                                                               *)

\* What is on a page has been on the shelf, no page is there unasked, and the
\* others are asked for once the first is there.
TypeInv ==
    /\ shelf \in Seq(Item(Ids))
    /\ changes \in Nat
    /\ returned \in BOOLEAN /\ raised \in BOOLEAN
    /\ shown \in SUBSET Item(Ids)
    /\ On(shelf) \subseteq shown
    /\ asked \subseteq Nat /\ 0 \in asked
    /\ DOMAIN page \subseteq asked
    /\ 0 \notin DOMAIN page => asked = {0}
    /\ \A k \in DOMAIN page : page[k].items \in Seq(shown)

\* A product is made of an item that was shown, and comes once.
ProductsInv ==
    /\ \A p \in products : \E item \in shown : p \in from_mcp(item)
    /\ \A p, q \in products : p.id = q.id => p = q

\* The goods of a page, where they stand on the shelf.
LEMMA PageItems ==
    ASSUME shelf \in Seq(Item(Ids)), NEW k \in Nat
    PROVE  /\ Page(k) \in Seq(On(shelf))
           /\ \A n \in 1..Len(Page(k)) :
                 /\ n <= Limit /\ k * Limit + n \in 1..Len(shelf)
                 /\ Page(k)[n] = shelf[k * Limit + n]
           /\ \A n \in 1..Limit : k * Limit + n <= Len(shelf) => n \in 1..Len(Page(k))
<1> DEFINE a == k * Limit
           c == (k + 1) * Limit
           b == IF c < Len(shelf) THEN c ELSE Len(shelf)
<1>1. a \in Nat /\ c = a + Limit /\ Len(shelf) \in Nat /\ Limit \in Nat \ {0}
  <2>1. Limit \in Nat \ {0} /\ Len(shelf) \in Nat
    BY PagesAssumption
  <2>2. a \in Nat /\ c = a + Limit
    BY <2>1, SMT
  <2> QED BY <2>1, <2>2
<1>2. Page(k) = SubSeq(shelf, a + 1, b)
  BY DEF Page
<1> HIDE DEF a, c
<1>3. b \in Nat /\ b <= Len(shelf) /\ b <= a + Limit
  BY <1>1
<1>4. \A i \in (a + 1)..b : shelf[i] \in On(shelf)
  BY <1>1, <1>3 DEF On
<1> DEFINE s == SubSeq(shelf, a + 1, b)
<1>5. /\ s \in Seq(On(shelf))
      /\ Len(s) = IF a + 1 <= b THEN b - (a + 1) + 1 ELSE 0
      /\ \A i \in 1..(b - (a + 1) + 1) : s[i] = shelf[(a + 1) + i - 1]
  <2>1. a + 1 \in Int /\ b \in Int
    BY <1>1, <1>3
  <2> HIDE DEF b
  <2> QED BY <1>4, <2>1, SubSeqProperties
<1> HIDE DEF s
<1>6. ASSUME NEW n \in 1..Len(s)
      PROVE  n <= Limit /\ a + n \in 1..Len(shelf) /\ s[n] = shelf[a + n]
  <2>1. a + 1 <= b /\ n \in 1..(b - (a + 1) + 1)
    BY <1>1, <1>3, <1>5
  <2>2. (a + 1) + n - 1 = a + n
    BY <1>1, <2>1
  <2> HIDE DEF b
  <2> QED BY <1>1, <1>3, <1>5, <2>1, <2>2
<1>7. ASSUME NEW n \in 1..Limit, a + n <= Len(shelf)
      PROVE  n \in 1..Len(s)
  BY <1>1, <1>5, <1>7
<1> QED BY <1>2, <1>5, <1>6, <1>7 DEF a, s

\* An item of an item's place.
LEMMA PlaceIsShown ==
    ASSUME TypeInv, NEW x \in Places
    PROVE  /\ x = <<x[1], x[2]>> /\ x[1] \in DOMAIN page /\ x[1] \in Nat
           /\ x[2] \in 1..Len(page[x[1]].items)
           /\ At(x) \in shown /\ At(x) \in Item(Ids)
<1>1. PICK k \in DOMAIN page : x \in {<<k, n>> : n \in 1..Len(page[k].items)}
  BY DEF Places
<1>2. PICK n \in 1..Len(page[k].items) : x = <<k, n>>
  BY <1>1
<1>3. page[k].items \in Seq(shown) /\ k \in Nat
  BY DEF TypeInv
<1>4. page[k].items[n] \in shown
  BY <1>3
<1> QED BY <1>2, <1>3, <1>4 DEF At, TypeInv

\* The products of a fetch are one for each id.
LEMMA CollectedOnce ==
    ASSUME TypeInv
    PROVE  /\ \A p \in Collected : \E item \in shown : p \in from_mcp(item)
           /\ \A p, q \in Collected : p.id = q.id => p = q
<1> DEFINE usable == {p \in Places : from_mcp(At(p)) # {}}
           first  == {p \in usable : ~\E q \in usable : Before(q, p) /\ At(q).id = At(p).id}
<1>1. ASSUME NEW p \in Collected
      PROVE  \E x \in first : p \in from_mcp(At(x)) /\ p.id = At(x).id
  <2>1. PICK x \in first : p \in from_mcp(At(x))
    BY DEF Collected
  <2>2. At(x) \in Item(Ids)
    BY PlaceIsShown
  <2> QED BY <2>1, <2>2, ProductIsOne
<1>2. ASSUME NEW x \in first, NEW y \in first, At(x).id = At(y).id
      PROVE  x = y
  <2>1. ~Before(x, y) /\ ~Before(y, x)
    BY <1>2
  <2>2. /\ x = <<x[1], x[2]>> /\ y = <<y[1], y[2]>>
        /\ x[1] \in Nat /\ y[1] \in Nat /\ x[1] \in DOMAIN page /\ y[1] \in DOMAIN page
        /\ x[2] \in 1..Len(page[x[1]].items) /\ y[2] \in 1..Len(page[y[1]].items)
    BY PlaceIsShown
  <2>3. x[2] \in Int /\ y[2] \in Int
    BY <2>2
  <2>4. x[1] = y[1] /\ x[2] = y[2]
    BY <2>1, <2>2, <2>3 DEF Before
  <2> QED BY <2>2, <2>4
<1>3. ASSUME NEW p \in Collected PROVE \E item \in shown : p \in from_mcp(item)
  BY <1>1, PlaceIsShown
<1>4. ASSUME NEW p \in Collected, NEW q \in Collected, p.id = q.id PROVE p = q
  <2>1. PICK x \in first : p \in from_mcp(At(x)) /\ p.id = At(x).id
    BY <1>1
  <2>2. PICK y \in first : q \in from_mcp(At(y)) /\ q.id = At(y).id
    BY <1>1
  <2>3. x = y /\ At(x) \in Item(Ids)
    BY <1>2, <1>4, <2>1, <2>2, PlaceIsShown
  <2> QED BY <2>1, <2>2, <2>3, ProductIsOne
<1> QED BY <1>3, <1>4

\* A page that is put down.
LEMMA Puts ==
    ASSUME NEW k, NEW answer, NEW items, Put(k, answer, items)
    PROVE  /\ DOMAIN page' = DOMAIN page \cup {k}
           /\ page'[k].answer = answer /\ page'[k].items = items
           /\ \A j \in DOMAIN page : j # k => page'[j] = page[j]
BY DEF Put

LEMMA PutKeeps ==
    ASSUME TypeInv, NEW k \in Nat, NEW answer, NEW items \in Seq(shown),
           Put(k, answer, items), shown' = shown
    PROVE  \A j \in DOMAIN page' : page'[j].items \in Seq(shown')
<1> SUFFICES ASSUME NEW j \in DOMAIN page' PROVE page'[j].items \in Seq(shown)
  OBVIOUS
<1>0. /\ DOMAIN page' = DOMAIN page \cup {k}
      /\ page'[k].answer = answer /\ page'[k].items = items
      /\ \A i \in DOMAIN page : i # k => page'[i] = page[i]
  BY Puts
<1>1. CASE j = k
  BY <1>0, <1>1
<1>2. CASE j # k
  <2>1. j \in DOMAIN page /\ page'[j] = page[j]
    BY <1>0, <1>2
  <2> QED BY <2>1 DEF TypeInv
<1> QED BY <1>1, <1>2

LEMMA PageShown ==
    ASSUME TypeInv, NEW k \in Nat
    PROVE  Page(k) \in Seq(shown)
<1>1. Page(k) \in Seq(On(shelf)) /\ On(shelf) \subseteq shown
  BY PageItems DEF TypeInv
<1> QED BY <1>1
\* The pages that are asked for, whatever the shop says of their number.
LEMMA PagesAreNumbers ==
    /\ 0..(MaxPages - 1) \subseteq Nat /\ 0 \in 0..(MaxPages - 1)
    /\ \A total : OtherPages(total) \subseteq Nat
BY PagesAssumption DEF OtherPages

\* What a change makes of the shelf.
LEMMA ShelfChanges ==
    ASSUME shelf \in Seq(Item(Ids)), Change
    PROVE  shelf' \in Seq(Item(Ids))
<1>1. ASSUME NEW n \in 1..Len(shelf),
             shelf' = [m \in 1..(Len(shelf) - 1) |-> IF m < n THEN shelf[m] ELSE shelf[m + 1]]
      PROVE  shelf' \in Seq(Item(Ids))
  <2> DEFINE l == Len(shelf) - 1
  <2>1. l \in Nat
    BY <1>1
  <2>2. \A m \in 1..l : (IF m < n THEN shelf[m] ELSE shelf[m + 1]) \in Item(Ids)
    BY <1>1
  <2>3. shelf' \in [1..l -> Item(Ids)]
    BY <1>1, <2>2
  <2> QED BY <2>1, <2>3
<1>2. ASSUME NEW item \in NewItems, shelf' = <<item>> \o shelf
      PROVE  shelf' \in Seq(Item(Ids))
  <2>1. <<item>> \in Seq(Item(Ids))
    BY NewAssumption
  <2> QED BY <1>2, <2>1, ConcatProperties
<1>3. ASSUME NEW n \in 1..Len(shelf), NEW price \in Retail,
             shelf' = [shelf EXCEPT ![n].price = price]
      PROVE  shelf' \in Seq(Item(Ids))
  <2> DEFINE item == [shelf[n] EXCEPT !.price = price]
  <2>1. item \in Item(Ids)
    <3>1. shelf[n] \in Item(Ids) /\ price \in Nat \ {0}
      BY NewAssumption
    <3> QED BY <3>1 DEF Item
  <2>2. shelf' = [shelf EXCEPT ![n] = item]
    BY <1>3
  <2> HIDE DEF item
  <2> QED BY <2>1, <2>2, ExceptSeq
<1> QED BY <1>1, <1>2, <1>3 DEF Change

LEMMA TypeStep ==
    ASSUME TypeInv, [Next]_vars
    PROVE  TypeInv'
<1>1. CASE FirstPage
  <2>1. Page(0) \in Seq(shown) /\ OtherPages(Len(shelf)) \subseteq Nat
    BY PageShown, PagesAreNumbers
  <2>2. \A j \in DOMAIN page' : page'[j].items \in Seq(shown')
    BY <1>1, <2>1, PutKeeps DEF FirstPage
  <2>3. DOMAIN page' = DOMAIN page \cup {0}
    BY <1>1, Puts DEF FirstPage
  <2> QED BY <1>1, <2>1, <2>2, <2>3 DEF FirstPage, TypeInv, On
<1>2. CASE FirstWithoutTotal
  <2>1. PICK answer, items : items \in Seq(shown) /\ Put(0, answer, items)
    <3>1. Page(0) \in Seq(shown) /\ <<>> \in Seq(shown)
      BY PageShown
    <3> QED BY <1>2, <3>1 DEF FirstWithoutTotal
  <2>2. \A j \in DOMAIN page' : page'[j].items \in Seq(shown')
    BY <1>2, <2>1, PutKeeps DEF FirstWithoutTotal
  <2>3. DOMAIN page' = DOMAIN page \cup {0}
    BY <2>1, Puts
  <2>4. DOMAIN page \subseteq {0}
    BY <1>2 DEF FirstWithoutTotal, Out, TypeInv
  <2> QED BY <1>2, <2>2, <2>3, <2>4, PagesAreNumbers DEF FirstWithoutTotal, TypeInv, On
<1>3. ASSUME NEW k \in asked, NextPage(k) \/ NoPage(k)
      PROVE  TypeInv'
  <2>1. k \in Nat
    BY DEF TypeInv
  <2>2. PICK answer, items : items \in Seq(shown) /\ Put(k, answer, items)
    <3>1. Page(k) \in Seq(shown) /\ <<>> \in Seq(shown)
      BY <2>1, PageShown
    <3> QED BY <1>3, <3>1 DEF NextPage, NoPage
  <2>3. UNCHANGED <<shelf, shown, changes, asked, products, returned, raised>>
    BY <1>3 DEF NextPage, NoPage
  <2>4. \A j \in DOMAIN page' : page'[j].items \in Seq(shown')
    BY <2>1, <2>2, <2>3, PutKeeps
  <2>5. DOMAIN page' = DOMAIN page \cup {k}
    BY <2>2, Puts
  <2> QED BY <2>3, <2>4, <2>5 DEF TypeInv, On
<1>4. CASE Return \/ ItemRaises
  BY <1>4 DEF Return, ItemRaises, TypeInv, On
<1>5. CASE Raise
  <2>1. <<>> \in Seq(shown)
    OBVIOUS
  <2>2. \A j \in DOMAIN page' : page'[j].items \in Seq(shown')
    BY <1>5, <2>1, PutKeeps DEF Raise
  <2>3. DOMAIN page' = DOMAIN page \cup {0}
    BY <1>5, Puts DEF Raise
  <2> QED BY <1>5, <2>2, <2>3 DEF Raise, TypeInv, On
<1>6. CASE Change
  <2>1. shelf' \in Seq(Item(Ids))
    BY <1>6, ShelfChanges DEF TypeInv
  <2>2. On(shelf') \subseteq Item(Ids)
    BY <2>1 DEF On
  <2>3. shown' = shown \cup On(shelf') /\ changes' = changes + 1
        /\ UNCHANGED <<page, asked, products, returned, raised>>
    BY <1>6 DEF Change
  <2>4. \A k \in DOMAIN page : page[k].items \in Seq(shown')
    BY <2>3 DEF TypeInv
  <2>5. (On(shelf))' = On(shelf')
    BY DEF On
  <2> QED BY <2>1, <2>2, <2>3, <2>4, <2>5 DEF TypeInv
<1>7. CASE UNCHANGED vars
  BY <1>7 DEF vars, TypeInv, On
<1> QED BY <1>1, <1>2, <1>3, <1>4, <1>5, <1>6, <1>7 DEF Next

LEMMA ProductsStep ==
    ASSUME TypeInv, ProductsInv, [Next]_vars
    PROVE  ProductsInv'
<1>1. CASE Return
  <2>1. products' = Collected /\ shown' = shown
    BY <1>1 DEF Return
  <2> QED BY <2>1, CollectedOnce DEF ProductsInv
<1>2. CASE ~Return
  <2>1. products' = products /\ shown \subseteq shown'
    BY <1>2 DEF Next, vars, FirstPage, FirstWithoutTotal, NextPage, NoPage, Raise,
                     ItemRaises, Change
  <2> QED BY <2>1 DEF ProductsInv
<1> QED BY <1>1, <1>2

LEMMA TypeInit ==
    ASSUME Init
    PROVE  TypeInv /\ ProductsInv
<1>1. shelf \in Seq(Item(Ids))
  BY ShelvesAssumption DEF Init
<1>2. On(shelf) \subseteq Item(Ids)
  BY <1>1 DEF On
<1>3. DOMAIN page = {}
  BY DEF Init
<1>4. /\ changes \in Nat /\ returned \in BOOLEAN /\ raised \in BOOLEAN /\ products = {}
      /\ shown = On(shelf) /\ asked = {0}
  BY DEF Init
<1> QED BY <1>1, <1>2, <1>3, <1>4 DEF TypeInv, ProductsInv

LEMMA TypeInvariance == Spec => [](TypeInv /\ ProductsInv)
<1>1. Init => TypeInv /\ ProductsInv
  BY TypeInit
<1>2. TypeInv /\ ProductsInv /\ [Next]_vars => (TypeInv /\ ProductsInv)'
  BY TypeStep, ProductsStep
<1> QED BY <1>1, <1>2, PTL DEF Spec

\* However the goods move from page to page while they are fetched, an offer is
\* one the shop had, in the units of its retail price, and comes once.
THEOREM OffersAreReal == Spec => []OffersReal
<1>1. TypeInv /\ ProductsInv => OffersReal
  <2> SUFFICES ASSUME TypeInv, ProductsInv,
                      NEW posted \in SUBSET Ids, NEW p \in Offers(posted)
               PROVE  /\ p.id \notin posted
                      /\ \E item \in shown : p \in OffersOf(item, MinDiscount)
                      /\ \A q \in Offers(posted) : q.id = p.id => q = p
    BY DEF OffersReal
  <2>1. /\ p \in products /\ p.id \notin posted
        /\ p.in_stock /\ p.discount >= 100 * MinDiscount
    BY DEF Offers, filter_new_deals
  <2>2. PICK item \in shown : p \in from_mcp(item)
    BY <2>1 DEF ProductsInv
  <2>3. p \in OffersOf(item, MinDiscount)
    BY <2>1, <2>2, ProductIsOffer DEF TypeInv
  <2>4. ASSUME NEW q \in Offers(posted), q.id = p.id PROVE q = p
    <3>1. q \in products
      BY DEF Offers, filter_new_deals
    <3> QED BY <2>1, <2>4, <3>1 DEF ProductsInv
  <2> QED BY <2>1, <2>3, <2>4
<1> QED BY <1>1, TypeInvariance, PTL
-----------------------------------------------------------------------------
(* A SHELF THAT STANDS STILL                                               *)

\* Before the first change a page holds its part of the shelf, and every page
\* with goods is asked for as soon as the first is there.
StillInv ==
    changes = 0 =>
        /\ \A m, n \in 1..Len(shelf) : shelf[m].id = shelf[n].id => m = n
        /\ \A k \in DOMAIN page :
              page[k].items = IF page[k].answer = "page" THEN Page(k) ELSE <<>>
        /\ 0 \in DOMAIN page /\ ~raised =>
              \A k \in 1..(MaxPages - 1) : k * Limit < Len(shelf) => k \in asked

\* What is returned was collected from all pages.
DoneInv ==
    /\ returned => ~raised /\ products = Collected
    /\ Done => Answered

LEMMA StillStep ==
    ASSUME TypeInv, StillInv, [Next]_vars
    PROVE  StillInv'
<1> SUFFICES ASSUME changes' = 0
             PROVE  /\ \A m, n \in 1..Len(shelf') : shelf'[m].id = shelf'[n].id => m = n
                    /\ \A k \in DOMAIN page' : page'[k].items =
                          IF page'[k].answer = "page" THEN Page(k)' ELSE <<>>
                    /\ 0 \in DOMAIN page' /\ ~raised' =>
                          \A k \in 1..(MaxPages - 1) : k * Limit < Len(shelf') => k \in asked'
  BY DEF StillInv
<1>1. shelf' = shelf /\ changes = 0
  <2>1. ~Change
    BY DEF Change, TypeInv
  <2> QED BY <2>1 DEF Next, vars, FirstPage, FirstWithoutTotal, NextPage, NoPage, Raise, Return,
                       ItemRaises
<1>2. \A k : Page(k)' = Page(k)
  BY <1>1 DEF Page
<1>3. ASSUME NEW k \in Nat, NEW answer, NEW items, Put(k, answer, items),
             items = IF answer = "page" THEN Page(k) ELSE <<>>
      PROVE  \A j \in DOMAIN page' :
                page'[j].items = IF page'[j].answer = "page" THEN Page(j)' ELSE <<>>
  <2> SUFFICES ASSUME NEW j \in DOMAIN page'
               PROVE  page'[j].items = IF page'[j].answer = "page" THEN Page(j) ELSE <<>>
    BY <1>2
  <2>0. /\ DOMAIN page' = DOMAIN page \cup {k}
        /\ page'[k].answer = answer /\ page'[k].items = items
        /\ \A i \in DOMAIN page : i # k => page'[i] = page[i]
    BY <1>3, Puts
  <2>1. CASE j = k
    BY <1>3, <2>0, <2>1
  <2>2. CASE j # k
    <3>1. j \in DOMAIN page /\ page'[j] = page[j]
      BY <2>0, <2>2
    <3> QED BY <1>1, <3>1 DEF StillInv
  <2> QED BY <2>1, <2>2
<1>4. CASE FirstPage
  <2>1. Put(0, "page", Page(0)) /\ asked' = asked \cup OtherPages(Len(shelf))
    BY <1>4 DEF FirstPage
  <2>2. \A k \in 1..(MaxPages - 1) : k * Limit < Len(shelf) => k \in asked'
    BY <2>1 DEF OtherPages
  <2> QED BY <1>1, <1>3, <2>1, <2>2 DEF StillInv
<1>5. CASE FirstWithoutTotal
  <2>1. (Put(0, "page", Page(0)) \/ Put(0, "empty", <<>>)) /\ asked' = 0..(MaxPages - 1)
    BY <1>5 DEF FirstWithoutTotal
  <2>2. \A k \in 1..(MaxPages - 1) : k \in asked'
    BY <2>1, PagesAssumption
  <2> QED BY <1>1, <1>3, <2>1, <2>2 DEF StillInv
<1>6. ASSUME NEW k \in asked, NextPage(k) \/ NoPage(k)
      PROVE  StillInv'
  <2>1. /\ k \in Nat /\ k # 0 /\ asked' = asked /\ raised' = raised
        /\ \/ Put(k, "page", Page(k))
           \/ \E answer \in {"failed", "empty"} : Put(k, answer, <<>>)
    BY <1>6 DEF NextPage, NoPage, TypeInv
  <2>2. PICK answer, items :
           Put(k, answer, items) /\ items = IF answer = "page" THEN Page(k) ELSE <<>>
    BY <2>1
  <2>3. 0 \in DOMAIN page' => 0 \in DOMAIN page /\ page'[0] = page[0]
    BY <2>1, <2>2, Puts
  <2> QED BY <1>1, <1>3, <2>1, <2>2, <2>3 DEF StillInv
<1>7. CASE Raise
  <2>1. Put(0, "failed", <<>>)
    BY <1>7 DEF Raise
  <2>2. raised' = TRUE
    BY <1>7 DEF Raise
  <2> QED BY <1>1, <1>3, <2>1, <2>2 DEF StillInv
<1>8. CASE Return \/ ItemRaises \/ UNCHANGED vars
  BY <1>1, <1>2, <1>8 DEF Return, ItemRaises, vars, StillInv
<1>9. ~Change
  BY DEF Change, TypeInv
<1> QED BY <1>4, <1>5, <1>6, <1>7, <1>8, <1>9 DEF Next, StillInv

LEMMA DoneStep ==
    ASSUME TypeInv, DoneInv, [Next]_vars
    PROVE  DoneInv'
<1>1. CASE Done
  <2>1. \A k : ~Out(k)
    BY <1>1 DEF DoneInv, Answered, Out
  <2>2. UNCHANGED vars
    BY <1>1, <2>1
       DEF Next, FirstPage, FirstWithoutTotal, NextPage, NoPage, Raise, Return,
           ItemRaises, Change
  <2>3. /\ UNCHANGED <<asked, page, products, returned, raised>>
        /\ Collected' = Collected
    BY <2>2 DEF vars, Collected, Places, At
  <2> QED BY <2>3 DEF DoneInv, Done, Answered
<1>2. CASE ~Done /\ (Return \/ ItemRaises)
  <2>1. UNCHANGED <<page, asked>> /\ asked = DOMAIN page
    BY <1>2 DEF Return, ItemRaises, Answered
  <2>2. Collected' = Collected
    BY <2>1 DEF Collected, Places, At
  <2>3. returned' => ~raised' /\ products' = Collected
    BY <1>2 DEF Return, ItemRaises, Done
  <2> QED BY <2>1, <2>2, <2>3 DEF DoneInv, Answered
<1>3. CASE ~Done /\ Raise
  <2>1. /\ Put(0, "failed", <<>>) /\ asked' = asked /\ 0 \notin DOMAIN page
        /\ returned' = returned
    BY <1>3 DEF Raise, Out
  <2>2. DOMAIN page' = DOMAIN page \cup {0}
    BY <2>1, Puts
  <2> QED BY <1>3, <2>1, <2>2 DEF TypeInv, DoneInv, Done, Answered
<1>4. CASE ~Done /\ ~Return /\ ~ItemRaises /\ ~Raise
  BY <1>4 DEF Next, vars, FirstPage, FirstWithoutTotal, NextPage, NoPage, Change, DoneInv,
              Done
<1> QED BY <1>1, <1>2, <1>3, <1>4

LEMMA StillInvariance == Spec => [](TypeInv /\ StillInv /\ DoneInv)
<1>1. Init => TypeInv /\ StillInv /\ DoneInv
  <2> SUFFICES ASSUME Init PROVE StillInv /\ DoneInv
    BY TypeInit
  <2> QED BY ShelvesAssumption DEF Init, StillInv, DoneInv, Done
<1>2. TypeInv /\ StillInv /\ DoneInv /\ [Next]_vars => (TypeInv /\ StillInv /\ DoneInv)'
  BY TypeStep, StillStep, DoneStep
<1> QED BY <1>1, <1>2, PTL DEF Spec
\* A later page begins after all goods of an earlier one.
LEMMA LaterPage ==
    ASSUME NEW j \in Nat, NEW k \in Nat, j < k
    PROVE  j * Limit \in Nat /\ k * Limit \in Nat /\ j * Limit + Limit <= k * Limit
<1>1. Limit \in Nat
  BY PagesAssumption
<1>2. PICK d \in Nat : k = j + 1 + d
  <2>1. k - j - 1 \in Nat /\ k = j + 1 + (k - j - 1)
    OBVIOUS
  <2> QED BY <2>1
<1>3. k * Limit = j * Limit + Limit + d * Limit
  BY <1>1, <1>2
<1>4. j * Limit \in Nat /\ k * Limit \in Nat /\ d * Limit \in Nat
  BY <1>1
<1> QED BY <1>1, <1>3, <1>4

\* So an item of the shelf is in one place of the pages.
LEMMA OnePlace ==
    ASSUME NEW j \in Nat, NEW k \in Nat, NEW m \in 1..Limit, NEW n \in 1..Limit,
           j * Limit + m = k * Limit + n
    PROVE  j = k /\ m = n
<1>1. Limit \in Nat /\ m \in Nat /\ n \in Nat /\ j * Limit \in Nat /\ k * Limit \in Nat
  BY PagesAssumption
<1>2. ~(j < k)
  BY <1>1, LaterPage
<1>3. ~(k < j)
  BY <1>1, LaterPage
<1>4. j = k
  BY <1>2, <1>3
<1> QED BY <1>1, <1>4

\* The page an item of the shelf is on, and its place there.
LEMMA PageOf ==
    ASSUME NEW n \in Nat \ {0}
    PROVE  LET k == (n - 1) \div Limit IN
           /\ k \in Nat /\ k * Limit < n
           /\ n - k * Limit \in 1..Limit
<1> DEFINE k == (n - 1) \div Limit
           r == (n - 1) % Limit
<1>1. Limit \in Nat \ {0} /\ n - 1 \in Nat
  BY PagesAssumption
<1>2. k \in Nat /\ r \in 0..(Limit - 1) /\ n - 1 = Limit * k + r
  BY <1>1
<1>3. Limit * k = k * Limit /\ k * Limit \in Nat
  BY <1>1, <1>2
<1> QED BY <1>1, <1>2, <1>3

\* On a shelf that stands still the place of an item is the first with its id.
LEMMA ItemIsCollected ==
    ASSUME TypeInv, StillInv, changes = 0,
           NEW k \in DOMAIN page, page[k].answer = "page",
           NEW r \in 1..Limit, k * Limit + r <= Len(shelf),
           NEW p \in from_mcp(shelf[k * Limit + r])
    PROVE  p \in Collected
<1> DEFINE usable == {x \in Places : from_mcp(At(x)) # {}}
           first  == {x \in usable : ~\E q \in usable : Before(q, x) /\ At(q).id = At(x).id}
           x == <<k, r>>
<1>1. k \in Nat /\ shelf \in Seq(Item(Ids))
  BY DEF TypeInv
<1>2. page[k].items = Page(k) /\ r \in 1..Len(Page(k)) /\ Page(k)[r] = shelf[k * Limit + r]
  BY <1>1, PageItems DEF StillInv
<1>3. x \in Places /\ At(x) = shelf[k * Limit + r]
  BY <1>2 DEF Places, At
<1>4. ASSUME NEW y \in Places, At(y).id = At(x).id
      PROVE  ~Before(y, x)
  <2> DEFINE j == y[1]
             m == y[2]
  <2>1. j \in DOMAIN page /\ j \in Nat /\ m \in 1..Len(page[j].items) /\ At(y) = page[j].items[m]
    BY PlaceIsShown DEF At
  <2>2. page[j].items = Page(j)
    <3>1. CASE page[j].answer = "page"
      BY <2>1, <3>1 DEF StillInv
    <3>2. CASE page[j].answer # "page"
      <4>1. page[j].items = <<>>
        BY <2>1, <3>2 DEF StillInv
      <4>2. Len(<<>>) = 0
        OBVIOUS
      <4> HIDE DEF j, m
      <4> QED BY <2>1, <4>1, <4>2
    <3> QED BY <3>1, <3>2
  <2> HIDE DEF j, m
  <2>3. /\ m \in 1..Limit /\ j * Limit + m \in 1..Len(shelf)
        /\ At(y) = shelf[j * Limit + m]
    <3>1. m \in 1..Len(Page(j))
      BY <2>1, <2>2
    <3>2. m <= Limit /\ j * Limit + m \in 1..Len(shelf) /\ Page(j)[m] = shelf[j * Limit + m]
      BY <1>1, <2>1, <3>1, PageItems
    <3> QED BY <2>1, <2>2, <3>1, <3>2, PagesAssumption
  <2>4. k * Limit + r \in 1..Len(shelf)
    BY <1>1, <1>2, PageItems
  <2>5. shelf[j * Limit + m].id = shelf[k * Limit + r].id
    BY <1>3, <1>4, <2>3
  <2>6. j * Limit + m = k * Limit + r
    BY <2>3, <2>4, <2>5 DEF StillInv
  <2>7. j = k /\ m = r
    BY <1>1, <2>1, <2>3, <2>6, OnePlace
  <2>8. ~(j < k) /\ ~(m < r)
    BY <1>1, <2>7
  <2> QED BY <2>8 DEF Before, j, m
<1>5. x \in first /\ p \in from_mcp(At(x))
  BY <1>3, <1>4
<1> QED BY <1>5 DEF Collected

\* While the shelf does not change nothing that is worth an offer is missed, but
\* on a page that failed or beyond the last that may be asked for.
THEOREM NothingIsMissed == Spec => []NothingMissed
<1>1. TypeInv /\ StillInv /\ DoneInv => NothingMissed
  <2> SUFFICES ASSUME TypeInv, StillInv, DoneInv,
                      returned, changes = 0,
                      NEW n \in 1..Len(shelf),
                      (n - 1) \div Limit < MaxPages,
                      (n - 1) \div Limit \in DOMAIN page
                          => page[(n - 1) \div Limit].answer = "page",
                      NEW p \in OffersOf(shelf[n], MinDiscount)
               PROVE  p \in Offers({})
    BY DEF NothingMissed
  <2> DEFINE k == (n - 1) \div Limit
             r == n - k * Limit
  <2>1. /\ k \in Nat /\ k * Limit < n /\ r \in 1..Limit
        /\ n \in Nat /\ n <= Len(shelf) /\ Len(shelf) \in Nat /\ shelf[n] \in Item(Ids)
        /\ k * Limit \in Nat
    <3>1. shelf \in Seq(Item(Ids))
      BY DEF TypeInv
    <3>2. Len(shelf) \in Nat /\ n \in Nat \ {0} /\ n <= Len(shelf) /\ shelf[n] \in Item(Ids)
      BY <3>1
    <3>3. k \in Nat /\ k * Limit < n /\ r \in 1..Limit
      BY <3>2, PageOf
    <3> HIDE DEF k, r
    <3>4. k * Limit \in Nat
      BY <3>3, PagesAssumption
    <3> QED BY <3>2, <3>3, <3>4
  <2>2. k < MaxPages /\ (k \in DOMAIN page => page[k].answer = "page")
    OBVIOUS
  <2> HIDE DEF k
  <2>3. k * Limit + r = n
    BY <2>1
  <2> HIDE DEF r
  <2>4. asked = DOMAIN page /\ products = Collected /\ ~raised
    BY DEF DoneInv, Done, Answered
  <2>5. k \in DOMAIN page
    <3>1. CASE k = 0
      BY <2>4, <3>1 DEF TypeInv
    <3>2. CASE k # 0
      <4>1. k \in 1..(MaxPages - 1) /\ k * Limit < Len(shelf)
        BY <2>1, <2>2, <3>2, PagesAssumption
      <4> QED BY <2>4, <4>1 DEF StillInv, TypeInv
    <3> QED BY <3>1, <3>2
  <2>6. /\ p \in from_mcp(shelf[n])
        /\ p.in_stock /\ p.discount >= 100 * MinDiscount
    BY <2>1, OfferIsProduct
  <2>7. p \in Collected
    <3>1. p \in from_mcp(shelf[k * Limit + r]) /\ k * Limit + r <= Len(shelf)
      BY <2>1, <2>3, <2>6
    <3> QED BY <2>1, <2>2, <2>5, <3>1, ItemIsCollected
  <2> QED BY <2>4, <2>6, <2>7 DEF Offers, filter_new_deals
<1> QED BY <1>1, StillInvariance, PTL
=============================================================================
