---------------------------- MODULE MCCatalogue ------------------------------
(***************************************************************************)
(* Instances of Catalogue for TLC.  Every mixture of two tiers is tried on  *)
(* an item that is alone; some stand among others, as the last of a page,   *)
(* the first of the next, or beyond the last page that is asked for.  One   *)
(* product comes without a key from_mcp needs: with a tier, or without.     *)
(***************************************************************************)
EXTENDS Catalogue

CONSTANTS p1, p2, p3, p4, p5, p6

Tier1(p, c) == [price |-> p, count |-> c, from |-> TRUE]

Tiers == {Tier1(p, c) : p \in {1, 9}, c \in {0, 2, 3}}
         \cup {[price |-> 1, count |-> 2, from |-> FALSE]}

Any == {[id |-> p1, price |-> r, tiers |-> {t, u}, weighted |-> w, in_stock |-> s] :
            r \in {10, 20}, t \in Tiers, u \in Tiers, w \in BOOLEAN, s \in BOOLEAN}
       \cup {[id |-> p1, price |-> 10, tiers |-> {}, weighted |-> FALSE, in_stock |-> TRUE]}

Some == {i \in Any : i.price = 20 /\ i.tiers \in {{Tier1(9, 2)}, {Tier1(1, 3), Tier1(9, 2)}}}

Plain(id) == [id |-> id, price |-> 20, tiers |-> {Tier1(9, 2)},
              weighted |-> FALSE, in_stock |-> TRUE]

Keyless == {[Plain(p6) EXCEPT !.tiers = ts] : ts \in {{}, {Tier1(9, 2)}}}

MCShelves == {<<item>> : item \in Any}
             \cup UNION {{<<Plain(p2), item>>,
                          <<Plain(p2), Plain(p3), item>>,
                          <<Plain(p2), Plain(p3), Plain(p4), item>>,
                          <<Plain(p2), item, Plain(p3), Plain(p4), Plain(p5)>>} : item \in Some}
             \cup UNION {{<<item, Plain(p2)>>,
                          <<Plain(p2), Plain(p3), item, Plain(p4)>>} : item \in Keyless}

MCIds == {p1, p2, p3, p4, p5, p6}
MCNewItems == {Plain(p5)}
=============================================================================
