\* Two handlers at a time, one deal, two orders.
CONSTANTS
    Deals = {d1}
    Tasks = {t1, t2}
    Clicks = {packing}
    Infos = {i1, i2}
    MaxOrders = 2
SPECIFICATION FairSpec
INVARIANTS
    TypeOK
    StatusHasMessage
PROPERTIES
    HandlersEnd
    Delivers
