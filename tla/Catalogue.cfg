\* Two pages of two items at most, two changes of the shelf in between.
CONSTANTS
    p1 = p1
    p2 = p2
    p3 = p3
    p4 = p4
    p5 = p5
    p6 = p6
    Malformed = {p6}
    Ids <- MCIds
    Shelves <- MCShelves
    NewItems <- MCNewItems
    Retail = {10, 20}
    Limit = 2
    MaxPages = 2
    MinDiscount = 25
    MaxChanges = 2
SPECIFICATION Spec
INVARIANTS
    OffersReal
    NothingMissed
CHECK_DEADLOCK FALSE
