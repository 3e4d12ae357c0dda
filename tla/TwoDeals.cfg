\* Two deals whose rows two resets can lock in either order.
CONSTANTS
    Deals = {d1, d2}
    Users = {u1}
    Tasks = {t1}
    Resets = {r1, r2}
    MaxQty = 1
CONSTANTS
    Step <- One
    Pack <- Two
SPECIFICATION FairSpec
PROPERTIES
    ResetEnds
