\* Two tasks of one resident on one deal, and two resets.
CONSTANTS
    Deals = {d1}
    Users = {u1}
    Tasks = {t1, t2}
    Resets = {r1, r2}
    MaxQty = 1
CONSTANTS
    Step <- One
    Pack <- One
SPECIFICATION FairSpec
PROPERTIES
    PressAnswered
