\* A weighted deal between two resets: three tasks of two residents.
CONSTANTS
    Deals = {d1}
    Users = {u1, u2}
    Tasks = {t1, t2, t3}
    Resets = {}
    MaxQty = 10
CONSTANTS
    Step <- HalfKilo
    Pack <- SevenHundredGrams
SYMMETRY TaskSymmetry
SPECIFICATION Spec
INVARIANTS
    GoalMarked
PROPERTIES
    GoalEntry
    PostTellsOrder
    OneStepPresses
