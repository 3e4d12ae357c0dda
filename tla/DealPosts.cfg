\* One deal, two residents, two button tasks between two resets.
CONSTANTS
    Deals = {d1}
    Users = {u1, u2}
    Tasks = {t1, t2}
    Resets = {r1, r2}
    MaxQty = 1
CONSTANTS
    Step <- One
    Pack <- Two
SYMMETRY Symmetries
SPECIFICATION Spec
INVARIANTS
    TypeOK
    LockDiscipline
    NoLostUpdate
PROPERTIES
    OneStepPresses
