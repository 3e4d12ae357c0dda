\* Two handlers overlap and the process may be restarted.
CONSTANTS
    Cities = {kyiv, lviv}
    Tasks = {t1, t2}
    Restarts = TRUE
SYMMETRY Symmetries
SPECIFICATION Spec
INVARIANTS
    TypeOK
PROPERTIES
    HouseKept
