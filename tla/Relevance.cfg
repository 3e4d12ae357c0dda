\* Every history of up to three deals, then every list of up to four offers.
CONSTANTS
    Category = {meat, dairy, other}
    Default = other
    MaxOffers = 4
    MaxLimit = 5
    MaxScore = 3
    IGNORE_STREAK_TO_PENALIZE = 2
    MaxHistory = 3
SYMMETRY KeywordSymmetry
SPECIFICATION RelevanceSpec
INVARIANTS
    TypeOK
    CapHolds
    BestFirst
    ScoresDefined
PROPERTIES
    ExploreAddsNothing
\* The ranking ends.
CHECK_DEADLOCK FALSE
