\* Scans of two cities follow one another or overlap; the process may stop,
\* and what a scan asks of the database may fail.
CONSTANTS
    Groups = {g1, g2}
    Products = {p1}
    Users = {u1}
    Scans = {s1, s2}
    Window = 1
    Interval = 2
    MaxPosts = 1
    MaxReminded = 1
    MaxRunning = 2
    MaxCrashes = 1
    MaxDay = 2
CONSTANTS
    City <- OwnCities
SPECIFICATION FairSpec
INVARIANTS
    TypeOK
    PostsKept
PROPERTIES
    NoDuplicates
    RemindersApart
    ScanEnds
\* The instance stops when its scans are over and its days have passed.
CHECK_DEADLOCK FALSE
