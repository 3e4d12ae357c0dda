\* One client at a time, two attempts of each layer.
CONSTANTS
    Clients = {c1}
    Addresses = {a1}
    TTL = 2
    Lead = 14
    MaxCall = 4
    MaxTime = 17
    Attempts = 2
    Turn = 1
SPECIFICATION FairSpec
INVARIANTS
    SlotAhead
PROPERTIES
    CallsBounded
    CallsEnd
