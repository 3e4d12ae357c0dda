\* Three texts at a time, and room for what they delete too much.
CONSTANTS
    Tasks = {t1, t2, t3}
    Keep = 6
    MaxMessages = 9
    MinMessages = 2
    Recent = 3
    MaxStops = 1
SPECIFICATION FairToneSpec
INVARIANTS
    ToneTypeOK
    LogBounded
    ToneFromEnough
PROPERTIES
    ToneComes
CHECK_DEADLOCK FALSE
