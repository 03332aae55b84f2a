SPECIFICATION LocalSpec
CONSTANTS
    Screens = {s1}
    MaxRows = 2
    MaxIntents = 2
    MaxOld = 1
    MaxStops = 0
INVARIANTS ExpiredIsBooked
CHECK_DEADLOCK FALSE
