SPECIFICATION Spec
CONSTANTS
    Commands = {1, 2, 3}
    Refusals = {"DECLINED", "UNKNOWN"}
    MaxCrashes = 1
    JournalLoss = TRUE
    LateDisconnect = FALSE
    Screens = {s1, s2}
    MaxRows = 2
    MaxIntents = 2
    MaxOld = 1
    MaxStops = 1
    p1 = p1
    w1 = w1
    s1 = s1
    s2 = s2
INVARIANTS NoOverpayment SummaryCurrent MovedOnce MadeNeverDenied ChargedOnce DeliveredIsBooked
SYMMETRY Alike
CHECK_DEADLOCK FALSE
