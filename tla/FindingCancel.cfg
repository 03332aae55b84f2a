SPECIFICATION FairDeliverySpec
CONSTANTS
    Web = {w1}
    Staff = {}
    Naver = {n1, n2}
    Times = {1}
    Rooms = {A}
    Requests = {q1}
    MaxEdits = 0
    MaxChanges = 3
    MaxFaults = 0
    Offers <- AnySlot
PROPERTY CancellationArrives
CHECK_DEADLOCK FALSE
