SPECIFICATION LiveSpec
CONSTANTS
    Payments = {p1}
    ApiWorkers = {w1}
    AckWorkers = {b1}
    RequestKeys = {k1}
    NoKey = NoKey
    NoPayment = NoPayment
    MaxAttempts = 2
    Payable = 2
    Plans <- OneCard
    Operations = {"prepare", "process", "full"}
    Results <- AllResults
    Faults = FALSE
    Refusals = {"DECLINED", "UNKNOWN"}
    MaxCrashes = 1
    LateDisconnect = FALSE
    NoWorker = NoWorker
    Checks = TRUE
    Expiry = FALSE
    Prompt = TRUE
    ra = ra
    rm = rm
    car1 = car1
    None = None
PROPERTIES RowSettles ParkingEnds
CHECK_DEADLOCK FALSE
