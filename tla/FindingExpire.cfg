SPECIFICATION PartSpec
CONSTANTS
    Payments = {p1}
    ApiWorkers = {w1}
    AckWorkers = {w1}
    RequestKeys = {k1}
    NoKey = NoKey
    NoPayment = NoPayment
    MaxAttempts = 2
    Payable = 2
    Plans <- OneCard
    Operations = {"prepare", "process"}
    Results = {"APPROVED", "ERROR"}
    Faults = FALSE
INVARIANTS EndedCommandEndsRow
CHECK_DEADLOCK FALSE
