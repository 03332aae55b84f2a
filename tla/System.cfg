SPECIFICATION PartSpec
CONSTANTS
    Payments = {p1}
    ApiWorkers = {w1}
    AckWorkers = {b1}
    RequestKeys = {k1, k2}
    NoKey = NoKey
    NoPayment = NoPayment
    MaxAttempts = 3
    Payable = 2
    Plans <- OneCard
    Operations = {"prepare", "process", "retry", "cancel", "reconcile"}
    Results <- AllResults
    Faults = TRUE
    Refusals = {"DECLINED", "UNKNOWN"}
    MaxCrashes = 1
    LateDisconnect = FALSE
    NoWorker = NoWorker
    Checks = FALSE
    Expiry = TRUE
    Prompt = FALSE
    t1 = t1
    t2 = t2
    a1 = a1
    a2 = a2
    slip1 = slip1
    slip2 = slip2
SYMMETRY Symmetry
INVARIANTS ChargeRemembered LedgerIsReal NeverOvercharged RunsUnderHold TillsAgree SalesAddUp
CHECK_DEADLOCK FALSE
