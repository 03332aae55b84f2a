SPECIFICATION PartSpec
CONSTANTS
    Payments = {p1, p2}
    ApiWorkers = {w1, w2}
    AckWorkers = {b1}
    RequestKeys = {k1, k2}
    NoKey = NoKey
    NoPayment = NoPayment
    MaxAttempts = 3
    Payable = 2
    Plans <- OneCard
    Operations = {"prepare", "process", "start", "retry", "cancel", "full", "reconcile"}
    Results = {"APPROVED", "DECLINED", "EXCEPTION", "CANCELLED"}
    Faults = TRUE
SYMMETRY Symmetry
INVARIANTS RefundHasOriginal TerminalExclusive
PROPERTIES SettledPreserved UnknownIsolated LifecycleSpec
CHECK_DEADLOCK FALSE
