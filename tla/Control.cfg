SPECIFICATION PartSpec
CONSTANTS
    Rooms = {r1}
    ALL = ALL
    MaxCommands = 2
    Workers = {w1, w2}
    Actions = {"stop", "all_stop"}
    MaxFaults = 1
    n1 = n1
    n2 = n2
    Panels = {0, 1}
    Names = {n1, n2}
    Serials = {n1}
    MaxPeople = 2
    Kinds = {"set_info", "start", "stop", "all_stop"}
    MaxJobs = 2
    MaxHands = 1
    Nil = Nil
SYMMETRY ControlSymmetry
VIEW View
INVARIANTS RoomsExclusive ExecutingAlone CompletedWasDone ManagerIsReal
PROPERTIES ReadyIsEarned
CHECK_DEADLOCK FALSE
