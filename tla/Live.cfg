CONSTANTS
    w1 = w1
    r1 = r1
    ALL = ALL
    n1 = n1
    n2 = n2
    s1 = s1
    s2 = s2
    A = A
SPECIFICATION FairSpec
INVARIANTS CollectorRemembers
PROPERTIES ErrorRecovers CalendarFollows StockSettles
CHECK_DEADLOCK FALSE
