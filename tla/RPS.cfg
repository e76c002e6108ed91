CONSTANTS
    a = a
    b = b
    c = c
    na = na
    nb = nb
    nc = nc
    Clients = {a, b, c}
    Names = {na, nb, nc}
    NameOf <- MCNameOf
    NumMatches <- MCNumMatches
    Threads = {t1, t2, t3}
    None = None
    Sides = {a, b}
    Other <- MCOther
    Regular = 5
    Sudden = 15
SPECIFICATION Spec
INVARIANTS
    Paired
    ToldOfEachOther
    StatsBalance
    ResultsAgree
PROPERTIES Meets Terminates
CHECK_DEADLOCK FALSE
