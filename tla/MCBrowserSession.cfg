SPECIFICATION Spec
CONSTANTS
    PollCalls = {p1}
    UserCalls = {a1}
    RefreshCalls = {r1, r2}
    Notes = {n1}
    Tokens = {t1, t2, t3, t4, t5, t6, t7}
    MaxUpsets = 2
    None = None
INVARIANTS
    TypeOK
    RefreshIsNeverRefused
PROPERTIES
    EveryCallSettles
    BadgeCatchesUp
