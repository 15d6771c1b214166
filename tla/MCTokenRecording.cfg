SPECIFICATION Spec
CONSTANTS
    w1 = w1
    w2 = w2
    n1 = n1
    Wallets = {w1, w2}
    Accounts = {u1}
    Pages = {p1}
    Names = {n1, n2}
    ForeignLogs <- OtherContracts
    MaxTxs = 2
    MaxRows = 1
    None = None
INVARIANTS
    RecordsMatchChain
    NothingRecordedTwice
PROPERTY PagesComeBack
