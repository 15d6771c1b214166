SPECIFICATION Spec
CONSTANTS
    Users = {u1, u2}
    TokenReqs = {token1}
    TransferReqs = {transfer1}
    DeleteReqs = {delete1}
    DismissReqs = {dismiss1}
    None = None
    PoolSize = 2
INVARIANTS
    ClientsAccountedFor
    PrivateRowsProtected
    AckedWritesDurable
PROPERTIES
    ImplementsAtomicRecords
    EveryRequestAnswered
