SPECIFICATION Spec
CONSTANTS
    Users = {u1, u2}
    TokenReqs = {token1}
    TransferReqs = {}
    DeleteReqs = {delete1}
    DismissReqs = {}
    None = None
INVARIANT AckedDeletesStay
