SPECIFICATION Spec
CONSTANTS
    Users = {u1}
    Browsers = {b1}
    LoginReqs = {login1}
    RefreshReqs = {refresh1}
    LogoutReqs = {logout1}
    AccessLife = 1
    RefreshLife = 2
    None = None
PROPERTIES
    EndedUntilLogin
    StaleAuthorityEnds
