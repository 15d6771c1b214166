SPECIFICATION DashboardSpec
CONSTANTS
    MaxAccounts = 2
    Roles = {"user", "admin"}
    Limit = 1
    Ranges = {14, 30}
    DefaultDays = 14
    MaxInFlight = 2
CHECK_DEADLOCK FALSE
INVARIANTS
    DashboardTypeOK
    PanelsFollowOwnChanges
    ListFollowsPagination
    EmptyPageNeedsRemoval
    SpinnerHasRequest
