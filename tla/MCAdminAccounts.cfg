SPECIFICATION Spec
CONSTANTS
    rootName = rootName
    otherName = otherName
    Names = {rootName, otherName}
    AdminEmail <- LowerAdminEmail
    RegisterReqs = {register1}
    RoleReqs = {role1, role2}
    RemoveReqs = {remove1}
    Instances = {i1, i2}
    MaxAccounts = 3
SYMMETRY Symmetry
INVARIANT NoTwoAccountsShareAnEmail
PROPERTY LostAdminNeedsStaleToken
