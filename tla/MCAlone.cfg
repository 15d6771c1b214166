SPECIFICATION AloneSpec
CONSTANTS
    Holders = {h1, h2, h3}
    Creator = h1
    NoOwner = NoOwner
    MaxUint = 11
    Unit = 2
    Amounts = {0, 1, 2, 4, 5, 6}
    Networks = {localhost, sepolia}
    LocalNetworks = {localhost}
    MaxTx <- DeployerTxs
    Users = {u1, u2, u3}
    Emails = {e1, e2}
    WalletAddresses = {a1}
    NoWallet = NoWallet
    Rows = {r1}
    Wallets = {w1, w2}
    None = None
    MaxQueries = 2
INVARIANTS
    AloneTypeOK
    SupplyIsSumOfBalances
    SupplyWithinCap
    PublishedIsUsable
    FileHasEveryNetwork
    SuccessCopiesEverything
    PanelShowsConnectedWallet
PROPERTIES
    MigrationOnlyAdds
    PanelNeverHangs
CHECK_DEADLOCK FALSE
