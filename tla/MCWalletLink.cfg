SPECIFICATION Spec
CONSTANTS
    Accounts = {u1, u2}
    Wallets = {w1, w2}
    NonceReqs = {nonce1, nonce2}
    LinkReqs = {link1, link2}
    UnlinkReqs = {unlink1}
    None = None
INVARIANTS
    OneAccountPerWallet
    LinkedWalletProven
    AnsweredLinkSpendsNonce
SYMMETRY Symmetry
VIEW View
