\* Two users, WETH and a token whitelisted at any time, blocks of up to two
\* withdrawals.
CONSTANTS
    u1 = u1
    u2 = u2
    weth = weth
    dai = dai
    NoAddress = NoAddress
    r0 = r0
    r1 = r1
    Users <- MCUsers
    Tokens <- TwoTokens
    WETH = weth
    Amounts = {1, 2}
    StateRoots = {r0}
    GenesisRoot = r0
    BadRoots = {}
    Timestamps = {0}
    PublicDatas <- MoneyDatas
    RollupPubdatas <- MoneyPubdatas
    MaxBatch = 1
    MaxAccountId = 102
    MaxTokenId = 3
    MaxRequestId = 4
    MaxBlockNum = 2
    MaxAmount = 3
SYMMETRY Symmetry
SPECIFICATION Spec
INVARIANTS
    AccountsOneToOne
    VaultAccountsForWithdrawals
CHECK_DEADLOCK FALSE
