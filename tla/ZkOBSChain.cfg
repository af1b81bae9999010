\* One user; calls of two blocks, stale callers, an unprovable root, two timestamps.
CONSTANTS
    u1 = u1
    u2 = u2
    weth = weth
    dai = dai
    NoAddress = NoAddress
    r0 = r0
    r1 = r1
    Users = {u1}
    Tokens <- MCTokens
    WETH = weth
    Amounts = {1}
    StateRoots = {r0, r1}
    GenesisRoot = r0
    BadRoots = {r1}
    Timestamps = {0, 1}
    PublicDatas <- ChainDatas
    RollupPubdatas <- NoPubdata
    MaxBatch = 2
    MaxAccountId = 102
    MaxTokenId = 2
    MaxRequestId = 4
    MaxBlockNum = 3
    MaxAmount = 3
SPECIFICATION Spec
INVARIANTS
    CountersAgree
    BlocksFormProvedChain
PROPERTIES
    HistoryPermanent
CHECK_DEADLOCK FALSE
