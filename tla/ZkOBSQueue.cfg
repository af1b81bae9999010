\* Two users, WETH only; blocks of up to two L1 requests, calls of up to two blocks.
CONSTANTS
    u1 = u1
    u2 = u2
    weth = weth
    dai = dai
    NoAddress = NoAddress
    r0 = r0
    r1 = r1
    Users <- MCUsers
    Tokens <- MCTokens
    WETH = weth
    Amounts = {1}
    StateRoots = {r0}
    GenesisRoot = r0
    BadRoots = {}
    Timestamps = {0}
    PublicDatas <- QueueDatas
    RollupPubdatas <- NoPubdata
    MaxBatch = 2
    MaxAccountId = 102
    MaxTokenId = 2
    MaxRequestId = 5
    MaxBlockNum = 3
    MaxAmount = 3
SYMMETRY Symmetry
SPECIFICATION Spec
INVARIANTS
    TypeOK
    CommittedInQueueOrder
    RegisterSkipsItsDeposit
PROPERTIES
    QueueAppendOnly
    ImplementsRequestFifo
CHECK_DEADLOCK FALSE
