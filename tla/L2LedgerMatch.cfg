\* Two accounts, two tokens, two leaves, blocks of five requests; no cancellation.
CONSTANTS
    eth = eth
    usd = usd
    NoOrder = NoOrder
    NumOfAccounts = 2
    NumOfLeaves = 2
    Tokens = {eth, usd}
    Requests <- MatchRequests
    NumOfReqs = 5
    AmountLimit = 5
    MaxTxNum = 13
SPECIFICATION Spec
INVARIANTS
    LedgerTypeOK
    LockedIsWhatOrdersSell
    BlockEndsWithOrdersInTree
    NothingLost
PROPERTIES
    FillsAtMakersPrice
CHECK_DEADLOCK FALSE
