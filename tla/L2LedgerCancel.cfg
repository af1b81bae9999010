\* Two accounts, two tokens, two leaves, blocks of five requests, cancellation.
CONSTANTS
    eth = eth
    usd = usd
    NoOrder = NoOrder
    NumOfAccounts = 2
    NumOfLeaves = 2
    Tokens = {eth, usd}
    Requests <- CancelRequests
    NumOfReqs = 5
    AmountLimit = 5
    MaxTxNum = 13
SPECIFICATION Spec
INVARIANTS
    OneOrderPerSignature
PROPERTIES
    NoOrderLost
CHECK_DEADLOCK FALSE
