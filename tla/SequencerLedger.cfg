\* Two accounts, two tokens, two leaves, blocks of seven logs; one
\* order taken by the API.
CONSTANTS
    eth = eth
    usd = usd
    NoOrder = NoOrder
    NoRow = NoRow
    NumOfAccounts = 2
    NumOfLeaves = 2
    Tokens = {eth, usd}
    Rows <- MCRows
    NumOfReqs = 7
    AmountLimit = 5
    MaxRows = 9
    MaxApiOrders = 1
SPECIFICATION Spec
INVARIANTS
    TypeOK
PROPERTIES
    ImplementsLedger
    WitnessIsStep
CHECK_DEADLOCK FALSE
