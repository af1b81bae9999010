\* A registration and a deposit, two workers, one exit, restart or pass of
\* checkoutHoldTx that throws.
SPECIFICATION Spec
CONSTANTS
    Workers = {"OPERATOR", "SEQUENCER"}
    MaxTxs = 2
    MaxAccounts = 1
    MaxMishaps = 1
INVARIANTS
    NobodyStartsEarly
    TwiceOnlyIfHeardTwice
PROPERTIES
    HeldIsRecorded
    HeardIsRecorded
    StartRecordsAll
    EveryoneStarts
CHECK_DEADLOCK FALSE
