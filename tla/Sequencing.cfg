\* Two rows, two overlapping invocations, blocks of four logs, one mishap.
SPECIFICATION Spec
CONSTANTS
    NumOfReqs = 4
    Handlers = {h1, h2}
    MaxTx = 2
    MaxMishaps = 1
INVARIANTS
    TypeOK
    SavedBlocksFull
    TxNumsChain
    ExecutedOnce
    StrandedOnlyIfLostOrLate
    StatusMatchesBlocks
PROPERTY
    PendingIsTaken
CHECK_DEADLOCK FALSE
