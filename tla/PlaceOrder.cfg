\* Two requests, three orders of one or two units, two deposits, one restart
\* or job that throws.
SPECIFICATION Spec
CONSTANTS
    Requests = {r1, r2}
    Amounts = {1, 2}
    MaxOrders = 3
    MaxDeposits = 2
    MaxMishaps = 1
INVARIANTS
    OvercommitOnlyIfRaced
    ShownStaysTrue
    NonceCountsTwice
CHECK_DEADLOCK FALSE
