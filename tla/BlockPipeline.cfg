\* Two blocks, two overlapping invocations for the prover, one for the
\* operator, two restarts, lost adds or failed proofs.
SPECIFICATION Spec
CONSTANTS
    ProverHandlers = {h1, h2}
    OperatorHandlers = {h1}
    MaxBlocks = 2
    MaxMishaps = 2
INVARIANTS
    TypeOK
    ProofIsOfItsBlock
PROPERTIES
    ExecutedIsConfirmed
    SubmissionsNeverAdvance
CHECK_DEADLOCK FALSE
