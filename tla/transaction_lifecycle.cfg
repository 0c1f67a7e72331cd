\* Both kinds of call, one retry as in the code, three status reads.
SPECIFICATION Spec
CONSTANTS
    MaxBlockhashRetries = 1
    MaxPolls = 3
CHECK_DEADLOCK FALSE
INVARIANTS
    OneReachesTheNetwork
    ExpiredBeforeSubmission
    ConfirmedWhenSubmitted
PROPERTIES
    VerdictsComeFromBlocks
    CallReturns
