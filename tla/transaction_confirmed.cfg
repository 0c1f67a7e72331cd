\* transaction-lifecycle.mjs:51, that a reported success is confirmed.
SPECIFICATION Spec
CONSTANTS
    MaxBlockhashRetries = 1
    MaxPolls = 3
CHECK_DEADLOCK FALSE
INVARIANTS
    SuccessIsConfirmed
