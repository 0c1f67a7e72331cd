\* A replay of an agreement that goes on, against an endpoint that rate limits,
\* fails and loses transactions.
SPECIFICATION Spec
CONSTANTS
    PageSize = 2
    MaxSignatures = 4
    MaxRateLimitRetries = 2
    BackoffMs <- MCBackoffMs
    MaxDelayMs = 8000
    RetryAfterHeaders <- MCHeaders
    MaxChain = 5
CHECK_DEADLOCK FALSE
INVARIANTS
    ReplayIsComplete
    RetriesAreBounded
PROPERTIES
    ReplayEnds
