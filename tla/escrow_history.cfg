\* One agreement, up to two tranches and one proof: nine transactions, which let a
\* dispute refund what a tranche left, or eight of which one pair shares a slot; one is not returned.
SPECIFICATION HistorySpec
CONSTANTS
    w1 = w1
    w2 = w2
    a1 = a1
    CreatorOf <- MCCreatorOf
    ProofIds <- MCProofIds
    Default = Default
    Hashes = {0, 1}
    ZeroHash = 0
    Wallets = {w1, w2}
    Agreements = {a1}
    Amounts = {1, 2}
    Donors = {}
    CoreCallers = {}
    StartingBalance = 2
    MaxMilestones = 2
    MaxProofs = 1
    MaxTransactions = 9
    MaxTies = 1
CHECK_DEADLOCK FALSE
INVARIANTS
    HistoryMatchesAccount
    AnnotationsAreHome
    GapsDoNotInvent
    SealsAreTrue
    SealsOnlyRise
