\* Seven transactions let a tranche be scheduled, funded, submitted and approved.
SPECIFICATION HistorySpec
CONSTANTS
    w1 = w1
    w2 = w2
    a1 = a1
    CreatorOf <- MCCreatorOf
    ProofIds <- MCProofIds
    Default = Default
    Hashes = {0, 1}
    ZeroHash = 0
    Wallets = {w1, w2}
    Agreements = {a1}
    Amounts = {1, 2}
    Donors = {}
    CoreCallers = {}
    StartingBalance = 2
    MaxMilestones = 2
    MaxProofs = 1
    MaxTransactions = 7
    MaxTies = 0
CHECK_DEADLOCK FALSE
INVARIANT SealsAgree
