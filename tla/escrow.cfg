\* Money, tranches and disputes of one agreement; the evidence of one and of two: the
\* bounds of each are in MCPpvEscrow.
SPECIFICATION MCSpec
CONSTANTS
    w1 = w1
    w2 = w2
    w3 = w3
    a1 = a1
    a2 = a2
    CreatorOf <- MCCreatorOf
    ProofIds <- MCProofIds
    Default = Default
    Hashes = {0, 1}
    ZeroHash = 0
    Wallets = {w1, w2, w3}
    Agreements = {a1, a2}
    Amounts = {0, 1, 2, 3}
    Donors = {w3}
    CoreCallers = {w1, w2}
    StartingBalance = 3
    MaxMilestones = 3
    MaxProofs = 2
CHECK_DEADLOCK FALSE
INVARIANTS
    TypeOK
    VaultCoversDebt
    EndsPaidInFull
    ScheduleAddsUp
    LiveHasExit
    EvidenceIsAnchored
    CitationsAreSound
PROPERTIES
    ImplementsContract
    TermsAreFrozen
    DisputeFreezes
    PaymentsMatchLedger
    PaymentsRestOnLiveEvidence
    DecisionsAreFinal
