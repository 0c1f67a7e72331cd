\* proof.rs:66-68, that an id minted through escrow cannot collide.
SPECIFICATION Spec
CONSTANTS
    w1 = w1
    w2 = w2
    w3 = w3
    a1 = a1
    a2 = a2
    CreatorOf <- MCCreatorOf
    ProofIds <- MCProofIds
    Default = Default
    Hashes = {0, 1}
    ZeroHash = 0
    Wallets = {w1, w2}
    Agreements = {a1}
    Amounts = {1}
    Donors = {}
    CoreCallers = {w1, w2}
    StartingBalance = 1
    MaxMilestones = 1
    MaxProofs = 2
CHECK_DEADLOCK FALSE
INVARIANTS
    NextProofAddressIsFree
