\* The whole matrix; any request may fail, one outcome is reported early.
SPECIFICATION RunSpec
CONSTANTS
    Buyer = Buyer
    Seller = Seller
    Outsider = Outsider
    Wallets = {Buyer, Seller, Outsider}
    Agreements <- MCAgreements
    CreatorOf <- MCCreatorOf
    ProofIds <- MCProofIds
    Default = Default
    Hashes = {0, 1}
    ZeroHash = 0
    Amounts = {1}
    Donors = {}
    CoreCallers = {}
    StartingBalance = 0
    MaxMilestones = 3
    MaxProofs = 2
    MaxTransactions = 60
    MaxTies = 0
    Supply = 10000
    MaxUnconfirmed = 1
INVARIANTS
    OnlyFaultsStopIt
    PassIsEarned
    StrandsOneScenario
    RecoveryIsSound
    RecoveryIsNotFooled
