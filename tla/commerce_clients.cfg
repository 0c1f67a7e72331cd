\* Negotiation with transactions in flight: a document can be revised and revised
\* back, signed late, or expire while a signature is on its way.
SPECIFICATION Spec
CONSTANTS
    w1 = w1
    w2 = w2
    w3 = w3
    Wallets = {w1, w2, w3}
    Nobody = Nobody
    Hashes = {0, 1, 2}
    ZeroHash = 0
    Negotiators = {w1, w2}
    TermsHashes = {0, 1}
    Ttl = 1
    MaxTime = 2
    MaxVersion = 3
    MaxSent = 2
SYMMETRY MCSymmetry
CHECK_DEADLOCK FALSE
INVARIANTS
    SignaturesAreCurrent
    NobodyIsBoundUnseen
PROPERTIES
    NoLostUpdate
    ClosedStaysClosed
    BindingIsForGood
