\* Two keys that may be generated, four runs of the ceremony, one multisig of another make.
SPECIFICATION MCSpec
CONSTANTS
    k1 = k1
    k2 = k2
    o1 = o1
    CreateKeys = {k1, k2}
    Others = {o1}
    People <- MCPeople
    None = None
    MaxRuns = 4
SYMMETRY KeySymmetry
CHECK_DEADLOCK FALSE
INVARIANTS
    CreatedWasReviewed
    OneMultisig
    CustodyIsSeparate
    VerdictsAgree
