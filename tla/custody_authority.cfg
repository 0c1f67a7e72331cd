\* A multisig of another make, whose config authority is one of the signers.
SPECIFICATION MCSpec
CONSTANTS
    k1 = k1
    k2 = k2
    o1 = o1
    CreateKeys = {k1, k2}
    Others = {o1}
    People <- MCPeople
    None = None
    MaxRuns = 4
SYMMETRY KeySymmetry
CHECK_DEADLOCK FALSE
INVARIANTS
    AcceptedIsSeparate
