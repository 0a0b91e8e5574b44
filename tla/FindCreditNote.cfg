SPECIFICATION Spec
CONSTANTS
    Numbers = {n1, n2}
    Vendors <- MCVendors
    Amounts <- MCAmounts
    None = None
    Lower <- MCLower
    Within <- MCWithin
    Threshold = 85
    Rows = {r1, r2}
    Limit = 2
INVARIANT
    SharedFieldIsCandidate
CHECK_DEADLOCK FALSE
