SPECIFICATION Spec
CONSTANTS
    A = A
    B = B
    C = C
    alice = alice
    bob = bob
    n1 = n1
    v1 = v1
    None = None
    Numbers = {n1}
    Vendors = {v1}
    Lower <- Same
    Within <- Itself
    Threshold = 85
    Amounts <- OneAmount
    Invoices = {A, B}
    Users = {alice}
    Owner <- OneOwner
    Reads <- CopyReads
    Workers = {w1}
    Requests = {}
    MaxRetries = 1
    CandidateLimit = 2
    MaxCrashes = 1
    Faults = {}
INVARIANT
    OriginalSurvives
CHECK_DEADLOCK FALSE
