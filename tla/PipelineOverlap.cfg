SPECIFICATION HistorySpec
CONSTANTS
    A = A
    B = B
    C = C
    alice = alice
    bob = bob
    n1 = n1
    v1 = v1
    None = None
    Numbers = {n1}
    Vendors = {v1}
    Lower <- Same
    Within <- Itself
    Threshold = 85
    Amounts <- DriftAmounts
    Invoices = {A, B, C}
    Users = {alice}
    Owner <- OneOwner
    Reads <- DriftReads
    Workers = {w1, w2}
    Requests = {}
    MaxRetries = 0
    CandidateLimit = 2
    MaxCrashes = 1
    Faults = {"extract", "check", "commit_ack"}
SYMMETRY WorkerSymmetry
INVARIANTS
    TwinsOverlapped
    OriginalOrRepeat
CHECK_DEADLOCK FALSE
