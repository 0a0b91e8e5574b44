SPECIFICATION Spec
CONSTANTS
    A = A
    B = B
    C = C
    alice = alice
    bob = bob
    n1 = n1
    v1 = v1
    None = None
    Numbers = {n1}
    Vendors = {v1}
    Lower <- Same
    Within <- Itself
    Threshold = 80
    Amounts <- OneAmount
    Invoices = {A, C}
    Users = {alice, bob}
    Owner <- TwoOwners
    Reads <- KeysOrAmount
    Workers = {w1}
    Requests = {q1}
    MaxRetries = 1
    CandidateLimit = 1
    MaxCrashes = 1
    Faults = {"api", "extract", "check", "statement", "commit", "time_limit", "republish", "evict"}
INVARIANTS
    PipelineInv
    RowIsOneReading
PROPERTIES
    OwnerWrites
