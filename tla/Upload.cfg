SPECIFICATION SessionsFairSpec
CONSTANTS
    A = A
    B = B
    C = C
    alice = alice
    f1 = f1
    f2 = f2
    q1 = q1
    q2 = q2
    w1 = w1
    s1 = s1
    s2 = s2
    None = None
    Users = {alice}
    Paths = {f1, f2}
    Owner <- MCOwner
    Path <- MCPath
    Uploads = {A, B, C}
    Allowed = {A, B}
    Faults = {"pool", "broker", "commit", "api"}
    Requests = {q1, q2}
    Slots = {w1}
    Target <- MCTarget
    Servers = {s1, s2}
    Server <- MCServer
    PoolSize = 1
INVARIANTS
    FilesAreWhole
PROPERTIES
    TornByAnother
    UploadsEnd
    RunsEnd
    ImplementsUpload
CHECK_DEADLOCK FALSE
