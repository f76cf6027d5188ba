SPECIFICATION MCSpec
CONSTANTS
    None = None
    Names = {l, m, n}
    Legacy = {l}
    Codes = {i1}
    Calls = {k1, k2}
    SessionLimit = 2
    Tolerance = 2
    FailureRows = 1
    HashWorkers = 1
    HashWaiters = 1
    Subjects = {l, n}
    Administered = {l}
    MaxVersion = 2
    Pids = {p}
    Uids = {u, v}
    Links = {k1, k2}
    Endpoints = {x}
    BindingLimit = 2
    MaxLives = 1
    MaxEngines = 2
SYMMETRY Symmetry
INVARIANTS SessionsCurrent InvitesSpent GuessesPaced HashSlotsExact ClientsHeld
