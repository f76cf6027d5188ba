SPECIFICATION Spec
CONSTANTS
    None = None
    Users = {a, b, c}
    Rooms = {r1, r2}
    Conns = {c1, c2}
    Mode = 0
    Capacity = 3
    BankSize = 2
    SpectatorCapacity = 0
    NetworkProbe = TRUE
    NativeService = FALSE
    PublicPolicy = FALSE
    MaxBattles = 1
    Creators = {a, b}
    Inviters = {a, b}
    Watchers = {}
    Managers = {}
    Movers = {}
    Droppers = {b}
    Leasers = {b}
    Leavers = {b}
SYMMETRY PeerSymmetry
INVARIANTS InvitesCurrent
PROPERTIES StartAgreed
