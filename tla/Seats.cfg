SPECIFICATION Spec
CONSTANTS
    None = None
    Users = {a, b, c}
    Rooms = {r1}
    Conns = {c1}
    Mode = 3
    Capacity = 3
    BankSize = 2
    SpectatorCapacity = 0
    NetworkProbe = TRUE
    NativeService = FALSE
    PublicPolicy = FALSE
    MaxBattles = 1
    Creators = {a, b, c}
    Inviters = {}
    Watchers = {}
    Managers = {}
    Movers = {a, b, c}
    Droppers = {}
    Leasers = {}
    Leavers = {a, b, c}
SYMMETRY Symmetry
INVARIANTS SeatsExclusive
PROPERTIES SwapConsented
