SPECIFICATION FairSpec
CONSTANTS
    None = None
    Users = {a, b, c}
    Rooms = {r1}
    Conns = {c1}
    Mode = 1
    Capacity = 3
    BankSize = 2
    SpectatorCapacity = 0
    NetworkProbe = FALSE
    NativeService = TRUE
    PublicPolicy = TRUE
    MaxBattles = 2
    Creators = {a}
    Inviters = {}
    Watchers = {}
    Managers = {}
    Movers = {}
    Droppers = {a, b}
    Leasers = {}
    Leavers = {a, c}
PROPERTIES MatchEnds
