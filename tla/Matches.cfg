SPECIFICATION Spec
CONSTANTS
    None = None
    Users = {a, b, c}
    Rooms = {r1}
    Conns = {c1}
    Mode = 1
    Capacity = 3
    BankSize = 2
    SpectatorCapacity = 1
    NetworkProbe = FALSE
    NativeService = FALSE
    PublicPolicy = FALSE
    MaxBattles = 2
    Creators = {a}
    Inviters = {}
    Watchers = {b, c}
    Managers = {a}
    Movers = {}
    Droppers = {a}
    Leasers = {}
    Leavers = {b, c}
SYMMETRY PeerSymmetry
INVARIANTS TypeOK RosterAgreement OwnerSeated MembersServed BarriersOpen
PROPERTIES StageOrder ChangeUnreadies
