SPECIFICATION BattleSpec
CONSTANTS
    None = None
    Members = {h, a, b}
    Host = h
    Keys = {k}
    Positions = {p1, p2, p3}
    CacheLimit = 2
    WitnessLimit = 2
    MaxSequence = 2
    MaxReports = 4
    MaxShots = 3
    MaxEvents = 4
    Reporters = {h}
    Shooters = {h}
    Partners = {a, b}
    Walkers = {h}
    Families = {"state", "projectile", "pickup", "receipt", "pair", "notice", "motion"}
    Modes = {"assault", "foster", "series"}
    Actors = {m, n}
    t1 = t1
    t2 = t2
    t3 = t3
    Templates = {t1, t2, t3}
    Waves <- MCWaves
    Groups <- MCGroups
    GlobalLimit = 2
    InitialHp = 1
    Limit = 3
    MaxNumber = 5
    MaxDecisions = 5
CHECK_DEADLOCK FALSE
SYMMETRY Symmetry
INVARIANTS InOrder WitnessesSpentOnce MonstersAccounted SeriesDecided
PROPERTIES NothingStale ReservationHonoured PairsConsented
