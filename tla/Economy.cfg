SPECIFICATION Spec
CONSTANTS
    None = None
    Users = {a, b}
    Keeper = a
    Capacity = 4
    Purse = 3
    MaxPurse = 6
    Goods = {g, t}
    TicketGoods = {t}
    MailLimit = 2
    Deliveries = {d}
    MaxVersion = 2
    MaxOrders = 1
    MaxMails = 2
    Buyers = {a}
    Addressees = {a}
    PassiveCost = 1
    ActiveCost = 1
    MaxBattles = 2
    MaxUses = 2
    Levels = 3
    Days = {2}
    MaxDays = 5
    Capacities = {2, 3}
    MaxNow = 2
    MaxRevision = 2
    MaxQuotes = 2
    Tasks <- MCTasks
    TitleLevels = {2, 3}
    Prizes = {7}
    PointsPerHour = 2
    PointsCap = 3
    MaxPoints = 6
    MaxHours = 4
    Managed = {1}
    ManagedTitles = {3}
    Desks = {"commerce", "leases", "repairs", "talismans", "potions", "quests", "titles", "training"}
CHECK_DEADLOCK FALSE
INVARIANTS BooksBalance ItemsAccounted StockBalances RewardsEarned
PROPERTIES AttachmentKept MatchGearFixed
