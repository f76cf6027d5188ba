SPECIFICATION TransportSpec
CONSTANTS
    None = None
    Parts = {"records", "listener", "outgoing"}
    Limit = 10
    Window = 3
    Sockets = {s1, s2, s3}
    Addresses = {p, q}
    Users = {u, v}
    Identities = {i, j}
    PendingLimit = 2
    AddressLimit = 1
    ActiveLimit = 2
    UserLimit = 2
    IdentityLimit = 2
    Replays = 2
    Players = {x, y}
    QueueLimit = 3
    PlayerBudget = 7
    TotalBudget = 9
    EncodeWorkers = 1
    EncodeWaiters = 1
    Replies = {1, 2}
SYMMETRY Symmetry
INVARIANTS WindowExact FreshAdmitted ConnectionsCounted BuffersPaid
PROPERTIES AtMostOnce
CHECK_DEADLOCK FALSE
