SPECIFICATION FairSpec
CONSTANTS
    None = None
    Users = {u}
    LoginsPerUser = 1
    Grants = {g1}
    Links = {l1, l2}
    Peers = {p}
    Limit = 1
PROPERTIES NoSquatting
