SPECIFICATION Spec
CONSTANTS
    None = None
    Users = {u}
    LoginsPerUser = 1
    Grants = {g1, g2}
    Links = {l1, l2}
    Peers = {p}
    Limit = 1
SYMMETRY Symmetry
INVARIANTS EndpointsCurrent
