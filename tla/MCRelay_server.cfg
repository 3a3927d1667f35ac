SPECIFICATION RelaySpec
CONSTANTS
    Hosts = {h1, h2}
    Keys = {k1, k2}
    Clients = {c1}
    Plates = {p}
    Tunnels = {t1, t2}
    Conns = {n1}
    Nil = Nil
INVARIANTS
    LetThroughPaired
    StopClosesAll
    OnlineReachable
SYMMETRY Symmetry
CHECK_DEADLOCK FALSE
