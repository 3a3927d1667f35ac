SPECIFICATION Spec
CONSTANTS
    Agents = {ag}
    Names = {s1, s2}
    Clients = {c1, c2}
    Turns = {t1, t2}
    Asks = {q1, q2}
    Updates = {u1}
    Calls = {x}
    Kept = {ag}
    Shared = {{ag}}
    Existing <- AllSessions
    Opens = {"load", "resume"}
    ListsEarly = FALSE
    None = None
    OpenSessions = 1
    ResolvedRemembered = 1
    MaxStrays = 1
    MaxPlus = 1
    MaxCalls = 2
INVARIANTS
    TurnsExclusive
    PendingUnique
    OpeningHeld
PROPERTY NeverDroppedInTurn
VIEW Read
SYMMETRY Symmetry
CHECK_DEADLOCK FALSE
