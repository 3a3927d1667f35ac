SPECIFICATION FairConnSpec
CONSTANTS
    Agents = {ag}
    Names = {s1}
    Clients = {c1, c2}
    Devices = {c1}
    Turns = {t1}
    Asks = {q1}
    Updates = {u1}
    Calls = {x}
    Kept = {}
    Shared = {{}, {ag}}
    Existing <- AllSessions
    Opens = {"load"}
    ListsEarly = FALSE
    None = None
    OpenSessions = 1
    ResolvedRemembered = 0
    MaxStrays = 1
    MaxPlus = 0
    MaxCalls = 2
INVARIANTS
    ConnSound
    SeesHost
    RecordWhole
PROPERTIES
    PromptAnswered
    CallsAnswered
CHECK_DEADLOCK FALSE
