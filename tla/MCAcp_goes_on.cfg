SPECIFICATION FairAcpSpec
CONSTANTS
    Sessions = {s1}
    Existing = {}
    Wanted = {s1}
    Reqs = {r1, r2}
    Methods = {"new", "prompt", "set", "close"}
    Besides = {"tool", "ask"}
    None = None
PROPERTIES
    RequestsGoOn
    PausesInTheEnd
