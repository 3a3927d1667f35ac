SPECIFICATION AcpSpec
CONSTANTS
    Sessions = {s1,s2}
    Existing = {s1}
    Wanted = {s1}
    Reqs = {r1, r2}
    Methods = {"load", "prompt", "close", "move", "delete"}
    Besides = {"probe", "shutdown"}
    None = None
INVARIANT StopsForGood
PROPERTY NoneForgotten
SYMMETRY Symmetry
