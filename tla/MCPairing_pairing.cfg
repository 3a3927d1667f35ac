SPECIFICATION PairingSpec
CONSTANTS
    Devices = {d1}
    Conns = {k1, k2}
    Ops = {u1}
    None = None
    CodeFailures = 1
    MaxCodes = 2
    MaxPairings = 2
    MaxDials = 2
    MaxFaults = 2
INVARIANTS
    PairingSound
    RelayAgrees
PROPERTY UnpairedIsOut
SYMMETRY Symmetry
CHECK_DEADLOCK FALSE
