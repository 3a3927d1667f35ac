SPECIFICATION OpenclawFairSpec
CONSTANTS
    Turns = {t1}
    Asks = {q1}
    Readers = {h1}
    Sockets = {k1, k2}
    None = None
    MaxSteps = 1
INVARIANTS
    OpenclawSound
    AskForwarded
PROPERTY AloneAnswered
CHECK_DEADLOCK FALSE
