SPECIFICATION FairClientSpec
CONSTANTS
    Asks = {q1}
    MaxPrompts = 1
    MaxTurns = 2
    MaxUpdates = 1
    MaxEvents = 2
    MaxFrames = 1
    None = None
INVARIANTS
    ClientSound
    Agrees
PROPERTY TurnFinishes
CHECK_DEADLOCK FALSE
