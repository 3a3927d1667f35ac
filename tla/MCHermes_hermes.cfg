SPECIFICATION HermesFairSpec
CONSTANTS
    Turns = {t1}
    Asks = {q1, q2}
    None = None
    MaxReconnects = 1
    MaxSteps = 2
INVARIANTS
    OutcomeTrue
    StreamWhole
    AnswerItsOwn
PROPERTIES
    TurnAnswered
    KeepsPromise
CHECK_DEADLOCK FALSE
