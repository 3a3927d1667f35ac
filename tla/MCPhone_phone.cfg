CONSTANTS
    c1 = c1
    f1 = f1
    f2 = f2
    f3 = f3
    q1 = q1
    t1 = t1
    None = None
    Chats = {c1}
    Frames = {f1, f2, f3}
    Asks = {q1}
    Calls = {t1}
    MessageIds = {}
    MessageOf <- MCMessageOf
    ChatOf <- MCChatOf
    OldChats = {}
    SeenLimit = 2
    EventRoom = 3
    Budget = 3
SPECIFICATION FairSpec
INVARIANTS
    PhoneSound
    LiveReadsAsTranscript
PROPERTY StartIsTold
CHECK_DEADLOCK FALSE
