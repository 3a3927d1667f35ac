SPECIFICATION FairInstallSpec
CONSTANTS
    Lists = {"l1"}
    Values = {"n"}
    Given <- Files
    OwnerAt <- Where
    MaxEdits = 1
    Procs = {gw}
    Serviced = {gw}
    MaxEnds = 1
    MaxCrashes = 1
    None = None
    Absent = Absent
INVARIANTS
    InstallSound
    GivenBack
PROPERTY KeptUp
CHECK_DEADLOCK FALSE
