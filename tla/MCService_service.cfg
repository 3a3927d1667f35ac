SPECIFICATION FairServiceSpec
CONSTANTS
    Coding = {"a", "b"}
    Installs = {"i"}
    First <- Linked
    Flaky = {"a"}
    Cmds <- Two
    Wanted <- Ways
    Absent = Absent
    MaxFaults = 1
INVARIANT
    ServiceSound
PROPERTIES
    RosterFollows
    AnnouncedInTheEnd
    SettlesInTheEnd
CHECK_DEADLOCK FALSE
