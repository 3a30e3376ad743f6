\* What the security document promises of interrupted writes.
CONSTANTS
    daemon = daemon
    none = none
    mine = mine
    theirs = theirs
    someDays = someDays
    later = later
    None = None
    Invalid = Invalid
    NoSchedule = none
    Daemon = daemon
    Runners = {daemon}
    Settings = {"sleep", "wake"}
    Exact = {none, mine, theirs}
    Lossy = {someDays}
    LabelOf <- LabelOfMine
    Worlds <- Nights
    Configs <- NightConfigs
    Slots = {later}
    MaxFaults = 1
    MaxDrifts = 0
    MaxChanges = 0
    MaxCommands = 1
SPECIFICATION DoctorSpec
INVARIANTS
    InterruptionsAccounted
CHECK_DEADLOCK FALSE
