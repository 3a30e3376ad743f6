\* What the operations guide promises of uninstall.
CONSTANTS
    daemon = daemon
    none = none
    mine = mine
    theirs = theirs
    someDays = someDays
    later = later
    None = None
    Invalid = Invalid
    NoSchedule = none
    Daemon = daemon
    Runners = {daemon}
    Settings = {"sleep", "wake"}
    Exact = {none, mine, theirs}
    Lossy = {someDays}
    LabelOf <- LabelOfMine
    Worlds <- Nights
    Configs <- NightConfigs
    Slots = {later}
    MaxFaults = 0
    MaxDrifts = 0
    MaxChanges = 0
    MaxCommands = 1
SPECIFICATION DoctorSpec
PROPERTIES
    UninstallAlwaysRestores
CHECK_DEADLOCK FALSE
