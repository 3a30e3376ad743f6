\* The lifecycle commands beside reconciliation.
CONSTANTS
    daemon = daemon
    none = none
    mine = mine
    theirs = theirs
    someDays = someDays
    later = later
    None = None
    Invalid = Invalid
    NoSchedule = none
    Daemon = daemon
    Runners = {daemon}
    Settings = {"sleep", "wake"}
    Exact = {none, mine, theirs}
    Lossy = {someDays}
    LabelOf <- LabelOfMine
    Worlds <- Nights
    Configs <- NightConfigs
    Slots = {later}
    MaxFaults = 1
    MaxDrifts = 1
    MaxChanges = 0
    MaxCommands = 2
SPECIFICATION DoctorSpec
INVARIANTS
    LifecycleTypeOK
    AccountsWhenOrderly
    DriftForetold
PROPERTIES
    UninstallRestores
    EmergencyReleases
CHECK_DEADLOCK FALSE
CONSTRAINT Followed
