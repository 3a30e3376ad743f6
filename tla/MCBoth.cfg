\* Both settings and the one-off wake events in the same run.
CONSTANTS
    daemon = daemon
    manual = manual
    none = none
    mine = mine
    theirs = theirs
    twin = twin
    someDays = someDays
    soonest = soonest
    later = later
    None = None
    Invalid = Invalid
    NoSchedule = none
    Daemon = daemon
    Runners = {daemon, manual}
    Settings = {"sleep", "wake"}
    Exact = {none, mine}
    Lossy = {}
    LabelOf <- NamedDays
    Worlds <- BothWorlds
    Configs <- BothConfigs
    Slots = {later}
    MaxFaults = 1
    MaxDrifts = 1
    MaxChanges = 1
SPECIFICATION Spec
INVARIANTS
    TypeOK
    OneReconciler
    BaselineRespected
    LedgerAccounts
PROPERTIES
    StatusTruthful
    ImplementsOwnership
