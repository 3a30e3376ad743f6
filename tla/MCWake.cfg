\* The recurring wake schedule alone, two of whose values share a lossy label.
CONSTANTS
    daemon = daemon
    manual = manual
    none = none
    mine = mine
    theirs = theirs
    twin = twin
    someDays = someDays
    soonest = soonest
    later = later
    None = None
    Invalid = Invalid
    NoSchedule = none
    Daemon = daemon
    Runners = {daemon, manual}
    Settings = {"wake"}
    Exact = {none, mine, theirs, twin}
    Lossy = {someDays}
    LabelOf <- SomeDays
    Worlds <- WakeWorlds
    Configs <- WakeConfigs
    Slots = {}
    MaxFaults = 2
    MaxDrifts = 1
    MaxChanges = 1
SPECIFICATION Spec
INVARIANTS
    LedgerAccounts
PROPERTIES
    ConflictsAreForeign
    StatusTruthful
