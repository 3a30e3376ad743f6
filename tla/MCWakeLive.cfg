\* Liveness of the wake schedule.
CONSTANTS
    daemon = daemon
    manual = manual
    none = none
    mine = mine
    theirs = theirs
    twin = twin
    someDays = someDays
    soonest = soonest
    later = later
    None = None
    Invalid = Invalid
    NoSchedule = none
    Daemon = daemon
    Runners = {daemon, manual}
    Settings = {"wake"}
    Exact = {none, mine, twin}
    Lossy = {someDays}
    LabelOf <- SomeDays
    Worlds <- WakeWorlds
    Configs <- WakeConfigs
    Slots = {}
    MaxFaults = 1
    MaxDrifts = 1
    MaxChanges = 1
SPECIFICATION FairSpec
PROPERTIES
    SettingsConverge
    HandsBack
    ComesToRest
