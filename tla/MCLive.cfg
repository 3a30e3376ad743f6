\* Liveness of disablesleep and of the one-off wake events.
CONSTANTS
    daemon = daemon
    manual = manual
    none = none
    mine = mine
    theirs = theirs
    twin = twin
    someDays = someDays
    soonest = soonest
    later = later
    None = None
    Invalid = Invalid
    NoSchedule = none
    Daemon = daemon
    Runners = {daemon, manual}
    Settings = {"sleep"}
    Exact = {none, mine}
    Lossy = {}
    LabelOf <- NamedDays
    Worlds <- EventWorlds
    Configs <- EventConfigs
    Slots = {soonest, later}
    MaxFaults = 1
    MaxDrifts = 1
    MaxChanges = 2
SPECIFICATION FairSpec
PROPERTIES
    SettingsConverge
    EventsConverge
    ComesToRest
