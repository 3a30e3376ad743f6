\* What llms.txt says of requested and observed.
CONSTANTS
    daemon = daemon
    manual = manual
    none = none
    mine = mine
    theirs = theirs
    twin = twin
    someDays = someDays
    soonest = soonest
    later = later
    None = None
    Invalid = Invalid
    NoSchedule = none
    Daemon = daemon
    Runners = {daemon, manual}
    Settings = {"sleep"}
    Exact = {none}
    Lossy = {}
    LabelOf <- NamedDays
    Worlds <- SleepWorlds
    Configs <- SleepConfigs
    Slots = {}
    MaxFaults = 1
    MaxDrifts = 0
    MaxChanges = 0
SPECIFICATION Spec
PROPERTIES
    NotRequestedMeansBaseline
