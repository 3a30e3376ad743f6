\* Windows over the week in which the clocks change.
CONSTANTS
    DayLength = 6
    WeekLength = 2
    WindowSets <- OneOrTwo
    Zones <- OneChange
    Interval = 2
    Margin = 1
    None = None
    FirstTick = 10
    LastTick = 24
SPECIFICATION Spec
INVARIANTS
    InsideAsConfigured
    TransitionIsNext
    PlanCovers
PROPERTIES
    PlanKeeps
CHECK_DEADLOCK FALSE
