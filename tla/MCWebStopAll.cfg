SPECIFICATION Spec
CONSTANTS
    MaxCalls = 2
    MaxCrashes = 0
    MaxDisorder = 2
    Routes <- MoveAndStop
PROPERTY
    StopAllStops
CHECK_DEADLOCK FALSE
