SPECIFICATION Spec
CONSTANTS
    MaxCalls = 3
    MaxCrashes = 1
    MaxDisorder = 2
    Routes <- FourRoutes
INVARIANTS
    WebTypeOK
    ServiceSurvives
PROPERTIES
    KeepsPromise
    EveryCallEnds
CHECK_DEADLOCK FALSE
