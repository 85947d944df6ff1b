SPECIFICATION Spec
CONSTANTS
    Sources = {"visible", "composite"}
    ParamValues = {"forest", "snow"}
    ChildMayCrash = FALSE
    MaxForks = 2
    MaxRequests = 1
CHECK_DEADLOCK FALSE
INVARIANT
    VideoMatchesSensor
