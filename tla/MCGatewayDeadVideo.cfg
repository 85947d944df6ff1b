SPECIFICATION BusyFairSpec
CONSTANTS
    Sources = {"visible", "composite"}
    ParamValues = {"forest", "snow"}
    ChildMayCrash = TRUE
    MaxForks = 2
    MaxRequests = 1
CHECK_DEADLOCK FALSE
PROPERTY
    DeadVideoExits
