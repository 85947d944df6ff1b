SPECIFICATION BusyFairSpec
CONSTANTS
    Sources = {"visible", "composite"}
    ParamValues = {"forest", "snow"}
    ChildMayCrash = TRUE
    MaxForks = 3
    MaxRequests = 2
CHECK_DEADLOCK FALSE
INVARIANTS
    TypeOK SwitchOkComplete VideoFollowsMode OrderlyShutdown NoOrphan
PROPERTIES
    StopTrueMeansGone CtrlCExitsWithClients
