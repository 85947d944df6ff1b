SPECIFICATION FairSpec
CONSTANTS
    Threads = {gb, onvif}
    AskedModes = {"VisibleOnly", "LowlightOnly", "ThermalOnly", "VisibleThermalFusion"}
    EnabledModes = {"VisibleOnly", "LowlightOnly", "VisibleThermalFusion"}
    EnabledCameras = {"visible", "composite"}
    HasEncoder = TRUE
    Buffers = 2
    MaxSwitches = 2
    MaxStreams = 0
CHECK_DEADLOCK FALSE
PROPERTY
    ReadFrameReturns
