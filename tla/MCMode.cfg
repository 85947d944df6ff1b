SPECIFICATION MCSpec
CONSTANTS
    Threads = {gb, onvif}
    AskedModes = {"VisibleOnly", "LowlightOnly", "ThermalOnly", "VisibleThermalFusion"}
    EnabledModes = {"VisibleOnly", "LowlightOnly", "VisibleThermalFusion"}
    EnabledCameras = {"visible", "composite"}
    HasEncoder = TRUE
    Buffers = 2
    MaxSwitches = 2
    MaxStreams = 2
CHECK_DEADLOCK FALSE
INVARIANTS
    TypeOK WorkerHasPipeline CamerasMatchPipeline StageIsTrue
PROPERTY
    CommandsReturn
