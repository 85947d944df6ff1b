SPECIFICATION Spec
CONSTANTS
    Ffmpegs = 2
    PieceCount = 2
    PipeSize = 3
    MaxPulled = 3
    CameraFormats = {"mjpeg", "yuyv"}
    Peers = {p1, p2}
    MaxStarts = 2
    Publishers = {b1, b2}
    PoolSizes = {0, 1, 2}
    MaxSubscriptions = 2
    MaxEvents = 2
    MaxInits = 2
    Capacity = 2
    MaxDelta = 1
    MaxTime = 4
    MaxFrames = 5
CHECK_DEADLOCK FALSE
INVARIANT
    ListedModesStart
