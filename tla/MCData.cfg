SPECIFICATION Spec
CONSTANTS
    TableSize = 2
    MaxPacket = 28
    SeqModulus = 4
    OffsetModulus = 8
    Scans <- MCScans
    Cuts = {0, 1, 8}
    Callers = {t1, t2}
    ActiveTexts = {"gb28181", "private", "http", "other"}
    Enabled = {"gb28181", "private"}
    Writers = {w1, w2}
    Endpoints <- MCEndpoints
    Given <- MCGiven
    Texts <- MCTexts
    Servers <- MCServers
    Ports <- MCPorts
    Spilled <- MCSpilled
    MaxCalls = 4
    Indents = {0, 2, 4}
    MaxLines = 4
    Names = {n1, n2}
    MaxLoads = 2
    MaxEncodes = 4
    MaxOpens = 2
    Capacity = 3
    MaxDelta = 1
    MaxTime = 5
    MaxFrames = 5
CHECK_DEADLOCK FALSE
INVARIANTS
    RtpSafe AccessSafe StoreSafe KeysArePaths SettingsSafe EncoderSafe
PROPERTY
    PairsRight
