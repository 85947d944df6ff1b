SPECIFICATION Spec
CONSTANTS
    Params = {"InfraredBrightness"}
    Modes = {1, 2}
    Default = 0
    Attempts = 2
    Chunks = {4, 12}
    Faults = {}
    CleanLine = FALSE
    AckOptional = FALSE
    MaxCalls = 2
INVARIANT
    AppliedOnSuccess
