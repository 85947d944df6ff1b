SPECIFICATION CleanFairSpec
CONSTANTS
    Params = {"InfraredBrightness"}
    Modes = {1, 2}
    Default = 0
    Attempts = 2
    Chunks = {4, 12}
    Faults = {"damaged", "short", "lost"}
    CleanLine = TRUE
    AckOptional = TRUE
    MaxCalls = 3
INVARIANTS
    TypeOK AppliedOnSuccess ReadFidelity ModeMirrors
PROPERTY
    CallReturns
