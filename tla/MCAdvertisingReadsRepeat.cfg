SPECIFICATION Spec
CONSTANTS
    MaxAnomalous = 2
    Tools <- ToolsValue
    Single = "search"
    Trended = "targeting"
    MaxFocus = 2
    Limit = 2
    BatchSize = 2
    MaxCrashes = 0
CHECK_DEADLOCK FALSE
INVARIANTS
    NeverRepeats
