SPECIFICATION Spec
CONSTANTS
    MaxAnomalous = 3
    Tools <- ToolsValue
    Single = "search"
    Trended = "targeting"
    MaxFocus = 2
    Limit = 2
    BatchSize = 2
    MaxCrashes = 1
CHECK_DEADLOCK FALSE
INVARIANTS
    QuotaCovers
    RepeatedByTakeover
PROPERTIES
    EvidenceKept
