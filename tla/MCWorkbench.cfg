SPECIFICATION Workbench
CONSTANTS
    Callers = {"anna", "ben"}
    Providers = {"seller_sprite", "lingxing"}
    Tools = {"traffic_keyword", "action"}
    Limit <- LimitValue
    Allowed <- AllowedValue
    MaxCalls = 1
    CatalogCallers = {"anna", "ben"}
    CatalogTools = {"shops", "report"}
    CatalogJobs <- JobsValue
    MaxPublished = 2
    MaxCatalogJobs = 3
    Uploads = {1, 2}
    Zips <- ZipsValue
    MaxMembers = 4
    MaxNotes = 2
    MaxChunk = 3
    MaxCandidates = 4
    MaxFound = 2
    Terms <- TermsValue
    Imports = {1, 2, 3}
    Reports <- FilesValue
    MaxRows = 3
    Campaigns = {1, 2}
    Snapshots <- SnapshotsValue
    Details <- DetailsValue
    Relative = 3
    TargetAcos = 5
    MinCtr = 5
    MaxAnomalies = 3
    MaxReasoned = 2
    MaxNamed = 3
    MaxCited = 1
    MaxDecisions = 2
    Tables <- TablesValue
    Asks <- AsksValue
    PageLength = 2
    Tasks <- TasksValue
    Keywords <- RepliesValue
    Drafts <- DraftsValue
    Tiers <- TiersValue
    MaxRounds = 3
    MaxRevisions = 1
    ShippingRows <- ShippingValue
    PackingRows <- PackingValue
    InvoiceRows <- InvoiceValue
    MaxSheets <- MaxSheetsValue
    Rules <- RulesValue
    UnitWeight <- WeightsValue
    TradeCapacity <- TradeValue
    EuropeanRows <- RowsValue
    MaxSheet = 4
    PrefixCapacity <- PrefixValue
CHECK_DEADLOCK FALSE
INVARIANTS
    CallsSound
    CatalogSound
    VaultVersions
    VaultSound
    ImportsSound
    ListingSound
    DeclarationSound
    RowsDeclared
    ReportScoped
    AdviceSound
