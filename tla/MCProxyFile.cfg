SPECIFICATION Spec
CONSTANTS
    Procs = {p1}
    Keys = {"13/files/7/x.pdf"}
    CatalogKeys = {"13/files/7/x.pdf"}
    LegacyKeys = {}
    NoKey = "none"
    Strip <- MCStrip
    Options = {"rerendered"}
    AsIs = "as-is"
    Absent = Absent
    Writable = {}
    HasFallback = FALSE
    MaxVersion = 2
    MaxFaults = 0
    Urls <- MCUrls
    NoUrl = NoUrl
    Prepared <- MCPrepared
    Rerendered = "rerendered"
    Modes = {"live"}
INVARIANTS OriginalsAreCurrent
