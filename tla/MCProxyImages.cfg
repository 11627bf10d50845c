SPECIFICATION LoggedSpec
CONSTANTS
    Procs = {p1, p2}
    Keys <- MCKeys
    CatalogKeys = {"13/catalog/products/images/x.png", "13/images/products/x.png"}
    LegacyKeys = {}
    NoKey = "none"
    Strip <- MCStrip
    Options = {"5120 inside", "rerendered"}
    AsIs = "as-is"
    Absent = Absent
    Writable = {}
    HasFallback = FALSE
    MaxVersion = 1
    MaxFaults = 1
    Urls <- MCUrls
    NoUrl = NoUrl
    Prepared <- MCPrepared
    Rerendered = "rerendered"
    Modes = {"off", "shadow", "live"}
INVARIANTS
    IInv
    ServedAsAsked
    CleanNotFoundIsTrue
    CleanRenderUsesBest
    CleanMissPopulates
    StoredIsNotRemade
    LogCoversWork
    HeaderTellsWrites
SYMMETRY MCSymmetry
