SPECIFICATION LoggedSpec
CONSTANTS
    Procs = {p1}
    Keys <- MCKeys
    CatalogKeys = {"13/catalog/products/images/x.png", "13/files/7/x.pdf"}
    LegacyKeys = {"catalog/products/images/x.png", "13/files/7/x.pdf"}
    NoKey = "none"
    Strip <- MCStrip
    Options = {"100x0 cover", "width=100", "rerendered"}
    AsIs = "as-is"
    Absent = Absent
    Writable = {}
    HasFallback = TRUE
    MaxVersion = 1
    MaxFaults = 1
    Urls <- MCUrls
    NoUrl = NoUrl
    Prepared <- MCPrepared
    Rerendered = "rerendered"
    Modes = {"live"}
INVARIANTS NotFoundIsTrue
