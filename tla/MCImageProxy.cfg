SPECIFICATION ProxySpec
CONSTANTS
    Procs = {p1, p2}
    Keys <- MCKeys
    CatalogKeys <- MCCatalog
    LegacyKeys = {}
    NoKey <- MCNoKey
    Strip <- MCStrip
    Options <- MCOptions
    AsIs <- MCAsIs
    Absent = Absent
    Writable = {}
    HasFallback = FALSE
    MaxVersion = 1
    MaxFaults = 1
    Modes = {"live"}
    Rerendered <- MCRerendered
    Triggers <- MCTriggers
    NoTrigger = NoTrigger
    EnvSizes <- MCEnvSizes
    DefaultSizes <- MCDefaultSizes
    Atoi <- MCAtoi
    Base <- MCBase
    Lower <- MCLower
    Handlers = {p1}
    Urls <- MCUrls
    NoUrl = NoUrl
    Prepared <- MCPrepared
    Filed <- MCFiled
    AllPages <- MCAllPages
INVARIANTS
    WritersAgreeOnKeys
    PreparedLooksOnDemand
    CleanBatchCovers
PROPERTY EverythingEnds
