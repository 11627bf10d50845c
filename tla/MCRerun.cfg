SPECIFICATION WorkerSpec
CONSTANTS
    Procs = {p1}
    Keys <- MCKeys
    CatalogKeys <- MCCatalog
    LegacyKeys = {}
    NoKey <- MCNoKey
    Strip <- MCStrip
    Options <- MCOptions
    AsIs <- MCAsIs
    Absent = Absent
    Writable = {}
    HasFallback = FALSE
    MaxVersion = 1
    MaxFaults = 1
    Modes = {"off", "live"}
    Rerendered <- MCRerendered
    Triggers <- MCTriggers
    NoTrigger = NoTrigger
    EnvSizes <- MCEnvSizes
    DefaultSizes <- MCDefaultSizes
    Atoi <- MCAtoi
    Base <- MCBase
    Lower <- MCLower
    Filed <- MCFiled
INVARIANT RerunRepairs
