SPECIFICATION StoreSpec
CONSTANTS
    Procs = {p1, p2}
    Keys = {"13/a", "a"}
    CatalogKeys = {"13/a"}
    LegacyKeys = {"13/a", "a"}
    NoKey = "none"
    Strip <- MCStrip
    Options = {"small"}
    AsIs = "as-is"
    Absent = Absent
    Writable <- MCWritable
    HasFallback = TRUE
    MaxVersion = 1
    MaxFaults = 1
INVARIANTS StoreTypeOK
PROPERTIES ImplementsMergedStore
SYMMETRY MCSymmetry
