SPECIFICATION Spec
CONSTANTS
    Number <- MCNumber
    Decimal <- MCDecimal
    Hex <- MCHex
    Alnum <- MCAlnum
    HexBytes <- MCHexBytes
    Environments <- MCEnvironments
    Requests <- MCRequests
    LegacyJobs <- MCLegacyJobs
    Sources <- MCSources
    MaxDimension = 255
INVARIANTS
    TypeOK
    UnsignedGetsNowhere
    ResultFitsBox
    AreasInside
    BoxesHaveSides
    LandsOnBox
    RatioReached
    NeverEnlarges
    TransparencyAsAsked
CHECK_DEADLOCK FALSE
