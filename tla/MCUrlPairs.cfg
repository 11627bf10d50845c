SPECIFICATION Spec
CONSTANTS
    Clients = {"13"}
    Groups = {"", "g"}
    Versions = {"", "0", "1"}
    Folders = {"products", "cat"}
    Widths = {"0", "100", "240.5"}
    Heights = {"0", "100"}
    Alphas = {"", "flat"}
    Names <- MCNames
    OptionLists <- MCOptionLists
    Number <- MCNumber
    Decimal <- MCDecimal
    Hex <- MCHex
    Alnum <- MCAlnum
INVARIANTS
    KeyDeterminesRendering
    RawHitIsRight
    RenderingsApartFromOriginals
    LadderIsComplete
    BatchKeysAgree
PROPERTIES SpellingsConverge
CHECK_DEADLOCK FALSE
