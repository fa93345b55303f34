\* Two rows of two-bit values; a cache of two registers forces evictions.
CONSTANTS
    Rows = {0, 1}
    Width = 2
    MaxSlots = 15
    CacheRegs = 2
    CarryRegs = 2
    MaxFields = 2
    Exprs <- MCExprs
    Blocks <- MCBlocks
    MoreBlocks <- MCMoreBlocks
SPECIFICATION ModesSpec
INVARIANTS
    TypeOK
    SlotsDisjoint
    CacheCoherent
    CountExact
    ScalarExact
    ModesAgree
