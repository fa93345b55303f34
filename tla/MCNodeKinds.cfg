\* One expression, on any block of two rows of two-bit values.
CONSTANTS
    Rows = {0, 1}
    Width = 2
    MaxSlots = 15
    CacheRegs = 2
    CarryRegs = 2
    MaxFields = 2
    Exprs <- Negated
    Blocks <- MCBlocks
    MoreBlocks <- MCMoreBlocks
SPECIFICATION ModesSpec
INVARIANT NodesAsDocumented
