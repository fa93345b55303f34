\* Blocks of four rows of four bits.
CONSTANTS
    Levels = 2
    Width = 4
    Rows <- MCRows
    FirstRow <- MCFirstRow
    Columns <- MCColumns
    Stale <- MCStale
    Addends <- MCAddends
    Bounds <- MCBounds
SPECIFICATION PathSpec
INVARIANTS
    PathInv
    PartlyTransposed
    Sliced
    MaskExact
    CarryIdentity
    ArithmeticExact
    PathExact
