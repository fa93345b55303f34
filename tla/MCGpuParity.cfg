\* One query for each feature, in SIMD-groups of four lanes.
CONSTANTS
    Lanes = 4
    Rows = {0, 1, 2, 3, 4, 5, 6, 7}
    SchemaFields = 2
    Exprs <- Doubtful
    Columns <- FewColumns
    RowCounts = {3, 16}
SPECIFICATION ParitySpec
INVARIANT MathematicalParity
