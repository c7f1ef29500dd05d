SPECIFICATION Spec
CONSTANTS
    TREE_DEPTH = 3
    TREE_LEAF_COUNT = 8
    CallShapes <- MCCallShapes
    FirstLeaf = {7}
    MaxLogs = 7
    LegacyFirstLeaf = {0, 6}
    MaxLegacyTxs = 3
    LastBlock = 5
    EraBlock = {0, 1, 2, 3, 4}
    CheckpointFamilies = {"transact"}
INVARIANTS RowsAreExecuted IntactLogsDecode CalldataAgrees LegacyRowsArePlaced LogsRequestedOnce RootIsOfWholeTree
