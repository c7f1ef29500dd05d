SPECIFICATION Spec
CONSTANTS
    TREE_DEPTH = 2
    TREE_LEAF_COUNT = 4
    MaxBlock = 3
    Fork = 2
    BlockShapes <- MCBlockShapes
    MaxBlocksPerBatch = 2
    MaxReorgs = 1
    BlockQueryLimit = 1
    TxidRowLimit = 3
    CommitmentRowLimit = 3
    PlanningBlockSpan = 2
INVARIANTS TimestampsAreTheirBlocks BackfillIsComplete CatalogsListEveryRow RootsAreOfListedRows UndisturbedCycleSucceeds TablesAreOfOneChain
