-------------------------- MODULE CheckpointRoots --------------------------
(***************************************************************************)
(* The checkpoint of one tree, for every way its positions can be filled.    *)
(***************************************************************************)
EXTENDS MerkleCheckpoint

CONSTANT CheckpointFamilies \* families that have rows

ASSUME CheckpointAssumption == CheckpointFamilies \subseteq Families

VARIABLES
    treeRows,      \* the rows of one tree
    published_root \* the published root, "none" before

checkpointVars == <<treeRows, published_root>>

NoRoot == <<"none">>

CheckpointInit ==
    /\ treeRows \in {{[family |-> x[1], pos |-> TREE_LEAF_COUNT + x[2], block |-> 1, hash |-> x] : x \in S}
                        : S \in SUBSET (CheckpointFamilies \X (0..TREE_LEAF_COUNT - 1))}
    /\ treeRows # {}
    /\ published_root = NoRoot

PublishCheckpoint ==
    /\ published_root = NoRoot
    /\ \E summary \in commitment_tree_summaries(treeRows, 1) :
          LET checkpoint == commitment_tree_checkpoint(treeRows, summary, 1) IN
          /\ checkpoint.err = "none"
          /\ published_root' = checkpoint_root(checkpoint.leaves)
    /\ UNCHANGED treeRows

CheckpointSpec == CheckpointInit /\ [][PublishCheckpoint]_checkpointVars

\* The root of a checkpoint is the root of the whole tree with the stored hashes at their
\* positions and the zero leaf everywhere else, wherever the rows leave gaps and however many
\* leaves there are: wallets recompute it leaf by leaf.
RootIsOfWholeTree ==
    published_root # NoRoot =>
        published_root = FullRoot([p \in Nat |->
                   IF \E r \in treeRows : PlaceOf(r) = p
                   THEN (CHOOSE r \in treeRows : PlaceOf(r) = p).hash
                   ELSE MERKLE_ZERO_VALUE])

=============================================================================
