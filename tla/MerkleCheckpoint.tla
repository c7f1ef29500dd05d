------------------------- MODULE MerkleCheckpoint -------------------------
(***************************************************************************)
(* The commitment trees of the store and the checkpoint published for each.  *)
(* A tree is read from four tables, one per family of commitments; its       *)
(* leaf count is one more than its last position, a position without a row   *)
(* is the zero leaf, and the root is folded level by level, an odd level     *)
(* completed with the root of an empty subtree.                              *)
(***************************************************************************)
EXTENDS CommitmentTree, Sequences, FiniteSets, FiniteSetsExt

MERKLE_ZERO_VALUE == <<"zero">>

\* poseidon of two children: injective
poseidon(l, r) == <<l, r>>

TreeOf(row) == normalized_global_position(row.pos)[1]
PlaceOf(row) == normalized_global_position(row.pos)[2]

-----------------------------------------------------------------------------
(* The store.  A row has a family, a global position, a block and a hash. *)

commitment_rows(rows, start, end, max_block) ==
    {r \in rows : r.family \in Families /\ r.pos \in start..end /\ r.block <= max_block}

commitment_tree_summaries(rows, max_block) ==
    LET kept == {r \in rows : r.family \in Families /\ r.block <= max_block}
    IN  {[tree |-> t, leaf_count |-> Max({PlaceOf(r) : r \in {r \in kept : TreeOf(r) = t}}) + 1]
            : t \in {TreeOf(r) : r \in kept}}

\* DuplicateCommitmentTreePosition: two families claim a position.
commitment_tree_checkpoint(rows, summary, max_block) ==
    LET start == global_tree_position(summary.tree, 0)
        found == commitment_rows(rows, start, start + summary.leaf_count - 1, max_block)
        at(p) == {r \in found : r.pos = start + p}
    IN  IF \E p \in 0..summary.leaf_count - 1 : Cardinality(at(p)) > 1
        THEN [err |-> "DuplicateCommitmentTreePosition", leaves |-> <<>>]
        ELSE [err |-> "none",
              leaves |-> [k \in 1..summary.leaf_count |->
                             IF at(k - 1) = {} THEN MERKLE_ZERO_VALUE
                             ELSE (CHOOSE r \in at(k - 1) : TRUE).hash]]

-----------------------------------------------------------------------------
(* The root. *)

Parents(layer) == [k \in 1..Len(layer) \div 2 |-> poseidon(layer[2 * k - 1], layer[2 * k])]

\* Mutant: an odd level is completed with the zero leaf.
padded_with_leaf(s) ==
    LET layer == IF Len(s.layer) % 2 = 0 THEN s.layer ELSE Append(s.layer, MERKLE_ZERO_VALUE)
    IN  [layer |-> Parents(layer), empty |-> poseidon(s.empty, s.empty)]

\* One level of checkpoint_root: the layer above, and the root of an empty subtree of its height.
FoldLevel(s) ==
    LET layer == IF Len(s.layer) % 2 = 0 THEN s.layer ELSE Append(s.layer, s.empty)
    IN  [layer |-> Parents(layer), empty |-> poseidon(s.empty, s.empty)]

checkpoint_root(leaves) ==
    LET fold[level \in 0..TREE_DEPTH] ==
            IF level = 0 THEN [layer |-> leaves, empty |-> MERKLE_ZERO_VALUE] ELSE FoldLevel(fold[level - 1])
        top == fold[TREE_DEPTH]
    IN  IF top.layer = <<>> THEN MERKLE_ZERO_VALUE ELSE Head(top.layer)

-----------------------------------------------------------------------------
(* The tree by its definition: a node is the hash of the two below it. *)

FullRoot(leaf) ==
    LET node[level \in 0..TREE_DEPTH] ==
            IF level = 0 THEN leaf
            ELSE [k \in Nat |-> poseidon(node[level - 1][2 * k], node[level - 1][2 * k + 1])]
    IN  node[TREE_DEPTH][0]

=============================================================================
