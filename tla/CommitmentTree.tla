-------------------------- MODULE CommitmentTree --------------------------
(***************************************************************************)
(* Positions in the commitment trees of a contract: a tree has               *)
(* TREE_LEAF_COUNT leaves, and a global position counts the leaves of the    *)
(* trees before it.  Four tables hold the commitments, one per family.       *)
(***************************************************************************)
EXTENDS Integers

CONSTANTS TREE_DEPTH, TREE_LEAF_COUNT

ASSUME TreeAssumption ==
    TREE_DEPTH \in Nat /\ TREE_LEAF_COUNT \in Nat \ {0} /\ TREE_LEAF_COUNT = 2 ^ TREE_DEPTH

Families == {"transact", "shield", "encrypted", "generated"}

\* A position past the end of its tree is in a later tree.
normalize_tree_position(tree, pos) ==
    <<tree + (pos \div TREE_LEAF_COUNT), pos % TREE_LEAF_COUNT>>

normalized_global_position(pos) == normalize_tree_position(0, pos)

global_tree_position(tree, pos) == tree * TREE_LEAF_COUNT + pos

=============================================================================
