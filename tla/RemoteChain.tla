---------------------------- MODULE RemoteChain ----------------------------
(***************************************************************************)
(* The EVM chain as the indexing loop meets it: two JSON-RPC providers      *)
(* (rpc_url and archive_rpc_url of chain_indexed.rs) that follow a chain    *)
(* which grows and reorganises.                                             *)
(*                                                                         *)
(* Blocks form a tree of branches that leave branch 0 at fixed heights; a   *)
(* reorganisation makes another branch canonical, an earlier one included.  *)
(* The hash of a block is named by its height and the branch it first       *)
(* appears on.  A provider that keeps up answers from the canonical chain,  *)
(* one that lags from a canonical chain of the past.  No answer             *)
(* comes from a shorter chain than an earlier answer of the same provider.  *)
(***************************************************************************)
EXTENDS Integers

CONSTANTS
    MaxHeight,  \* bound: the highest block
    MaxBranch,  \* bound: the number of side branches
    Fork,       \* the first block of each branch
    MaxReorgs,  \* bound: the number of reorganisations
    Networks    \* what may be met: the most blocks one reorganisation replaces
                \* (depth) and the providers that may be behind (lagging)

Provider == {"rpc", "archive"}
Branch == 0..MaxBranch
Block == 1..MaxHeight

ASSUME MaxHeightAssumption == MaxHeight \in Nat \ {0}
ASSUME MaxBranchAssumption == MaxBranch \in Nat
ASSUME ForkAssumption == Fork \in [Branch -> Block]
ASSUME ReorgAssumption == MaxReorgs \in Nat
ASSUME NetworksAssumption ==
    \A n \in Networks : n.depth \in Nat /\ n.lagging \subseteq Provider

VARIABLES
    view,   \* the tip each provider answers from
    tip,    \* the canonical tip
    reorgs, \* reorganisations so far
    network \* the member of Networks this behaviour meets

chainVars == <<view, tip, reorgs, network>>

Tip == [height : Block, branch : Branch]

ChainTypeOK ==
    /\ tip \in Tip
    /\ view \in [Provider -> Tip]
    /\ reorgs \in 0..MaxReorgs
    /\ network \in Networks

\* The hash of block b on branch k.
Hash(b, k) == IF b >= Fork[k] THEN k ELSE 0

ChainInit ==
    /\ tip = [height |-> 1, branch |-> 0]
    /\ view = [p \in Provider |-> tip]
    /\ reorgs = 0
    /\ network \in Networks

MoveTip(t) ==
    /\ tip' = t
    /\ view' = [p \in Provider |-> IF p \in network.lagging THEN view[p] ELSE t]

Grow ==
    /\ tip.height < MaxHeight
    /\ MoveTip([tip EXCEPT !.height = @ + 1])
    /\ UNCHANGED <<reorgs, network>>

Reorganise(k) ==
    /\ reorgs < MaxReorgs
    /\ \E b \in 1..tip.height : Hash(b, k) # Hash(b, tip.branch)
    /\ \A b \in 1..tip.height :
          Hash(b, k) # Hash(b, tip.branch) => b > tip.height - network.depth
    /\ MoveTip([tip EXCEPT !.branch = k])
    /\ reorgs' = reorgs + 1
    /\ UNCHANGED network

CatchUp(p) ==
    /\ view[p] # tip
    /\ view' = [view EXCEPT ![p] = tip]
    /\ UNCHANGED <<tip, reorgs, network>>

ChainNext ==
    \/ Grow
    \/ \E k \in Branch : Reorganise(k)
    \/ \E p \in Provider : CatchUp(p)

-----------------------------------------------------------------------------
(* What a provider answers. *)

get_block_number(p) == view[p].height

\* fetch_block_header succeeds, and the hash it returns.
has_block(p, b) == b <= view[p].height
block_hash(p, b) == Hash(b, view[p].branch)

=============================================================================
