--------------------------- MODULE ChainCatalogs ---------------------------
(***************************************************************************)
(* publish_chain_entry (chain_indexed.rs): the catalogs of one chain, built  *)
(* query by query while the indexer goes on.  Every dataset is read up to    *)
(* the height its progress had when the cycle began; a chunk is planned from *)
(* one read and built from another.  One cycle, without failed queries: they *)
(* end it without a trace.  Pins are PinLifecycle's, what follows is         *)
(* ChainPublisher's.                                                         *)
(***************************************************************************)
EXTENDS ChainRows, MerkleCheckpoint

CONSTANTS
    TxidRowLimit,       \* chain_indexed.public_txid_chunk_row_limit
    CommitmentRowLimit, \* chain_indexed.commitment_chunk_row_limit
    PlanningBlockSpan   \* WALLET_SCAN_PLANNING_BLOCK_SPAN

ASSUME CatalogAssumption == {TxidRowLimit, CommitmentRowLimit, PlanningBlockSpan} \subseteq Nat \ {0}

VARIABLES
    datasets, \* the configured datasets of the chain, in their order
    cpc,      \* where the cycle is
    turn,     \* the dataset it is at, by its number
    heights,  \* latest_indexed, by dataset
    omitted,  \* public_txid_compatibility_omissions, as <<block, transaction>>
    cursor,   \* the offset or position of the next page
    plan,     \* what is still to read, from the first on: block ranges, chunks or trees
    held,     \* what the queries before left
    chunks,   \* the chunks of the catalogs so far, by dataset
    failure,  \* the error of a cycle that failed
    disturbed \* "yes" once the tables changed below a height in use

catalogVars == <<datasets, cpc, turn, heights, omitted, cursor, plan, held, chunks, failure, disturbed>>

Dataset == {"txid", "wallet", "commitments", "checkpoints"}

\* Whether the page was the last, the rows of a chunk, the last position, the plan items.
NoneHeld == [fill |-> "none", found |-> {}, last |-> 0, items |-> {}]

CatalogInit ==
    /\ datasets \in Seq(Dataset)
    /\ datasets # <<>>
    /\ \A m, n \in 1..Len(datasets) : datasets[m] = datasets[n] => m = n
    /\ cpc = "height"
    /\ turn = 1
    /\ heights = [d \in Dataset |-> NoHeight]
    /\ cursor = 0
    /\ plan = {}
    /\ held = NoneHeld
    /\ chunks = [d \in Dataset |-> <<>>]
    /\ failure = "none"
    /\ disturbed = "no"

-----------------------------------------------------------------------------
(* Steps of a cycle. *)

At(step, d) == cpc = step /\ datasets[turn] = d

Fail(error) ==
    /\ cpc' = "failed"
    /\ failure' = error
    /\ UNCHANGED <<turn, cursor, plan, held, chunks>>

Go(step, c, p, h) ==
    /\ cpc' = step
    /\ cursor' = c
    /\ plan' = p
    /\ held' = h
    /\ UNCHANGED <<turn, failure>>

\* The next dataset, or the first one to be validated.
FinishDataset ==
    /\ cpc' = IF turn < Len(datasets) THEN "start" ELSE "validate"
    /\ turn' = IF turn < Len(datasets) THEN turn + 1 ELSE 1
    /\ cursor' = 0
    /\ plan' = {}
    /\ held' = NoneHeld
    /\ UNCHANGED failure

\* latest_indexed_heights: one read per dataset.
latest_indexed_heights ==
    /\ cpc = "height"
    /\ heights' = [heights EXCEPT ![datasets[turn]] = progress]
    /\ cpc' = IF turn < Len(datasets) THEN "height" ELSE "start"
    /\ turn' = IF turn < Len(datasets) THEN turn + 1 ELSE 1
    /\ UNCHANGED <<cursor, plan, held, chunks, failure>>

\* latest_indexed_block: a dataset without progress has no catalog.
PassOver ==
    /\ cpc = "start"
    /\ heights[datasets[turn]] = NoHeight
    /\ FinishDataset
    /\ UNCHANGED chunks

Starts(d) == At("start", d) /\ heights[d] # NoHeight

\* The first of some ranges.
Foremost(ranges) == CHOOSE x \in ranges : \A y \in ranges : x[1] <= y[1]

\* plan_chunks fills a chunk with consecutive items; which of them start a chunk depends on
\* their sizes.
plan_chunks(items) ==
    {{<<s[1], Max({x[2] : x \in {x \in items : /\ s[1] <= x[1]
                                               /\ \A t \in starts : t[1] <= s[1] \/ x[1] < t[1]}})>>
         : s \in starts} : starts \in {S \in SUBSET items : Foremost(items) \in S}}

Ident(r) == <<Key(r), r.bhash>>

Chunk(start, end, found, root) ==
    [start |-> start, end |-> end, rows |-> {Ident(r) : r \in found}, root |-> root]

Push(d, chunk) == chunks' = [chunks EXCEPT ![d] = Append(@, chunk)]

-----------------------------------------------------------------------------
(* publish_public_txid_catalog *)

PublishedTxids ==
    {r \in rows : r.family = "txid" /\ r.block <= heights["txid"].block /\ <<r.block, r.pos>> \notin omitted}

Precedes(r, s) == r.block < s.block \/ (r.block = s.block /\ r.pos < s.pos)

\* ROW_NUMBER() OVER (ORDER BY ...) - 1
txid_index(r) == Cardinality({s \in PublishedTxids : Precedes(s, r)})

\* published_public_txid_rows_through_block
txid_rows(start, limit) ==
    {[index |-> txid_index(r), row |-> r]
        : r \in {r \in PublishedTxids : txid_index(r) \in start..start + limit - 1}}

\* Mutant: a page runs across the end of a tree.
configured_limit(start) == TxidRowLimit

public_txid_chunk_row_limit(start) ==
    Min({TxidRowLimit, TREE_LEAF_COUNT - (start % TREE_LEAF_COUNT)})

validate_public_txid_compatibility_omissions ==
    \A o \in omitted : o[1] > heights["txid"].block
        \/ Cardinality({r \in rows : r.family = "txid" /\ <<r.block, r.pos>> = o}) = 1

StartTxid ==
    /\ Starts("txid")
    /\ IF validate_public_txid_compatibility_omissions
       THEN Go("page", 0, {}, NoneHeld) /\ UNCHANGED chunks
       ELSE Fail("omission")

\* Mutant: a page shorter than the configured limit is the last.
short_of_configured(n, limit) == IF n < TxidRowLimit THEN "last" ELSE "more"

\* A page as long as its limit is followed by another.
PageFill(n, limit) == IF n < limit THEN "last" ELSE "more"

TxidPage ==
    /\ At("page", "txid")
    /\ LET limit == public_txid_chunk_row_limit(cursor)
           page == txid_rows(cursor, limit)
       IN  \/ page = {} /\ FinishDataset
           \/ /\ page # {}
              /\ \E p \in plan_chunks({<<x.index, x.index>> : x \in page}) :
                    Go("chunk", cursor, p, [NoneHeld EXCEPT !.fill = PageFill(Cardinality(page), limit)])
    /\ UNCHANGED chunks

TxidChunk ==
    /\ At("chunk", "txid")
    /\ LET range == Foremost(plan)
           found == txid_rows(range[1], range[2] - range[1] + 1)
       IN  IF found = {} THEN Fail("EmptyChunk")
           ELSE Go("root", cursor, plan, [held EXCEPT !.found = found]) /\ UNCHANGED chunks

SingleTree(start, end) == start \div TREE_LEAF_COUNT = end \div TREE_LEAF_COUNT

\* Mutant: the root is over the rows of the chunk.
chunk_start(start, end) == start

CheckpointStart(start, end) == (end \div TREE_LEAF_COUNT) * TREE_LEAF_COUNT

\* public_txid_checkpoint_root reads the rows of the tree up to the chunk's last.
TxidRoot ==
    /\ At("root", "txid")
    /\ LET start == Min({x.index : x \in held.found})
           end == Max({x.index : x \in held.found})
           tree_start == CheckpointStart(start, end)
           leaves == txid_rows(tree_start, end - tree_start + 1)
           rest == plan \ {Foremost(plan)}
       IN  IF leaves = {} THEN Fail("EmptyChunk")
           ELSE IF ~SingleTree(start, end) THEN Fail("CrossesTxidTreeBoundary")
           ELSE /\ Push("txid", Chunk(start, end, {x.row : x \in held.found}, {Ident(x.row) : x \in leaves}))
                /\ IF rest # {} THEN Go("chunk", end + 1, rest, [held EXCEPT !.found = {}])
                   ELSE IF held.fill = "more" THEN Go("page", end + 1, {}, NoneHeld)
                   ELSE FinishDataset

TxidNext == StartTxid \/ TxidPage \/ TxidChunk \/ TxidRoot

-----------------------------------------------------------------------------
(* publish_wallet_scan_catalog *)

\* The populated blocks of every span of blocks, from the first to the last of them.
wallet_scan_populated_block_ranges ==
    LET blocks == {r.block : r \in wallet_scan_rows(rows, 1, heights["wallet"].block)}
        span(b) == {c \in blocks : (c - 1) \div PlanningBlockSpan = (b - 1) \div PlanningBlockSpan}
    IN  {<<Min(span(b)), Max(span(b))>> : b \in blocks}

StartWallet ==
    /\ Starts("wallet")
    /\ Go("plan", 0, wallet_scan_populated_block_ranges, NoneHeld)
    /\ UNCHANGED chunks

\* write_source: MissingBlockTimestamp
Undated(found) == \E r \in found : r.time = NoTime

\* wallet_scan_plan_items: one read per range, then the plan.
WalletPlan ==
    /\ At("plan", "wallet")
    /\ \/ /\ plan # {}
          /\ LET range == Foremost(plan)
                 found == wallet_scan_rows(rows, range[1], range[2])
                 items == held.items \cup IF found = {} THEN {} ELSE {range}
             IN  IF Undated(found) THEN Fail("MissingBlockTimestamp")
                 ELSE Go("plan", 0, plan \ {range}, [held EXCEPT !.items = items]) /\ UNCHANGED chunks
       \/ plan = {} /\ held.items = {} /\ FinishDataset /\ UNCHANGED chunks
       \/ /\ plan = {} /\ held.items # {}
          /\ \E p \in plan_chunks(held.items) : Go("chunk", 0, p, NoneHeld)
          /\ UNCHANGED chunks

WalletChunk ==
    /\ At("chunk", "wallet")
    /\ LET range == Foremost(plan)
           found == wallet_scan_rows(rows, range[1], range[2])
           rest == plan \ {range}
       IN  IF Undated(found) THEN Fail("MissingBlockTimestamp")
           ELSE /\ IF found = {} THEN UNCHANGED chunks
                   ELSE Push("wallet", Chunk(range[1], range[2], found, {}))
                /\ IF rest # {} THEN Go("chunk", 0, rest, NoneHeld) ELSE FinishDataset

WalletNext == StartWallet \/ WalletPlan \/ WalletChunk

-----------------------------------------------------------------------------
(* publish_commitment_catalog *)

StartCommitments ==
    /\ Starts("commitments")
    /\ LET summaries == commitment_tree_summaries(rows, heights["commitments"].block)
           last == {global_tree_position(s.tree, s.leaf_count - 1) : s \in summaries}
       IN  IF last = {} THEN FinishDataset
           ELSE Go("page", 0, {}, [NoneHeld EXCEPT !.last = Max(last)])
    /\ UNCHANGED chunks

\* commitment_range: NonIncreasingGlobalPosition
Increasing(found) == \A r, s \in found : r.pos = s.pos => r = s

CommitmentRows(start, end) == commitment_rows(rows, start, end, heights["commitments"].block)

CommitmentPage ==
    /\ At("page", "commitments")
    /\ LET end == Min({cursor + CommitmentRowLimit - 1, held.last})
           found == CommitmentRows(cursor, end)
       IN  IF cursor > held.last THEN FinishDataset /\ UNCHANGED chunks
           ELSE IF found = {} THEN Go("page", end + 1, {}, held) /\ UNCHANGED chunks
           ELSE IF ~Increasing(found) THEN Fail("NonIncreasingGlobalPosition")
           ELSE /\ \E p \in plan_chunks({<<r.pos, r.pos>> : r \in found}) : Go("chunk", cursor, p, held)
                /\ UNCHANGED chunks

CommitmentChunk ==
    /\ At("chunk", "commitments")
    /\ LET range == Foremost(plan)
           found == CommitmentRows(range[1], range[2])
           start == Min({r.pos : r \in found})
           end == Max({r.pos : r \in found})
           rest == plan \ {range}
       IN  IF found = {} THEN Fail("EmptyChunk")
           ELSE IF ~Increasing(found) THEN Fail("NonIncreasingGlobalPosition")
           ELSE /\ Push("commitments", Chunk(start, end, found, {}))
                /\ Go(IF rest # {} THEN "chunk" ELSE "page", end + 1, rest, held)

CommitmentsNext == StartCommitments \/ CommitmentPage \/ CommitmentChunk

-----------------------------------------------------------------------------
(* publish_merkle_checkpoint_catalog *)

StartCheckpoints ==
    /\ Starts("checkpoints")
    /\ LET summaries == commitment_tree_summaries(rows, heights["checkpoints"].block)
       IN  IF summaries = {} THEN FinishDataset ELSE Go("chunk", 0, summaries, NoneHeld)
    /\ UNCHANGED chunks

CheckpointChunk ==
    /\ At("chunk", "checkpoints")
    /\ LET summary == CHOOSE s \in plan : \A t \in plan : s.tree <= t.tree
           checkpoint == commitment_tree_checkpoint(rows, summary, heights["checkpoints"].block)
           start == global_tree_position(summary.tree, 0)
           rest == plan \ {summary}
       IN  IF checkpoint.err # "none" THEN Fail(checkpoint.err)
           ELSE /\ Push("checkpoints", Chunk(start, start + summary.leaf_count - 1, {}, checkpoint.leaves))
                /\ IF rest # {} THEN Go("chunk", 0, rest, NoneHeld) ELSE FinishDataset

CheckpointsNext == StartCheckpoints \/ CheckpointChunk

-----------------------------------------------------------------------------
\* validate_publication_watermark, dataset by dataset.
validate_chain_snapshot ==
    /\ cpc = "validate"
    /\ LET height == heights[datasets[turn]]
       IN  IF height = NoHeight \/ headers[height.block] = height.hash
           THEN /\ cpc' = IF turn < Len(datasets) THEN "validate" ELSE "done"
                /\ turn' = IF turn < Len(datasets) THEN turn + 1 ELSE turn
                /\ UNCHANGED <<cursor, plan, held, chunks, failure>>
           ELSE Fail("rewound")

CatalogNext ==
    /\ \/ latest_indexed_heights
       \/ (PassOver \/ TxidNext \/ WalletNext \/ CommitmentsNext \/ CheckpointsNext \/ validate_chain_snapshot)
             /\ UNCHANGED heights
    /\ UNCHANGED <<tableVars, datasets, omitted, disturbed>>

\* The tables move below a height the cycle has read.
Disturbs ==
    \E d \in Dataset :
        LET b == heights[d].block
        IN  /\ b > 0
            /\ \/ {r \in rows : r.block <= b} # {r \in rows' : r.block <= b}
               \/ headers'[b] # headers[b]

TablesMove ==
    /\ TablesNext
    /\ disturbed' = IF Disturbs THEN "yes" ELSE disturbed
    /\ UNCHANGED <<datasets, cpc, turn, heights, omitted, cursor, plan, held, chunks, failure>>

\* The tables of an earlier version, or of this one.
CatalogsInit ==
    /\ RowsInit
    /\ part = "catalogs"
    /\ CatalogInit

CatalogsNext == (CatalogNext \/ TablesMove) /\ UNCHANGED <<part, backfillVars>>

CatalogsSpec == CatalogsInit /\ [][CatalogsNext]_<<rowVars, catalogVars>>

-----------------------------------------------------------------------------
(* The catalogs. *)

WantedRows(d) ==
    CASE d = "txid" -> PublishedTxids
      [] d = "wallet" -> wallet_scan_rows(rows, 1, heights["wallet"].block)
      [] d = "commitments" -> {r \in rows : r.family \in Families /\ r.block <= heights["commitments"].block}

\* The rows a dataset is to list.
Wanted(d) == {Ident(r) : r \in WantedRows(d)}

Listed(d) == UNION {chunks[d][i].rows : i \in 1..Len(chunks[d])}

\* catalog_descriptor adds up the rows of the chunks.
row_count(list) == Cardinality(UNION {{i} \X list[i].rows : i \in 1..Len(list)})

\* A cycle that ends while the tables stayed as they were below its heights lists every row
\* once: pages, trees, planned chunks and their second reads neither drop nor repeat one, the
\* ranges of chunks follow one another, and a catalog's descriptor counts its rows.
CatalogsListEveryRow ==
    cpc = "done" /\ disturbed = "no" =>
        \A n \in 1..Len(datasets) : datasets[n] # "checkpoints" =>
            LET list == chunks[datasets[n]]
            IN  /\ Listed(datasets[n]) = Wanted(datasets[n])
                /\ \A i \in 1..Len(list) - 1 : list[i].end < list[i + 1].start
                /\ row_count(list) = Cardinality(Wanted(datasets[n]))

\* The leaves of the Merkle checkpoints, each with its position.
Leaves ==
    {x \in UNION {{c.root[k] : k \in 1..Len(c.root)} : c \in {chunks["checkpoints"][i] : i \in 1..Len(chunks["checkpoints"])}}
        : x # MERKLE_ZERO_VALUE}

\* ... and the root of a chunk of public TXIDs is over the rows of its tree up to its last,
\* all of them listed before it or in it; a Merkle checkpoint has the hashes the commitment
\* catalog lists at their positions when both were read at one height.
RootsAreOfListedRows ==
    cpc = "done" /\ disturbed = "no" =>
        /\ \A i \in 1..Len(chunks["txid"]) :
              LET c == chunks["txid"][i]
              IN  /\ SingleTree(c.start, c.end)
                  /\ c.root = UNION {chunks["txid"][j].rows :
                                 j \in {j \in 1..i : SingleTree(chunks["txid"][j].start, c.end)}}
        /\ heights["commitments"] = heights["checkpoints"] /\ heights["commitments"] # NoHeight =>
              {<<x[1][2], x[2]>> : x \in Listed("commitments")} = Leaves
        /\ \A i \in 1..Len(chunks["checkpoints"]) :
              LET c == chunks["checkpoints"][i]
              IN  \A k \in 1..Len(c.root) : c.root[k] = MERKLE_ZERO_VALUE \/ c.root[k][1] = c.start + k - 1

\* Two tables have a commitment of one position, below a height.
PositionTaken(height) ==
    \E r, s \in {r \in rows : r.family \in Families /\ r.block <= height} : r.pos = s.pos /\ r.family # s.family

\* A cycle fails only because the tables moved under it, a row has no timestamp yet, an omission
\* is not of this chain, or a batch mixed two chains and a commitment of each is at one
\* position: no layout of the rows of a chain over blocks, pages and trees stops it.
UndisturbedCycleSucceeds ==
    cpc = "failed" /\ disturbed = "no" =>
        \/ failure = "MissingBlockTimestamp" /\ \E r \in rows : InWalletScan(r) /\ r.time = NoTime
        \/ failure = "omission" /\ ~validate_public_txid_compatibility_omissions
        \/ /\ failure \in {"NonIncreasingGlobalPosition", "DuplicateCommitmentTreePosition"}
           /\ PositionTaken(heights[datasets[turn]].block)

=============================================================================
