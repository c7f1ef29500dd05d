---------------------------- MODULE ChainTables ----------------------------
(***************************************************************************)
(* The tables of one indexed chain (store.rs), row by row, and what changes  *)
(* them: a batch is upserted by tree position, nullifier or transaction, a   *)
(* rewind deletes from a block on, and the legacy-shield tool upserts next   *)
(* to the indexer.  When to index and where to rewind to is ChainIndexer's   *)
(* part: here a batch follows the progress and a rewind reaches the fork.     *)
(***************************************************************************)
EXTENDS CommitmentTree, FiniteSets, FiniteSetsExt

CONSTANTS
    MaxBlock,    \* bound: the blocks of the chain are 1..MaxBlock
    Fork,        \* the first block the two branches do not share
    BlockShapes, \* what a block may hold
    MaxBlocksPerBatch, \* chain_indexed.max_blocks_per_batch
    MaxReorgs    \* bound: the number of reorganisations

ASSUME BlocksAssumption == MaxBlock \in Nat /\ MaxBlocksPerBatch \in Nat \ {0}

\* No reorganisation is deeper than a rewind.
ASSUME ForkAssumption == Fork \in 2..MaxBlock /\ MaxBlock - MaxBlocksPerBatch < Fork

ASSUME ShapesAssumption ==
    BlockShapes \subseteq [family : Families, leaves : Nat, cipher : {"yes", "no"},
                           nullifiers : Nat, txids : Nat, transactions : Nat]

VARIABLES
    content,   \* content[k][b]: the shape of block b on branch k
    canonical, \* the branch the providers serve
    served,    \* the branches a provider serves, or an answer in hand is of
    reorgs,    \* reorganisations so far
    rows,      \* the rows of every table
    headers,   \* indexed_block_headers
    progress,  \* chain_indexing_progress
    mixed      \* history: "yes" after a batch that was not all of one chain, until a rewind

tableVars == <<content, canonical, served, reorgs, rows, headers, progress, mixed>>

Block == 1..MaxBlock
Branch == {0, 1}

NoTime == <<>>
NoHeader == <<>>

\* No block is indexed.
NoHeight == [block |-> 0, hash |-> NoHeader]

\* The branches agree below the fork.
Hash(b, k) == <<b, IF b < Fork THEN 0 ELSE k>>

Shape(b, k) == content[Hash(b, k)[2]][b]

-----------------------------------------------------------------------------
(* The rows of a chain.  A shape is one transaction: a batch of commitments   *)
(* of one family, nullifiers and Railgun transactions, numbered along the     *)
(* chain, so that a transaction may be in other blocks on the other branch.   *)

Shapes(k) == [b \in Block |-> Shape(b, k)]

Before(shapes, b, field) ==
    LET n[c \in 0..MaxBlock] == IF c = 0 THEN 0 ELSE n[c - 1] + shapes[c][field]
    IN  n[b - 1]

\* The first_log_index of a row of indexed_public_txid_rows grows with its number.
NewRow(shapes, family, pos, b, k, time) ==
    [family |-> family, pos |-> pos, block |-> b, bhash |-> Hash(b, k), time |-> time,
     cipher |-> shapes[b].cipher, hash |-> <<pos, Hash(b, k)>>]

\* ingest_chain_logs and the hydration of timestamps and public transactions.
BlockRows(shapes, b, k, time) ==
    LET numbered(family, field, t) ==
            {NewRow(shapes, family, Before(shapes, b, field) + i, b, k, t)
                : i \in 0..shapes[b][field] - 1}
    IN  numbered(shapes[b].family, "leaves", time) \cup numbered("nullifier", "nullifiers", time)
            \cup numbered("txid", "txids", Hash(b, k)) \cup numbered("source", "transactions", time)

RangeRows(from, to, k) == UNION {BlockRows(Shapes(k), b, k, Hash(b, k)) : b \in from..to}

-----------------------------------------------------------------------------
(* store.rs *)

Key(r) == <<r.family, r.pos>>

\* record_source_transaction keeps the least block of a transaction.
record_source_transaction(table, r) ==
    LET stored == {s \in table : Key(s) = Key(r)}
    IN  [r EXCEPT !.block = Min({s.block : s \in stored} \cup {@})]

persist_indexed_log_batch(table, batch) ==
    {s \in table : \A r \in batch : Key(r) # Key(s)}
        \cup {IF r.family = "source" THEN record_source_transaction(table, r) ELSE r : r \in batch}

\* Mutant: the rows of nullifiers survive a rewind.
keep_nullifiers(table, replay) == {r \in table : r.block < replay \/ r.family = "nullifier"}

rewind_rows(table, replay) == {r \in table : r.block < replay}

WalletFamilies == Families \cup {"nullifier"}

\* The five tables of a wallet scan; a transact row counts when it has its ciphertext.
InWalletScan(r) == r.family \in WalletFamilies /\ (r.family = "transact" => r.cipher = "yes")

wallet_scan_rows(table, start, end) == {r \in table : InWalletScan(r) /\ r.block \in start..end}

-----------------------------------------------------------------------------
(* The indexer. *)

\* A database indexed on branch 0 up to a block.
TablesInit(top) ==
    /\ content \in [Branch -> [Block -> BlockShapes]]
    /\ \A b \in 1..Fork - 1 : content[1][b] = content[0][b]
    /\ canonical = 0
    /\ served = {0}
    /\ reorgs = 0
    /\ mixed = "no"
    /\ headers = [b \in Block |-> IF b = top THEN Hash(b, 0) ELSE NoHeader]
    /\ progress = [block |-> top, hash |-> IF top > 0 THEN Hash(top, 0) ELSE NoHeader]

Reorg ==
    /\ reorgs < MaxReorgs
    /\ reorgs' = reorgs + 1
    /\ canonical' = 1 - canonical
    /\ served' = served \cup {canonical'}
    /\ UNCHANGED <<content, rows, headers, progress, mixed>>

\* Every provider has followed the reorganisation, and no answer of before is in hand.
ProvidersAgree ==
    /\ served # {canonical}
    /\ served' = {canonical}
    /\ UNCHANGED <<content, canonical, reorgs, rows, headers, progress, mixed>>

StandsOn(k) == progress.block = 0 \/ progress.hash = Hash(progress.block, k)

\* The resume check, the header and then the logs are asked for one after the other, of two
\* providers, and nothing compares the answers.  The events of one era are one get_logs call.
IndexBatch ==
    \E a, h, k \in served, to \in progress.block + 1..Min({progress.block + MaxBlocksPerBatch, MaxBlock}) :
        /\ StandsOn(a)
        /\ rows' = persist_indexed_log_batch(rows, RangeRows(progress.block + 1, to, k))
        /\ headers' = [headers EXCEPT ![to] = Hash(to, h)]
        /\ progress' = [block |-> to, hash |-> Hash(to, h)]
        /\ mixed' = IF StandsOn(k) /\ Hash(to, h) = Hash(to, k) THEN mixed ELSE "yes"
        /\ UNCHANGED <<content, canonical, served, reorgs>>

replay_from_block == Max({progress.block - MaxBlocksPerBatch + 1, 1})

\* rewind_chain_indexing_to_replay_block, with the header below it fetched before.
Rewind(replay) ==
    \E a \in served :
        /\ ~StandsOn(a)
        /\ rows' = rewind_rows(rows, replay)
        /\ headers' = [b \in Block |->
              IF b >= replay THEN NoHeader
              ELSE IF b = replay - 1 THEN Hash(b, a) ELSE headers[b]]
        /\ progress' = [block |-> replay - 1, hash |-> IF replay > 1 THEN Hash(replay - 1, a) ELSE NoHeader]
        /\ mixed' = "no"
        /\ UNCHANGED <<content, canonical, served, reorgs>>

\* backfill_legacy_shields: the shields of a range, which lies below any fork.
BackfillShields ==
    \E to \in 1..Fork - 1 :
        LET shields == {r \in RangeRows(1, to, canonical) : r.family = "shield"}
            senders == {r \in RangeRows(1, to, canonical) :
                            r.family = "source" /\ \E s \in shields : s.block = r.block}
        IN  /\ shields # {}
            /\ rows' = persist_indexed_log_batch(rows, shields \cup senders)
            /\ UNCHANGED <<content, canonical, served, reorgs, headers, progress, mixed>>

TablesNext == Reorg \/ ProvidersAgree \/ IndexBatch \/ Rewind(replay_from_block) \/ BackfillShields

-----------------------------------------------------------------------------
\* The rows up to a block are those of a branch.
RowsAreOf(k, top) ==
    {[r EXCEPT !.time = NoTime] : r \in {r \in rows : r.block <= top}}
        = {[r EXCEPT !.time = NoTime] : r \in RangeRows(1, top, k)}

=============================================================================
