------------------------- MODULE TimestampBackfill -------------------------
(***************************************************************************)
(* backfill_indexed_log_timestamps: rows indexed before block timestamps     *)
(* were stored get theirs, from rows of the same block, then block by block  *)
(* from the archive provider or a Squid, while the indexer goes on.          *)
(***************************************************************************)
EXTENDS ChainTables

CONSTANT BlockQueryLimit \* --block-query-limit

ASSUME LimitAssumption == BlockQueryLimit \in Nat \ {0}

VARIABLES
    bpc,      \* where the tool is
    options,  \* its arguments: timestamp source, RPC fallback, dry run
    missing,  \* the blocks of the last query, as <<number, hash>>
    resolved  \* the timestamps found for them, as <<number, hash, time>>

backfillVars == <<bpc, options, missing, resolved>>

Options == [source : {"rpc", "squid"}, fallback : {"yes", "no"}, dry_run : {"yes", "no"}]

BackfillInit ==
    /\ bpc = "seed"
    /\ options \in Options
    /\ missing = {}
    /\ resolved = {}

-----------------------------------------------------------------------------
(* store.rs *)

IsMissing(r) == InWalletScan(r) /\ r.time = NoTime

\* Sources of one block that disagree give none.
timestamp_sources(known) ==
    {s \in known : \A t \in known : <<t[1], t[2]>> = <<s[1], s[2]>> => t[3] = s[3]}

\* Mutant: a timestamp is matched by block number alone.
match_number(table, updates) ==
    {IF IsMissing(r) /\ \E s \in timestamp_sources(updates) : s[1] = r.block
     THEN [r EXCEPT !.time = (CHOOSE s \in timestamp_sources(updates) : s[1] = r.block)[3]]
     ELSE r : r \in table}

backfill_wallet_scan_block_timestamps(table, updates) ==
    {LET found == {s \in timestamp_sources(updates) : <<s[1], s[2]>> = <<r.block, r.bhash>>}
     IN  IF IsMissing(r) /\ found # {} THEN [r EXCEPT !.time = (CHOOSE s \in found : TRUE)[3]] ELSE r
        : r \in table}

backfill_wallet_scan_timestamps_from_local_sources(table) ==
    backfill_wallet_scan_block_timestamps(table,
        {<<r.block, r.bhash, r.time>> : r \in {r \in table : r.time # NoTime}})

\* Mutant: the query leaves the nullifiers out.
commitments_only(table) ==
    {{<<r.block, r.bhash>> : r \in {r \in table : IsMissing(r) /\ r.family # "nullifier"}}}

\* ORDER BY block_number LIMIT: two hashes of one number may be cut apart.
missing_wallet_scan_timestamp_blocks(table) ==
    LET all == {<<r.block, r.bhash>> : r \in {r \in table : IsMissing(r)}}
    IN  {S \in SUBSET all :
            /\ Cardinality(S) = Min({Cardinality(all), BlockQueryLimit})
            /\ \A x \in S, y \in all \ S : x[1] <= y[1]}

-----------------------------------------------------------------------------
(* The tool. *)

Seed ==
    /\ bpc = "seed"
    /\ bpc' = "list"
    /\ rows' = IF options.dry_run = "yes" THEN rows
               ELSE backfill_wallet_scan_timestamps_from_local_sources(rows)
    /\ UNCHANGED <<options, missing, resolved>>

ListMissing ==
    /\ bpc = "list"
    /\ missing' \in missing_wallet_scan_timestamp_blocks(rows)
    /\ resolved' = {}
    /\ bpc' = IF missing' = {} THEN "done" ELSE options.source
    /\ UNCHANGED <<rows, options>>

\* A Squid knows block numbers: a number with two hashes is skipped.
squid_eligible_block_numbers ==
    {n \in {m[1] : m \in missing} : Cardinality({m \in missing : m[1] = n}) = 1}

unresolved_missing_blocks == {m \in missing : ~\E s \in resolved : <<s[1], s[2]>> = m}

\* The Squid serves the timestamps it has of the blocks with events.
resolve_missing_with_squid ==
    /\ bpc = "squid"
    /\ \E known \in SUBSET squid_eligible_block_numbers :
          resolved' = {<<m[1], m[2], Hash(m[1], canonical)>> : m \in {m \in missing : m[1] \in known}}
    /\ bpc' = IF options.fallback = "yes" THEN "rpc" ELSE "apply"
    /\ UNCHANGED <<rows, options, missing>>

\* The archive provider knows canonical blocks by their hash, and may know orphaned ones.
resolve_missing_with_rpc ==
    /\ bpc = "rpc"
    /\ resolved' = resolved \cup {<<m[1], m[2], m[2]>> : m \in unresolved_missing_blocks}
    /\ bpc' = "apply"
    /\ UNCHANGED <<rows, options, missing>>

\* A request fails, or a block is unknown: the blocks resolved before it are lost with it.
ResolveFails ==
    /\ bpc \in {"squid", "rpc"}
    /\ bpc' = "failed"
    /\ UNCHANGED <<rows, options, missing, resolved>>

apply_resolved_timestamps ==
    /\ bpc = "apply"
    /\ IF resolved = {} \/ options.dry_run = "yes"
       THEN /\ UNCHANGED rows
            /\ bpc' = "done"
       ELSE /\ rows' = backfill_wallet_scan_block_timestamps(rows, resolved)
            /\ bpc' = "list"
    /\ UNCHANGED <<options, missing, resolved>>

BackfillNext ==
    /\ \/ Seed \/ ListMissing
       \/ resolve_missing_with_squid \/ resolve_missing_with_rpc \/ ResolveFails
       \/ apply_resolved_timestamps
    /\ UNCHANGED <<content, canonical, served, reorgs, headers, progress, mixed>>

-----------------------------------------------------------------------------
\* A row never has the timestamp of another block, though the tool resolves a block, the
\* chain is reorganised, the row is rewound and another takes its key before the update.  A
\* Squid answers by number, so with it only while the chain stands and for canonical rows.
TimestampsAreTheirBlocks ==
    \A r \in rows :
        r.time # NoTime /\ (options.source = "rpc" \/ (reorgs = 0 /\ r.bhash = Hash(r.block, canonical)))
            => r.time = r.bhash

\* When the tool ends well, with the archive provider to fall back on, no row a publication
\* reads lacks its timestamp: the missing blocks are listed a few at a time, from the tables and
\* with the conditions wallet_scan_rows has, and rows come and go in between.
BackfillIsComplete ==
    bpc = "done" /\ options.dry_run = "no" /\ (options.source = "rpc" \/ options.fallback = "yes")
        => \A r \in wallet_scan_rows(rows, 1, MaxBlock) : r.time # NoTime

=============================================================================
