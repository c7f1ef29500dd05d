----------------------------- MODULE ChainRows -----------------------------
(***************************************************************************)
(* The tables of a chain under the indexer, from what an earlier version may *)
(* have left in them: alone, with the timestamp tool beside it, or with a    *)
(* reader that changes nothing in them.                                      *)
(***************************************************************************)
EXTENDS TimestampBackfill

VARIABLE part \* the part observed

rowVars == <<part, tableVars, backfillVars>>

\* What an earlier version stored: blocks of branch 0 without timestamps, either from before
\* public transactions were indexed, or over what it left of branch 1 after a reorganisation
\* deeper than its rewind.
OldRows(top, orphans) ==
    LET undated(k, from) == UNION {BlockRows(Shapes(k), b, k, NoTime) : b \in from..top}
    IN  IF orphans = "yes"
        THEN persist_indexed_log_batch(undated(1, Fork), undated(0, 1))
        ELSE {r \in undated(0, 1) : r.family # "txid"}

RowsInit ==
    /\ part \in {"tables", "backfill", "catalogs"}
    /\ \E top \in 0..MaxBlock, orphans \in {"yes", "no"} :
          /\ TablesInit(top)
          /\ \/ part = "backfill" /\ rows = OldRows(top, orphans)
             \/ part = "catalogs" /\ rows = OldRows(top, "no")
             \/ part # "backfill" /\ rows = RangeRows(1, top, 0)
    /\ BackfillInit

RowsNext ==
    \/ TablesNext /\ UNCHANGED <<part, backfillVars>>
    \/ part = "backfill" /\ BackfillNext /\ UNCHANGED part

RowsSpec == RowsInit /\ [][RowsNext]_rowVars

-----------------------------------------------------------------------------
\* The rows of the blocks no reorganisation reaches are the chain's, whichever answers batches
\* were put together from, and up to the progress the tables are those of the chain it stands
\* on unless a batch since the last rewind was of another: a rewind and a second indexing leave
\* no row of the orphaned blocks in any table, whatever table or block the new branch puts the
\* same position, nullifier or transaction in.  A reorganisation between the resume check, the
\* header and the logs, or a provider behind another, does mix two chains below a progress
\* that is canonical, and then only a later rewind removes the orphans.
TablesAreOfOneChain ==
    part = "tables" =>
        /\ RowsAreOf(0, Min({progress.block, Fork - 1}))
        /\ mixed = "no" /\ progress.block > 0 => RowsAreOf(progress.hash[2], progress.block)

=============================================================================
