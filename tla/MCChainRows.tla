---------------------------- MODULE MCChainRows ----------------------------
(***************************************************************************)
(* The tables of a chain under the indexer: alone, with the timestamp tool   *)
(* or with a publication cycle beside it.  A behaviour observes one of them, *)
(* and without the cycle's own variables it is a behaviour of ChainRows.     *)
(***************************************************************************)
EXTENDS ChainCatalogs

BlockShape(family, leaves, cipher, nullifiers, txids) ==
    [family |-> family, leaves |-> leaves, cipher |-> cipher, nullifiers |-> nullifiers,
     txids |-> txids, transactions |-> 1]

\* A shield, transacts with and without ciphertext, and a block without logs.
MCBlockShapes ==
    {BlockShape("shield", 2, "yes", 0, 0),
     BlockShape("transact", 3, "yes", 1, 2),
     BlockShape("transact", 1, "no", 1, 1),
     [BlockShape("transact", 0, "yes", 0, 0) EXCEPT !.transactions = 0]}

vars == <<rowVars, catalogVars>>

Init ==
    /\ RowsInit
    /\ datasets \in {<<"txid">>, <<"wallet">>, <<"commitments", "checkpoints">>}
    \* Beside a reader, the first block has events and ciphertexts, and the other branch has the
    \* transactions in the opposite order or starts with an empty block.
    /\ part # "tables" =>
          /\ content[0][1].leaves > 1
          /\ \/ \A b \in Fork..MaxBlock : content[1][b] = content[0][MaxBlock + Fork - b]
             \/ /\ Len(datasets) = 2 /\ content[1][Fork].leaves = 0
                /\ \A b \in Fork + 1..MaxBlock : content[0][b].family = "shield" /\ content[1][b] = content[0][b]
    /\ options.source = "rpc" => options.fallback = "no"
    /\ progress.block >= Fork
    /\ part # "backfill" =>
          progress.block = Fork /\ options = [source |-> "rpc", fallback |-> "no", dry_run |-> "no"]
    /\ Len(datasets) = 2 => content[0][1].family = "shield"
    /\ part # "catalogs" => datasets = <<"txid">>
    /\ part = "catalogs" /\ rows # RangeRows(1, progress.block, 0) => datasets = <<"wallet">>
    /\ omitted \in {{}} \cup
          {{<<r.block, r.pos>>} : r \in {r \in rows : r.family = "txid" /\ r.pos = 1 /\ datasets = <<"txid">>}}
    /\ part # "catalogs" => omitted = {}
    /\ CatalogInit

\* The tables move until the tool or the cycle beside the indexer ends, or until they have
\* moved under the cycle, of which nothing is claimed then.
Tables ==
    \/ part = "tables" /\ TablesNext /\ UNCHANGED <<part, backfillVars, catalogVars>>
    \/ /\ part = "backfill" /\ bpc \notin {"done", "failed"}
       /\ TablesNext /\ UNCHANGED <<part, backfillVars, catalogVars>>
    \/ /\ part = "catalogs" /\ cpc \notin {"done", "failed"} /\ disturbed = "no"
       /\ TablesMove /\ UNCHANGED <<part, backfillVars>>

Backfill == part = "backfill" /\ BackfillNext /\ UNCHANGED <<part, catalogVars>>

Catalogs == part = "catalogs" /\ CatalogNext /\ UNCHANGED <<part, backfillVars>>

Done == (part = "tables" \/ bpc \in {"done", "failed"} \/ cpc \in {"done", "failed"}) /\ UNCHANGED vars

Next == Tables \/ Backfill \/ Catalogs \/ Done

Spec == Init /\ [][Next]_vars

=============================================================================
