--------------------------- MODULE LegacyOutputs ---------------------------
(***************************************************************************)
(* Public transactions of the legacy entrypoints.  transact emits, for each  *)
(* transaction, its nullifiers and then its own batches of commitments; the  *)
(* commitment of a withdrawal is in the calldata and in no batch, and a      *)
(* withdrawal may be followed by a generated commitment, or emit nothing.    *)
(* relay emits one run of encrypted commitments, and then perhaps a          *)
(* generated one.  Both are external: this is what the tests of              *)
(* chain_logs.rs feed to hydrate_public_transactions, and what the fallback  *)
(* of legacy_output_candidates is for.                                       *)
(***************************************************************************)
EXTENDS PublicTxOutputs

CONSTANTS
    LegacyFirstLeaf, \* global positions of the first output
    MaxLegacyTxs     \* bound: transactions of a call

VARIABLES
    legacy,     \* the call: its entrypoint, its transactions and where its outputs start
    legacyRows  \* what public_transactions_from_decoded gives, "none" before

legacyVars == <<legacy, legacyRows>>

\* A transaction emits `encrypted` commitments, and perhaps a generated one for a withdrawal.
LegacyShape ==
    {s \in [encrypted : 0..2, unshield : BOOLEAN, generated : BOOLEAN] :
        s.generated \/ s.encrypted = 0 => s.unshield}

LegacyCall ==
    [kind : {"LegacyTransact", "LegacyRelay"},
     shapes : UNION {[1..n -> LegacyShape] : n \in 1..MaxLegacyTxs},
     shielded : BOOLEAN, \* relay ends with a generated commitment
     first : LegacyFirstLeaf]

NotHydrated == [rows |-> <<>>, err |-> "none"]

LegacyInit ==
    /\ legacy \in LegacyCall
    /\ IF legacy.kind = "LegacyTransact" THEN ~legacy.shielded
       ELSE \A k \in DOMAIN legacy.shapes : ~legacy.shapes[k].generated
    /\ legacyRows = NotHydrated

-----------------------------------------------------------------------------
(* What the contract emits.  Transaction k has hashes 10 * k + 1, ... *)

Hashes(k) == [j \in 1..legacy.shapes[k].encrypted |-> 10 * k + j]

EmittedCount(k) == legacy.shapes[k].encrypted + (IF legacy.shapes[k].generated THEN 1 ELSE 0)

\* Where the outputs of transaction k start; after the last transaction, where they end.
StartOf(k) ==
    legacy.first + FoldLeft(LAMBDA n, j : n + EmittedCount(j), 0, [j \in 1..k - 1 |-> j])

LegacyTx(k) ==
    [kind |-> legacy.kind,
     nullifiers |-> <<k>>,
     commitments |-> Hashes(k) \o (IF legacy.shapes[k].unshield THEN <<10 * k + 9>> ELSE <<>>),
     unshield |-> legacy.shapes[k].unshield,
     tree_in |-> 0]

\* Nullifiers in log 3k - 2, the encrypted batch in 3k - 1, the generated one in 3k.
LegacyEmits(k) ==
    [j \in DOMAIN Hashes(k) |-> Output("encrypted", 3 * k - 1, StartOf(k) + j - 1, Hashes(k)[j])]
    \o (IF legacy.shapes[k].generated
        THEN <<Output("generated", 3 * k, StartOf(k) + Len(Hashes(k)), 10 * k + 8)>> ELSE <<>>)

\* The generated commitment at the end of a relay call.
Shielded ==
    LET n == Len(legacy.shapes) + 1
    IN  IF legacy.shielded THEN <<Output("generated", 3 * n, StartOf(n), 10 * n + 8)>> ELSE <<>>

\* nullifier_groups_by_transaction, for the logs of the call
NullifierGroups == [k \in DOMAIN legacy.shapes |-> [nullifiers |-> <<k>>, log_index |-> 3 * k - 2]]

HydrateLegacy ==
    /\ legacyRows = NotHydrated
    /\ LET txs == [k \in DOMAIN legacy.shapes |-> LegacyTx(k)]
           outputs == FlattenSeq([k \in DOMAIN legacy.shapes |-> LegacyEmits(k)]) \o Shielded
       IN  \E result \in {public_transactions_from_decoded(txs, outputs, NullifierGroups)} :
               legacyRows' = [rows |-> [k \in DOMAIN result.rows |-> result.rows[k].out],
                              err |-> result.err]
    /\ UNCHANGED legacy

-----------------------------------------------------------------------------

\* A row starts at the generated commitment of its withdrawal, and otherwise at its first output.
\* The rows of a relay call with a generated commitment follow one another from there.
LegacyStart(k) ==
    normalized_global_position(
        StartOf(k) + (IF legacy.shapes[k].generated THEN legacy.shapes[k].encrypted ELSE 0)
                   + (IF legacy.shielded THEN StartOf(Len(legacy.shapes) + 1) - legacy.first ELSE 0))

\* A transaction whose outputs can be told: a withdrawal of transact that emits nothing has none.
HasOutputs(k) == legacy.kind = "LegacyRelay" \/ EmittedCount(k) > 0

\* Each row of a legacy call starts where the outputs of its own transaction start, whatever the
\* other transactions of the call emit, withdraw or leave out, and across a tree boundary; in a
\* relay call with a generated commitment, where the tests of chain_logs.rs put it.  The hydration
\* fails only for a withdrawal that emits nothing, and a relay call that emits nothing at all.  The
\* place of such a withdrawal is not promised: legacy_output_candidates offers it all outputs.
LegacyRowsArePlaced ==
    legacyRows # NotHydrated =>
        IF legacyRows.err = "none"
        THEN /\ DOMAIN legacyRows.rows = DOMAIN legacy.shapes
             /\ \A k \in DOMAIN legacy.shapes : HasOutputs(k) => legacyRows.rows[k] = LegacyStart(k)
        ELSE \/ \E k \in DOMAIN legacy.shapes : ~HasOutputs(k)
             \/ StartOf(Len(legacy.shapes) + 1) = legacy.first /\ ~legacy.shielded

=============================================================================
