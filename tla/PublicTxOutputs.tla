-------------------------- MODULE PublicTxOutputs --------------------------
(***************************************************************************)
(* How chain_logs.rs gives the decoded Railgun transactions of one outer     *)
(* transaction their place in the commitment tree: the emitted outputs,      *)
(* sorted by global position, are matched with the commitments of the        *)
(* transactions by hash, by the segment of logs after the transaction's      *)
(* nullifiers, or by counting from an anchor, depending on the entrypoint.   *)
(*                                                                           *)
(* Hashes and nullifiers are numbers.                                        *)
(***************************************************************************)
EXTENDS CommitmentTree, Sequences, SequencesExt

NoPosition == -1

\* MODERN_UNSHIELD_ONLY_UTXO_TREE and _POSITION
UnshieldOnlySentinel == <<99999, 99999>>

\* EmittedOutputCommitment
Output(family, log_index, pos, hash) ==
    [family |-> family, log_index |-> log_index, pos |-> pos, hash |-> hash]

Legacy == {"encrypted", "generated"}

SortOutputs(outs) == SortSeq(outs, LAMBDA a, b : a.pos < b.pos)

is_modern_unshield_only(tx) ==
    /\ tx.unshield
    /\ Len(tx.commitments) = 1
    /\ tx.kind \in {"Transact", "Relay", "Execute", "ActionLogs"}

\* A match: the first position, or NoPosition, and how many outputs are consumed.
Match(start, next) == [start |-> start, next |-> next]

\* The commitments of tx met in order among the outputs after the first `from`.
Consume(tx, outs, from) ==
    FoldLeft(LAMBDA m, c :
                 IF m.next < Len(outs) /\ outs[m.next + 1].hash = c
                 THEN Match(IF m.start = NoPosition THEN outs[m.next + 1].pos ELSE m.start,
                            m.next + 1)
                 ELSE m,
             Match(NoPosition, from), tx.commitments)

matched_modern_unshield_only_output_start_global(outs, from) ==
    CASE from < Len(outs) -> outs[from + 1].pos
      [] outs = <<>>      -> 0
      [] from = 0         -> NoPosition
      [] OTHER            -> outs[from].pos + 1

matched_output_start_global(tx, outs, from) ==
    LET m == Consume(tx, outs, from) IN
    CASE /\ tx.unshield
         /\ m.next < Len(outs)
         /\ outs[m.next + 1].family = "generated" -> Match(outs[m.next + 1].pos, m.next + 1)
      [] m.start = NoPosition /\ is_modern_unshield_only(tx) ->
             Match(matched_modern_unshield_only_output_start_global(outs, m.next), m.next)
      [] OTHER -> m

-----------------------------------------------------------------------------
(* Legacy entrypoints. *)

\* The unused nullifier groups that are exactly the transaction's nullifiers.
GroupsOf(groups, tx, used) ==
    {g \in DOMAIN groups : g \notin used /\ groups[g].nullifiers = tx.nullifiers}

\* Mutant: the outputs of later transactions are candidates too.
outputs_after_nullifiers(outs, groups, g) ==
    LET after == SelectSeq(outs, LAMBDA o : o.log_index > groups[g].log_index)
    IN  IF after = <<>> THEN outs ELSE after

legacy_output_candidates(outs, groups, g) ==
    LET after == SelectSeq(outs, LAMBDA o : /\ o.log_index > groups[g].log_index
                                            /\ g < Len(groups) => o.log_index < groups[g + 1].log_index)
    IN  IF after = <<>> THEN outs ELSE after

matched_legacy_output_start_global(tx, outs) ==
    LET starts == {k \in 0..Len(outs) - 1 :
                      matched_output_start_global(tx, outs, k).start # NoPosition}
    IN  IF starts = {} THEN NoPosition
        ELSE matched_output_start_global(tx, outs, Min(starts)).start

FirstOf(outs, family) ==
    LET k == SelectInSeq(outs, LAMBDA o : o.family = family)
    IN  IF k = 0 THEN NoPosition ELSE outs[k].pos

matched_relay_legacy_output_start_global(outs, prior) ==
    (IF FirstOf(outs, "generated") # NoPosition THEN FirstOf(outs, "generated")
     ELSE FirstOf(outs, "encrypted")) + prior

relay_legacy_output_count(tx) ==
    IF tx.unshield THEN Max({0, Len(tx.commitments) - 1}) ELSE Len(tx.commitments)

-----------------------------------------------------------------------------
(* public_transactions_from_decoded: a loop over the transactions.  An error *)
(* leaves the loop with its name in err.                                     *)

LoopStart == [rows |-> <<>>, next |-> 0, used |-> {}, offset |-> 0, mapped |-> FALSE, err |-> "none"]

Row(tx, outs, start) ==
    [nullifiers  |-> tx.nullifiers,
     commitments |-> tx.commitments,
     unshield    |-> tx.unshield,
     tree_in     |-> tx.tree_in,
     out         |-> IF outs = <<>> /\ is_modern_unshield_only(tx) THEN UnshieldOnlySentinel
                     ELSE normalized_global_position(start)]

Fail(st, err) == [st EXCEPT !.err = err]

PushRow(st, tx, outs, start) ==
    IF start = NoPosition THEN Fail(st, "UnmatchedTransactionOutputCommitments")
    ELSE [st EXCEPT !.rows = Append(@, Row(tx, outs, start))]

RelaysLegacyOutputs(tx, outs) ==
    tx.kind \in {"Relay", "LegacyRelay"} /\ \E k \in DOMAIN outs : outs[k].family \in Legacy

DecodedRow(st, tx, outs, groups) ==
    LET fit == GroupsOf(groups, tx, st.used)
        m   == matched_output_start_global(tx, outs, st.next)
    IN
    CASE st.err # "none" -> st
      [] tx.kind = "LegacyTransact" /\ groups # <<>> ->
             CASE fit = {} -> Fail(st, "MissingTransactionNullifierGroup")
               [] Cardinality(fit) > 1 -> Fail(st, "AmbiguousTransactionNullifierGroup")
               [] OTHER ->
                    LET g == CHOOSE g \in fit : TRUE IN
                    PushRow([st EXCEPT !.used = @ \cup {g}, !.mapped = TRUE], tx, outs,
                        matched_legacy_output_start_global(
                            tx, legacy_output_candidates(outs, groups, g)))
      [] RelaysLegacyOutputs(tx, outs) ->
             PushRow([st EXCEPT !.offset = @ + relay_legacy_output_count(tx), !.mapped = TRUE],
                     tx, outs, matched_relay_legacy_output_start_global(outs, st.offset))
      [] OTHER -> PushRow([st EXCEPT !.next = m.next], tx, outs, m.start)

public_transactions_from_decoded(txs, outputs, groups) ==
    LET outs == SortOutputs(outputs)
        end  == FoldLeft(LAMBDA st, tx : DecodedRow(st, tx, outs, groups), LoopStart, txs)
    IN  IF end.err = "none" /\ ~end.mapped /\ end.next # Len(outs)
        THEN Fail(end, "UnmatchedEmittedOutputCommitments")
        ELSE end

=============================================================================
