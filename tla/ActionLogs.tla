---------------------------- MODULE ActionLogs ----------------------------
(***************************************************************************)
(* The public transactions of one outer transaction, from the logs of its   *)
(* Railgun calls.  From action_start_block on, hydrate_public_transactions   *)
(* rebuilds the transactions from Nullified, Action, Unshield and Transact   *)
(* logs, replaces the unshield commitments by those of the calldata, and     *)
(* matches each call with the outputs of its own Transact log.               *)
(*                                                                           *)
(* The contract is external: each call emits its Nullified logs, its Action, *)
(* its Unshields and its Transact, and a call may re-enter the contract at   *)
(* any point after its Action.  A provider may leave one log out.            *)
(***************************************************************************)
EXTENDS PublicTxOutputs

CONSTANTS
    CallShapes, \* calls: sequences of configurations (nullifiers, commitments, unshield)
    FirstLeaf,  \* global positions at which the outer transaction may start
    MaxLogs     \* bound: logs of the outer transaction

VARIABLES
    phase,     \* "executing", "decoding", "decoded" or, from calldata, "hydrated"
    calls,     \* the open calls of the contract, innermost last
    logs,      \* what the contract has emitted
    executed,  \* the transactions it has executed, in the order of their Actions
    leaf,      \* global position of the next output
    trace,     \* the calls to the contract, reverted ones included
    lost,      \* the log the provider left out, or 0
    received,  \* the logs the provider returned that are not decoded yet
    calldata,  \* transactions reachable from the calldata of the outer transaction
    pending_nullified, frames, next_record_index, decoded,
    outcome,   \* "none", "rows" or the error that ended the hydration
    rows       \* the public transactions, in the order of their index

actionLogsVars ==
    <<phase, calls, logs, executed, leaf, trace, lost, received, calldata,
      pending_nullified, frames, next_record_index, decoded, outcome, rows>>

contractVars == <<calls, logs, executed, leaf, trace>>
fetchVars    == <<lost, received, calldata>>
decoderVars  == <<pending_nullified, frames, next_record_index, decoded>>

ActionLogsInit ==
    /\ phase = "executing"
    /\ calls = <<>>
    /\ logs = <<>>
    /\ executed = <<>>
    /\ leaf \in FirstLeaf
    /\ trace = <<>>
    /\ lost = 0
    /\ received = <<>>
    /\ calldata = <<>>
    /\ pending_nullified = <<>>
    /\ frames = <<>>
    /\ next_record_index = 0
    /\ decoded = <<>>
    /\ outcome = "none"
    /\ rows = <<>>

SumOver(f(_), s) == FoldLeft(LAMBDA n, x : n + f(x), 0, s)

-----------------------------------------------------------------------------
(* The contract.  Hashes and nullifiers are numbered as they are made. *)

Fresh(from, n) == [k \in 1..n |-> from + k]

Used == SumOver(LAMBDA t : Len(t.nullifiers) + Len(t.commitments), executed)

\* The transactions of a call with these configurations, made of fresh numbers.
Executes(configs) ==
    [k \in DOMAIN configs |->
        LET before == Used + SumOver(LAMBDA c : c.nullifiers + c.commitments
                                               + (IF c.unshield THEN 1 ELSE 0),
                                     SubSeq(configs, 1, k - 1))
            c == configs[k]
        IN  [nullifiers  |-> Fresh(before, c.nullifiers),
             commitments |-> Fresh(before + c.nullifiers,
                                   c.commitments + (IF c.unshield THEN 1 ELSE 0)),
             unshield    |-> c.unshield,
             tree_in     |-> k,
             out         |-> UnshieldOnlySentinel]]

CallTransaction(t) ==
    [nullifiers |-> t.nullifiers, commitments |-> t.commitments,
     unshield |-> t.unshield, tree_in |-> t.tree_in]

Outputs(t) == IF t.unshield THEN Front(t.commitments) ELSE t.commitments

Log(type, body) == [type |-> type, body |-> body, log_index |-> 0]

Emit(new) == logs' = logs \o [k \in DOMAIN new |-> [new[k] EXCEPT !.log_index = Len(logs) + k]]

\* A shield emits an Action without configurations.
EmptyAction ==
    /\ phase = "executing"
    /\ Len(logs) < MaxLogs
    /\ Emit(<<Log("Action", <<>>)>>)
    /\ UNCHANGED <<phase, calls, executed, leaf, trace, fetchVars, decoderVars, outcome, rows>>

\* The trace address of the innermost open call.
OpenPath == IF calls = <<>> THEN <<>> ELSE trace[Last(calls).frame].path

EnterCall(configs) ==
    /\ phase = "executing"
    /\ Len(logs) + 2 * Len(configs) + 2 <= MaxLogs
    /\ LET txs == Executes(configs)
           base == Len(executed)
       IN
       /\ Emit([k \in DOMAIN txs |->
                   Log("Nullified", [tree |-> txs[k].tree_in, nullifiers |-> txs[k].nullifiers])]
               \o <<Log("Action", configs)>>)
       /\ executed' = executed \o txs
       /\ trace' = Append(trace, [path |-> Append(OpenPath, Len(trace) + 1), error |-> "none",
                                  txs |-> [k \in DOMAIN txs |-> CallTransaction(txs[k])]])
       /\ calls' = Append(calls,
              [txs |-> base + 1 .. base + Len(txs),
               unshields |-> SelectSeq([k \in DOMAIN txs |-> base + k], LAMBDA i : txs[i - base].unshield),
               frame |-> Len(trace) + 1,
               undo |-> [logs |-> logs, executed |-> executed, leaf |-> leaf]])
    /\ UNCHANGED <<phase, leaf, fetchVars, decoderVars, outcome, rows>>

EmitUnshield ==
    /\ phase = "executing"
    /\ calls # <<>>
    /\ Last(calls).unshields # <<>>
    /\ Emit(<<Log("Unshield", Last(executed[Head(Last(calls).unshields)].commitments))>>)
    /\ calls' = [calls EXCEPT ![Len(calls)].unshields = Tail(@)]
    /\ UNCHANGED <<phase, executed, leaf, trace, fetchVars, decoderVars, outcome, rows>>

\* A batch that does not fit in the tree starts the next one.
BatchStart(n) ==
    IF (leaf % TREE_LEAF_COUNT) + n > TREE_LEAF_COUNT
    THEN (leaf \div TREE_LEAF_COUNT + 1) * TREE_LEAF_COUNT ELSE leaf

LeaveCall ==
    /\ phase = "executing"
    /\ calls # <<>>
    /\ Last(calls).unshields = <<>>
    /\ LET txs == Last(calls).txs
           hashes == FlattenSeq([k \in 1..Cardinality(txs) |-> Outputs(executed[Min(txs) + k - 1])])
           start == BatchStart(Len(hashes))
           Before(i) == SumOver(LAMBDA t : Len(Outputs(t)), SubSeq(executed, Min(txs), i - 1))
       IN  IF hashes = <<>> THEN UNCHANGED <<logs, executed, leaf>>
           ELSE /\ Emit(<<Log("Transact", [hashes |-> hashes, start |-> start])>>)
                /\ executed' = [i \in DOMAIN executed |->
                       IF i \in txs
                       THEN [executed[i] EXCEPT !.out = normalized_global_position(start + Before(i))]
                       ELSE executed[i]]
                /\ leaf' = start + Len(hashes)
    /\ calls' = Front(calls)
    /\ UNCHANGED <<phase, trace, fetchVars, decoderVars, outcome, rows>>

\* A call reverts: its effects and those of the calls under it are undone, its caller goes on.
RevertCall ==
    /\ phase = "executing"
    /\ calls # <<>>
    /\ \A k \in DOMAIN trace : trace[k].error = "none"
    /\ logs' = Last(calls).undo.logs
    /\ executed' = Last(calls).undo.executed
    /\ leaf' = Last(calls).undo.leaf
    /\ trace' = [trace EXCEPT ![Last(calls).frame].error = "Reverted"]
    /\ calls' = Front(calls)
    /\ UNCHANGED <<phase, fetchVars, decoderVars, outcome, rows>>

\* A call with a transaction that spends nothing is refused: only the calldata shows it.
RefuseCall ==
    /\ phase = "executing"
    /\ \A k \in DOMAIN trace : trace[k].error = "none"
    /\ trace' = Append(trace, [path |-> Append(OpenPath, Len(trace) + 1), error |-> "Reverted",
                               txs |-> <<[nullifiers |-> <<>>, commitments |-> <<>>,
                                          unshield |-> FALSE, tree_in |-> 1]>>])
    /\ UNCHANGED <<phase, calls, logs, executed, leaf, fetchVars, decoderVars, outcome, rows>>

\* The calldata reaches every call, reverted or not, only the outermost ones, or does not decode.
Calldata ==
    LET reached(d) == SelectSeq(trace, LAMBDA f : Len(f.path) <= d)
    IN  {FlattenSeq([k \in DOMAIN reached(d) |-> reached(d)[k].txs]) : d \in {0, 1, Len(trace)}}

\* The summaries hold an outer transaction only for its outputs or its nullifiers.
Summarised(s) == \E k \in DOMAIN s : s[k].type \in {"Nullified", "Transact"}

\* The logs of the range arrive, one of them left out when missing is not 0.
FetchLogs(missing) ==
    /\ phase = "executing"
    /\ calls = <<>>
    /\ logs # <<>>
    /\ received' = SelectSeq(logs, LAMBDA l : l.log_index # missing)
    /\ lost' = missing
    /\ calldata' \in Calldata
    /\ IF Summarised(received') THEN phase' = "decoding" /\ UNCHANGED outcome
       ELSE phase' = "decoded" /\ outcome' = "skipped"
    /\ UNCHANGED <<contractVars, decoderVars, rows>>

-----------------------------------------------------------------------------
(* decoded_transactions_from_action_logs: one step per log. *)

pending_unshields(frame) ==
    Len(SelectSeq(frame.configs, LAMBDA c : c.unshield)) - Len(frame.unshields)

counts_match(configs) ==
    /\ Len(pending_nullified) = Len(configs)
    /\ \A k \in DOMAIN configs : configs[k].nullifiers = Len(pending_nullified[k].nullifiers)

ActionFrame(configs) ==
    [record_base |-> next_record_index,
     configs |-> configs,
     nullified |-> pending_nullified,
     unshields |-> <<>>,
     expects_transact |-> \E k \in DOMAIN configs : configs[k].commitments > 0]

\* What the Unshield log says of commitment c: the committed one may differ from it.
unshield_commitment_from_event(c) == -c

\* The transactions of a call, with their record indexes.
transactions_from_action_frame(frame, hashes) ==
    LET offset(k) == SumOver(LAMBDA c : c.commitments, SubSeq(frame.configs, 1, k - 1))
        unshields(k) == Len(SelectSeq(SubSeq(frame.configs, 1, k), LAMBDA c : c.unshield))
    IN  [k \in DOMAIN frame.configs |->
            LET c == frame.configs[k] IN
            [record_index |-> frame.record_base + k,
             tx |-> [kind |-> "ActionLogs",
                     nullifiers |-> frame.nullified[k].nullifiers,
                     commitments |-> SubSeq(hashes, offset(k) + 1, offset(k) + c.commitments)
                         \o (IF c.unshield
                             THEN <<unshield_commitment_from_event(frame.unshields[unshields(k)])>>
                             ELSE <<>>),
                     unshield |-> c.unshield,
                     tree_in |-> frame.nullified[k].tree]]]

commitment_count_mismatch(frame, hashes) ==
    SumOver(LAMBDA c : c.commitments, frame.configs) # Len(hashes)

\* Mutant: every call is expected to end with a Transact log.
EndsWithTransact(frame) == FALSE

\* The frame that the loop body leaves on top, completed when it needs no more logs.
\* A call without commitments emits no Transact.
Completed(frame) == ~frame.expects_transact /\ pending_unshields(frame) = 0

Call(log_index, txs) == [transact |-> log_index, txs |-> txs]

\* The end of the loop body: frames and calls decoded by the log, the top one popped.
SettleTop(fs, ds) ==
    IF fs # <<>> /\ Completed(Last(fs))
    THEN /\ frames' = Front(fs)
         /\ decoded' = Append(ds, Call(0, transactions_from_action_frame(Last(fs), <<>>)))
    ELSE frames' = fs /\ decoded' = ds

Abort(err) ==
    /\ phase' = "decoded"
    /\ outcome' = err
    /\ UNCHANGED <<contractVars, fetchVars, decoderVars, rows>>

Consumed ==
    /\ received' = Tail(received)
    /\ UNCHANGED <<phase, contractVars, lost, calldata, outcome, rows>>

NextLogIs(type) == phase = "decoding" /\ received # <<>> /\ Head(received).type = type

DecodeNullified ==
    /\ NextLogIs("Nullified")
    /\ pending_nullified' = Append(pending_nullified, Head(received).body)
    /\ SettleTop(frames, decoded)
    /\ UNCHANGED next_record_index
    /\ Consumed

DecodeAction ==
    /\ NextLogIs("Action")
    /\ LET configs == Head(received).body IN
       IF ~counts_match(configs) THEN Abort("ActionNullifierCountMismatch")
       ELSE /\ pending_nullified' = <<>>
            /\ next_record_index' = next_record_index + Len(configs)
            /\ SettleTop(IF configs = <<>> THEN frames ELSE Append(frames, ActionFrame(configs)),
                         decoded)
            /\ Consumed

DecodeUnshield ==
    /\ NextLogIs("Unshield")
    /\ IF frames = <<>> \/ pending_unshields(Last(frames)) <= 0
       THEN Abort("UnmatchedActionLog")
       ELSE /\ SettleTop([frames EXCEPT ![Len(frames)].unshields = Append(@, Head(received).body)],
                         decoded)
            /\ UNCHANGED <<pending_nullified, next_record_index>>
            /\ Consumed

DecodeTransact ==
    /\ NextLogIs("Transact")
    /\ LET hashes == Head(received).body.hashes IN
       CASE frames = <<>> \/ ~Last(frames).expects_transact -> Abort("UnmatchedActionLog")
         [] frames # <<>> /\ Last(frames).expects_transact ->
              CASE pending_unshields(Last(frames)) > 0 -> Abort("MissingActionUnshield")
                [] pending_unshields(Last(frames)) <= 0
                   /\ commitment_count_mismatch(Last(frames), hashes) ->
                       Abort("ActionCommitmentCountMismatch")
                [] OTHER ->
                     /\ SettleTop(Front(frames),
                                  Append(decoded, Call(Head(received).log_index,
                                      transactions_from_action_frame(Last(frames), hashes))))
                     /\ UNCHANGED <<pending_nullified, next_record_index>>
                     /\ Consumed

-----------------------------------------------------------------------------
(* The end of the loop, then the calldata and the outputs. *)

\* The transactions of the calldata with the nullifiers of a decoded one.
CalldataOf(tx) == {k \in DOMAIN calldata : calldata[k].nullifiers = tx.nullifiers}

contradiction(tx, t) ==
    \/ ~t.unshield
    \/ t.tree_in # tx.tree_in
    \/ t.commitments = <<>> \/ tx.commitments = <<>>
    \/ Front(t.commitments) # Front(tx.commitments)

\* An empty nullifier array cannot key a match, of whichever transaction it is.
unkeyed(tx) == tx.nullifiers = <<>> \/ \E k \in DOMAIN calldata : calldata[k].nullifiers = <<>>

UnshieldError(tx) ==
    CASE unkeyed(tx) -> "ContradictingUnshieldCalldata"
      [] ~unkeyed(tx) /\ Cardinality(CalldataOf(tx)) # 1 -> "AmbiguousUnshieldCalldata"
      [] ~unkeyed(tx) /\ Cardinality(CalldataOf(tx)) = 1
         /\ (\E k \in CalldataOf(tx) : contradiction(tx, calldata[k])) -> "ContradictingUnshieldCalldata"
      [] OTHER -> "none"

\* Calldata is authoritative; when nothing decodes the derivation from the log stands.
resolve_unshield_commitments(tx) ==
    IF ~tx.unshield \/ calldata = <<>> THEN tx
    ELSE [tx EXCEPT !.commitments =
             calldata[CHOOSE k \in CalldataOf(tx) : TRUE].commitments]

\* The outputs a call is matched with: those of its own Transact log.
OutputsOf(log_index) ==
    IF log_index = 0 THEN <<>>
    ELSE LET body == logs[log_index].body
         IN  [k \in DOMAIN body.hashes |->
                 Output("transact", log_index, body.start + k - 1, body.hashes[k])]

MatchCall(call) ==
    public_transactions_from_decoded(
        [k \in DOMAIN call.txs |-> resolve_unshield_commitments(call.txs[k].tx)],
        OutputsOf(call.transact), <<>>)

\* Rows with their record indexes, call after call.
IndexedRows(matched) ==
    FlattenSeq([c \in DOMAIN decoded |->
        [k \in DOMAIN decoded[c].txs |->
            [record_index |-> decoded[c].txs[k].record_index, row |-> matched[c].rows[k]]]])

\* Mutant: the rows stay in the order in which their calls completed.
InCompletionOrder(indexed) == indexed

InRecordOrder(indexed) == SortSeq(indexed, LAMBDA a, b : a.record_index < b.record_index)

DecodedTxs == FlattenSeq([c \in DOMAIN decoded |-> [k \in DOMAIN decoded[c].txs |-> decoded[c].txs[k].tx]])

\* What ends the hydration before the outputs are matched.
HydrationError ==
    LET bad == SelectSeq(DecodedTxs, LAMBDA tx : tx.unshield /\ UnshieldError(tx) # "none") IN
    CASE pending_nullified # <<>> -> "ActionNullifierCountMismatch"
      [] frames # <<>> -> IF pending_unshields(Last(frames)) > 0 THEN "MissingActionUnshield"
                          ELSE "ActionCommitmentCountMismatch"
      [] calldata # <<>> /\ bad # <<>> -> UnshieldError(Head(bad))
      [] OTHER -> "none"

\* The calls are matched with their outputs, and the rows sorted by record index.
MatchOutputs ==
    \E matched \in {[c \in DOMAIN decoded |-> MatchCall(decoded[c])]} :
        LET unmatched == SelectSeq(matched, LAMBDA m : m.err # "none")
            sorted == InRecordOrder(IndexedRows(matched))
        IN
        IF unmatched # <<>> THEN outcome' = Head(unmatched).err /\ UNCHANGED rows
        ELSE outcome' = "rows" /\ rows' = [k \in DOMAIN sorted |-> sorted[k].row]

FinishDecode ==
    /\ phase = "decoding"
    /\ received = <<>>
    /\ phase' = "decoded"
    /\ IF HydrationError # "none" THEN outcome' = HydrationError /\ UNCHANGED rows ELSE MatchOutputs
    /\ UNCHANGED <<contractVars, fetchVars, decoderVars>>

-----------------------------------------------------------------------------
(* Before action_start_block the transactions come from the calldata, when   *)
(* the outer call is a Railgun entrypoint, or from a trace of the calls.     *)

\* Mutant: a call under a reverted one counts as committed.
DidNotRevert(frame) == frame.error = "none"

\* Neither reverted nor under a reverted call, in a nested trace as in a flat one.
Committed(frame) ==
    \A k \in DOMAIN trace : trace[k].error # "none" => ~IsPrefix(trace[k].path, frame.path)

collect_trace_railgun_transactions ==
    LET kept == SelectSeq(trace, Committed)
    IN  FlattenSeq([k \in DOMAIN kept |-> kept[k].txs])

AllOutputs ==
    FlattenSeq([k \in DOMAIN logs |-> IF logs[k].type = "Transact" THEN OutputsOf(k) ELSE <<>>])

public_transactions_from_calldata(txs) ==
    public_transactions_from_decoded(
        [k \in DOMAIN txs |-> [kind |-> "Transact"] @@ txs[k]], AllOutputs, <<>>)

public_transactions_from_calldata_or_trace(direct) ==
    LET called == public_transactions_from_calldata(direct) IN
    IF direct = <<>> \/ called.err = "UnmatchedEmittedOutputCommitments"
    THEN public_transactions_from_calldata(collect_trace_railgun_transactions)
    ELSE called

HydrateFromCalldata(direct) ==
    /\ phase = "executing"
    /\ calls = <<>>
    /\ Summarised(logs)
    /\ phase' = "hydrated"
    /\ \E result \in {public_transactions_from_calldata_or_trace(direct)} :
       IF result.err = "none" THEN outcome' = "rows" /\ rows' = result.rows
       ELSE outcome' = result.err /\ UNCHANGED rows
    /\ UNCHANGED <<contractVars, fetchVars, decoderVars>>

Direct == {<<>>} \cup {trace[k].txs : k \in {k \in DOMAIN trace : k = 1 /\ trace[k].error = "none"}}

ActionLogsNext ==
    \/ EmptyAction
    \/ \E configs \in CallShapes : EnterCall(configs)
    \/ EmitUnshield
    \/ LeaveCall
    \/ RevertCall
    \/ RefuseCall
    \/ \E missing \in 0..Len(logs) : FetchLogs(missing)
    \/ DecodeNullified
    \/ DecodeAction
    \/ DecodeUnshield
    \/ DecodeTransact
    \/ FinishDecode
    \/ \E direct \in Direct : HydrateFromCalldata(direct)

-----------------------------------------------------------------------------
(* Properties. *)

\* The row of an executed transaction: the commitment of an unshield is the committed one
\* when the calldata decodes, and what its log says otherwise.
ExpectedRow(t) ==
    [nullifiers  |-> t.nullifiers,
     commitments |-> IF t.unshield /\ calldata = <<>>
                     THEN Append(Front(t.commitments),
                                 unshield_commitment_from_event(Last(t.commitments)))
                     ELSE t.commitments,
     unshield    |-> t.unshield,
     tree_in     |-> t.tree_in,
     out         |-> t.out]

\* However the calls of an outer transaction nest, and even when a log is missing, the rows
\* that hydrate_public_transactions stores are the transactions the contract executed, in the
\* order of their Action logs, each with the place its own call's outputs took in the tree
\* (the sentinel when the call had none): a missing log ends in an error, never in a row.
RowsAreExecuted ==
    phase = "decoded" /\ outcome = "rows" => rows = [k \in DOMAIN executed |-> ExpectedRow(executed[k])]

\* When every log arrives, and the calldata holds each executed transaction once and none without
\* nullifiers, or does not decode, no nesting of calls makes the hydration fail: a failure repeats
\* for the same range and stops the indexer.  resolve_unshield_commitments refuses the calldata of an
\* unshield when any call in it, reverted or not, has an empty nullifier array.
IntactLogsDecode ==
    /\ phase = "decoded"
    /\ lost = 0
    /\ \/ calldata = <<>>
       \/ /\ \A k \in DOMAIN calldata : calldata[k].nullifiers # <<>>
          /\ \A k \in DOMAIN executed :
              {calldata[j] : j \in CalldataOf(executed[k])} = {CallTransaction(executed[k])}
              /\ Cardinality(CalldataOf(executed[k])) = 1
    => outcome \in {"rows", "skipped"}

\* Both ways of finding the transactions of an outer transaction number and place them alike:
\* when calls nest only in reverted ones, each emits outputs and all outputs are in one tree, the rows
\* from calldata or a trace, reverted calls dropped, are the rows the Action logs would give.
\* The txid indexes of both eras go into one tree.
CalldataAgrees ==
    /\ phase = "hydrated"
    /\ \A k \in DOMAIN trace :
          LET path == trace[k].path IN Len(path) > 1 => trace[path[Len(path) - 1]].error # "none"
    /\ \A k \in DOMAIN executed : executed[k].out # UnshieldOnlySentinel
    /\ \A j, k \in DOMAIN executed : executed[j].out[1] = executed[k].out[1]
    => /\ outcome = "rows"
       /\ rows = [k \in DOMAIN executed |-> CallTransaction(executed[k]) @@ [out |-> executed[k].out]]

=============================================================================
