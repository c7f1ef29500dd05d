---------------------------- MODULE ChainIndexer ----------------------------
(***************************************************************************)
(* run_chain_indexing_loop (chain_indexed.rs) for one chain, over the       *)
(* tables it writes (store.rs).  Each cycle reads the head, resumes after   *)
(* the recorded progress or rewinds when the archive provider disagrees     *)
(* with it, fetches the header and the logs of the next batch and commits   *)
(* them with the progress in one transaction.  A rewind takes the           *)
(* canonicality gate for writing.                                           *)
(*                                                                         *)
(* The logs of a block are abstracted to its hash: `rows' holds, for every  *)
(* height, the hashes of the blocks whose logs are stored.  The four        *)
(* dataset kinds share one progress because every commit writes all four.   *)
(***************************************************************************)
EXTENDS RemoteChain

CONSTANTS
    SafeConfirmations,   \* chain_indexed.safe_confirmations
    MaxBlocksPerBatch,   \* chain_indexed.max_blocks_per_batch
    TailSafetyBlockSpan, \* chain_indexed.tail_safety_block_span
    MinIndexingBatch,    \* MIN_INDEXING_BATCH_BLOCKS
    ProviderRange,       \* the longest block range a provider serves logs for
    FaultKinds,          \* the kinds of fault an instance admits
    MaxFaults            \* bound: the number of faults in one behaviour

ASSUME SpanAssumption ==
    /\ SafeConfirmations \in Nat
    /\ MaxBlocksPerBatch \in Nat \ {0}
    /\ TailSafetyBlockSpan \in Nat \ {0}
    /\ MinIndexingBatch \in Nat \ {0}
    /\ ProviderRange \in Nat \ {0}
\* A failed call, a commit of the indexing loop or of the publication task that
\* took effect and reported an error, a failed IPNS request, a killed process.
ASSUME FaultAssumption ==
    /\ FaultKinds \subseteq {"call", "index_commit", "audit_commit", "ipns", "crash"}
    /\ MaxFaults \in Nat

VARIABLES
    progress,  \* chain_indexing_progress: [block, hash], block 0 when there is no row
    headers,   \* indexed_block_headers
    rows,      \* the indexed rows, by height
    ipc,       \* where the indexing task is
    caught_up, \* historical_catch_up_complete, as "historical" or "tail"
    span,      \* batch_span
    max_span,  \* max_batch_span
    job,       \* the locals of index_chain_once
    faults     \* faults so far

storeVars == <<progress, headers, rows>>
loopVars == <<caught_up, span, max_span>>
indexerVars == <<storeVars, ipc, loopVars, job>>

Absent == -1

Progress == [block : 0..MaxHeight, hash : Branch \cup {Absent}]

NoProgress == [block |-> 0, hash |-> Absent]

Job == [safe_head : 0..MaxHeight, from : 1..MaxHeight + 1, to : 0..MaxHeight,
        source : Provider, header : Branch, logs : SUBSET Branch]

NoJob == [safe_head |-> 0, from |-> 1, to |-> 0, source |-> "archive", header |-> 0, logs |-> {}]

\* The indexing task waits for, or holds, the canonicality gate for writing.
Rewinding == {"recheck", "rewind"}

IndexerTypeOK ==
    /\ progress \in Progress
    /\ headers \in [Block -> Branch \cup {Absent}]
    /\ rows \in [Block -> SUBSET Branch]
    /\ ipc \in {"idle", "resume", "lease", "header", "logs", "persist"} \cup Rewinding
    /\ caught_up \in {"historical", "tail"}
    /\ span \in 1..MaxBlocksPerBatch
    /\ max_span \in 1..MaxBlocksPerBatch
    /\ job \in Job
    /\ faults \in 0..MaxFaults

StartLoop ==
    /\ ipc = "idle"
    /\ caught_up = "historical"
    /\ span = MaxBlocksPerBatch
    /\ max_span = MaxBlocksPerBatch
    /\ job = NoJob

IndexerInit ==
    /\ progress = NoProgress
    /\ headers = [b \in Block |-> Absent]
    /\ rows = [b \in Block |-> {}]
    /\ StartLoop
    /\ faults = 0

Lesser(x, y) == IF x <= y THEN x ELSE y
Larger(x, y) == IF x >= y THEN x ELSE y

\* saturating_sub
Monus(x, y) == Larger(x - y, 0)

Fault(kind) ==
    /\ kind \in FaultKinds
    /\ faults < MaxFaults
    /\ faults' = faults + 1

-----------------------------------------------------------------------------
(* What the loop makes of the outcome of a cycle. *)

min_batch_span == Lesser(MaxBlocksPerBatch, MinIndexingBatch)

\* Mutant: a failed cycle keeps its span.
keep_span(too_large) ==
    /\ UNCHANGED loopVars
    /\ ipc' = "idle"
    /\ job' = NoJob

\* Err: `too_large' is is_block_range_too_large.
CycleFails(too_large) ==
    LET next == Larger(span \div 2, min_batch_span)
    IN  /\ max_span' = IF caught_up = "historical" /\ too_large
                       THEN Lesser(max_span, next) ELSE max_span
        /\ span' = IF caught_up = "historical" THEN Lesser(next, max_span') ELSE span
        /\ UNCHANGED caught_up
        /\ ipc' = "idle"
        /\ job' = NoJob

\* Ok(Indexed): an empty fetch doubles the span; no lag ends the catch-up.
CycleIndexed(empty) ==
    /\ IF job.to = job.safe_head
       THEN /\ caught_up' = "tail"
            /\ span' = max_span
       ELSE /\ UNCHANGED caught_up
            /\ span' = IF caught_up = "historical" /\ empty
                       THEN Lesser(span * 2, max_span) ELSE span
    /\ UNCHANGED max_span
    /\ ipc' = "idle"
    /\ job' = NoJob

CycleCaughtUp ==
    /\ caught_up' = "tail"
    /\ span' = max_span
    /\ UNCHANGED max_span
    /\ ipc' = "idle"
    /\ job' = NoJob

\* A failed tail scan of the normal provider is retried with the archive provider.
RangeFails(too_large) ==
    IF job.source = "rpc"
    THEN /\ ipc' = "header"
         /\ job' = [job EXCEPT !.source = "archive", !.logs = {}]
         /\ UNCHANGED loopVars
    ELSE CycleFails(too_large)

-----------------------------------------------------------------------------
(* index_chain_once and resume_block_after_reorg. *)

\* Mutant: the head itself is taken for safe.
unconfirmed_head ==
    /\ ipc = "idle"
    /\ ipc' = "resume"
    /\ job' = [NoJob EXCEPT !.safe_head = get_block_number("rpc")]
    /\ UNCHANGED <<storeVars, loopVars, faults>>

ReadHead ==
    /\ ipc = "idle"
    /\ ipc' = "resume"
    /\ job' = [NoJob EXCEPT !.safe_head = Monus(get_block_number("rpc"), SafeConfirmations)]
    /\ UNCHANGED <<storeVars, loopVars, faults>>

\* The range to index is from `b' on; the provider depends on the mode.
ResumeAt(b) ==
    IF b > job.safe_head
    THEN CycleCaughtUp
    ELSE /\ ipc' = "header"
         /\ job' = [job EXCEPT
               !.from = b,
               !.to = Lesser(b + (IF caught_up = "tail" THEN TailSafetyBlockSpan ELSE span) - 1,
                             job.safe_head),
               !.source = IF caught_up = "tail" THEN "rpc" ELSE "archive"]
         /\ UNCHANGED loopVars

progress_is_canonical == block_hash("archive", progress.block) = progress.hash

ResumeFresh ==
    /\ ipc = "resume"
    /\ progress.block = 0
    /\ ResumeAt(1)
    /\ UNCHANGED <<storeVars, faults>>

Resume ==
    /\ ipc = "resume"
    /\ progress.block > 0
    /\ has_block("archive", progress.block)
    /\ IF progress_is_canonical
       THEN ResumeAt(progress.block + 1)
       ELSE /\ ipc' = "lease"
            /\ UNCHANGED <<loopVars, job>>
    /\ UNCHANGED <<storeVars, faults>>

\* "block ... is unavailable from RPC provider", before or under the lease.
ResumeUnavailable ==
    /\ ipc \in {"resume", "recheck"}
    /\ progress.block > 0
    /\ ~has_block("archive", progress.block)
    /\ CycleFails(FALSE)
    /\ UNCHANGED <<storeVars, faults>>

\* Mutant: the rewind does not wait for publications.
rewind_without_lease(leased) ==
    /\ ipc = "lease"
    /\ ipc' = "recheck"
    /\ UNCHANGED <<storeVars, loopVars, job, faults>>

\* reorg_lease: `leased' says whether a publication lease is out.
TakeReorgLease(leased) ==
    /\ ipc = "lease"
    /\ ~leased
    /\ ipc' = "recheck"
    /\ UNCHANGED <<storeVars, loopVars, job, faults>>

Recheck ==
    /\ ipc = "recheck"
    /\ has_block("archive", progress.block)
    /\ IF progress_is_canonical
       THEN ResumeAt(progress.block + 1)
       ELSE /\ ipc' = "rewind"
            /\ UNCHANGED <<loopVars, job>>
    /\ UNCHANGED <<storeVars, faults>>

replay_from_block == Larger(Monus(progress.block, MaxBlocksPerBatch - 1), 1)

\* Mutant: the progress is put on the replay block, not on the one below it.
rewind_off_by_one(replay) ==
    /\ rows' = [b \in Block |-> IF b >= replay THEN {} ELSE rows[b]]
    /\ headers' = [b \in Block |->
          IF b > replay THEN Absent
          ELSE IF b = replay THEN block_hash("archive", b)
          ELSE headers[b]]
    /\ progress' = [block |-> replay, hash |-> block_hash("archive", replay)]

\* Mutant: the headers of the rewound blocks stay.
rewind_keeps_headers(replay) ==
    /\ rows' = [b \in Block |-> IF b >= replay THEN {} ELSE rows[b]]
    /\ headers' = [b \in Block |-> IF b = replay - 1 THEN block_hash("archive", b) ELSE headers[b]]
    /\ progress' = IF replay > 1
                   THEN [block |-> replay - 1, hash |-> block_hash("archive", replay - 1)]
                   ELSE NoProgress

rewind_chain_indexing_to_replay_block(replay) ==
    /\ rows' = [b \in Block |-> IF b >= replay THEN {} ELSE rows[b]]
    /\ headers' = [b \in Block |->
          IF b >= replay THEN Absent
          ELSE IF b = replay - 1 THEN block_hash("archive", b)
          ELSE headers[b]]
    /\ progress' = IF replay > 1
                   THEN [block |-> replay - 1, hash |-> block_hash("archive", replay - 1)]
                   ELSE NoProgress

\* The header below the replay block is fetched and recorded, not compared.
Rewind ==
    /\ ipc = "rewind"
    /\ rewind_chain_indexing_to_replay_block(replay_from_block)
    /\ ipc' = "resume"
    /\ UNCHANGED <<loopVars, job, faults>>

\* The rewind commits and reports an error.
RewindError ==
    /\ ipc = "rewind"
    /\ Fault("index_commit")
    /\ rewind_chain_indexing_to_replay_block(replay_from_block)
    /\ CycleFails(FALSE)

-----------------------------------------------------------------------------
(* index_chain_range_with_provider. *)

FetchHeader ==
    /\ ipc = "header"
    /\ has_block(job.source, job.to)
    /\ ipc' = "logs"
    /\ job' = [job EXCEPT !.header = block_hash(job.source, job.to)]
    /\ UNCHANGED <<storeVars, loopVars, faults>>

HeaderUnavailable ==
    /\ ipc = "header"
    /\ ~has_block(job.source, job.to)
    /\ RangeFails(FALSE)
    /\ UNCHANGED <<storeVars, faults>>

serves_range == job.to - job.from + 1 <= ProviderRange

\* One get_logs call for each filter; the chain may change in between.
FetchLogs ==
    /\ ipc = "logs"
    /\ serves_range
    /\ ipc' \in {"logs", "persist"}
    /\ job' = [job EXCEPT !.logs = @ \cup {view[job.source].branch}]
    /\ UNCHANGED <<storeVars, loopVars, faults>>

RangeTooLarge ==
    /\ ipc = "logs"
    /\ ~serves_range
    /\ RangeFails(TRUE)
    /\ UNCHANGED <<storeVars, faults>>

\* Rows are upserted by tree position, nullifier or transaction: a row of an
\* orphaned block stays unless the new block has one with the same key.
persist_indexed_log_batch ==
    rows' = [b \in Block |->
        IF b \in job.from..job.to THEN rows[b] \cup {Hash(b, k) : k \in job.logs} ELSE rows[b]]

record_indexed_block_header == headers' = [headers EXCEPT ![job.to] = job.header]

\* The progress never moves back.
record_chain_indexing_progress ==
    progress' = IF progress.block <= job.to
                THEN [block |-> job.to, hash |-> job.header]
                ELSE progress

index_chain_log_range ==
    /\ persist_indexed_log_batch
    /\ record_indexed_block_header
    /\ record_chain_indexing_progress

Persist(empty) ==
    /\ ipc = "persist"
    /\ index_chain_log_range
    /\ CycleIndexed(empty)
    /\ UNCHANGED faults

\* The commit takes effect and reports an error.
PersistError ==
    /\ ipc = "persist"
    /\ Fault("index_commit")
    /\ index_chain_log_range
    /\ RangeFails(FALSE)

\* A provider or database call fails.
CallFails ==
    /\ ipc \notin {"idle", "lease"}
    /\ Fault("call")
    /\ IF ipc \in {"header", "logs", "persist"} THEN RangeFails(FALSE) ELSE CycleFails(FALSE)
    /\ UNCHANGED storeVars

-----------------------------------------------------------------------------
IndexerNext(leased) ==
    \/ ReadHead
    \/ ResumeFresh \/ Resume \/ ResumeUnavailable
    \/ TakeReorgLease(leased) \/ Recheck \/ Rewind \/ RewindError
    \/ FetchHeader \/ HeaderUnavailable
    \/ FetchLogs \/ RangeTooLarge
    \/ \E empty \in BOOLEAN : Persist(empty)
    \/ PersistError
    \/ CallFails

=============================================================================
