------------------------- MODULE ChainIndexerProofs -------------------------
(***************************************************************************)
(* What the two tasks of one chain keep true.  The indexing loop: of its     *)
(* tables, whatever the publication task does beside it.  The publication    *)
(* task: of its manifests, and the canonicality gate of the index beneath    *)
(* them.  For every chain, every batch size, any number of manifests and any *)
(* number of faults.                                                         *)
(***************************************************************************)
EXTENDS ChainPublisher, TLAPS

(* The indexing loop.  A batch is the next one after the recorded progress,  *)
(* or, after a commit that reported an error, one the progress already       *)
(* covers; a rewind has a progress to go back from.                          *)

Scanning == {"header", "logs", "persist"}

StoreInv ==
    /\ progress \in Progress
    /\ headers \in [Block -> Branch \cup {Absent}]
    /\ rows \in [Block -> SUBSET Branch]
    /\ progress.block > 0 => progress.hash \in Branch
    /\ IndexedWithoutGaps
    /\ ProgressHasHeader

IndexInv ==
    /\ ChainTypeOK
    /\ IndexerTypeOK
    /\ StoreInv
    /\ ipc \in Rewinding \cup {"lease"} => progress.block > 0
    /\ ipc \in Scanning => /\ job.from <= progress.block + 1
                           /\ job.from <= job.to
                           /\ progress.block <= job.to
    /\ ipc = "persist" => job.logs # {}

\* The first block of the index is still to come.
LEMMA InitIndex == Init => IndexInv
<1> USE MaxHeightAssumption, MaxBranchAssumption, SpanAssumption, FaultAssumption, ReorgAssumption
<1> QED
  BY DEF Init, ChainInit, IndexerInit, StartLoop, NoProgress, NoJob, Job, Progress, Rewinding,
     Scanning, IndexInv, StoreInv, ChainTypeOK, IndexerTypeOK, IndexedWithoutGaps, ProgressHasHeader,
     Tip, Provider, Branch, Block, Absent

\* The chain moves without the index.
LEMMA EnvironmentIndex ==
    ASSUME IndexInv, Environment
    PROVE  IndexInv'
<1> USE MaxHeightAssumption, MaxBranchAssumption, ReorgAssumption
<1> USE DEF IndexInv, ChainTypeOK, Tip, MoveTip
<1>1. UNCHANGED <<indexerVars, faults>>
  BY DEF Environment
<1>2. ChainTypeOK'
  <2>1. CASE Grow
    BY <2>1 DEF Grow, Block
  <2>2. CASE \E k \in Branch : Reorganise(k)
    BY <2>2 DEF Reorganise
  <2>3. CASE \E p \in Provider : CatchUp(p)
    BY <2>3 DEF CatchUp
  <2> QED
    BY <2>1, <2>2, <2>3 DEF Environment, ChainNext
<1> HIDE DEF ChainTypeOK
<1> QED
  BY <1>1, <1>2 DEF indexerVars, storeVars, loopVars, IndexerTypeOK, StoreInv,
     IndexedWithoutGaps, ProgressHasHeader

\* The loop is between two cycles, with spans that stay between one block and the
\* configured batch.
CycleEnds ==
    /\ ipc' = "idle"
    /\ job' = NoJob
    /\ caught_up' \in {"historical", "tail"}
    /\ span' \in 1..MaxBlocksPerBatch
    /\ max_span' \in 1..MaxBlocksPerBatch

\* Every outcome of a cycle leaves the loop that way.
LEMMA Outcomes ==
    ASSUME IndexInv
    PROVE  /\ \A t \in BOOLEAN : CycleFails(t) => CycleEnds
           /\ \A e \in BOOLEAN : CycleIndexed(e) => CycleEnds
           /\ CycleCaughtUp => CycleEnds
<1> USE SpanAssumption
<1> USE DEF IndexInv, IndexerTypeOK, CycleEnds
<1>1. ASSUME NEW t \in BOOLEAN, CycleFails(t) PROVE CycleEnds
  <2> DEFINE next == Larger(span \div 2, min_batch_span)
  <2>1. span \div 2 \in 0..MaxBlocksPerBatch
    OBVIOUS
  <2>2. next \in 1..MaxBlocksPerBatch
    BY <2>1 DEF Larger, Lesser, min_batch_span
  <2> HIDE DEF next
  <2>3. /\ max_span' \in {max_span, Lesser(max_span, next)}
        /\ span' \in {span, Lesser(next, max_span')}
        /\ caught_up' = caught_up /\ ipc' = "idle" /\ job' = NoJob
    BY <1>1 DEF CycleFails, next
  <2> QED
    BY <2>2, <2>3 DEF Lesser
<1>2. ASSUME NEW e \in BOOLEAN, CycleIndexed(e) PROVE CycleEnds
  BY <1>2 DEF CycleIndexed, Lesser
<1>3. ASSUME CycleCaughtUp PROVE CycleEnds
  BY <1>3 DEF CycleCaughtUp
<1> QED
  BY <1>1, <1>2, <1>3

\* A step that ends the cycle keeps IndexInv when it keeps the tables in order.
LEMMA EndIndex ==
    ASSUME IndexInv, CycleEnds, UNCHANGED chainVars, StoreInv', faults' \in 0..MaxFaults
    PROVE  IndexInv'
<1> USE MaxHeightAssumption, MaxBranchAssumption
<1>1. NoJob \in Job
  BY DEF NoJob, Job, Provider, Branch
<1> QED
  BY <1>1 DEF IndexInv, ChainTypeOK, IndexerTypeOK, CycleEnds, StoreInv, chainVars, Rewinding,
     Scanning

\* The tables are as they were.
LEMMA SameStore ==
    ASSUME IndexInv, UNCHANGED storeVars
    PROVE  StoreInv'
BY DEF IndexInv, StoreInv, storeVars, IndexedWithoutGaps, ProgressHasHeader

\* A fault is counted within its bound.
LEMMA FaultCounted ==
    ASSUME IndexInv, NEW kind, Fault(kind)
    PROVE  faults' \in 0..MaxFaults
BY FaultAssumption DEF IndexInv, IndexerTypeOK, Fault

\* The range after the progress is scanned next, unless there is none.
LEMMA ResumeIndex ==
    ASSUME IndexInv, ResumeAt(progress.block + 1), UNCHANGED <<storeVars, chainVars, faults>>
    PROVE  IndexInv'
<1> USE MaxHeightAssumption, SpanAssumption
<1>1. StoreInv' /\ faults' \in 0..MaxFaults
  BY SameStore DEF IndexInv, IndexerTypeOK
<1>2. CASE CycleCaughtUp
  BY <1>1, <1>2, Outcomes, EndIndex
<1>3. CASE ~(progress.block + 1 > job.safe_head)
  <2> DEFINE b == progress.block + 1
             width == IF caught_up = "tail" THEN TailSafetyBlockSpan ELSE span
             last == Lesser(b + width - 1, job.safe_head)
  <2>1. /\ progress.block \in 0..MaxHeight
        /\ job \in Job /\ job.safe_head \in 0..MaxHeight
        /\ width \in Nat \ {0}
    BY DEF IndexInv, IndexerTypeOK, Progress, Job
  <2>2. b \in 1..MaxHeight /\ last \in b..MaxHeight
    BY <1>3, <2>1 DEF Lesser
  <2>3. PICK provider \in Provider :
          job' = [job EXCEPT !.from = b, !.to = last, !.source = provider]
    BY Zenon, <1>3 DEF ResumeAt, Provider
  <2>4. ipc' = "header" /\ UNCHANGED <<loopVars, storeVars, chainVars>>
    BY <1>3 DEF ResumeAt
  <2> HIDE DEF b, last, width
  <2>5. job' \in Job /\ job'.from = b /\ job'.to = last
    <3>1. b \in 1..MaxHeight + 1 /\ last \in 0..MaxHeight
      BY <2>2
    <3> QED
      BY Zenon, <2>1, <2>3, <3>1 DEF Job
  <2>6. b = progress.block + 1
    BY DEF b
  <2>7. IndexerTypeOK'
    BY <1>1, <2>4, <2>5 DEF IndexInv, IndexerTypeOK, StoreInv, loopVars
  <2> QED
    BY <1>1, <2>1, <2>2, <2>4, <2>5, <2>6, <2>7
    DEF IndexInv, ChainTypeOK, Rewinding, Scanning, storeVars, chainVars
<1> QED
  BY <1>2, <1>3 DEF ResumeAt

\* A scan that fails goes back to the archive provider with the same range, or ends.
LEMMA RangeFailsIndex ==
    ASSUME IndexInv, ipc \in Scanning, NEW t \in BOOLEAN, RangeFails(t), UNCHANGED chainVars,
           StoreInv', faults' \in 0..MaxFaults,
           progress'.block = progress.block \/ progress'.block = job.to
    PROVE  IndexInv'
<1>1. CASE CycleFails(t)
  BY <1>1, Outcomes, EndIndex
<1>2. CASE job.source = "rpc"
  <2>1. /\ ipc' = "header" /\ UNCHANGED loopVars
        /\ job' = [job EXCEPT !.source = "archive", !.logs = {}]
    BY <1>2 DEF RangeFails
  <2>2. job \in Job /\ progress.block \in 0..MaxHeight
    BY DEF IndexInv, IndexerTypeOK, Progress
  <2>3. job' \in Job /\ job'.from = job.from /\ job'.to = job.to
    BY Zenon, <2>1, <2>2 DEF Job, Provider
  <2>4. job.from \in Int /\ job.to \in Int
    BY <2>2, MaxHeightAssumption DEF Job
  <2>5. IndexerTypeOK'
    BY <2>1, <2>3 DEF IndexInv, IndexerTypeOK, StoreInv, loopVars
  <2> QED
    BY <2>1, <2>2, <2>3, <2>4, <2>5 DEF IndexInv, ChainTypeOK, Rewinding, Scanning, chainVars
<1> QED
  BY <1>1, <1>2 DEF RangeFails

\* A batch of logs, its header and the progress are committed together.
LEMMA CommitStore ==
    ASSUME IndexInv, ipc = "persist", index_chain_log_range
    PROVE  StoreInv' /\ progress'.block = job.to
<1> USE MaxHeightAssumption, MaxBranchAssumption
<1> USE DEF IndexInv, IndexerTypeOK, StoreInv, index_chain_log_range
<1>1. /\ job \in Job /\ job.to \in 0..MaxHeight /\ job.from \in 1..MaxHeight + 1
      /\ job.header \in Branch /\ job.logs \subseteq Branch /\ job.logs # {}
      /\ progress \in Progress /\ progress.block \in 0..MaxHeight
      /\ job.from <= progress.block + 1 /\ job.from <= job.to /\ progress.block <= job.to
  BY DEF Job, Progress, Scanning
<1>2. progress' = [block |-> job.to, hash |-> job.header]
  BY <1>1 DEF record_chain_indexing_progress
<1>3. progress' \in Progress /\ progress'.block = job.to /\ progress'.hash = job.header
  BY <1>1, <1>2 DEF Progress
<1>4. job.to \in Block
  BY <1>1 DEF Block
<1>5. headers' \in [Block -> Branch \cup {Absent}] /\ ProgressHasHeader'
  BY SMTT(60), <1>1, <1>3, <1>4 DEF record_indexed_block_header, ProgressHasHeader, Block
<1>6. \A b \in Block, k \in Branch : Hash(b, k) \in Branch
  BY DEF Hash, Branch
<1>7. rows' \in [Block -> SUBSET Branch]
  BY <1>1, <1>6 DEF persist_indexed_log_batch
<1>8. \A b \in Block : {Hash(b, k) : k \in job.logs} # {}
  BY <1>1
<1>9. IndexedWithoutGaps'
  <2> SUFFICES ASSUME NEW b \in Block PROVE (rows'[b] # {}) <=> (b <= job.to)
    BY <1>3 DEF IndexedWithoutGaps
  <2>1. b \in Int /\ ((rows[b] # {}) <=> (b <= progress.block))
    BY DEF IndexedWithoutGaps, Block
  <2>2. CASE b \in job.from..job.to
    BY <1>8, <2>2 DEF persist_indexed_log_batch
  <2>3. CASE b \notin job.from..job.to
    <3>1. rows'[b] = rows[b]
      BY <2>3 DEF persist_indexed_log_batch
    <3> QED
      BY <1>1, <2>1, <2>3, <3>1
  <2> QED
    BY <2>2, <2>3
<1> QED
  BY <1>1, <1>3, <1>5, <1>7, <1>9

\* A rewind cuts rows, headers and progress at the same block.
LEMMA RewindStore ==
    ASSUME IndexInv, ipc = "rewind", rewind_chain_indexing_to_replay_block(replay_from_block)
    PROVE  StoreInv'
<1> USE MaxHeightAssumption, MaxBranchAssumption, SpanAssumption
<1> DEFINE replay == replay_from_block
<1>1. progress \in Progress /\ progress.block \in 1..MaxHeight
  BY DEF IndexInv, IndexerTypeOK, Progress, Rewinding
<1>2. replay \in 1..progress.block
  BY <1>1 DEF replay_from_block, Larger, Monus
<1>3. \A b \in Int : block_hash("archive", b) \in Branch
  BY DEF IndexInv, ChainTypeOK, Tip, Provider, block_hash, Hash, Branch
<1> HIDE DEF replay
<1>4. /\ rows' = [b \in Block |-> IF b >= replay THEN {} ELSE rows[b]]
      /\ headers' = [b \in Block |->
            IF b >= replay THEN Absent
            ELSE IF b = replay - 1 THEN block_hash("archive", b) ELSE headers[b]]
      /\ progress' = IF replay > 1
                     THEN [block |-> replay - 1, hash |-> block_hash("archive", replay - 1)]
                     ELSE NoProgress
  BY DEF rewind_chain_indexing_to_replay_block, replay
<1>5. /\ progress' \in Progress /\ progress'.block = replay - 1
      /\ replay > 1 => progress'.hash = block_hash("archive", replay - 1)
  BY <1>1, <1>2, <1>3, <1>4 DEF Progress, NoProgress
<1>6. rows' \in [Block -> SUBSET Branch] /\ headers' \in [Block -> Branch \cup {Absent}]
  BY <1>2, <1>3, <1>4 DEF IndexInv, StoreInv, Block
<1>7. IndexedWithoutGaps'
  <2> SUFFICES ASSUME NEW b \in Block PROVE (rows'[b] # {}) <=> (b <= replay - 1)
    BY <1>5 DEF IndexedWithoutGaps
  <2>1. b \in Int /\ ((rows[b] # {}) <=> (b <= progress.block))
    BY DEF IndexInv, StoreInv, IndexedWithoutGaps, Block
  <2>2. rows'[b] = IF b >= replay THEN {} ELSE rows[b]
    BY <1>4
  <2> QED
    BY <1>1, <1>2, <2>1, <2>2
<1>8. ProgressHasHeader'
  BY <1>1, <1>2, <1>4, <1>5 DEF ProgressHasHeader, Block
<1> QED
  BY <1>2, <1>3, <1>5, <1>6, <1>7, <1>8 DEF StoreInv

\* Every step of the indexing loop keeps IndexInv.
LEMMA IndexerIndex ==
    ASSUME IndexInv, NEW leased \in BOOLEAN, IndexerNext(leased), UNCHANGED chainVars
    PROVE  IndexInv'
<1> USE MaxHeightAssumption
<1>1. faults \in 0..MaxFaults /\ job \in Job /\ progress.block \in 0..MaxHeight
  BY DEF IndexInv, IndexerTypeOK, Progress
<1>2. CASE ReadHead
  <2>1. Monus(get_block_number("rpc"), SafeConfirmations) \in 0..MaxHeight
    BY SpanAssumption
    DEF IndexInv, ChainTypeOK, Tip, Block, Provider, get_block_number, Monus, Larger
  <2>2. NoJob \in Job
    BY MaxBranchAssumption DEF NoJob, Job, Provider, Branch
  <2>3. job' \in Job
    BY <1>2, <2>1, <2>2 DEF ReadHead, Job
  <2>4. StoreInv'
    BY <1>2, SameStore DEF ReadHead
  <2>5. ipc' = "resume" /\ UNCHANGED <<storeVars, loopVars, faults>>
    BY <1>2 DEF ReadHead
  <2> QED
    BY <2>3, <2>4, <2>5
    DEF IndexInv, IndexerTypeOK, ChainTypeOK, chainVars, storeVars, loopVars, Rewinding, Scanning
<1>3. CASE ResumeFresh
  BY <1>1, <1>3, ResumeIndex DEF ResumeFresh
<1>4. ASSUME Resume \/ Recheck PROVE IndexInv'
  <2>1. CASE progress_is_canonical
    BY <1>4, <2>1, ResumeIndex DEF Resume, Recheck
  <2>2. CASE ~progress_is_canonical
    <3>1. /\ ipc' \in {"lease", "rewind"} /\ progress.block > 0
          /\ UNCHANGED <<storeVars, loopVars, job, faults>>
      BY <1>4, <2>2 DEF Resume, Recheck, IndexInv, Rewinding
    <3>2. StoreInv'
      BY <3>1, SameStore
    <3> QED
      BY <3>1, <3>2
      DEF IndexInv, IndexerTypeOK, ChainTypeOK, chainVars, storeVars, loopVars, Rewinding, Scanning
  <2> QED
    BY <2>1, <2>2
<1>5. CASE ResumeUnavailable
  BY Zenon, <1>1, <1>5, SameStore, Outcomes, EndIndex DEF ResumeUnavailable
<1>6. CASE TakeReorgLease(leased)
  <2>1. StoreInv'
    BY <1>6, SameStore DEF TakeReorgLease
  <2> QED
    BY <1>6, <2>1
    DEF TakeReorgLease, IndexInv, IndexerTypeOK, ChainTypeOK, chainVars, storeVars, loopVars,
        Rewinding, Scanning
<1>7. CASE Rewind
  <2>1. StoreInv'
    BY <1>7, RewindStore DEF Rewind
  <2>2. ipc' = "resume" /\ UNCHANGED <<loopVars, job, faults>>
    BY <1>7 DEF Rewind
  <2> QED
    BY <2>1, <2>2
    DEF IndexInv, StoreInv, IndexerTypeOK, ChainTypeOK, chainVars, loopVars, Rewinding, Scanning
<1>8. CASE RewindError
  BY Zenon, <1>8, RewindStore, FaultCounted, Outcomes, EndIndex DEF RewindError
<1>9. CASE FetchHeader
  <2>1. block_hash(job.source, job.to) \in Branch
    BY <1>1, MaxBranchAssumption DEF IndexInv, ChainTypeOK, Tip, Job, block_hash, Hash, Branch
  <2>2. /\ ipc = "header" /\ ipc' = "logs" /\ UNCHANGED <<storeVars, loopVars, faults>>
        /\ job' = [job EXCEPT !.header = block_hash(job.source, job.to)]
    BY <1>9 DEF FetchHeader
  <2>3. job' \in Job /\ job'.from = job.from /\ job'.to = job.to
    BY <1>1, <2>1, <2>2 DEF Job
  <2>4. StoreInv'
    BY <2>2, SameStore
  <2> QED
    BY <2>2, <2>3, <2>4
    DEF IndexInv, IndexerTypeOK, ChainTypeOK, chainVars, storeVars, loopVars, Rewinding, Scanning
<1>10. CASE HeaderUnavailable
  BY Zenon, <1>1, <1>10, SameStore, RangeFailsIndex DEF HeaderUnavailable, Scanning, storeVars
<1>11. CASE FetchLogs
  <2>1. view[job.source].branch \in Branch
    BY <1>1 DEF IndexInv, ChainTypeOK, Tip, Job
  <2>2. /\ ipc = "logs" /\ ipc' \in {"logs", "persist"} /\ UNCHANGED <<storeVars, loopVars, faults>>
        /\ job' = [job EXCEPT !.logs = @ \cup {view[job.source].branch}]
    BY <1>11 DEF FetchLogs
  <2>3. job' \in Job /\ job'.from = job.from /\ job'.to = job.to /\ job'.logs # {}
    BY <1>1, <2>1, <2>2 DEF Job
  <2>4. StoreInv'
    BY <2>2, SameStore
  <2> QED
    BY <2>2, <2>3, <2>4
    DEF IndexInv, IndexerTypeOK, ChainTypeOK, chainVars, storeVars, loopVars, Rewinding, Scanning
<1>12. CASE RangeTooLarge
  BY Zenon, <1>1, <1>12, SameStore, RangeFailsIndex DEF RangeTooLarge, Scanning, storeVars
<1>13. CASE \E empty \in BOOLEAN : Persist(empty)
  BY <1>1, <1>13, CommitStore, Outcomes, EndIndex DEF Persist
<1>14. CASE PersistError
  BY Zenon, <1>14, CommitStore, FaultCounted, RangeFailsIndex DEF PersistError, Scanning
<1>15. CASE CallFails
  <2>1. StoreInv' /\ faults' \in 0..MaxFaults /\ progress'.block = progress.block
    BY <1>15, SameStore, FaultCounted DEF CallFails, storeVars
  <2>2. CASE ipc \in Scanning
    BY Zenon, <1>15, <2>1, <2>2, RangeFailsIndex DEF CallFails, Scanning
  <2>3. CASE ipc \notin Scanning
    BY Zenon, <1>15, <2>1, <2>3, Outcomes, EndIndex DEF CallFails, Scanning
  <2> QED
    BY <2>2, <2>3
<1> QED
  BY <1>2, <1>3, <1>4, <1>5, <1>6, <1>7, <1>8, <1>9, <1>10, <1>11, <1>12, <1>13, <1>14, <1>15
  DEF IndexerNext

\* A restart loses the loop's memory and none of the tables.
LEMMA CrashIndex ==
    ASSUME IndexInv, Crash
    PROVE  IndexInv'
<1>1. CycleEnds /\ UNCHANGED <<chainVars, storeVars>>
  BY SpanAssumption DEF Crash, CycleEnds
<1>2. faults' \in 0..MaxFaults
  BY FaultCounted DEF Crash
<1> QED
  BY <1>1, <1>2, SameStore, EndIndex

-----------------------------------------------------------------------------
(* The confirmations.  Where reorganisations stay within safe_confirmations   *)
(* and the providers keep up, nothing the loop has read, holds or has stored  *)
(* lies above the safe head, and no reorganisation reaches below it.          *)

Quiet == network.depth <= SafeConfirmations /\ network.lagging = {}

SafeHead == Monus(tip.height, SafeConfirmations)

CanonInv ==
    /\ ipc \notin {"logs", "persist"} => job.logs = {}
    /\ Quiet =>
          /\ \A p \in Provider : view[p] = tip
          /\ progress.block <= SafeHead
          /\ job.safe_head <= SafeHead
          /\ job.to <= SafeHead
          /\ \A k \in job.logs : \A b \in 1..job.to : Hash(b, k) = Hash(b, tip.branch)
          /\ \A b \in Block : rows[b] \subseteq {Hash(b, tip.branch)}

\* The first head is read from providers that keep up.
LEMMA InitCanon == Init => CanonInv
BY SpanAssumption
DEF Init, ChainInit, IndexerInit, StartLoop, NoProgress, NoJob, CanonInv, SafeHead,
   Monus, Larger, Provider

\* The safe head never goes back, and a shallow reorganisation keeps every block below it.
LEMMA SafeHeadStands ==
    ASSUME IndexInv, CanonInv, Quiet, ChainNext
    PROVE  /\ \A p \in Provider : view'[p] = tip'
           /\ SafeHead \in Nat /\ SafeHead' \in Nat /\ SafeHead <= SafeHead'
           /\ \A b \in 1..SafeHead : Hash(b, tip'.branch) = Hash(b, tip.branch)
<1> USE SpanAssumption, MaxHeightAssumption
<1>1. /\ tip \in Tip /\ tip.height \in Nat /\ tip.branch \in Branch
      /\ network.lagging = {} /\ network.depth \in Nat /\ network.depth <= SafeConfirmations
  BY NetworksAssumption DEF IndexInv, ChainTypeOK, Tip, Block, Quiet
<1>2. SafeHead \in Nat /\ \A b \in 1..SafeHead : b <= tip.height - SafeConfirmations
  BY <1>1 DEF SafeHead, Monus, Larger
<1>3. CASE Grow
  <2>1. /\ tip'.height = tip.height + 1 /\ tip'.branch = tip.branch
        /\ \A p \in Provider : view'[p] = tip'
    BY <1>1, <1>3 DEF Grow, MoveTip, Tip
  <2> QED
    BY <1>1, <1>2, <2>1 DEF SafeHead, Monus, Larger
<1>4. CASE \E k \in Branch : Reorganise(k)
  <2>1. PICK k \in Branch : Reorganise(k)
    BY <1>4
  <2>2. /\ tip'.height = tip.height /\ tip'.branch = k
        /\ \A p \in Provider : view'[p] = tip'
    BY <1>1, <2>1 DEF Reorganise, MoveTip, Tip
  <2>3. \A b \in 1..tip.height :
           Hash(b, k) # Hash(b, tip.branch) => b > tip.height - network.depth
    BY <2>1 DEF Reorganise
  <2>4. \A b \in 1..SafeHead : Hash(b, k) = Hash(b, tip.branch)
    <3> SUFFICES ASSUME NEW b \in 1..SafeHead PROVE Hash(b, k) = Hash(b, tip.branch)
      OBVIOUS
    <3>1. b \in 1..tip.height /\ ~(b > tip.height - network.depth)
      BY <1>1, <1>2
    <3> QED
      BY <2>3, <3>1
  <2>5. SafeHead' = SafeHead
    BY <2>2 DEF SafeHead, Monus, Larger
  <2> QED
    BY <1>2, <2>2, <2>4, <2>5
<1>5. CASE \E p \in Provider : CatchUp(p)
  BY <1>5 DEF CatchUp, CanonInv
<1> QED
  BY <1>3, <1>4, <1>5 DEF ChainNext

\* The chain keeps CanonInv.
LEMMA EnvironmentCanon ==
    ASSUME IndexInv, CanonInv, Environment
    PROVE  CanonInv'
<1>1. UNCHANGED <<progress, rows, ipc, job, network>>
  BY Zenon DEF Environment, indexerVars, storeVars, ChainNext, Grow, Reorganise, CatchUp
<1>2. ASSUME Quiet
      PROVE  /\ \A p \in Provider : view'[p] = tip'
             /\ progress.block <= SafeHead' /\ job.safe_head <= SafeHead' /\ job.to <= SafeHead'
             /\ \A k \in job.logs : \A b \in 1..job.to : Hash(b, k) = Hash(b, tip'.branch)
             /\ \A b \in Block : rows[b] \subseteq {Hash(b, tip'.branch)}
  <2>1. /\ \A p \in Provider : view'[p] = tip'
        /\ SafeHead \in Nat /\ SafeHead' \in Nat /\ SafeHead <= SafeHead'
        /\ \A b \in 1..SafeHead : Hash(b, tip'.branch) = Hash(b, tip.branch)
    BY <1>2, SafeHeadStands DEF Environment
  <2>2. /\ progress.block <= SafeHead /\ job.safe_head <= SafeHead /\ job.to <= SafeHead
        /\ \A k \in job.logs : \A b \in 1..job.to : Hash(b, k) = Hash(b, tip.branch)
        /\ \A b \in Block : rows[b] \subseteq {Hash(b, tip.branch)}
    BY <1>2 DEF CanonInv
  <2>3. progress.block \in Int /\ job.safe_head \in Int /\ job.to \in Int
    BY MaxHeightAssumption DEF IndexInv, IndexerTypeOK, Progress, Job
  <2>4. \A b \in 1..job.to : b \in 1..SafeHead
    BY <2>1, <2>2, <2>3
  <2>5. \A b \in Block : rows[b] = {} \/ b \in 1..SafeHead
    BY <2>1, <2>2, <2>3, MaxHeightAssumption DEF IndexInv, StoreInv, IndexedWithoutGaps, Block
  <2>6. \A b \in Block : rows[b] \subseteq {Hash(b, tip'.branch)}
    BY <2>1, <2>2, <2>5
  <2>7. \A k \in job.logs : \A b \in 1..job.to : Hash(b, k) = Hash(b, tip'.branch)
    BY <2>1, <2>2, <2>4
  <2> QED
    BY <2>1, <2>2, <2>3, <2>6, <2>7
<1> QED
  BY <1>1, <1>2 DEF CanonInv, Quiet, Hash

\* Between two cycles the loop holds nothing.
LEMMA EndCanon ==
    ASSUME IndexInv, CanonInv, CycleEnds, UNCHANGED chainVars,
           Quiet => /\ progress'.block <= SafeHead
                    /\ \A b \in Block : rows'[b] \subseteq {Hash(b, tip.branch)}
    PROVE  CanonInv'
<1>1. job'.safe_head = 0 /\ job'.to = 0 /\ job'.logs = {} /\ ipc' = "idle"
  BY DEF CycleEnds, NoJob
<1>2. UNCHANGED <<view, tip, network>>
  BY DEF chainVars
<1>3. tip.height \in Nat
  BY MaxHeightAssumption DEF IndexInv, ChainTypeOK, Tip, Block
<1>4. SafeHead \in Nat /\ SafeHead' = SafeHead
  BY <1>2, <1>3, SpanAssumption DEF SafeHead, Monus, Larger
<1> QED
  BY <1>1, <1>2, <1>4 DEF CanonInv, Quiet, Hash

\* A step that only changes what the loop holds keeps CanonInv when it holds
\* nothing above the safe head.
LEMMA HeldCanon ==
    ASSUME IndexInv, CanonInv, UNCHANGED <<chainVars, storeVars>>,
           ipc' \notin {"logs", "persist"} => job'.logs = {},
           Quiet => /\ job'.safe_head <= SafeHead /\ job'.to <= SafeHead
                    /\ \A k \in job'.logs : \A b \in 1..job'.to : Hash(b, k) = Hash(b, tip.branch)
    PROVE  CanonInv'
BY DEF CanonInv, Quiet, Hash, SafeHead, chainVars, storeVars

\* A scan that fails goes back with the same range and no logs, or ends.
LEMMA RangeFailsCanon ==
    ASSUME IndexInv, CanonInv, NEW t \in BOOLEAN, RangeFails(t), UNCHANGED chainVars,
           Quiet => /\ progress'.block <= SafeHead
                    /\ \A b \in Block : rows'[b] \subseteq {Hash(b, tip.branch)}
    PROVE  CanonInv'
<1>1. CASE CycleFails(t)
  BY <1>1, Outcomes, EndCanon
<1>2. CASE job.source = "rpc"
  <2>1. job \in Job /\ ipc' = "header" /\ job' = [job EXCEPT !.source = "archive", !.logs = {}]
    BY <1>2 DEF RangeFails, IndexInv, IndexerTypeOK
  <2>2. job'.safe_head = job.safe_head /\ job'.to = job.to /\ job'.logs = {}
    BY <2>1 DEF Job
  <2> QED
    BY <2>1, <2>2 DEF CanonInv, Quiet, Hash, SafeHead, chainVars
<1> QED
  BY <1>1, <1>2 DEF RangeFails

\* The range to scan ends at or below the safe head that was read.
LEMMA ResumeCanon ==
    ASSUME IndexInv, CanonInv, ipc \in {"resume", "recheck"}, ResumeAt(progress.block + 1),
           UNCHANGED <<chainVars, storeVars>>
    PROVE  CanonInv'
<1>1. CASE CycleCaughtUp
  BY SMTT(60), <1>1, Outcomes, EndCanon DEF CanonInv, storeVars
<1>2. CASE ~(progress.block + 1 > job.safe_head)
  <2> DEFINE last == Lesser(progress.block + 1
                              + (IF caught_up = "tail" THEN TailSafetyBlockSpan ELSE span) - 1,
                            job.safe_head)
  <2>1. job \in Job /\ ipc' = "header" /\ job'.to = last /\ job'.safe_head = job.safe_head
        /\ job'.logs = {}
    BY ZenonT(60), <1>2 DEF ResumeAt, IndexInv, IndexerTypeOK, Job, CanonInv
  <2>2. last <= job.safe_head
    BY SpanAssumption, MaxHeightAssumption DEF IndexInv, IndexerTypeOK, Job, Progress, Lesser
  <2>3. SafeHead \in Nat /\ last \in Int /\ job.safe_head \in Int
    BY SpanAssumption, MaxHeightAssumption
    DEF IndexInv, IndexerTypeOK, ChainTypeOK, Tip, Block, Job, Progress, Lesser, SafeHead, Monus,
        Larger
  <2> HIDE DEF last
  <2>4. Quiet => job'.safe_head <= SafeHead /\ job'.to <= SafeHead
    BY <2>1, <2>2, <2>3 DEF CanonInv
  <2> QED
    BY <2>1, <2>4, HeldCanon
<1> QED
  BY SMTT(60), <1>1, <1>2 DEF ResumeAt

\* What is committed was read from canonical blocks at or below the safe head.
LEMMA CommitCanon ==
    ASSUME IndexInv, CanonInv, ipc = "persist", index_chain_log_range
    PROVE  Quiet => /\ progress'.block <= SafeHead
                    /\ \A b \in Block : rows'[b] \subseteq {Hash(b, tip.branch)}
<1> SUFFICES ASSUME Quiet
             PROVE  /\ progress'.block <= SafeHead
                    /\ \A b \in Block : rows'[b] \subseteq {Hash(b, tip.branch)}
  OBVIOUS
<1>1. progress'.block <= SafeHead
  BY CommitStore DEF CanonInv
<1>2. ASSUME NEW b \in Block PROVE rows'[b] \subseteq {Hash(b, tip.branch)}
  <2>1. rows[b] \subseteq {Hash(b, tip.branch)}
    BY DEF CanonInv
  <2>2. CASE b \in job.from..job.to
    <3>1. job.from \in Int /\ job.to \in Int /\ b \in 1..job.to
      BY <2>2, MaxHeightAssumption DEF IndexInv, IndexerTypeOK, Job, Block
    <3>2. {Hash(b, k) : k \in job.logs} \subseteq {Hash(b, tip.branch)}
      BY <3>1 DEF CanonInv
    <3> QED
      BY <2>1, <2>2, <3>2 DEF index_chain_log_range, persist_indexed_log_batch
  <2>3. CASE b \notin job.from..job.to
    BY SMTT(60), <2>1, <2>3 DEF index_chain_log_range, persist_indexed_log_batch
  <2> QED
    BY <2>2, <2>3
<1> QED
  BY <1>1, <1>2

\* A rewind only takes away.
LEMMA RewindCanon ==
    ASSUME IndexInv, CanonInv, ipc = "rewind",
           rewind_chain_indexing_to_replay_block(replay_from_block)
    PROVE  Quiet => /\ progress'.block <= SafeHead
                    /\ \A b \in Block : rows'[b] \subseteq {Hash(b, tip.branch)}
<1>1. progress.block \in Nat /\ progress.block > 0
  BY MaxHeightAssumption DEF IndexInv, IndexerTypeOK, Progress, Rewinding
<1>2. replay_from_block \in 1..progress.block
  BY <1>1, SpanAssumption DEF replay_from_block, Larger, Monus
<1>3. progress'.block = replay_from_block - 1
  BY <1>2 DEF rewind_chain_indexing_to_replay_block, NoProgress
<1>4. SafeHead \in Nat
  BY SpanAssumption, MaxHeightAssumption
  DEF IndexInv, ChainTypeOK, Tip, Block, SafeHead, Monus, Larger
<1>5. \A b \in Block : rows'[b] \subseteq rows[b]
  BY DEF rewind_chain_indexing_to_replay_block
<1> QED
  BY <1>1, <1>2, <1>3, <1>4, <1>5 DEF CanonInv

\* Every step of the indexing loop keeps CanonInv.
LEMMA IndexerCanon ==
    ASSUME IndexInv, CanonInv, NEW leased \in BOOLEAN, IndexerNext(leased), UNCHANGED chainVars
    PROVE  CanonInv'
<1>1. job \in Job /\ progress.block \in 0..MaxHeight
  BY SMTT(60) DEF IndexInv, IndexerTypeOK, Progress
<1>2. ASSUME UNCHANGED storeVars
      PROVE  Quiet => /\ progress'.block <= SafeHead
                      /\ \A b \in Block : rows'[b] \subseteq {Hash(b, tip.branch)}
  BY <1>2 DEF CanonInv, storeVars
<1>3. CASE ReadHead
  <2>1. /\ ipc' = "resume" /\ UNCHANGED storeVars /\ job'.to = 0 /\ job'.logs = {}
        /\ job'.safe_head = Monus(view["rpc"].height, SafeConfirmations)
    BY <1>3 DEF ReadHead, NoJob, get_block_number
  <2>2. SafeHead \in Nat
    BY SpanAssumption, MaxHeightAssumption
    DEF IndexInv, ChainTypeOK, Tip, Block, SafeHead, Monus, Larger
  <2>3. Quiet => job'.safe_head = SafeHead
    BY <2>1 DEF CanonInv, SafeHead, Provider
  <2> QED
    BY <2>1, <2>2, <2>3, HeldCanon
<1>4. CASE ResumeFresh
  BY <1>1, <1>4, ResumeCanon DEF ResumeFresh
<1>5. CASE Resume \/ Recheck
  <2>1. CASE progress_is_canonical
    BY SMTT(60), <1>5, <2>1, ResumeCanon DEF Resume, Recheck
  <2>2. CASE ~progress_is_canonical
    <3>1. /\ ipc' \in {"lease", "rewind"} /\ ipc \in {"resume", "recheck"}
          /\ UNCHANGED <<storeVars, job>>
      BY SMTT(60), <1>5, <2>2 DEF Resume, Recheck
    <3> QED
      BY <3>1, HeldCanon DEF CanonInv
  <2> QED
    BY <2>1, <2>2
<1>6. CASE ResumeUnavailable
  BY Zenon, <1>2, <1>6, Outcomes, EndCanon DEF ResumeUnavailable
<1>7. CASE TakeReorgLease(leased)
  BY <1>7, HeldCanon DEF TakeReorgLease, CanonInv
<1>8. CASE Rewind
  BY <1>8, RewindCanon DEF Rewind, CanonInv, Quiet, Hash, SafeHead, chainVars
<1>9. CASE RewindError
  BY Zenon, <1>9, RewindCanon, Outcomes, EndCanon DEF RewindError
<1>10. CASE FetchHeader
  <2>1. /\ UNCHANGED storeVars /\ ipc' = "logs"
        /\ job'.safe_head = job.safe_head /\ job'.to = job.to /\ job'.logs = job.logs
    BY <1>1, <1>10 DEF FetchHeader, Job
  <2> QED
    BY <2>1, HeldCanon DEF CanonInv
<1>11. CASE FetchLogs
  <2>1. /\ UNCHANGED storeVars /\ ipc' \in {"logs", "persist"} /\ job.source \in Provider
        /\ job'.safe_head = job.safe_head /\ job'.to = job.to
        /\ job'.logs = job.logs \cup {view[job.source].branch}
    BY <1>1, <1>11 DEF FetchLogs, Job
  <2> QED
    BY <2>1, HeldCanon DEF CanonInv
<1>12. CASE HeaderUnavailable \/ RangeTooLarge
  BY Zenon, <1>2, <1>12, RangeFailsCanon DEF HeaderUnavailable, RangeTooLarge
<1>13. CASE \E empty \in BOOLEAN : Persist(empty)
  BY <1>13, CommitCanon, Outcomes, EndCanon DEF Persist
<1>14. CASE PersistError
  BY Zenon, <1>14, CommitCanon, RangeFailsCanon DEF PersistError
<1>15. CASE CallFails
  BY Zenon, <1>2, <1>15, Outcomes, EndCanon, RangeFailsCanon DEF CallFails
<1> QED
  BY <1>3, <1>4, <1>5, <1>6, <1>7, <1>8, <1>9, <1>10, <1>11, <1>12, <1>13, <1>14, <1>15
  DEF IndexerNext

-----------------------------------------------------------------------------
(* The theorems. *)

\* The publication task, and a step of nobody, leave the index alone.
LEMMA SameIndex ==
    ASSUME IndexInv, CanonInv, UNCHANGED <<chainVars, indexerVars>>, faults' \in 0..MaxFaults
    PROVE  IndexInv' /\ CanonInv'
<1>1. UNCHANGED <<view, tip, reorgs, network, progress, headers, rows, ipc, caught_up, span,
                  max_span, job>>
  BY DEF chainVars, indexerVars, storeVars, loopVars
<1>2. ChainTypeOK' /\ IndexerTypeOK' /\ StoreInv'
  BY <1>1 DEF IndexInv, ChainTypeOK, IndexerTypeOK, StoreInv, IndexedWithoutGaps, ProgressHasHeader
<1>3. IndexInv'
  BY <1>1, <1>2 DEF IndexInv
<1>4. CanonInv'
  BY <1>1 DEF CanonInv, Quiet, SafeHead, Hash
<1> QED
  BY <1>3, <1>4

\* The publication task and the IPNS task count their faults.
LEMMA PublisherFaultsCounted ==
    ASSUME IndexInv, Publisher \/ IpnsTask
    PROVE  faults' \in 0..MaxFaults
<1>1. CASE Publisher
  <2>1. faults' = faults \/ \E kind \in {"ipns", "audit_commit", "call"} : Fault(kind)
    BY <1>1 DEF Publisher, PublisherNext, StartCycle, latest_indexed_heights, ReadRows,
       CheckSnapshot, Reconcile, TakePublicationLease, validate_combined_manifest_snapshot,
       RecordManifest, publish_manifest_cid_with_lease, IpnsPublished, Activate, IpnsFails,
       CommitError, CycleError
  <2> QED
    BY <2>1, FaultCounted DEF IndexInv, IndexerTypeOK
<1>2. CASE IpnsTask
  <2>1. faults' = faults \/ Fault("ipns")
    BY <1>2 DEF IpnsTask, IpnsTaskNext, DiscardRequests, StartPut, PutStored, PutFails
  <2> QED
    BY <2>1, FaultCounted DEF IndexInv, IndexerTypeOK
<1> QED
  BY <1>1, <1>2

\* Every step keeps the index in order.
LEMMA NextIndex == IndexInv /\ CanonInv /\ [Next]_vars => IndexInv' /\ CanonInv'
<1> SUFFICES ASSUME IndexInv, CanonInv, [Next]_vars PROVE IndexInv' /\ CanonInv'
  OBVIOUS
<1>1. CASE Indexer
  <2>1. lease_is_out \in BOOLEAN /\ IndexerNext(lease_is_out) /\ UNCHANGED chainVars
    BY <1>1 DEF Indexer, lease_is_out
  <2> QED
    BY <2>1, IndexerIndex, IndexerCanon
<1>2. CASE Publisher \/ IpnsTask
  <2>1. UNCHANGED <<chainVars, indexerVars>>
    BY <1>2 DEF Publisher, IpnsTask
  <2> QED
    BY <1>2, <2>1, PublisherFaultsCounted, SameIndex
<1>3. CASE Environment
  BY <1>3, EnvironmentIndex, EnvironmentCanon
<1>4. CASE Crash
  <2>1. CycleEnds /\ UNCHANGED <<chainVars, storeVars>>
    BY SMTT(60), <1>4, SpanAssumption DEF Crash, CycleEnds
  <2>2. CanonInv'
    BY <2>1, EndCanon DEF CanonInv, storeVars
  <2> QED
    BY <1>4, <2>2, CrashIndex
<1>5. CASE UNCHANGED vars
  <2>1. UNCHANGED <<chainVars, indexerVars>> /\ faults' \in 0..MaxFaults
    BY <1>5 DEF vars, IndexInv, IndexerTypeOK
  <2> QED
    BY <2>1, SameIndex
<1> QED
  BY <1>1, <1>2, <1>3, <1>4, <1>5 DEF Next

\* The inductive invariant of the index holds in every reachable state.
THEOREM IndexInvariance == Spec => [](IndexInv /\ CanonInv)
<1>1. Init => IndexInv /\ CanonInv
  BY InitIndex, InitCanon
<1> QED
  BY <1>1, NextIndex, PTL DEF Spec

\* The stored rows cover exactly the blocks up to the recorded progress, through
\* rewinds, retried batches, ambiguous commits and crashes.
THEOREM NoGaps == Spec => []IndexedWithoutGaps
<1>1. IndexInv => IndexedWithoutGaps
  BY DEF IndexInv, StoreInv
<1> QED
  BY <1>1, IndexInvariance, PTL

\* The recorded progress always names a stored header, and none lies above it.
THEOREM WatermarkHasHeader == Spec => []ProgressHasHeader
<1>1. IndexInv => ProgressHasHeader
  BY DEF IndexInv, StoreInv
<1> QED
  BY <1>1, IndexInvariance, PTL

\* Reorganisations within safe_confirmations never leave a row of an orphaned block,
\* as long as the providers keep up.
THEOREM ConfirmedIsCanonical == Spec => []IndexedIsCanonical
<1>1. CanonInv => IndexedIsCanonical
  BY DEF CanonInv, Quiet, IndexedIsCanonical
<1> QED
  BY <1>1, IndexInvariance, PTL

-----------------------------------------------------------------------------
(* The publication task and its IPNS requests.  There is one manifest beyond *)
(* the active one, the pending one; a request publishes the active or the     *)
(* pending manifest, or one the name has moved past; and only the cycle       *)
(* that awaits an answer has a request that waits for it.                     *)

Requests == (queue \cup {putting}) \ {NoRequest}

CycleInv ==
    /\ ppc \in {"idle", "heights", "rows", "check"} => seq = 0
    /\ ppc \in {"heights", "rows", "check", "lease", "validate"} /\ seq = 0 =>
          pending = 0 /\ sequence < MaxSequence
    /\ ppc \in {"lease", "validate"} /\ seq # 0 => seq = pending
    /\ ppc = "record" => seq = sequence /\ pending = 0 /\ active < seq
    /\ ppc \in {"put", "await", "activate"} => seq = pending /\ seq # 0
    /\ active <= sequence /\ pending <= sequence
    /\ pending # 0 => active < pending

RequestInv ==
    /\ \A q \in Requests : q.seq \in {active, pending} \/ q.seq <= resolved
    /\ \A q \in Requests : q.caller = "waiting" =>
          ppc = "await" /\ q.seq = seq /\ answer = "none"
    /\ putting.caller = "waiting" => \A q \in queue : q.caller = "gone"
    /\ ppc = "await" /\ answer = "published" => resolved = seq
    /\ ppc = "activate" => resolved = seq

PublishInv == PublisherTypeOK /\ CycleInv /\ RequestInv /\ ResolvedIsKept

\* Nothing has been published.
LEMMA InitPublish == Init => PublishInv
<1> USE MaxSequenceAssumption, MaxHeightAssumption
<1> QED
  BY DEF Init, PublisherInit, StartPublisher, PublishInv, PublisherTypeOK, CycleInv, RequestInv,
     Requests, ResolvedIsKept, NoDraft, NoPart, NoRequest, Part, Request, Dataset, Leased

\* PublishInv is about the variables of the publication alone.
LEMMA SamePublish ==
    ASSUME PublishInv, UNCHANGED publisherVars
    PROVE  PublishInv'
BY DEF PublishInv, publisherVars, cycleVars, auditVars, ipnsVars, PublisherTypeOK, CycleInv,
   RequestInv, Requests, ResolvedIsKept

\* A cycle that does not await an answer can end where it is.
LEMMA EndPublish ==
    ASSUME PublishInv, ppc # "await", EndCycle, UNCHANGED <<auditVars, ipnsVars>>
    PROVE  PublishInv'
<1>1. NoDraft \in [Dataset -> Part]
  BY MaxHeightAssumption DEF NoDraft, NoPart, Part, Dataset
<1>2. /\ ppc' = "idle" /\ seq' = 0 /\ step' = 1 /\ draft' = NoDraft
      /\ UNCHANGED <<sequence, manifest, pending, active, queue, putting, answer, resolved>>
  BY DEF EndCycle, auditVars, ipnsVars
<1>3. PublisherTypeOK'
  BY <1>1, <1>2, MaxSequenceAssumption DEF PublishInv, PublisherTypeOK, Dataset
<1>4. CycleInv' /\ ResolvedIsKept'
  BY <1>2 DEF PublishInv, CycleInv, ResolvedIsKept
<1>5. RequestInv'
  BY SMTT(60), <1>2 DEF PublishInv, RequestInv, Requests
<1> QED
  BY <1>3, <1>4, <1>5 DEF PublishInv

\* The steps that build a manifest keep PublishInv.
LEMMA BuildPublish ==
    ASSUME IndexInv, PublishInv,
           \/ StartCycle \/ latest_indexed_heights \/ ReadRows \/ CheckSnapshot
           \/ Reconcile \/ TakePublicationLease
    PROVE  PublishInv'
<1> USE MaxSequenceAssumption, MaxHeightAssumption
<1> USE DEF PublishInv, PublisherTypeOK, CycleInv, RequestInv, Requests, ResolvedIsKept,
      auditVars, ipnsVars, Leased, Sequence
<1>1. CASE StartCycle
  BY <1>1 DEF StartCycle
<1>2. CASE latest_indexed_heights
  <2>1. [block |-> progress.block, hash |-> progress.hash, content |-> {}] \in Part
    BY DEF IndexInv, IndexerTypeOK, Progress, Part
  <2>2. draft' \in [Dataset -> Part]
    BY <1>2, <2>1 DEF latest_indexed_heights
  <2>3. step' \in Dataset /\ ppc' \in {"heights", "rows"} /\ UNCHANGED <<seq, auditVars, ipnsVars>>
    BY <1>2 DEF latest_indexed_heights, NextDataset, Dataset
  <2> QED
    BY <1>2, <2>2, <2>3 DEF latest_indexed_heights
<1>3. CASE ReadRows
  <2>1. draft' \in [Dataset -> Part]
    BY ZenonT(60), <1>3 DEF ReadRows, Part
  <2>2. step' \in Dataset /\ ppc' \in {"rows", "check"} /\ UNCHANGED <<seq, auditVars, ipnsVars>>
    BY <1>3 DEF ReadRows, NextDataset, Dataset
  <2> QED
    BY <1>3, <2>1, <2>2 DEF ReadRows
<1>4. CASE CheckSnapshot
  BY <1>4, EndPublish DEF CheckSnapshot
<1>5. CASE Reconcile
  BY <1>5 DEF Reconcile
<1>6. CASE TakePublicationLease
  BY <1>6 DEF TakePublicationLease
<1> QED
  BY <1>1, <1>2, <1>3, <1>4, <1>5, <1>6

\* The steps that record, publish and activate a manifest keep PublishInv.
LEMMA RecordPublish ==
    ASSUME PublishInv,
           \/ validate_combined_manifest_snapshot \/ RecordManifest
           \/ publish_manifest_cid_with_lease
           \/ IpnsPublished \/ Activate \/ IpnsFails \/ CommitError \/ CycleError
    PROVE  PublishInv'
<1> USE MaxSequenceAssumption, MaxHeightAssumption
<1>1. CASE CycleError
  BY <1>1, EndPublish DEF CycleError
<1>0. NoDraft \in [Dataset -> Part] /\ 1 \in Dataset
  BY DEF NoDraft, NoPart, Part, Dataset
<1>2. CASE validate_combined_manifest_snapshot
  <2>1. CASE ~validate_chain_snapshot(draft)
    <3>1. ppc # "await" /\ EndCycle /\ UNCHANGED <<auditVars, ipnsVars>>
      BY <1>2, <2>1 DEF validate_combined_manifest_snapshot, auditVars
    <3> QED
      BY <3>1, EndPublish
  <2>2. CASE validate_chain_snapshot(draft)
    <3>1. /\ ppc = "validate"
          /\ IF seq = 0 THEN ppc' = "record" /\ seq' = sequence + 1 /\ sequence' = seq'
             ELSE ppc' = "put" /\ UNCHANGED <<seq, sequence>>
          /\ UNCHANGED <<step, draft, manifest, pending, active, queue, putting, answer, resolved>>
      BY <1>2, <2>2 DEF validate_combined_manifest_snapshot, ipnsVars
    <3>2. PublisherTypeOK'
      BY <3>1 DEF PublishInv, PublisherTypeOK, CycleInv, Sequence, Leased
    <3>3. CycleInv' /\ ResolvedIsKept'
      BY <3>1 DEF PublishInv, PublisherTypeOK, CycleInv, ResolvedIsKept, Leased, Sequence
    <3>4. RequestInv'
      BY <3>1 DEF PublishInv, CycleInv, RequestInv, Requests
    <3> QED
      BY <3>2, <3>3, <3>4 DEF PublishInv
  <2> QED
    BY <2>1, <2>2
<1>3. CASE RecordManifest
  <2>1. CASE pending # 0
    <3>1. ppc # "await" /\ EndCycle /\ UNCHANGED <<auditVars, ipnsVars>>
      BY <1>3, <2>1 DEF RecordManifest
    <3> QED
      BY <3>1, EndPublish
  <2>2. CASE pending = 0
    <3>1. /\ ppc = "record" /\ ppc' = "put" /\ pending' = seq /\ manifest' = [manifest EXCEPT ![seq] = draft]
          /\ UNCHANGED <<step, draft, seq, sequence, active, queue, putting, answer, resolved>>
      BY <1>3, <2>2 DEF RecordManifest, record_indexed_manifest_pin, ipnsVars
    <3>2. PublisherTypeOK'
      BY <3>1 DEF PublishInv, PublisherTypeOK, CycleInv, Sequence, Leased
    <3>3. CycleInv' /\ ResolvedIsKept'
      BY <2>2, <3>1 DEF PublishInv, PublisherTypeOK, CycleInv, ResolvedIsKept, Leased, Sequence
    <3>4. RequestInv'
      BY <2>2, <3>1 DEF PublishInv, PublisherTypeOK, CycleInv, RequestInv, Requests, Leased, Sequence
    <3> QED
      BY <3>2, <3>3, <3>4 DEF PublishInv
  <2> QED
    BY <2>1, <2>2
<1> USE DEF PublishInv, PublisherTypeOK, CycleInv, RequestInv, Requests, ResolvedIsKept,
      auditVars, ipnsVars, Leased, Sequence
<1>4. CASE publish_manifest_cid_with_lease
  <2> DEFINE request == [seq |-> seq, caller |-> "waiting"]
  <2>1. request \in Request /\ request.seq = pending /\ request.caller = "waiting"
    BY <1>4 DEF publish_manifest_cid_with_lease, Request
  <2> HIDE DEF request
  <2>2. /\ ppc = "put" /\ ppc' = "await" /\ answer' = "none" /\ queue' = queue \cup {request}
        /\ UNCHANGED <<step, draft, seq, auditVars, putting, resolved>>
    BY <1>4 DEF publish_manifest_cid_with_lease, request
  <2>3. PublisherTypeOK' /\ CycleInv' /\ ResolvedIsKept'
    BY <2>1, <2>2
  <2>4. putting.caller # "waiting"
    BY <2>2 DEF NoRequest
  <2>5. RequestInv'
    BY <2>1, <2>2, <2>4
  <2> QED
    BY <2>3, <2>5
<1>5. CASE IpnsPublished
  BY <1>5 DEF IpnsPublished
<1>6. CASE Activate
  BY <1>0, <1>6 DEF Activate, record_indexed_manifest_ipns_publication, EndCycle
<1>7. CASE IpnsFails
  BY <1>0, <1>7 DEF IpnsFails, EndCycle, Abandoned, Request, NoRequest
<1>8. CASE CommitError
  BY SMTT(60), <1>0, <1>8 DEF CommitError, record_indexed_manifest_pin,
     record_indexed_manifest_ipns_publication, EndCycle
<1> QED
  BY <1>1, <1>2, <1>3, <1>4, <1>5, <1>6, <1>7, <1>8

\* The IPNS task and a crash keep PublishInv.
LEMMA IpnsPublish ==
    ASSUME PublishInv, IpnsTaskNext \/ Crash
    PROVE  PublishInv'
<1> USE MaxSequenceAssumption, MaxHeightAssumption
<1>0. NoDraft \in [Dataset -> Part] /\ 1 \in Dataset
  BY DEF NoDraft, NoPart, Part, Dataset
<1> USE DEF PublishInv, PublisherTypeOK, CycleInv, RequestInv, Requests, ResolvedIsKept,
      auditVars, cycleVars, Sequence, Larger, respond, Request, NoRequest
<1>1. CASE DiscardRequests
  BY <1>1 DEF DiscardRequests, discard_unpublishable_pending
<1>2. CASE \E q \in queue : StartPut(q)
  BY <1>2 DEF StartPut, discard_unpublishable_pending
<1>3. CASE PutStored
  BY <1>3 DEF PutStored
<1>4. CASE PutFails
  BY <1>4 DEF PutFails
<1>5. CASE Crash
  BY SMTT(60), <1>0, <1>5 DEF Crash, EndCycle
<1> QED
  BY <1>1, <1>2, <1>3, <1>4, <1>5 DEF IpnsTaskNext

(* The canonicality gate.  Unless a commit of the index takes effect and      *)
(* reports an error, a batch starts right above the progress, so that only a  *)
(* rewind replaces a header; and a rewind has the gate to itself.             *)

Stated(parts) == \A d \in Dataset : parts[d].block > 0 => parts[d].hash # Absent

GateInv ==
    /\ ipc \in Rewinding => ~lease_is_out
    /\ ipc \in Scanning => job.from = progress.block + 1

DraftInv ==
    /\ Stated(draft)
    /\ \A s \in Sequence : Stated(manifest[s])
    /\ seq # 0 /\ ppc # "record" => draft = manifest[seq]

LeaseInv == GateInv /\ DraftInv /\ LeasedWatermarkStands

\* Nothing in hand states nothing.
LEMMA NoDraftStated == Stated(NoDraft) /\ \A d \in Dataset : NoDraft[d].block = 0
BY DEF Stated, NoDraft, NoPart

\* Nothing is leased and nothing is in hand.
LEMMA InitLease == Init => LeaseInv
<1> SUFFICES ASSUME Init PROVE LeaseInv
  OBVIOUS
<1>1. /\ ipc = "idle" /\ ppc = "idle" /\ seq = 0 /\ draft = NoDraft
      /\ queue = {} /\ putting = NoRequest /\ manifest = [t \in Sequence |-> NoDraft]
  BY DEF Init, IndexerInit, StartLoop, PublisherInit, StartPublisher
<1>2. GateInv
  BY <1>1 DEF GateInv, Rewinding, Scanning
<1>3. DraftInv
  BY <1>1, NoDraftStated DEF DraftInv
<1>4. LeasedWatermarkStands
  BY <1>1 DEF LeasedWatermarkStands, Leased
<1> QED
  BY <1>2, <1>3, <1>4 DEF LeaseInv

\* A watermark that stands lies in the index, so what changes above the progress
\* does not touch it.
LEMMA WatermarksStay ==
    ASSUME IndexInv, PublishInv, LeaseInv, UNCHANGED publisherVars,
           \A b \in Block : b <= progress.block => headers'[b] = headers[b]
    PROVE  LeasedWatermarkStands'
<1>1. ASSUME NEW parts \in [Dataset -> Part], Stated(parts), validate_chain_snapshot(parts)
      PROVE  \A d \in Dataset : parts[d].block > 0 => headers'[parts[d].block] = parts[d].hash
  <2> SUFFICES ASSUME NEW d \in Dataset, parts[d].block > 0
               PROVE  headers'[parts[d].block] = parts[d].hash
    OBVIOUS
  <2>1. parts[d].block \in Block
    BY <1>1, MaxHeightAssumption DEF Part, Block
  <2>2. headers[parts[d].block] = parts[d].hash /\ parts[d].hash # Absent
    BY <1>1 DEF validate_chain_snapshot, Stated
  <2>3. parts[d].block <= progress.block
    <3>1. ~(parts[d].block > progress.block)
      BY <2>1, <2>2 DEF IndexInv, StoreInv, ProgressHasHeader
    <3> QED
      BY <2>1, <3>1, MaxHeightAssumption DEF IndexInv, StoreInv, Progress, Block
  <2> QED
    BY <2>1, <2>2, <2>3
<1>2. /\ draft \in [Dataset -> Part] /\ Stated(draft)
      /\ \A s \in Sequence : manifest[s] \in [Dataset -> Part] /\ Stated(manifest[s])
      /\ \A q \in Requests : q.seq \in Sequence
  BY DEF PublishInv, PublisherTypeOK, LeaseInv, DraftInv, Requests, Request
<1>3. UNCHANGED <<ppc, draft, manifest, queue, putting>>
  BY DEF publisherVars, cycleVars, auditVars, ipnsVars
<1>4. ppc \in Leased \ {"validate"} => validate_chain_snapshot(draft)'
  BY <1>1, <1>2, <1>3 DEF LeaseInv, LeasedWatermarkStands, validate_chain_snapshot
<1>5. ASSUME NEW q \in Requests PROVE validate_chain_snapshot(manifest[q.seq])'
  <2>1. validate_chain_snapshot(manifest[q.seq])
    BY DEF LeaseInv, LeasedWatermarkStands, Requests
  <2>2. \A d \in Dataset : manifest[q.seq][d].block > 0 =>
           headers'[manifest[q.seq][d].block] = manifest[q.seq][d].hash
    BY <1>1, <1>2, <2>1
  <2> QED
    BY <1>3, <2>2 DEF validate_chain_snapshot
<1> QED
  BY <1>3, <1>4, <1>5 DEF LeasedWatermarkStands, Requests

\* The indexing loop keeps LeaseInv.
LEMMA IndexerLease ==
    ASSUME "index_commit" \notin FaultKinds, IndexInv, PublishInv, LeaseInv,
           IndexerNext(lease_is_out), UNCHANGED <<chainVars, publisherVars>>
    PROVE  LeaseInv'
<1>1. DraftInv' /\ lease_is_out' = lease_is_out
  BY DEF LeaseInv, DraftInv, Stated, lease_is_out, publisherVars, cycleVars, auditVars, ipnsVars
<1>2. ~RewindError /\ ~PersistError
  BY Zenon DEF RewindError, PersistError, Fault
<1>3. ASSUME UNCHANGED storeVars PROVE LeasedWatermarkStands'
  BY <1>3, WatermarksStay DEF storeVars
<1>4. job \in Job /\ progress.block \in 0..MaxHeight
  BY DEF IndexInv, IndexerTypeOK, Progress
<1>5. ASSUME ipc' \notin Rewinding \cup Scanning PROVE GateInv'
  BY <1>5 DEF GateInv
<1>6. ASSUME CycleEnds PROVE GateInv'
  BY <1>5, <1>6 DEF CycleEnds, Rewinding, Scanning
<1>7. ASSUME ipc \in Scanning, NEW t \in BOOLEAN, RangeFails(t), UNCHANGED storeVars
      PROVE  GateInv'
  <2>1. CASE CycleFails(t)
    BY <1>6, <2>1, Outcomes
  <2>2. CASE job.source = "rpc"
    BY Zenon, <1>4, <1>7, <2>2
    DEF RangeFails, LeaseInv, GateInv, Job, storeVars, Rewinding, Scanning
  <2> QED
    BY <1>7, <2>1, <2>2 DEF RangeFails
<1>8. ASSUME ResumeAt(progress.block + 1), UNCHANGED storeVars PROVE GateInv'
  <2>1. CASE CycleCaughtUp
    BY <1>6, <2>1, Outcomes
  <2>2. CASE ~(progress.block + 1 > job.safe_head)
    BY Zenon, <1>4, <1>8, <2>2 DEF ResumeAt, GateInv, Job, storeVars, Rewinding, Scanning
  <2> QED
    BY <1>8, <2>1, <2>2 DEF ResumeAt
<1>9. CASE ReadHead
  BY <1>1, <1>3, <1>5, <1>9 DEF ReadHead, LeaseInv, Rewinding, Scanning
<1>10. CASE ResumeFresh
  BY <1>1, <1>3, <1>4, <1>8, <1>10 DEF ResumeFresh, LeaseInv
<1>11. CASE Resume
  <2>1. CASE progress_is_canonical
    BY <1>1, <1>3, <1>8, <1>11, <2>1 DEF Resume, LeaseInv
  <2>2. CASE ~progress_is_canonical
    BY <1>1, <1>3, <1>5, <1>11, <2>2 DEF Resume, LeaseInv, Rewinding, Scanning
  <2> QED
    BY <2>1, <2>2
<1>12. CASE ResumeUnavailable
  BY Zenon, <1>1, <1>3, <1>6, <1>12, Outcomes DEF ResumeUnavailable, LeaseInv
<1>13. CASE TakeReorgLease(lease_is_out)
  BY <1>1, <1>3, <1>13 DEF TakeReorgLease, LeaseInv, GateInv, Rewinding, Scanning
<1>14. CASE Recheck
  <2>1. CASE progress_is_canonical
    BY <1>1, <1>3, <1>8, <1>14, <2>1 DEF Recheck, LeaseInv
  <2>2. CASE ~progress_is_canonical
    BY <1>1, <1>3, <1>14, <2>2 DEF Recheck, LeaseInv, GateInv, Rewinding, Scanning
  <2> QED
    BY <2>1, <2>2
<1>15. CASE Rewind
  <2>1. ~lease_is_out
    BY <1>15 DEF Rewind, LeaseInv, GateInv, Rewinding
  <2>2. LeasedWatermarkStands'
    BY <1>1, <2>1 DEF LeasedWatermarkStands, lease_is_out
  <2> QED
    BY <1>1, <1>5, <1>15, <2>2 DEF Rewind, LeaseInv, Rewinding, Scanning
<1>16. CASE FetchHeader \/ FetchLogs
  BY <1>1, <1>3, <1>4, <1>16
  DEF FetchHeader, FetchLogs, LeaseInv, GateInv, Job, storeVars, Rewinding, Scanning
<1>17. CASE HeaderUnavailable
  BY Zenon, <1>1, <1>3, <1>7, <1>17 DEF HeaderUnavailable, LeaseInv, Scanning
<1>18. CASE RangeTooLarge
  BY Zenon, <1>1, <1>3, <1>7, <1>18 DEF RangeTooLarge, LeaseInv, Scanning
<1>19. CASE \E empty \in BOOLEAN : Persist(empty)
  <2>1. job.to > progress.block /\ headers' = [headers EXCEPT ![job.to] = job.header]
    BY <1>4, <1>19, MaxHeightAssumption
    DEF Persist, index_chain_log_range, record_indexed_block_header, IndexInv, LeaseInv, GateInv,
        Job, Scanning
  <2>2. \A b \in Block : b <= progress.block => headers'[b] = headers[b]
    BY <1>4, <2>1, MaxHeightAssumption DEF IndexInv, StoreInv, Block, Job
  <2>3. LeasedWatermarkStands'
    BY <2>2, WatermarksStay
  <2> QED
    BY <1>1, <1>6, <1>19, <2>3, Outcomes DEF Persist, LeaseInv
<1>20. CASE CallFails
  <2>1. CASE ipc \in Scanning
    BY Zenon, <1>1, <1>3, <1>7, <1>20, <2>1 DEF CallFails, LeaseInv, Scanning
  <2>2. CASE ipc \notin Scanning
    BY ZenonT(60), <1>1, <1>3, <1>6, <1>20, <2>2, Outcomes DEF CallFails, LeaseInv, Scanning
  <2> QED
    BY <2>1, <2>2
<1> QED
  BY <1>2, <1>9, <1>10, <1>11, <1>12, <1>13, <1>14, <1>15, <1>16, <1>17, <1>18, <1>19, <1>20
  DEF IndexerNext

\* An entry read from the index names a hash wherever it names a block.
LEMMA ReadingStates ==
    ASSUME IndexInv, PublishInv, LeaseInv, latest_indexed_heights \/ ReadRows
    PROVE  Stated(draft)'
<1>1. draft \in [Dataset -> Part] /\ step \in Dataset
  BY DEF PublishInv, PublisherTypeOK
<1>2. CASE latest_indexed_heights
  <2>1. progress.block > 0 => progress.hash # Absent
    BY MaxBranchAssumption DEF IndexInv, StoreInv, Branch, Absent
  <2> QED
    BY <1>1, <1>2, <2>1 DEF latest_indexed_heights, Stated, LeaseInv, DraftInv
<1>3. CASE ReadRows
  BY <1>1, <1>3 DEF ReadRows, Stated, LeaseInv, DraftInv, Part
<1> QED
  BY <1>2, <1>3

\* No request is for the manifest that is about to be recorded.
LEMMA RecordedIsNew ==
    ASSUME PublishInv, ppc = "record", NEW q \in Requests
    PROVE  q.seq # seq
<1>1. q.seq \in Nat /\ seq \in Nat /\ active \in Nat /\ resolved \in Nat /\ q.seq # 0
  BY SMTT(60), MaxSequenceAssumption DEF PublishInv, PublisherTypeOK, Requests, Request, Sequence
<1> QED
  BY <1>1 DEF PublishInv, CycleInv, RequestInv, ResolvedIsKept

\* While no header changes, the watermarks stand that stood.
LEMMA StandsStill ==
    ASSUME headers' = headers,
           ppc' \in Leased \ {"validate"} => draft' = draft /\ validate_chain_snapshot(draft),
           \A q \in Requests' : validate_chain_snapshot(manifest'[q.seq])
    PROVE  LeasedWatermarkStands'
<1>1. ppc' \in Leased \ {"validate"} => validate_chain_snapshot(draft)'
  BY Zenon DEF validate_chain_snapshot
<1>2. \A q \in Requests' : validate_chain_snapshot(manifest[q.seq])'
  BY Zenon DEF validate_chain_snapshot
<1> QED
  BY Zenon, <1>1, <1>2 DEF LeasedWatermarkStands, Requests

\* In particular when no manifest or request is new and the cycle is at no later place.
LEMMA StandsAsBefore ==
    ASSUME LeasedWatermarkStands, UNCHANGED <<headers, manifest>>,
           ppc' \in Leased \ {"validate"} => ppc \in Leased \ {"validate"} /\ draft' = draft,
           \A q \in Requests' : \E r \in Requests : q.seq = r.seq
    PROVE  LeasedWatermarkStands'
<1>1. ppc' \in Leased \ {"validate"} => draft' = draft /\ validate_chain_snapshot(draft)
  BY Zenon DEF LeasedWatermarkStands
<1>2. \A q \in Requests' : validate_chain_snapshot(manifest'[q.seq])
  <2> SUFFICES ASSUME NEW q \in Requests' PROVE validate_chain_snapshot(manifest'[q.seq])
    BY Zenon
  <2>1. PICK r \in Requests : q.seq = r.seq
    BY Zenon
  <2>2. validate_chain_snapshot(manifest[r.seq])
    BY Zenon DEF LeasedWatermarkStands, Requests
  <2> QED
    BY Zenon, <2>1, <2>2
<1> QED
  BY Zenon, <1>1, <1>2, StandsStill

\* The publication task keeps LeaseInv.
LEMMA PublisherLease ==
    ASSUME IndexInv, PublishInv, LeaseInv, PublisherNext, UNCHANGED <<chainVars, indexerVars>>
    PROVE  LeaseInv'
<1> USE MaxSequenceAssumption
<1>1. UNCHANGED <<progress, headers, ipc, job>>
  BY DEF indexerVars, storeVars
<1>2. ASSUME lease_is_out' => lease_is_out \/ ipc \notin Rewinding PROVE GateInv'
  BY <1>1, <1>2 DEF LeaseInv, GateInv
<1>3. Stated(NoDraft)
  BY DEF Stated, NoDraft, NoPart
<1>4. /\ seq \in Sequence \cup {0}
      /\ sequence \in 0..MaxSequence
      /\ manifest \in [Sequence -> [Dataset -> Part]]
  BY SMTT(60) DEF PublishInv, PublisherTypeOK, Sequence
<1> USE DEF LeaseInv, DraftInv
<1>5. ASSUME EndCycle, UNCHANGED <<auditVars, ipnsVars>> PROVE LeaseInv'
  <2>1. lease_is_out' => lease_is_out
    BY <1>5 DEF EndCycle, ipnsVars, lease_is_out, Leased
  <2>2. DraftInv'
    BY <1>3, <1>5 DEF EndCycle, auditVars, Stated
  <2>3. LeasedWatermarkStands'
    BY Zenon, <1>1, <1>5, StandsAsBefore DEF EndCycle, auditVars, ipnsVars, Requests, Leased
  <2> QED
    BY <1>2, <2>1, <2>2, <2>3
<1>6. CASE StartCycle \/ latest_indexed_heights \/ ReadRows
  <2>1. Stated(draft)'
    BY <1>6, ReadingStates DEF StartCycle, Stated
  <2>2. /\ ppc \notin Leased /\ ppc' \notin Leased /\ seq = 0 /\ seq' = 0
        /\ UNCHANGED <<auditVars, ipnsVars>>
    BY <1>6 DEF StartCycle, latest_indexed_heights, ReadRows, NextDataset, Leased, PublishInv,
       CycleInv
  <2>3. lease_is_out' => lease_is_out
    BY <2>2 DEF ipnsVars, lease_is_out
  <2>4. LeasedWatermarkStands'
    BY Zenon, <1>1, <2>2, StandsAsBefore DEF auditVars, ipnsVars, Requests, Leased
  <2> QED
    BY <1>2, <2>1, <2>2, <2>3, <2>4 DEF auditVars, Stated
<1>7. CASE CheckSnapshot
  <2>1. CASE EndCycle
    BY <1>5, <1>7, <2>1 DEF CheckSnapshot
  <2>2. CASE ~EndCycle
    <3>1. /\ ppc = "check" /\ ppc' = "lease" /\ UNCHANGED <<step, draft, seq, auditVars, ipnsVars>>
      BY <1>7, <2>2 DEF CheckSnapshot
    <3>2. lease_is_out' => lease_is_out
      BY <3>1 DEF ipnsVars, lease_is_out, Leased
    <3>3. LeasedWatermarkStands'
      BY Zenon, <1>1, <3>1, StandsAsBefore DEF auditVars, ipnsVars, Requests, Leased
    <3> QED
      BY <1>2, <3>1, <3>2, <3>3 DEF auditVars, Stated
  <2> QED
    BY <2>1, <2>2
<1>8. CASE Reconcile
  <2>1. /\ ppc = "idle" /\ ppc' = "lease" /\ pending \in Sequence
        /\ seq' = pending /\ draft' = manifest[pending] /\ UNCHANGED <<auditVars, ipnsVars>>
    BY <1>8 DEF Reconcile, PublishInv, PublisherTypeOK, Sequence
  <2>2. lease_is_out' => lease_is_out
    BY SMTT(60), <2>1 DEF ipnsVars, lease_is_out, Leased
  <2>3. LeasedWatermarkStands'
    BY Zenon, <1>1, <2>1, StandsAsBefore DEF auditVars, ipnsVars, Requests, Leased
  <2> QED
    BY <1>2, <2>1, <2>2, <2>3 DEF auditVars, Stated
<1>9. CASE TakePublicationLease
  <2>1. /\ ppc = "lease" /\ ppc' = "validate" /\ ipc \notin Rewinding
        /\ UNCHANGED <<draft, seq, auditVars, ipnsVars>>
    BY <1>9 DEF TakePublicationLease
  <2>2. LeasedWatermarkStands'
    BY Zenon, <1>1, <2>1, StandsAsBefore DEF auditVars, ipnsVars, Requests, Leased
  <2> QED
    BY <1>2, <2>1, <2>2 DEF auditVars, Stated
<1>10. CASE validate_combined_manifest_snapshot
  <2>1. ppc = "validate" /\ lease_is_out /\ UNCHANGED <<manifest, pending, active, ipnsVars>>
    BY <1>10 DEF validate_combined_manifest_snapshot, lease_is_out, Leased
  <2>2. CASE ~validate_chain_snapshot(draft)
    BY <1>5, <1>10, <2>2 DEF validate_combined_manifest_snapshot, auditVars
  <2>3. CASE validate_chain_snapshot(draft)
    <3>1. /\ UNCHANGED draft
          /\ \/ ppc' = "record"
             \/ ppc' = "put" /\ seq # 0 /\ UNCHANGED seq
      BY <1>10, <2>3 DEF validate_combined_manifest_snapshot
    <3>2. DraftInv'
      BY SMTT(60), <2>1, <3>1 DEF Stated
    <3>3. LeasedWatermarkStands'
      BY Zenon, <1>1, <2>1, <2>3, <3>1, StandsStill DEF ipnsVars, LeasedWatermarkStands, Requests
    <3> QED
      BY <1>2, <2>1, <3>2, <3>3
  <2> QED
    BY <2>2, <2>3
<1>11. ASSUME ppc = "record", record_indexed_manifest_pin, UNCHANGED ipnsVars,
              \/ ppc' = "put" /\ UNCHANGED <<draft, seq>>
              \/ EndCycle
       PROVE  LeaseInv'
  <2>1. lease_is_out /\ validate_chain_snapshot(draft) /\ seq \in 0..MaxSequence
    BY <1>4, <1>11 DEF lease_is_out, Leased, LeasedWatermarkStands, Sequence
  <2>2. manifest' = [manifest EXCEPT ![seq] = draft]
    BY <1>11 DEF record_indexed_manifest_pin
  <2>3. \A s \in Sequence : Stated(manifest'[s])
    BY <1>4, <2>2 DEF Stated
  <2>4. ppc' = "put" => seq \in Sequence
    BY <1>4, <1>11 DEF PublishInv, CycleInv, PublisherTypeOK, Sequence
  <2>5. DraftInv'
    BY <1>3, <1>4, <1>11, <2>2, <2>3, <2>4 DEF EndCycle, Stated
  <2>6. \A q \in Requests : manifest'[q.seq] = manifest[q.seq]
    BY SMTT(60), <1>4, <1>11, <2>2, RecordedIsNew
    DEF PublishInv, PublisherTypeOK, Requests, Request
  <2>7. LeasedWatermarkStands'
    <3>1. Requests' = Requests /\ \A q \in Requests' : validate_chain_snapshot(manifest'[q.seq])
      BY Zenon, <1>11, <2>6 DEF ipnsVars, LeasedWatermarkStands, Requests
    <3>2. ppc' \in Leased \ {"validate"} => draft' = draft
      BY Zenon, <1>11 DEF EndCycle, Leased
    <3> QED
      BY Zenon, <1>1, <2>1, <3>1, <3>2, StandsStill
  <2> QED
    BY <1>2, <2>1, <2>5, <2>7
<1>12. CASE RecordManifest
  BY <1>5, <1>11, <1>12 DEF RecordManifest
<1>13. CASE publish_manifest_cid_with_lease
  <2> DEFINE request == [seq |-> seq, caller |-> "waiting"]
  <2>1. /\ ppc = "put" /\ ppc' = "await" /\ queue' = queue \cup {request}
        /\ UNCHANGED <<draft, seq, auditVars, putting>>
    BY <1>13 DEF publish_manifest_cid_with_lease
  <2>2. lease_is_out /\ validate_chain_snapshot(draft) /\ draft = manifest[seq]
    BY <2>1 DEF lease_is_out, Leased, LeasedWatermarkStands, PublishInv, CycleInv
  <2>3. request.seq = seq
    OBVIOUS
  <2> HIDE DEF request
  <2>4. DraftInv'
    BY SMTT(60), <2>1, <2>2 DEF auditVars, Stated
  <2>5. LeasedWatermarkStands'
    <3>1. \A q \in Requests' : q \in Requests \/ q.seq = seq
      BY Zenon, <2>1, <2>3 DEF Requests
    <3>2. \A q \in Requests' : validate_chain_snapshot(manifest'[q.seq])
      BY Zenon, <2>1, <2>2, <3>1 DEF auditVars, LeasedWatermarkStands, Requests
    <3> QED
      BY Zenon, <1>1, <2>1, <2>2, <3>2, StandsStill
  <2> QED
    BY <1>2, <2>2, <2>4, <2>5
<1>14. CASE IpnsPublished
  <2>1. /\ ppc = "await" /\ ppc' = "activate" /\ UNCHANGED <<draft, seq, auditVars, queue, putting>>
    BY <1>14 DEF IpnsPublished
  <2>2. lease_is_out /\ DraftInv'
    BY SMTT(60), <2>1 DEF lease_is_out, Leased, auditVars, Stated
  <2>3. LeasedWatermarkStands'
    BY Zenon, <1>1, <2>1, StandsAsBefore DEF auditVars, Requests, Leased
  <2> QED
    BY <1>2, <2>2, <2>3
<1>15. ASSUME EndCycle, UNCHANGED <<manifest, ipnsVars>> PROVE LeaseInv'
  <2>1. lease_is_out' => lease_is_out
    BY <1>15 DEF EndCycle, ipnsVars, lease_is_out, Leased
  <2>2. DraftInv'
    BY SMTT(60), <1>3, <1>15 DEF EndCycle, Stated
  <2>3. LeasedWatermarkStands'
    BY Zenon, <1>1, <1>15, StandsAsBefore DEF EndCycle, ipnsVars, Requests, Leased
  <2> QED
    BY <1>2, <2>1, <2>2, <2>3
<1>16. CASE Activate
  BY <1>15, <1>16 DEF Activate, record_indexed_manifest_ipns_publication
<1>17. CASE IpnsFails
  <2>1. /\ ppc = "await" /\ EndCycle /\ UNCHANGED auditVars
        /\ queue' = {Abandoned(q) : q \in queue} /\ putting' = Abandoned(putting)
    BY <1>17 DEF IpnsFails
  <2>2. \A q \in Request \cup {NoRequest} : Abandoned(q).seq = q.seq
    BY DEF Abandoned, Request, NoRequest
  <2>3. Abandoned(NoRequest) = NoRequest
    BY DEF Abandoned, NoRequest
  <2>4. \A q \in Requests' : \E r \in Requests : q.seq = r.seq
    <3> SUFFICES ASSUME NEW q \in Requests' PROVE \E r \in Requests : q.seq = r.seq
      OBVIOUS
    <3>1. PICK r \in queue \cup {putting} : q = Abandoned(r)
      BY <2>1 DEF Requests
    <3>2. r # NoRequest /\ r \in Request
      BY <2>3, <3>1 DEF Requests, PublishInv, PublisherTypeOK
    <3> QED
      BY <2>2, <3>1, <3>2 DEF Requests
  <2>5. lease_is_out
    BY <2>1 DEF lease_is_out, Leased
  <2>6. DraftInv'
    BY <1>3, <2>1 DEF EndCycle, auditVars, Stated
  <2>7. LeasedWatermarkStands'
    BY Zenon, <1>1, <2>1, <2>4, StandsAsBefore DEF EndCycle, auditVars, Leased
  <2> QED
    BY <1>2, <2>5, <2>6, <2>7
<1>18. CASE CommitError
  BY <1>11, <1>15, <1>18 DEF CommitError, record_indexed_manifest_ipns_publication
<1>19. CASE CycleError
  BY SMTT(60), <1>5, <1>19 DEF CycleError
<1> QED
  BY <1>6, <1>7, <1>8, <1>9, <1>10, <1>12, <1>13, <1>14, <1>16, <1>17, <1>18, <1>19
  DEF PublisherNext

\* The IPNS task keeps LeaseInv: it drops requests or moves one, and adds none.
LEMMA IpnsLease ==
    ASSUME PublishInv, LeaseInv, IpnsTaskNext, UNCHANGED <<chainVars, indexerVars>>
    PROVE  LeaseInv'
<1>1. UNCHANGED <<progress, headers, ipc, job>>
  BY DEF indexerVars, storeVars
<1>2. UNCHANGED <<ppc, draft, seq, manifest>> /\ Requests' \subseteq Requests
  BY DEF IpnsTaskNext, DiscardRequests, StartPut, PutStored, PutFails,
     discard_unpublishable_pending, cycleVars, auditVars, Requests, NoRequest
<1>3. lease_is_out' => lease_is_out
  <2>1. NoRequest \notin Request
    BY MaxSequenceAssumption DEF NoRequest, Request, Sequence
  <2>2. NoRequest \notin queue' /\ NoRequest \notin queue
    BY <2>1, IpnsPublish DEF PublishInv, PublisherTypeOK
  <2>3. /\ (queue' # {} \/ putting' # NoRequest) => Requests' # {}
        /\ Requests # {} => (queue # {} \/ putting # NoRequest)
    BY SMTT(60), <2>2 DEF Requests
  <2> QED
    BY <1>2, <2>3 DEF lease_is_out
<1>4. GateInv' /\ DraftInv'
  BY ZenonT(60), <1>1, <1>2, <1>3 DEF LeaseInv, GateInv, DraftInv, Stated
<1>5. LeasedWatermarkStands'
  <2>1. ASSUME NEW parts PROVE validate_chain_snapshot(parts)' <=> validate_chain_snapshot(parts)
    BY <1>1 DEF validate_chain_snapshot
  <2>2. ppc' \in Leased \ {"validate"} => validate_chain_snapshot(draft)'
    BY <1>2, <2>1 DEF LeaseInv, LeasedWatermarkStands
  <2>3. ASSUME NEW q \in Requests' PROVE validate_chain_snapshot(manifest[q.seq])'
    <3>1. q \in Requests
      BY <1>2
    <3>2. validate_chain_snapshot(manifest[q.seq])
      BY <3>1 DEF LeaseInv, LeasedWatermarkStands, Requests
    <3> QED
      BY <1>1, <1>2, <3>2 DEF validate_chain_snapshot
  <2> QED
    BY <2>2, <2>3 DEF LeasedWatermarkStands, Requests
<1> QED
  BY <1>4, <1>5 DEF LeaseInv

\* A crash ends every lease.
LEMMA CrashLease ==
    ASSUME LeaseInv, Crash
    PROVE  LeaseInv'
<1>1. /\ ipc' = "idle" /\ ppc' = "idle" /\ seq' = 0 /\ draft' = NoDraft
      /\ queue' = {} /\ putting' = NoRequest /\ UNCHANGED manifest
  BY DEF Crash, EndCycle, auditVars
<1>2. GateInv'
  BY <1>1 DEF GateInv, Rewinding, Scanning
<1>3. DraftInv'
  <2>1. Stated(draft)' /\ \A t \in Sequence : Stated(manifest[t])'
    BY <1>1, NoDraftStated DEF LeaseInv, DraftInv, Stated
  <2> QED
    BY <1>1, <2>1 DEF DraftInv
<1>4. LeasedWatermarkStands'
  BY <1>1 DEF LeasedWatermarkStands, Leased
<1> QED
  BY <1>2, <1>3, <1>4 DEF LeaseInv

-----------------------------------------------------------------------------
(* The theorems. *)

IInv == PublishInv /\ ("index_commit" \notin FaultKinds => LeaseInv)

\* The initial state satisfies the inductive invariant.
LEMMA InitIInv == Init => IInv
BY InitPublish, InitLease DEF IInv

\* LeaseInv is not about the chain.
LEMMA SameLease ==
    ASSUME LeaseInv, UNCHANGED <<indexerVars, publisherVars>>
    PROVE  LeaseInv'
<1>1. UNCHANGED <<progress, headers, ipc, job, ppc, draft, seq, manifest, queue, putting>>
  BY DEF indexerVars, storeVars, publisherVars, cycleVars, auditVars, ipnsVars
<1>2. GateInv' /\ DraftInv'
  BY SMTT(60), <1>1 DEF LeaseInv, GateInv, DraftInv, Stated, lease_is_out
<1>3. LeasedWatermarkStands'
  BY <1>1 DEF LeaseInv, LeasedWatermarkStands, validate_chain_snapshot
<1> QED
  BY <1>2, <1>3 DEF LeaseInv

\* Every step keeps the inductive invariant, given the one of the index.
LEMMA NextIInv == IndexInv /\ IInv /\ [Next]_vars => IInv'
<1> SUFFICES ASSUME IndexInv, IInv, [Next]_vars PROVE IInv'
  OBVIOUS
<1>0. PublishInv
  BY DEF IInv
<1>1. CASE Indexer
  <2>1. IndexerNext(lease_is_out) /\ UNCHANGED <<chainVars, publisherVars>>
    BY <1>1 DEF Indexer
  <2> QED
    BY <1>0, <2>1, SamePublish, IndexerLease DEF IInv
<1>2. CASE Publisher
  <2>1. PublisherNext /\ UNCHANGED <<chainVars, indexerVars>>
    BY <1>2 DEF Publisher
  <2>2. PublishInv'
    BY <1>0, <2>1, BuildPublish, RecordPublish DEF PublisherNext
  <2> QED
    BY <1>0, <2>1, <2>2, PublisherLease DEF IInv
<1>3. CASE IpnsTask
  <2>1. IpnsTaskNext /\ UNCHANGED <<chainVars, indexerVars>>
    BY <1>3 DEF IpnsTask
  <2> QED
    BY <1>0, <2>1, IpnsPublish, IpnsLease DEF IInv
<1>4. CASE Crash
  BY <1>0, <1>4, IpnsPublish, CrashLease DEF IInv
<1>5. CASE Environment \/ UNCHANGED vars
  <2>1. UNCHANGED <<indexerVars, publisherVars>>
    BY <1>5 DEF Environment, vars
  <2>2. UNCHANGED publisherVars
    BY <2>1
  <2> QED
    BY <1>0, <2>1, <2>2, SamePublish, SameLease DEF IInv
<1> QED
  BY <1>1, <1>2, <1>3, <1>4, <1>5 DEF Next

\* The inductive invariant holds in every reachable state.
THEOREM Invariance == Spec => []IInv
BY InitIInv, NextIInv, IndexInvariance, PTL DEF Spec

\* The chain, the tables, the loop and the publication task keep their types.
THEOREM TypeCorrectness == Spec => []TypeOK
<1>1. IndexInv /\ IInv => TypeOK
  BY DEF IInv, IndexInv, PublishInv, TypeOK
<1> QED
  BY <1>1, Invariance, IndexInvariance, PTL

\* The name resolves to the active or the pending manifest, however long a put
\* outlives the cycle that asked for it.
THEOREM ResolvedKept == Spec => []ResolvedIsKept
<1>1. IInv => ResolvedIsKept
  BY DEF IInv, PublishInv
<1> QED
  BY <1>1, Invariance, PTL

\* No rewind takes effect between the validation of a manifest and the end of its put,
\* unless a commit of the index took effect and reported an error.
THEOREM WatermarksStand ==
    Spec => []("index_commit" \notin FaultKinds => LeasedWatermarkStands)
<1>1. IInv => ("index_commit" \notin FaultKinds => LeasedWatermarkStands)
  BY DEF IInv, LeaseInv
<1> QED
  BY <1>1, Invariance, PTL

=============================================================================
