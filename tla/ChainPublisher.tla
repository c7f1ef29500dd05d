--------------------------- MODULE ChainPublisher ---------------------------
(***************************************************************************)
(* ChainIndexedPublicationScheduler (chain_indexed.rs) and the leased       *)
(* requests of the IPNS publisher task (publish/ipns.rs), beside the        *)
(* indexing loop of the same chain.                                         *)
(*                                                                         *)
(* A cycle reads the watermark of each dataset and then the rows of each    *)
(* dataset up to it, without a lease; it then takes a publication lease,    *)
(* compares the watermarks with the stored headers, records the manifest    *)
(* and publishes it.  A clone of the lease travels with the IPNS request    *)
(* and stays with it after the caller has given up.  Pins, gate and         *)
(* ownership follow the POI channel (PoiScheduler) and are left out here.   *)
(***************************************************************************)
EXTENDS ChainIndexer

CONSTANT MaxSequence \* bound: the highest manifest sequence number

ASSUME MaxSequenceAssumption == MaxSequence \in Nat

VARIABLES
    ppc,      \* where the publication task is
    step,     \* the dataset it reads next
    draft,    \* the manifest entry in hand, one [block, hash, content] per dataset
    seq,      \* sequence of the manifest in hand, 0 when there is none
    sequence, \* indexer_state: the last reserved chain-indexed sequence
    manifest, \* published_indexed_manifests: what each sequence's manifest says
    pending,  \* the manifest without ipns_published_at, 0 when there is none
    active,   \* the active manifest, 0 when there is none
    queue,    \* requests waiting in the IPNS publisher task
    putting,  \* the request whose put_record is under way, NoRequest when there is none
    answer,   \* what the IPNS task told the waiting cycle
    resolved  \* the manifest the name resolves to, 0 before the first

cycleVars == <<ppc, step, draft, seq>>
auditVars == <<sequence, manifest, pending, active>>
ipnsVars == <<queue, putting, answer, resolved>>
publisherVars == <<cycleVars, auditVars, ipnsVars>>
vars == <<chainVars, indexerVars, faults, publisherVars>>

Dataset == 1..2
Sequence == 1..MaxSequence

\* A dataset's part of a manifest: its watermark and the blocks its rows come from.
Part == [block : 0..MaxHeight, hash : Branch \cup {Absent}, content : SUBSET (Block \X Branch)]

NoPart == [block |-> 0, hash |-> Absent, content |-> {}]
NoDraft == [d \in Dataset |-> NoPart]

\* PublishRequest: the manifest, and whether the cycle still waits for the response.
Request == [seq : Sequence, caller : {"waiting", "gone"}]

NoRequest == [seq |-> 0, caller |-> "gone"]

\* The cycle holds its publication lease.
Leased == {"validate", "record", "put", "await", "activate"}

PublisherTypeOK ==
    /\ ppc \in {"idle", "heights", "rows", "check", "lease"} \cup Leased
    /\ step \in Dataset
    /\ draft \in [Dataset -> Part]
    /\ seq \in 0..MaxSequence
    /\ sequence \in 0..MaxSequence
    /\ manifest \in [Sequence -> [Dataset -> Part]]
    /\ pending \in 0..MaxSequence
    /\ active \in 0..MaxSequence
    /\ queue \in SUBSET Request
    /\ putting \in Request \cup {NoRequest}
    /\ answer \in {"none", "published", "failed"}
    /\ resolved \in 0..MaxSequence

StartPublisher ==
    /\ ppc = "idle"
    /\ step = 1
    /\ draft = NoDraft
    /\ seq = 0
    /\ queue = {}
    /\ putting = NoRequest
    /\ answer = "none"

PublisherInit ==
    /\ StartPublisher
    /\ sequence = 0
    /\ manifest = [s \in Sequence |-> NoDraft]
    /\ pending = 0
    /\ active = 0
    /\ resolved = 0

\* A publication lease is out: the cycle's own, or the clone in a request.
lease_is_out == ppc \in Leased \/ queue # {} \/ putting # NoRequest

EndCycle ==
    /\ ppc' = "idle"
    /\ step' = 1
    /\ draft' = NoDraft
    /\ seq' = 0

-----------------------------------------------------------------------------
(* publish_chain_entry: watermarks, then rows, dataset by dataset. *)

StartCycle ==
    /\ ppc = "idle"
    /\ pending = 0
    /\ sequence < MaxSequence
    /\ progress.block > 0
    /\ ppc' = "heights"
    /\ UNCHANGED <<step, draft, seq, auditVars, ipnsVars, faults>>

\* The next dataset, or after the last one the next stage of the cycle.
NextDataset(stage) ==
    IF step + 1 \in Dataset
    THEN step' = step + 1 /\ UNCHANGED ppc
    ELSE step' = 1 /\ ppc' = stage

latest_indexed_heights ==
    /\ ppc = "heights"
    /\ draft' = [draft EXCEPT ![step] =
          [block |-> progress.block, hash |-> progress.hash, content |-> {}]]
    /\ NextDataset("rows")
    /\ UNCHANGED <<seq, auditVars, ipnsVars, faults>>

ReadRows ==
    /\ ppc = "rows"
    /\ draft' = [draft EXCEPT ![step].content =
          {e \in Block \X Branch : e[1] <= draft[step].block /\ e[2] \in rows[e[1]]}]
    /\ NextDataset("check")
    /\ UNCHANGED <<seq, auditVars, ipnsVars, faults>>

\* validate_publication_watermark for each dataset that has a watermark.
validate_chain_snapshot(parts) ==
    \A d \in Dataset :
        parts[d].block > 0 => headers[parts[d].block] = parts[d].hash

\* A chain without a watermark has no catalog and ends the cycle too.
CheckSnapshot ==
    /\ ppc = "check"
    /\ IF validate_chain_snapshot(draft) /\ draft # NoDraft
       THEN ppc' = "lease" /\ UNCHANGED <<step, draft, seq>>
       ELSE EndCycle
    /\ UNCHANGED <<auditVars, ipnsVars, faults>>

-----------------------------------------------------------------------------
(* publish_cycle and reconcile_pending_manifest_with, under the lease. *)

Reconcile ==
    /\ ppc = "idle"
    /\ pending # 0
    /\ ppc' = "lease"
    /\ seq' = pending
    /\ draft' = manifest[pending]
    /\ UNCHANGED <<step, auditVars, ipnsVars, faults>>

\* Mutant: a publication overtakes a waiting rewind.
overtake_rewind ==
    /\ ppc = "lease"
    /\ ipc \notin Rewinding
    /\ ppc' = "validate"
    /\ UNCHANGED <<step, draft, seq, auditVars, ipnsVars, faults>>

\* publication_lease: tokio's RwLock queues a reader behind a waiting writer.
TakePublicationLease ==
    /\ ppc = "lease"
    /\ ipc \notin Rewinding \cup {"lease"}
    /\ ppc' = "validate"
    /\ UNCHANGED <<step, draft, seq, auditVars, ipnsVars, faults>>

\* Mutant: a pending manifest whose watermark was rewound is given up.
abandon_rewound ==
    /\ ppc = "validate"
    /\ IF ~validate_chain_snapshot(draft)
       THEN EndCycle /\ UNCHANGED sequence /\ pending' = 0
       ELSE /\ IF seq = 0
               THEN ppc' = "record" /\ seq' = sequence + 1 /\ sequence' = seq'
               ELSE ppc' = "put" /\ UNCHANGED <<seq, sequence>>
            /\ UNCHANGED <<step, draft, pending>>
    /\ UNCHANGED <<manifest, active, ipnsVars, faults>>

\* A new manifest reserves its sequence; a pending one is published as it is.
validate_combined_manifest_snapshot ==
    /\ ppc = "validate"
    /\ IF ~validate_chain_snapshot(draft)
       THEN EndCycle /\ UNCHANGED sequence
       ELSE /\ IF seq = 0
               THEN ppc' = "record" /\ seq' = sequence + 1 /\ sequence' = seq'
               ELSE ppc' = "put" /\ UNCHANGED <<seq, sequence>>
            /\ UNCHANGED <<step, draft>>
    /\ UNCHANGED <<manifest, pending, active, ipnsVars, faults>>

record_indexed_manifest_pin ==
    /\ pending' = seq
    /\ manifest' = [manifest EXCEPT ![seq] = draft]
    /\ UNCHANGED <<sequence, active>>

\* reject_unresolved_pending ends the cycle.
RecordManifest ==
    /\ ppc = "record"
    /\ IF pending = 0
       THEN /\ record_indexed_manifest_pin
            /\ ppc' = "put"
            /\ UNCHANGED <<step, draft, seq>>
       ELSE EndCycle /\ UNCHANGED auditVars
    /\ UNCHANGED <<ipnsVars, faults>>

publish_manifest_cid_with_lease ==
    /\ ppc = "put"
    /\ queue' = queue \cup {[seq |-> seq, caller |-> "waiting"]}
    /\ answer' = "none"
    /\ ppc' = "await"
    /\ UNCHANGED <<step, draft, seq, auditVars, putting, resolved, faults>>

IpnsPublished ==
    /\ ppc = "await"
    /\ answer = "published"
    /\ ppc' = "activate"
    /\ answer' = "none"
    /\ UNCHANGED <<step, draft, seq, auditVars, queue, putting, resolved, faults>>

record_indexed_manifest_ipns_publication ==
    /\ active' = seq
    /\ pending' = 0
    /\ UNCHANGED <<sequence, manifest>>

Activate ==
    /\ ppc = "activate"
    /\ record_indexed_manifest_ipns_publication
    /\ EndCycle
    /\ UNCHANGED <<ipnsVars, faults>>

\* The cycle has dropped the receiver of the response.
Abandoned(request) == [request EXCEPT !.caller = "gone"]

\* The IPNS task reports an error, or the deadline passes first.
IpnsFails ==
    /\ ppc = "await"
    /\ answer # "published"
    /\ IF answer = "failed" THEN UNCHANGED faults ELSE Fault("ipns")
    /\ answer' = "none"
    /\ EndCycle
    /\ queue' = {Abandoned(q) : q \in queue}
    /\ putting' = Abandoned(putting)
    /\ UNCHANGED <<auditVars, resolved>>

\* A commit takes effect and reports an error.
CommitError ==
    /\ Fault("audit_commit")
    /\ \/ ppc = "record" /\ pending = 0 /\ record_indexed_manifest_pin
       \/ ppc = "activate" /\ record_indexed_manifest_ipns_publication
    /\ EndCycle
    /\ UNCHANGED ipnsVars

\* Any other call of the cycle fails.
CycleError ==
    /\ ppc \notin {"idle", "lease", "await"}
    /\ Fault("call")
    /\ EndCycle
    /\ UNCHANGED <<auditVars, ipnsVars>>

-----------------------------------------------------------------------------
(* IpnsPublisherTask: maybe_start_publish, handle_swarm_event. *)

\* Requests nobody waits for are dropped, and their leases with them.
discard_unpublishable_pending == {q \in queue : q.caller = "waiting"}

\* maybe_start_publish returns early: a put is under way, no peer is connected,
\* the retry delay has not passed, or nothing is left.
DiscardRequests ==
    /\ discard_unpublishable_pending # queue
    /\ queue' = discard_unpublishable_pending
    /\ UNCHANGED <<putting, answer, resolved, cycleVars, auditVars, faults>>

StartPut(q) ==
    /\ q.caller = "waiting"
    /\ putting = NoRequest
    /\ queue' = discard_unpublishable_pending \ {q}
    /\ putting' = q
    /\ UNCHANGED <<answer, resolved, cycleVars, auditVars, faults>>

\* respond: the answer is lost when nobody waits for it.
respond(result) == answer' = IF putting.caller = "waiting" THEN result ELSE answer

\* put_record succeeds: a peer has stored the record; resolvers keep the highest.
PutStored ==
    /\ putting # NoRequest
    /\ resolved' = Larger(resolved, putting.seq)
    /\ respond("published")
    /\ putting' = NoRequest
    /\ UNCHANGED <<queue, cycleVars, auditVars, faults>>

\* put_record fails, though a peer may have stored the record: the request is
\* queued again before its deadline, else answered with an error.
PutFails ==
    /\ putting # NoRequest
    /\ Fault("ipns")
    /\ resolved' \in {resolved, Larger(resolved, putting.seq)}
    /\ \/ /\ putting.caller = "waiting"
          /\ queue' = queue \cup {putting}
          /\ UNCHANGED answer
       \/ /\ respond("failed")
          /\ UNCHANGED queue
    /\ putting' = NoRequest
    /\ UNCHANGED <<cycleVars, auditVars>>

-----------------------------------------------------------------------------
PublisherNext ==
    \/ StartCycle \/ latest_indexed_heights \/ ReadRows \/ CheckSnapshot
    \/ Reconcile \/ TakePublicationLease \/ validate_combined_manifest_snapshot
    \/ RecordManifest \/ publish_manifest_cid_with_lease
    \/ IpnsPublished \/ Activate
    \/ IpnsFails \/ CommitError \/ CycleError

IpnsTaskNext ==
    \/ DiscardRequests
    \/ \E q \in queue : StartPut(q)
    \/ PutStored \/ PutFails

\* The process is killed and started again: only the tables and the name remain.
\* A record whose put was under way may be stored.
Crash ==
    /\ Fault("crash")
    /\ ipc' = "idle" /\ caught_up' = "historical"
    /\ span' = MaxBlocksPerBatch /\ max_span' = MaxBlocksPerBatch /\ job' = NoJob
    /\ EndCycle
    /\ queue' = {} /\ putting' = NoRequest /\ answer' = "none"
    /\ resolved' \in {resolved, Larger(resolved, putting.seq)}
    /\ UNCHANGED <<chainVars, storeVars, auditVars>>

Init == ChainInit /\ IndexerInit /\ PublisherInit

Indexer == IndexerNext(lease_is_out) /\ UNCHANGED <<chainVars, publisherVars>>
Publisher == PublisherNext /\ UNCHANGED <<chainVars, indexerVars>>
IpnsTask == IpnsTaskNext /\ UNCHANGED <<chainVars, indexerVars>>
Environment == ChainNext /\ UNCHANGED <<indexerVars, faults, publisherVars>>

Next == Indexer \/ Publisher \/ IpnsTask \/ Environment \/ Crash

Spec == Init /\ [][Next]_vars

-----------------------------------------------------------------------------
TypeOK == ChainTypeOK /\ IndexerTypeOK /\ PublisherTypeOK

\* The stored rows cover every block from the first to the recorded progress and
\* none above it, through rewinds, retried batches, fallbacks and crashes.
IndexedWithoutGaps ==
    \A b \in Block : rows[b] # {} <=> b <= progress.block

\* The recorded progress always names a stored header with the same hash, and no
\* header lies above it: the watermark a publication reads can be validated.
ProgressHasHeader ==
    /\ progress.block > 0 => headers[progress.block] = progress.hash
    /\ \A b \in Block : b > progress.block => headers[b] = Absent

\* While a manifest is being published under a lease, the headers its watermarks
\* name stand: no rewind takes effect between the validation and the end of the
\* put, also when the cycle gave up waiting or the request is retried.
LeasedWatermarkStands ==
    /\ ppc \in Leased \ {"validate"} => validate_chain_snapshot(draft)
    /\ \A q \in (queue \cup {putting}) \ {NoRequest} : validate_chain_snapshot(manifest[q.seq])

\* The name resolves to the active or to the pending manifest, which retention
\* keeps: a put that outlives its cycle never brings back an older one.
ResolvedIsKept == resolved # 0 => resolved \in {active, pending}

\* Reorganisations no deeper than safe_confirmations never reach an indexed block, as
\* long as the providers keep up.
IndexedIsCanonical ==
    (network.depth <= SafeConfirmations /\ network.lagging = {}) =>
        \A b \in Block : rows[b] \subseteq {Hash(b, tip.branch)}

\* The datasets of a manifest that reaches the DHT belong together: two of them with
\* the same watermark hold the rows of the same blocks.
PublishedDatasetsAgree ==
    resolved # 0 =>
        \A d, e \in Dataset :
            manifest[resolved][d].block = manifest[resolved][e].block =>
                manifest[resolved][d].content = manifest[resolved][e].content

-----------------------------------------------------------------------------
(* Liveness: every task keeps being scheduled, a put ends one way or the    *)
(* other, and a lagging provider catches up.                                *)

Fairness ==
    /\ WF_vars(Indexer)
    /\ WF_vars(Publisher)
    /\ WF_vars(IpnsTask)
    /\ \A p \in Provider : WF_vars(CatchUp(p) /\ UNCHANGED <<indexerVars, faults, publisherVars>>)

FairSpec == Spec /\ Fairness

\* The index catches up with the chain, whatever it went through before.
IndexCatchesUp ==
    []<>(progress.block >= Monus(tip.height, SafeConfirmations))

\* A detected reorganisation is not held up by publications for ever.
RewindIsNotStarved == ipc = "lease" ~> ipc # "lease"

\* A manifest whose publication failed is published by a later cycle.
PendingIsPublished == pending # 0 ~> pending = 0

=============================================================================
