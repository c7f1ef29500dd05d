--------------------------- MODULE PoiScheduler ---------------------------
(***************************************************************************)
(* PublicationScheduler (main.rs): one publish_cycle after another.  A      *)
(* cycle reconciles a pending manifest left by an earlier one, pins and     *)
(* records the artifacts of the current graph one by one, reserves a        *)
(* sequence, pins and records the manifest, publishes it under the IPNS     *)
(* name and records the activation.                                         *)
(*                                                                         *)
(* Every await is a point where the sweeper, the shutdown path or a crash   *)
(* may run; a database commit either succeeds, fails, or succeeds while the *)
(* client sees an error.  Which artifacts a cycle builds comes from the     *)
(* corpus and the clock: any nonempty set, in any order.                    *)
(***************************************************************************)
EXTENDS Audit, PinLifecycle

CONSTANT Clock \* the milliseconds unix_millis(now) may return, as sequence numbers

ASSUME ClockAssumption == Clock \subseteq Nat

VARIABLES
    pc,     \* where the publication task is
    cid,    \* the CID being pinned and recorded under the gate
    built,  \* artifacts of this cycle's graph recorded so far
    seq,    \* sequence of the manifest in hand, 0 when there is none
    last,   \* last_poi_artifact_manifest_cid (and its graph hash), 0 for None
    flags   \* which of manifest_needs_publish, publication_state_loaded are set

cycleVars == <<pc, cid, built, seq>>
memoryVars == <<last, flags>>
schedulerVars == <<pc, cid, built, seq, last, flags>>

AtGate == {"pin", "record", "cleanup"}
BeforeGate == {"reconcile", "build", "waiting", "reserve", "manifest"}
AfterGate == {"check", "put", "await", "activate"}

SchedulerTypeOK ==
    /\ pc \in {"idle", "exited"} \cup AtGate \cup BeforeGate \cup AfterGate
    /\ cid \in CID \cup {0}
    /\ built \in SUBSET Artifact
    /\ seq \in 0..MaxSequence
    /\ last \in 0..MaxSequence
    /\ flags \in SUBSET {"needs_publish", "loaded"}

SchedulerStart ==
    /\ pc = "idle"
    /\ cid = 0
    /\ built = {}
    /\ seq = 0
    /\ last = 0
    /\ flags = {"needs_publish"}

\* The cycle is over, by return or by error; the locals are gone.
EndCycle ==
    /\ pc' = "idle"
    /\ cid' = 0
    /\ built' = {}
    /\ seq' = 0

Goto(l) ==
    /\ pc' = l
    /\ UNCHANGED <<cid, built, seq>>

\* Leave the section guarded by the gate with the error of the call that failed.
FailAtGate ==
    /\ EndCycle
    /\ unlock("publisher")
    /\ UNCHANGED <<memoryVars, phase>>

-----------------------------------------------------------------------------
\* The tick of delta_publish_interval; a requested shutdown ends the task instead.
StartCycle ==
    /\ pc = "idle"
    /\ ~shutdown_requested
    /\ Goto("reconcile")
    /\ UNCHANGED <<providerVars, auditVars, lifecycleVars, memoryVars>>

StopTask ==
    /\ pc = "idle"
    /\ Up /\ shutdown_requested
    /\ Goto("exited")
    /\ UNCHANGED <<providerVars, auditVars, lifecycleVars, memoryVars>>

\* A read, transaction or IPNS request outside the gate fails, or
\* ensure_publication_running finds the shutdown flag: the cycle returns Err.
FailCycle ==
    /\ pc \in BeforeGate \cup AfterGate
    /\ Up
    /\ IF shutdown_requested /\ pc # "activate"
       THEN UNCHANGED faults
       ELSE Fault(IF pc = "await" THEN "ipns" ELSE "database")
    /\ EndCycle
    /\ UNCHANGED <<providerVars, auditVars, gate, ownershipVars, phase, memoryVars>>

-----------------------------------------------------------------------------
(* reconcile_pending_poi_publications and load_durable_publication_state.  *)

load_durable_publication_state ==
    /\ last' \in 0..MaxSequence
    /\ active_poi_artifact_manifest_publication(last')
    /\ flags' = IF last' = 0 THEN {"needs_publish", "loaded"} ELSE {"loaded"}

ReconcileNone ==
    /\ pc = "reconcile"
    /\ Pending = {}
    /\ ~shutdown_requested
    /\ IF "loaded" \in flags THEN UNCHANGED memoryVars ELSE load_durable_publication_state
    /\ Goto("build")
    /\ UNCHANGED <<providerVars, auditVars, lifecycleVars>>

\* The first CID of the pending graph the provider does not hold, artifacts first.
unavailable(s, c) ==
    /\ c \in Required(s)
    /\ ~contains(c)
    /\ c = s => \A a \in graph[s] : contains(a)

\* Mutant: an unavailable CID fails the cycle and leaves the manifest pending.
ReconcileGivesUp(s, c) ==
    /\ pc = "reconcile"
    /\ Pending = {s}
    /\ unavailable(s, c)
    /\ EndCycle
    /\ UNCHANGED <<providerVars, auditVars, lifecycleVars, memoryVars>>

ReconcileAbandon(s, c) ==
    /\ pc = "reconcile"
    /\ Pending = {s}
    /\ unavailable(s, c)
    /\ abandon_pending_poi_v4_manifest_reconciliation(s, c)
    /\ last' \in 0..MaxSequence
    /\ active_poi_artifact_manifest_publication(last')
    /\ flags' = {"needs_publish", "loaded"}
    /\ Goto("build")
    /\ UNCHANGED <<providerVars, lifecycleVars>>

\* The abandonment commits, but the commit or the reload after it reports an error.
ReconcileAbandonError(s, c) ==
    /\ pc = "reconcile"
    /\ Pending = {s}
    /\ unavailable(s, c)
    /\ abandon_pending_poi_v4_manifest_reconciliation(s, c)
    /\ Fault("database")
    /\ EndCycle
    /\ UNCHANGED <<providerVars, gate, ownershipVars, phase, memoryVars>>

ReconcileAvailable(s) ==
    /\ pc = "reconcile"
    /\ Pending = {s}
    /\ \A c \in Required(s) : contains(c)
    /\ pc' = "put"
    /\ seq' = s
    /\ UNCHANGED <<cid, built, providerVars, auditVars, lifecycleVars, memoryVars>>

-----------------------------------------------------------------------------
(* publish_poi_event_artifact, publish_poi_checkpoint_catalog and           *)
(* publish_poi_blocked_shields share one pattern: under the gate, reuse the *)
(* live row when the provider still holds its CID, else pin with a lease.   *)

ChooseArtifact(a) ==
    /\ pc = "build"
    /\ a \notin built
    /\ ~shutdown_requested
    /\ pc' = "waiting"
    /\ cid' = a
    /\ UNCHANGED <<built, seq, providerVars, auditVars, lifecycleVars, memoryVars>>

\* The shutdown flag is not read again on this path.
ReuseArtifact ==
    /\ pc = "waiting"
    /\ Up
    /\ lock("publisher")
    /\ cid \in live /\ contains(cid)
    /\ Goto("record")
    /\ UNCHANGED <<providerVars, auditVars, ownershipVars, phase, faults, memoryVars>>

AcquireArtifact ==
    /\ pc = "waiting"
    /\ ~shutdown_requested
    /\ lock("publisher")
    /\ ~(cid \in live /\ contains(cid))
    /\ try_acquire_pin_ownership
    /\ Goto("pin")
    /\ UNCHANGED <<providerVars, auditVars, phase, faults, memoryVars>>

\* publish_poi_manifests rechecks the shutdown flag once the manifest is pinned.
Pin ==
    /\ pc = "pin"
    /\ pin_bytes(cid)
    /\ Goto(IF cid = seq /\ shutdown_requested THEN "cleanup" ELSE "record")
    /\ UNCHANGED <<auditVars, lifecycleVars, memoryVars>>

\* The provider may have stored the object it reports an error for.
PinError ==
    /\ pc = "pin"
    /\ Fault("provider")
    /\ settle
    /\ FailAtGate
    /\ pin_bytes(cid) \/ UNCHANGED providerVars
    /\ UNCHANGED auditVars

RecordArtifact ==
    /\ pc = "record"
    /\ cid # seq
    /\ record_poi_artifact_pin(cid)
    /\ settle
    /\ unlock("publisher")
    /\ pc' = "build"
    /\ built' = built \cup {cid}
    /\ cid' = 0
    /\ UNCHANGED <<seq, providerVars, phase, faults, memoryVars>>

\* The audit transaction fails, or commits and reports an error.  A reused
\* artifact has no lease and needs no cleanup.
RecordError ==
    /\ pc = "record"
    /\ Fault("database")
    /\ IF cid = seq THEN \/ record_poi_artifact_manifest_pin(seq, built)
                         \/ UNCHANGED auditVars
                    ELSE record_poi_artifact_pin(cid) \/ UNCHANGED auditVars
    /\ IF lease = "held"
       THEN /\ Goto("cleanup")
            /\ UNCHANGED <<gate, phase, memoryVars>>
       ELSE FailAtGate
    /\ UNCHANGED <<providerVars, ownershipVars>>

-----------------------------------------------------------------------------
(* cleanup_uncommitted_pin_while_locked. *)

CleanupPreserve ==
    /\ pc = "cleanup"
    /\ publication_cid_is_referenced(cid)
    /\ settle
    /\ FailAtGate
    /\ UNCHANGED <<providerVars, auditVars, faults>>

CleanupUnpin ==
    /\ pc = "cleanup"
    /\ ~publication_cid_is_referenced(cid)
    /\ unpin(cid)
    /\ settle
    /\ FailAtGate
    /\ UNCHANGED <<auditVars, faults>>

\* The reference check fails, or the unpin does, which may have taken effect.
cleanup_fails ==
    \/ UNCHANGED providerVars
    \/ ~publication_cid_is_referenced(cid) /\ unpin(cid)

\* Mutant: a failed cleanup settles its lease without recording the debt.
CleanupForgets ==
    /\ pc = "cleanup"
    /\ Fault("database") \/ Fault("provider")
    /\ cleanup_fails
    /\ settle
    /\ FailAtGate
    /\ UNCHANGED auditVars

\* The cleanup fails, and the debt is recorded.
CleanupDebt ==
    /\ pc = "cleanup"
    /\ Fault("database") \/ Fault("provider")
    /\ cleanup_fails
    /\ record_pin_cleanup_debt(cid)
    /\ settle
    /\ FailAtGate

\* ... and recording the debt reports an error: the lease is dropped unsettled.
CleanupDebtError ==
    /\ pc = "cleanup"
    /\ Fault("database")
    /\ cleanup_fails
    /\ record_pin_cleanup_debt(cid) \/ UNCHANGED auditVars
    /\ drop_unsettled
    /\ FailAtGate

-----------------------------------------------------------------------------
(* publish_cycle once the graph is built, and publish_poi_manifests. *)

\* `due' is should_republish_ipns, a matter of elapsed time.
needs_publication(due) ==
    \/ "needs_publish" \in flags
    \/ last = 0
    \/ graph[last] # built
    \/ due
    \/ ~contains(last)

FinishGraph(due) ==
    /\ pc = "build"
    /\ built # {}
    /\ ~shutdown_requested
    /\ due => last # 0
    /\ IF needs_publication(due) THEN Goto("reserve") ELSE EndCycle
    /\ UNCHANGED <<providerVars, auditVars, lifecycleVars, memoryVars>>

ReserveSequence(now) ==
    /\ pc = "reserve"
    /\ reserve_poi_publication_sequence(now)
    /\ pc' = "manifest"
    /\ seq' = state_sequence'
    /\ UNCHANGED <<cid, built, providerVars, lifecycleVars, memoryVars>>

AcquireManifest ==
    /\ pc = "manifest"
    /\ ~shutdown_requested
    /\ lock("publisher")
    /\ try_acquire_pin_ownership
    /\ pc' = "pin"
    /\ cid' = seq
    /\ UNCHANGED <<built, seq, providerVars, auditVars, phase, faults, memoryVars>>

RecordManifest ==
    /\ pc = "record"
    /\ cid = seq
    /\ record_poi_artifact_manifest_pin(seq, built)
    /\ settle
    /\ unlock("publisher")
    /\ Goto("check")
    /\ UNCHANGED <<providerVars, phase, faults, memoryVars>>

\* An artifact of the graph was swept since this cycle recorded it.
RefuseManifest ==
    /\ pc = "record"
    /\ cid = seq
    /\ ~manifest_is_recordable(built)
    /\ Goto("cleanup")
    /\ UNCHANGED <<providerVars, auditVars, lifecycleVars, memoryVars>>

-----------------------------------------------------------------------------
(* publish_poi_ipns and record_v4_ipns, shared with the reconciliation. *)

CheckAvailable ==
    /\ pc = "check"
    /\ ~shutdown_requested
    /\ IF \A c \in built \cup {seq} : contains(c) THEN Goto("put") ELSE EndCycle
    /\ UNCHANGED <<providerVars, auditVars, lifecycleVars, memoryVars>>

PublishIpns ==
    /\ pc = "put"
    /\ publish_manifest_cid(seq)
    /\ Goto("await")
    /\ UNCHANGED <<auditVars, lifecycleVars, memoryVars>>

\* Mutant: any answer of the IPNS task counts as success.
IpnsAnswered ==
    /\ pc = "await"
    /\ ~shutdown_requested
    /\ Goto("activate")
    /\ UNCHANGED <<providerVars, auditVars, lifecycleVars, memoryVars>>

\* A peer has stored the record, and the task still runs.
IpnsPublished ==
    /\ pc = "await"
    /\ resolved >= seq
    /\ ~shutdown_requested
    /\ Goto("activate")
    /\ UNCHANGED <<providerVars, auditVars, lifecycleVars, memoryVars>>

record_v4_ipns ==
    /\ pc = "activate"
    /\ record_poi_artifact_manifest_ipns_publication(seq)
    /\ last' = seq
    /\ flags' = {"loaded"}
    /\ EndCycle
    /\ UNCHANGED <<providerVars, lifecycleVars>>

\* The activation commits and reports an error; memory keeps the older state.
ActivateError ==
    /\ pc = "activate"
    /\ Fault("database")
    /\ record_poi_artifact_manifest_ipns_publication(seq)
    /\ EndCycle
    /\ UNCHANGED <<providerVars, gate, ownershipVars, phase, memoryVars>>

-----------------------------------------------------------------------------
SchedulerNext ==
    \/ StartCycle \/ StopTask \/ FailCycle
    \/ ReconcileNone
    \/ \E s \in Sequence : ReconcileAvailable(s)
    \/ \E s \in Sequence, c \in CID : ReconcileAbandon(s, c)
    \/ \E s \in Sequence, c \in CID : ReconcileAbandonError(s, c)
    \/ \E a \in Artifact : ChooseArtifact(a)
    \/ ReuseArtifact \/ AcquireArtifact
    \/ Pin \/ PinError \/ RecordArtifact \/ RecordError
    \/ CleanupPreserve \/ CleanupUnpin \/ CleanupDebt \/ CleanupDebtError
    \/ \E due \in BOOLEAN : FinishGraph(due)
    \/ \E now \in Clock : ReserveSequence(now)
    \/ AcquireManifest \/ RecordManifest \/ RefuseManifest
    \/ CheckAvailable \/ PublishIpns \/ IpnsPublished
    \/ record_v4_ipns \/ ActivateError

=============================================================================
