----------------------------- MODULE PoiDaemon -----------------------------
(***************************************************************************)
(* run_background_tasks and its drain (main.rs) around the POI publication  *)
(* task and the retention task, with crashes, restarts and the operator's   *)
(* recovery command in between.  The other tasks join the drain without     *)
(* touching this state.                                                     *)
(***************************************************************************)
EXTENDS PoiScheduler, Retention

vars == <<providerVars, auditVars, lifecycleVars, schedulerVars, retentionVars>>

TypeOK ==
    /\ ProviderTypeOK
    /\ AuditTypeOK
    /\ LifecycleTypeOK
    /\ SchedulerTypeOK
    /\ RetentionTypeOK

Init ==
    /\ ProviderInit
    /\ AuditInit
    /\ LifecycleInit
    /\ SchedulerStart
    /\ RetentionStart

-----------------------------------------------------------------------------
\* Tasks and their memory are gone; the gate they held with them.
KillTasks ==
    /\ pc' = "idle" /\ cid' = 0 /\ built' = {} /\ seq' = 0
    /\ last' = 0 /\ flags' = {"needs_publish"}
    /\ spc' = "idle" /\ todo' = {} /\ target' = 0
    /\ gate' = "free"
    /\ old' = {}
    /\ UNCHANGED <<live, manifest, graph, debt, state_sequence>>

\* A signal, or the first task to exit: stop_new_pin_ownership, then the flag.
RequestShutdown ==
    /\ phase = "running"
    /\ phase' = "draining"
    /\ admission' = "closed"
    /\ UNCHANGED <<gate, active, lease, faults, providerVars, auditVars, schedulerVars, retentionVars>>

AllJoined == pc = "exited" /\ spc = "exited"

\* tasks.join_next() yields None before the deadline.
DrainJoined ==
    /\ phase = "draining"
    /\ AllJoined
    /\ phase' = "exited"
    /\ KillTasks
    /\ UNCHANGED <<ownershipVars, faults, providerVars>>

\* BACKGROUND_TASK_FINAL_DRAIN_TIMEOUT.
DrainDeadline ==
    /\ phase = "draining"
    /\ ~AllJoined
    /\ phase' = "overdue"
    /\ UNCHANGED <<gate, ownershipVars, faults, providerVars, auditVars, schedulerVars, retentionVars>>

\* Mutant: abort_all as soon as the deadline has passed.
AbortAtDeadline ==
    /\ phase = "overdue"
    /\ phase' = "exited"
    /\ KillTasks
    /\ UNCHANGED <<ownershipVars, faults, providerVars>>

\* wait_for_no_pin_owners, then abort_all.
DrainAbort ==
    /\ phase = "overdue"
    /\ active = 0
    /\ phase' = "exited"
    /\ KillTasks
    /\ UNCHANGED <<ownershipVars, faults, providerVars>>

\* Killed; a process that overstays its drain is killed sooner or later.
Crash ==
    /\ Up
    /\ phase' = "crashed"
    /\ IF phase = "overdue" THEN UNCHANGED faults ELSE Fault("crash")
    /\ KillTasks
    /\ admission' = "closed" /\ active' = 0 /\ lease' = "none"
    /\ UNCHANGED providerVars

Restart ==
    /\ ~Up
    /\ phase' = "running"
    /\ admission' = "open" /\ active' = 0 /\ lease' = "none"
    /\ UNCHANGED <<gate, faults, providerVars, auditVars, schedulerVars, retentionVars>>

\* --invalidate-pending-poi-manifest; the advisory lock keeps the daemon out.
InvalidatePending(s) ==
    /\ ~Up
    /\ Pending = {s}
    /\ invalidate_pending_poi_manifest_reconciliation(s)
    /\ UNCHANGED <<live, graph, debt, old, providerVars, lifecycleVars, schedulerVars, retentionVars>>

-----------------------------------------------------------------------------
\* The provider loses a pin: quota, a cleared bucket, an outage.
ProviderLoses(c) ==
    /\ c \in held
    /\ Fault("loss")
    /\ held' = held \ {c}
    /\ UNCHANGED <<removed, resolved, inflight, auditVars, gate, ownershipVars, phase, schedulerVars, retentionVars>>

DhtStores(s) ==
    /\ IpnsLands(s)
    /\ UNCHANGED <<auditVars, lifecycleVars, schedulerVars, retentionVars>>

-----------------------------------------------------------------------------
DaemonNext ==
    \/ RequestShutdown \/ DrainJoined \/ DrainDeadline \/ DrainAbort
    \/ Crash \/ Restart
    \/ \E s \in Sequence : InvalidatePending(s)

Next ==
    \/ SchedulerNext /\ UNCHANGED retentionVars
    \/ RetentionNext /\ UNCHANGED schedulerVars
    \/ DaemonNext
    \/ \E c \in CID : ProviderLoses(c)
    \/ \E s \in Sequence : DhtStores(s)

Spec == Init /\ [][Next]_vars

-----------------------------------------------------------------------------
(* Safety. *)

\* What the IPNS name resolves to stays retrievable: no retention sweep, debt
\* retry or cleanup has unpinned the resolved manifest or an artifact of its
\* graph, whatever the database believes about that manifest.
ResolvedGraphRetained ==
    resolved # 0 => Required(resolved) \cap removed = {}

\* A CID of an unsuperseded manifest (active, pending or abandoned but perhaps
\* on the DHT) is never the one being unpinned, although the sweep lists its
\* candidates without the gate and the publication task records manifests in
\* between.
UnpinSparesUnsuperseded ==
    [][\A c \in removed' \ removed : \A s \in Sequence :
          Unsuperseded(s) => c \notin Required(s)]_vars

\* The unresolved pending manifest is the only one and outranks every manifest
\* recorded and every record the DHT holds or may still store: republishing it
\* after a restart can never move the name backwards.
PendingIsNewest ==
    \A s \in Pending :
        /\ \A t \in Sequence : manifest[t] # "none" => t <= s
        /\ \A t \in inflight \cup {resolved} : t <= s

\* At most one manifest is active, and the name resolves to it or to a newer one:
\* the database never activates what the DHT does not have.
ActiveIsPublished ==
    \A s \in ActiveManifests :
        /\ s <= resolved
        /\ ActiveManifests = {s}

\* The name never resolves to a manifest that the database has superseded, which
\* is what would expose it to retention.
ResolvedIsUnsuperseded ==
    resolved # 0 => Unsuperseded(resolved)

\* A lease whose pin the provider acknowledged is settled only when the pin is
\* gone, referenced by a row, or written down as cleanup debt; also when the
\* audit commit succeeded but reported an error.
SettledPinIsAccounted ==
    [][\A c \in CID :
          (c = cid /\ pc \in {"record", "cleanup"} /\ active' < active /\ Up') =>
             \/ c \notin held'
             \/ publication_cid_is_referenced(c)'
             \/ c \in debt']_vars

\* An orderly exit never kills the publication task between a pin and its audit
\* record, even when the drain deadline has passed.
ExitSparesPinOwner ==
    [][(Up /\ phase' = "exited") => lease = "none"]_vars

\* Whatever the provider still holds of a recorded manifest that nothing protects
\* any more is within reach of retention: it has a row or a debt that a sweep
\* selects by, or the publication task is at work on it.
SupersededPinIsTracked ==
    \A c \in held :
        (~protected(c) /\ \E s \in Sequence : manifest[s] # "none" /\ c \in Required(s)) =>
            c \in Stamped \cup debt \cup {cid}

\* A cycle that finds nothing to publish leaves the name resolving to a manifest
\* of the graph it has just built.
QuietCycleIsCurrent ==
    [][(pc = "build" /\ pc' = "idle" /\ phase = "running" /\ faults' = faults) =>
          resolved # 0 /\ graph[resolved] = built]_vars

-----------------------------------------------------------------------------
(* Liveness.  Each task keeps being scheduled; the gate is a tokio mutex,   *)
(* which queues its waiters, so a sweep that keeps asking for it gets it;   *)
(* the DHT stores a record it keeps being asked to store.  Faults are       *)
(* finitely many by MaxFaults.                                              *)

Publisher == SchedulerNext /\ UNCHANGED retentionVars
Sweeper == RetentionNext /\ UNCHANGED schedulerVars

Fairness ==
    /\ WF_vars(Publisher)
    /\ SF_vars(Sweeper)
    /\ \A s \in Sequence : WF_vars(DhtStores(s))

FairSpec == Spec /\ Fairness

\* A pending manifest does not stay pending while the daemon runs: it is activated
\* or, when the provider has lost a part of its graph, abandoned.
PendingIsResolved ==
    \A s \in Sequence : s \in Pending ~> (s \notin Pending \/ shutdown_requested)

\* A cleanup debt is eventually paid or found to be owed no longer.
DebtIsPaid ==
    \A c \in CID : c \in debt ~> (c \notin debt \/ shutdown_requested)

=============================================================================
