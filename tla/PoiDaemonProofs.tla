-------------------------- MODULE PoiDaemonProofs --------------------------
(***************************************************************************)
(* Machine-checked proofs about PoiDaemon, for every set of artifacts and   *)
(* every bound on sequences and faults.                                     *)
(***************************************************************************)
EXTENDS PoiDaemon, TLAPS

USE DEF CID, Sequence

-----------------------------------------------------------------------------
(* Types and control: who is where while the gate or a lease is held. *)

SweeperAtGate == {"debt_unpin", "debt_delete", "unpin", "mark"}

ControlInv ==
    /\ lease = "held" => active > 0 /\ pc \in AtGate
    /\ pc \in AtGate => gate = "publisher"
    /\ pc \in AtGate => cid \in Artifact \/ (cid = seq /\ seq \in Sequence)
    /\ pc = "waiting" => cid \in Artifact
    /\ pc = "manifest" => seq \in Sequence
    /\ (pc \in {"pin", "cleanup"} \/ (pc = "record" /\ cid = seq)) => lease = "held"
    /\ spc \in SweeperAtGate => target \in CID /\ gate = "sweeper"
    /\ ~Up => pc = "idle" /\ spc = "idle"

TypeInv == TypeOK /\ ControlInv

\* The initial state is well typed and every task is idle.
LEMMA InitTypes == Init => TypeInv
BY MaxSequenceAssumption, ArtifactAssumption, MaxFaultsAssumption
DEF Init, ProviderInit, AuditInit, LifecycleInit, SchedulerStart, RetentionStart,
    TypeInv, ControlInv, SweeperAtGate, Up,
    TypeOK, ProviderTypeOK, AuditTypeOK, LifecycleTypeOK, SchedulerTypeOK, RetentionTypeOK,
    Status, Phase, AtGate, BeforeGate, AfterGate

\* Every step of the publication task keeps the types and the control invariant.
LEMMA SchedulerTypes ==
    ASSUME TypeInv, SchedulerNext, UNCHANGED retentionVars
    PROVE  TypeInv'
<1> USE MaxSequenceAssumption, ArtifactAssumption, MaxFaultsAssumption, ClockAssumption
<1> USE DEF TypeInv, ControlInv, SweeperAtGate, Up, TypeOK, ProviderTypeOK, AuditTypeOK,
      LifecycleTypeOK, SchedulerTypeOK, RetentionTypeOK, Status, Phase, AtGate, BeforeGate,
      AfterGate, providerVars, auditVars, lifecycleVars, ownershipVars, memoryVars,
      schedulerVars, retentionVars, Goto, EndCycle, FailAtGate, Fault, lock, unlock, settle,
      shutdown_requested
<1>1. CASE StartCycle
  BY <1>1 DEF StartCycle
<1>2. CASE StopTask
  BY <1>2 DEF StopTask
<1>3. CASE FailCycle
  BY <1>3 DEF FailCycle
<1>4. CASE ReconcileNone
  BY ZenonT(60), <1>4 DEF ReconcileNone, load_durable_publication_state,
     active_poi_artifact_manifest_publication
<1>5. CASE \E s \in Sequence : ReconcileAvailable(s)
  BY <1>5 DEF ReconcileAvailable
<1>6. CASE \E s \in Sequence, c \in CID : ReconcileAbandon(s, c)
  BY <1>6 DEF ReconcileAbandon, abandon_pending_poi_v4_manifest_reconciliation,
     invalidate_pending_poi_manifest_reconciliation, Greatest
<1>7. CASE \E s \in Sequence, c \in CID : ReconcileAbandonError(s, c)
  BY <1>7 DEF ReconcileAbandonError, abandon_pending_poi_v4_manifest_reconciliation,
     invalidate_pending_poi_manifest_reconciliation, Greatest
<1>7a. CASE \E a \in Artifact : ChooseArtifact(a)
  BY <1>7a DEF ChooseArtifact
<1>8. CASE ReuseArtifact
  BY <1>8 DEF ReuseArtifact
<1>9. CASE AcquireArtifact
  BY <1>9 DEF AcquireArtifact, try_acquire_pin_ownership
<1>10. CASE Pin
  BY <1>10 DEF Pin, pin_bytes
<1>11. CASE PinError
  <2>1. ProviderTypeOK'
    BY ZenonT(60), <1>11 DEF PinError, pin_bytes
  <2> QED
    BY <1>11, <2>1 DEF PinError
<1>12. CASE RecordArtifact
  BY <1>12 DEF RecordArtifact, record_poi_artifact_pin
<1>13. CASE RecordError
  <2>1. AuditTypeOK'
    BY <1>13 DEF RecordError, record_poi_artifact_pin, record_poi_artifact_manifest_pin
  <2>2. /\ pc = "record"
        /\ Fault("database")
        /\ IF lease = "held" THEN Goto("cleanup") /\ UNCHANGED <<gate, phase, memoryVars>>
                             ELSE FailAtGate
        /\ UNCHANGED <<providerVars, ownershipVars>>
    BY <1>13 DEF RecordError
  <2>3. ControlInv'
    BY <2>2
  <2>4. CASE lease = "held"
    <3>1. Goto("cleanup") /\ UNCHANGED <<gate, phase, memoryVars>>
      BY <2>2, <2>4
    <3> QED
      BY <2>1, <2>2, <2>3, <3>1
  <2>5. CASE lease # "held"
    <3>1. FailAtGate
      BY <2>2, <2>5
    <3>2. Fault("database") /\ UNCHANGED <<providerVars, ownershipVars>>
      BY <2>2
    <3>3. LifecycleTypeOK'
      BY <3>1, <3>2
    <3>4. SchedulerTypeOK'
      BY <3>1, <3>2
    <3> QED
      BY <2>1, <2>3, <3>2, <3>3, <3>4
  <2> QED
    BY SMTT(60), <2>4, <2>5
<1>14. CASE CleanupPreserve
  BY <1>14 DEF CleanupPreserve
<1>15. CASE CleanupUnpin
  BY <1>15 DEF CleanupUnpin, unpin
<1>16. CASE CleanupDebt
  <2>1. ProviderTypeOK'
    BY ZenonT(60), <1>16 DEF CleanupDebt, cleanup_fails, unpin, CID
  <2> QED
    BY <1>16, <2>1 DEF CleanupDebt, record_pin_cleanup_debt
<1>17. CASE CleanupDebtError
  <2>1. ProviderTypeOK'
    BY ZenonT(60), <1>17 DEF CleanupDebtError, cleanup_fails, unpin, CID
  <2>2. AuditTypeOK'
    BY <1>17 DEF CleanupDebtError, record_pin_cleanup_debt, CID
  <2> QED
    BY <1>17, <2>1, <2>2 DEF CleanupDebtError, drop_unsettled
<1>18. CASE \E due \in BOOLEAN : FinishGraph(due)
  BY <1>18 DEF FinishGraph
<1>19. CASE \E now \in Clock : ReserveSequence(now)
  BY <1>19 DEF ReserveSequence, reserve_poi_publication_sequence, Greatest
<1>20. CASE AcquireManifest
  BY <1>20 DEF AcquireManifest, try_acquire_pin_ownership
<1>21. CASE RecordManifest
  BY <1>21 DEF RecordManifest, record_poi_artifact_manifest_pin
<1>22. CASE RefuseManifest
  BY <1>22 DEF RefuseManifest
<1>23. CASE CheckAvailable
  BY <1>23 DEF CheckAvailable
<1>24. CASE PublishIpns
  BY <1>24 DEF PublishIpns, publish_manifest_cid
<1>25. CASE IpnsPublished
  BY <1>25 DEF IpnsPublished
<1>26. CASE record_v4_ipns
  BY <1>26 DEF record_v4_ipns, record_poi_artifact_manifest_ipns_publication
<1>27. CASE ActivateError
  BY <1>27 DEF ActivateError, record_poi_artifact_manifest_ipns_publication
<1> QED
  BY ZenonT(60), <1>1, <1>2, <1>3, <1>4, <1>5, <1>6, <1>7, <1>7a, <1>8, <1>9, <1>10, <1>11,
     <1>12, <1>13,
     <1>14, <1>15, <1>16, <1>17, <1>18, <1>19, <1>20, <1>21, <1>22, <1>23, <1>24, <1>25, <1>26,
     <1>27 DEF SchedulerNext

\* So does every step of the retention task.
LEMMA RetentionTypes ==
    ASSUME TypeInv, RetentionNext, UNCHANGED schedulerVars
    PROVE  TypeInv'
<1> USE MaxSequenceAssumption, ArtifactAssumption, MaxFaultsAssumption, ClockAssumption
<1> USE DEF TypeInv, ControlInv, SweeperAtGate, Up, TypeOK, ProviderTypeOK, AuditTypeOK,
      LifecycleTypeOK, SchedulerTypeOK, RetentionTypeOK, Status, Phase, AtGate, BeforeGate,
      AfterGate, providerVars, auditVars, lifecycleVars, ownershipVars, memoryVars,
      schedulerVars, retentionVars, Goto, EndCycle, FailAtGate, Fault, lock, unlock, settle,
      shutdown_requested
<1>1. CASE \E rows \in SUBSET Stamped : StartSweep(rows)
  BY <1>1 DEF StartSweep, Stamped
<1>2. CASE StopSweeper
  BY <1>2 DEF StopSweeper
<1>3. CASE FailSweep
  BY <1>3 DEF FailSweep
<1>4. CASE \E c \in CID : DebtReferenced(c)
  BY <1>4 DEF DebtReferenced
<1>5. CASE \E c \in CID : LockDebt(c)
  BY <1>5 DEF LockDebt
<1>6. CASE UnpinDebt
  BY <1>6 DEF UnpinDebt, unpin
<1>7. CASE UnpinDebtError
  <2>1. ProviderTypeOK'
    BY ZenonT(60), <1>7 DEF UnpinDebtError, unpin
  <2> QED
    BY <1>7, <2>1 DEF UnpinDebtError, NextCid
<1>8. CASE DeleteDebt
  BY <1>8 DEF DeleteDebt, NextCid
<1>9. CASE ListCandidates
  BY <1>9 DEF ListCandidates
<1>10. CASE \E c \in CID : LockCandidate(c)
  BY <1>10 DEF LockCandidate
<1>11. CASE \E c \in CID : SkipCandidate(c)
  BY <1>11 DEF SkipCandidate
<1>12. CASE UnpinCandidate
  BY <1>12 DEF UnpinCandidate, unpin
<1>13. CASE UnpinCandidateError
  <2>1. ProviderTypeOK'
    BY ZenonT(60), <1>13 DEF UnpinCandidateError, unpin
  <2> QED
    BY <1>13, <2>1 DEF UnpinCandidateError, NextCid
<1>14. CASE MarkUnpinned
  BY <1>14 DEF MarkUnpinned, NextCid
<1>15. CASE EndSweep
  BY <1>15 DEF EndSweep
<1> QED
  BY ZenonT(60), <1>1, <1>2, <1>3, <1>4, <1>5, <1>6, <1>7, <1>8, <1>9, <1>10, <1>11, <1>12,
     <1>13, <1>14,
     <1>15 DEF RetentionNext

\* So does the daemon, and so do the provider and the DHT.
LEMMA DaemonTypes ==
    ASSUME TypeInv,
           \/ DaemonNext
           \/ \E c \in CID : ProviderLoses(c)
           \/ \E s \in Sequence : DhtStores(s)
    PROVE  TypeInv'
<1> USE MaxSequenceAssumption, ArtifactAssumption, MaxFaultsAssumption, ClockAssumption
<1> USE DEF TypeInv, ControlInv, SweeperAtGate, Up, TypeOK, ProviderTypeOK, AuditTypeOK,
      LifecycleTypeOK, SchedulerTypeOK, RetentionTypeOK, Status, Phase, AtGate, BeforeGate,
      AfterGate, providerVars, auditVars, lifecycleVars, ownershipVars, memoryVars,
      schedulerVars, retentionVars, Goto, EndCycle, FailAtGate, Fault, lock, unlock, settle,
      shutdown_requested
<1>1. CASE RequestShutdown
  BY <1>1 DEF RequestShutdown
<1>2. CASE DrainJoined
  BY <1>2 DEF DrainJoined, AllJoined, KillTasks
<1>3. CASE DrainDeadline
  BY <1>3 DEF DrainDeadline
<1>4. CASE DrainAbort
  BY <1>4 DEF DrainAbort, KillTasks
<1>5. CASE Crash
  BY <1>5 DEF Crash, KillTasks
<1>6. CASE Restart
  BY <1>6 DEF Restart
<1>7. CASE \E s \in Sequence : InvalidatePending(s)
  BY <1>7 DEF InvalidatePending, invalidate_pending_poi_manifest_reconciliation, Greatest
<1>8. CASE \E c \in CID : ProviderLoses(c)
  BY <1>8 DEF ProviderLoses
<1>9. CASE \E s \in Sequence : DhtStores(s)
  <2>1. PICK s \in Sequence : DhtStores(s)
    BY <1>9
  <2>2. /\ inflight' \subseteq inflight
        /\ resolved' = s
        /\ UNCHANGED <<held, removed, auditVars, lifecycleVars, schedulerVars, retentionVars>>
    BY <2>1 DEF DhtStores, IpnsLands
  <2> QED
    BY <2>2
<1> QED
  BY ZenonT(60), <1>1, <1>2, <1>3, <1>4, <1>5, <1>6, <1>7, <1>8, <1>9 DEF DaemonNext

-----------------------------------------------------------------------------
(* The inductive invariant.                                                 *)
(*                                                                         *)
(* SequenceInv: every sequence recorded has been reserved, the manifest in  *)
(* the publication task's hands has the newest one, and whatever the DHT    *)
(* holds or may still store is a recorded manifest that nothing has         *)
(* superseded.  RetainInv: nothing those manifests require has been         *)
(* unpinned, and what the sweeper is about to unpin under the gate is       *)
(* required by no unsuperseded manifest.                                    *)

SequenceInv ==
    /\ \A t \in Sequence : manifest[t] # "none" => t <= state_sequence
    /\ PendingIsNewest
    /\ ActiveIsPublished
    /\ ResolvedIsUnsuperseded
    /\ \A s \in inflight : Unsuperseded(s) /\ s > resolved
    /\ (pc = "manifest" \/ (pc \in {"pin", "record"} /\ cid = seq)) =>
          seq = state_sequence /\ manifest[seq] = "none"
    /\ pc \in AfterGate => seq \in Pending
    /\ pc = "check" => graph[seq] = built
    /\ pc = "activate" => resolved >= seq

RetainInv ==
    /\ held \cap removed = {}
    /\ ResolvedGraphRetained
    /\ \A s \in inflight : Required(s) \cap removed = {}
    /\ pc \in {"put", "await"} => Required(seq) \cap removed = {}
    /\ spc \in {"unpin", "debt_unpin"} => ~protected(target)

IInv == TypeInv /\ SequenceInv /\ RetainInv

\* What a recorded manifest changes: it is pending, newest, and carries the graph
\* just built.  No record the DHT has or may store is disturbed.
LEMMA RecordingManifest ==
    ASSUME TypeInv, SequenceInv, pc = "record", cid = seq,
           record_poi_artifact_manifest_pin(seq, built),
           UNCHANGED providerVars
    PROVE  /\ seq \in Pending'
           /\ graph'[seq] = built
           /\ \A s \in Sequence \ {seq} : graph'[s] = graph[s] /\ manifest'[s] = manifest[s]
           /\ seq \notin inflight \cup {resolved}
           /\ \A t \in Sequence : manifest'[t] # "none" => t <= state_sequence'
           /\ PendingIsNewest'
           /\ ActiveIsPublished'
           /\ ResolvedIsUnsuperseded'
           /\ \A s \in inflight' : Unsuperseded(s)' /\ s > resolved'
<1> USE MaxSequenceAssumption, ArtifactAssumption
<1> USE DEF TypeInv, ControlInv, TypeOK, ProviderTypeOK, AuditTypeOK, SchedulerTypeOK, AtGate,
      providerVars, SequenceInv, Unsuperseded, Pending, ActiveManifests
<1>1. /\ seq \in Sequence
      /\ seq = state_sequence
      /\ manifest[seq] = "none"
  OBVIOUS
<1>2. /\ Pending = {}
      /\ manifest' = [manifest EXCEPT ![seq] = "pending"]
      /\ graph' = [graph EXCEPT ![seq] = built]
      /\ UNCHANGED <<state_sequence, held, removed, resolved, inflight>>
  BY DEF record_poi_artifact_manifest_pin, manifest_is_recordable
<1>3. /\ manifest'[seq] = "pending"
      /\ graph'[seq] = built
      /\ \A s \in Sequence \ {seq} : graph'[s] = graph[s] /\ manifest'[s] = manifest[s]
  BY <1>1, <1>2
<1>4. seq \notin inflight \cup {resolved}
  BY <1>1 DEF ResolvedIsUnsuperseded
<1>5. \A t \in Sequence : manifest'[t] # "none" => t <= state_sequence'
  BY <1>1, <1>2, <1>3
<1>6. \A t \in inflight \cup {resolved} : t <= seq
  BY <1>1 DEF ResolvedIsUnsuperseded
<1>7. PendingIsNewest'
  BY <1>1, <1>2, <1>3, <1>5, <1>6 DEF PendingIsNewest
<1>8. ActiveManifests' = ActiveManifests
  BY <1>1, <1>2, <1>3
<1>9. ActiveIsPublished' /\ ResolvedIsUnsuperseded'
  BY <1>1, <1>2, <1>3, <1>4, <1>8 DEF ActiveIsPublished, ResolvedIsUnsuperseded
<1> QED
  BY <1>1, <1>2, <1>3, <1>4, <1>5, <1>7, <1>9

\* A step that leaves the manifests and the DHT alone keeps SequenceInv, when the publication
\* task stays where it is or ends its cycle.
LEMMA QuietSequences ==
    ASSUME SequenceInv, UNCHANGED <<resolved, inflight, manifest, graph, state_sequence>>,
           UNCHANGED <<pc, cid, seq, built>> \/ pc' = "idle"
    PROVE  SequenceInv'
<1> USE DEF SequenceInv, PendingIsNewest, ActiveIsPublished, ResolvedIsUnsuperseded, Unsuperseded,
      Pending, ActiveManifests, AfterGate
<1>1. CASE UNCHANGED <<pc, cid, seq, built>>
  BY <1>1
<1>2. CASE pc' = "idle"
  BY <1>2
<1> QED
  BY <1>1, <1>2

\* So does a call of the provider that fails, whether or not it took effect.
LEMMA FailedCallSequences ==
    ASSUME SequenceInv,
           \/ PinError \/ CleanupDebt \/ CleanupDebtError
           \/ (UnpinDebtError \/ UnpinCandidateError) /\ UNCHANGED schedulerVars
    PROVE  SequenceInv'
<1>1. resolved' = resolved /\ inflight' = inflight
  BY Zenon DEF PinError, CleanupDebt, CleanupDebtError, UnpinDebtError, UnpinCandidateError,
     cleanup_fails, pin_bytes, unpin, providerVars
<1>2. manifest' = manifest /\ graph' = graph /\ state_sequence' = state_sequence
  BY Zenon DEF PinError, CleanupDebt, CleanupDebtError, UnpinDebtError, UnpinCandidateError,
     record_pin_cleanup_debt, auditVars
<1>3. UNCHANGED <<pc, cid, seq, built>> \/ pc' = "idle"
  BY Zenon DEF PinError, CleanupDebt, CleanupDebtError, FailAtGate, EndCycle, schedulerVars
<1> QED
  BY Zenon, <1>1, <1>2, <1>3, QuietSequences

\* The steps of the publication task keep SequenceInv.
LEMMA SchedulerSequences ==
    ASSUME TypeInv, SequenceInv, SchedulerNext
    PROVE  SequenceInv'
<1> USE MaxSequenceAssumption, ArtifactAssumption
<1> USE DEF TypeInv, ControlInv, Up, TypeOK, ProviderTypeOK, AuditTypeOK, SchedulerTypeOK,
      AtGate, BeforeGate, AfterGate, providerVars, auditVars, memoryVars, schedulerVars,
      retentionVars, Goto, EndCycle, FailAtGate, shutdown_requested,
      SequenceInv, PendingIsNewest, ActiveIsPublished, ResolvedIsUnsuperseded, Unsuperseded,
      Pending, ActiveManifests
<1>1. CASE StartCycle
  BY SMTT(60), <1>1 DEF StartCycle
<1>2. CASE StopTask
  BY SMTT(60), <1>2 DEF StopTask
<1>3. CASE FailCycle
  BY SMTT(60), <1>3 DEF FailCycle
<1>4. CASE ReconcileNone
  BY SMTT(60), <1>4 DEF ReconcileNone, load_durable_publication_state,
     active_poi_artifact_manifest_publication
<1>5. CASE \E s \in Sequence : ReconcileAvailable(s)
  BY SMTT(60), <1>5 DEF ReconcileAvailable
<1>6. CASE \E s \in Sequence, c \in CID : ReconcileAbandon(s, c)
  BY SMTT(60), <1>6 DEF ReconcileAbandon, abandon_pending_poi_v4_manifest_reconciliation,
     invalidate_pending_poi_manifest_reconciliation, Greatest
<1>7. CASE \E s \in Sequence, c \in CID : ReconcileAbandonError(s, c)
  BY SMTT(60), <1>7 DEF ReconcileAbandonError, abandon_pending_poi_v4_manifest_reconciliation,
     invalidate_pending_poi_manifest_reconciliation, Greatest
<1>7a. CASE \E a \in Artifact : ChooseArtifact(a)
  BY SMTT(60), <1>7a DEF ChooseArtifact
<1>8. CASE ReuseArtifact
  BY SMTT(60), <1>8 DEF ReuseArtifact
<1>9. CASE AcquireArtifact
  BY SMTT(60), <1>9 DEF AcquireArtifact, try_acquire_pin_ownership
<1>10. CASE Pin
  BY SMTT(60), <1>10 DEF Pin, pin_bytes
<1>11. CASE PinError
  BY ZenonT(60), <1>11, FailedCallSequences
<1>12. CASE RecordArtifact
  BY SMTT(60), <1>12 DEF RecordArtifact, record_poi_artifact_pin
<1>13. CASE RecordError
  <2>1. /\ pc = "record"
        /\ pc' \in {"cleanup", "idle"}
        /\ UNCHANGED providerVars
    BY SMTT(60), <1>13 DEF RecordError
  <2>2. CASE cid = seq /\ record_poi_artifact_manifest_pin(seq, built)
    <3> HIDE DEF PendingIsNewest, ActiveIsPublished, ResolvedIsUnsuperseded, Unsuperseded
    <3> QED
      BY SMTT(60), <2>1, <2>2, RecordingManifest
  <2>3. CASE UNCHANGED <<manifest, graph, state_sequence>>
    BY SMTT(60), <2>1, <2>3
  <2> QED
    BY SMTT(60), <1>13, <2>2, <2>3 DEF RecordError, record_poi_artifact_pin
<1>14. CASE CleanupPreserve
  BY SMTT(60), <1>14 DEF CleanupPreserve
<1>15. CASE CleanupUnpin
  BY SMTT(60), <1>15 DEF CleanupUnpin, unpin
<1>16. CASE CleanupDebt
  BY ZenonT(60), <1>16, FailedCallSequences
<1>17. CASE CleanupDebtError
  BY ZenonT(60), <1>17, FailedCallSequences
<1>18. CASE \E due \in BOOLEAN : FinishGraph(due)
  BY SMTT(60), <1>18 DEF FinishGraph
<1>19. CASE \E now \in Clock : ReserveSequence(now)
  BY SMTT(60), <1>19 DEF ReserveSequence, reserve_poi_publication_sequence, Greatest
<1>20. CASE AcquireManifest
  BY SMTT(60), <1>20 DEF AcquireManifest, try_acquire_pin_ownership
<1>21. CASE RecordManifest
  <2>1. /\ pc = "record" /\ cid = seq
        /\ record_poi_artifact_manifest_pin(seq, built)
        /\ UNCHANGED providerVars
        /\ pc' = "check"
        /\ UNCHANGED <<cid, seq, built>>
    BY SMTT(60), <1>21 DEF RecordManifest
  <2> HIDE DEF PendingIsNewest, ActiveIsPublished, ResolvedIsUnsuperseded, Unsuperseded
  <2> QED
    BY SMTT(60), <2>1, RecordingManifest
<1>22. CASE RefuseManifest
  BY SMTT(60), <1>22 DEF RefuseManifest
<1>23. CASE CheckAvailable
  BY SMTT(60), <1>23 DEF CheckAvailable
<1>24. CASE PublishIpns
  BY SMTT(60), <1>24 DEF PublishIpns, publish_manifest_cid
<1>25. CASE IpnsPublished
  BY SMTT(60), <1>25 DEF IpnsPublished
<1>26. CASE record_v4_ipns
  BY SMTT(60), <1>26 DEF record_v4_ipns, record_poi_artifact_manifest_ipns_publication
<1>27. CASE ActivateError
  BY SMTT(60), <1>27 DEF ActivateError, record_poi_artifact_manifest_ipns_publication
<1> QED
  BY ZenonT(60), <1>1, <1>2, <1>3, <1>4, <1>5, <1>6, <1>7, <1>7a, <1>8, <1>9, <1>10, <1>11,
     <1>12, <1>13,
     <1>14, <1>15, <1>16, <1>17, <1>18, <1>19, <1>20, <1>21, <1>22, <1>23, <1>24, <1>25, <1>26,
     <1>27 DEF SchedulerNext

\* The steps of the retention task keep SequenceInv: it only ever marks superseded
\* manifests.
LEMMA RetentionSequences ==
    ASSUME TypeInv, SequenceInv, RetentionNext, UNCHANGED schedulerVars
    PROVE  SequenceInv'
<1> USE MaxSequenceAssumption, ArtifactAssumption
<1> USE DEF TypeInv, ControlInv, Up, TypeOK, ProviderTypeOK, AuditTypeOK, SchedulerTypeOK,
      AtGate, BeforeGate, AfterGate, providerVars, auditVars, memoryVars, schedulerVars,
      retentionVars, Goto, EndCycle, FailAtGate, shutdown_requested,
      SequenceInv, PendingIsNewest, ActiveIsPublished, ResolvedIsUnsuperseded, Unsuperseded,
      Pending, ActiveManifests
<1>1. CASE \E rows \in SUBSET Stamped : StartSweep(rows)
  BY SMTT(60), <1>1 DEF StartSweep, Stamped
<1>2. CASE StopSweeper
  BY SMTT(60), <1>2 DEF StopSweeper
<1>3. CASE FailSweep
  BY SMTT(60), <1>3 DEF FailSweep
<1>4. CASE \E c \in CID : DebtReferenced(c)
  BY SMTT(60), <1>4 DEF DebtReferenced
<1>5. CASE \E c \in CID : LockDebt(c)
  BY SMTT(60), <1>5 DEF LockDebt
<1>6. CASE UnpinDebt
  BY SMTT(60), <1>6 DEF UnpinDebt, unpin
<1>7. CASE UnpinDebtError
  BY ZenonT(60), <1>7, FailedCallSequences
<1>8. CASE DeleteDebt
  BY SMTT(60), <1>8 DEF DeleteDebt, NextCid
<1>9. CASE ListCandidates
  BY SMTT(60), <1>9 DEF ListCandidates
<1>10. CASE \E c \in CID : LockCandidate(c)
  BY SMTT(60), <1>10 DEF LockCandidate
<1>11. CASE \E c \in CID : SkipCandidate(c)
  BY SMTT(60), <1>11 DEF SkipCandidate
<1>12. CASE UnpinCandidate
  BY SMTT(60), <1>12 DEF UnpinCandidate, unpin
<1>13. CASE UnpinCandidateError
  BY ZenonT(60), <1>13, FailedCallSequences
<1>14. CASE MarkUnpinned
  BY SMTT(60), <1>14 DEF MarkUnpinned, NextCid
<1>15. CASE EndSweep
  BY SMTT(60), <1>15 DEF EndSweep
<1> QED
  BY ZenonT(60), <1>1, <1>2, <1>3, <1>4, <1>5, <1>6, <1>7, <1>8, <1>9, <1>10, <1>11, <1>12,
     <1>13, <1>14,
     <1>15 DEF RetentionNext

\* What a signal, an exit, a crash and a restart may change: they leave the audit rows,
\* the provider and the DHT alone, and the tasks where they are or at their start.
LEMMA LifecycleChanges ==
    ASSUME RequestShutdown \/ DrainJoined \/ DrainDeadline \/ DrainAbort \/ Crash \/ Restart
    PROVE  /\ UNCHANGED <<held, removed, resolved, inflight, manifest, graph, state_sequence>>
           /\ UNCHANGED <<pc, cid, seq, built, spc, target>> \/ (pc' = "idle" /\ spc' = "idle")
<1> USE DEF providerVars, auditVars, memoryVars, schedulerVars, retentionVars, KillTasks
<1>1. CASE RequestShutdown
  BY <1>1 DEF RequestShutdown
<1>2. CASE DrainJoined
  BY <1>2 DEF DrainJoined
<1>3. CASE DrainDeadline
  BY <1>3 DEF DrainDeadline
<1>4. CASE DrainAbort
  BY <1>4 DEF DrainAbort
<1>5. CASE Crash
  BY <1>5 DEF Crash
<1>6. CASE Restart
  BY <1>6 DEF Restart
<1> QED
  BY <1>1, <1>2, <1>3, <1>4, <1>5, <1>6

\* Such a step keeps RetainInv.
LEMMA LifecycleRetains ==
    ASSUME RetainInv,
           UNCHANGED <<held, removed, resolved, inflight, manifest, graph, state_sequence>>,
           UNCHANGED <<pc, cid, seq, built, spc, target>> \/ (pc' = "idle" /\ spc' = "idle")
    PROVE  RetainInv'
<1> USE DEF RetainInv, ResolvedGraphRetained, Required, protected, Unsuperseded
<1>1. CASE UNCHANGED <<pc, cid, seq, built, spc, target>>
  BY <1>1
<1>2. CASE pc' = "idle" /\ spc' = "idle"
  BY <1>2
<1> QED
  BY <1>1, <1>2

\* The daemon, the provider and the DHT keep SequenceInv.
LEMMA DaemonSequences ==
    ASSUME TypeInv, SequenceInv,
           \/ DaemonNext
           \/ \E c \in CID : ProviderLoses(c)
           \/ \E s \in Sequence : DhtStores(s)
    PROVE  SequenceInv'
<1>1. CASE \/ RequestShutdown \/ DrainJoined \/ DrainDeadline \/ DrainAbort
           \/ Crash \/ Restart
  BY Zenon, <1>1, LifecycleChanges, QuietSequences
<1> USE MaxSequenceAssumption, ArtifactAssumption
<1> USE DEF TypeInv, ControlInv, Up, TypeOK, ProviderTypeOK, AuditTypeOK, SchedulerTypeOK,
      AtGate, BeforeGate, AfterGate, providerVars, auditVars, memoryVars, schedulerVars,
      retentionVars, Goto, EndCycle, FailAtGate, shutdown_requested,
      SequenceInv, PendingIsNewest, ActiveIsPublished, ResolvedIsUnsuperseded, Unsuperseded,
      Pending, ActiveManifests
<1>2. CASE \E s \in Sequence : InvalidatePending(s)
  BY SMTT(60), <1>2 DEF InvalidatePending, invalidate_pending_poi_manifest_reconciliation,
     Greatest
<1>3. CASE \E c \in CID : ProviderLoses(c)
  BY SMTT(60), <1>3 DEF ProviderLoses
<1>4. CASE \E s \in Sequence : DhtStores(s)
  BY SMTT(60), <1>4 DEF DhtStores, IpnsLands
<1> QED
  BY ZenonT(60), <1>1, <1>2, <1>3, <1>4 DEF DaemonNext


-----------------------------------------------------------------------------
\* A call of the provider keeps RetainInv when it unpins nothing that an unsuperseded manifest
\* requires: what the DHT holds or may store is unsuperseded.
LEMMA ProviderRetains ==
    ASSUME TypeInv, SequenceInv, RetainInv, UNCHANGED <<manifest, graph>>,
           pc' = "idle" \/ UNCHANGED <<pc, seq>>,
           spc' \notin {"unpin", "debt_unpin"} \/ UNCHANGED <<spc, target>>,
           NEW c, UNCHANGED providerVars \/ pin_bytes(c) \/ (unpin(c) /\ ~protected(c))
    PROVE  RetainInv'
<1>1. resolved' = resolved /\ inflight' = inflight
  BY Zenon DEF providerVars, pin_bytes, unpin
<1>2. inflight \subseteq Sequence /\ (resolved # 0 => resolved \in Sequence)
  BY DEF TypeInv, TypeOK, ProviderTypeOK
<1>3. \A s : Required(s)' = Required(s) /\ Unsuperseded(s)' = Unsuperseded(s)
  BY Zenon DEF Required, Unsuperseded
<1>4. (spc \in {"unpin", "debt_unpin"} => ~protected(target))'
  BY Zenon, <1>3 DEF RetainInv, protected
<1>5. ASSUME pc' \in {"put", "await"}
      PROVE  /\ seq' = seq /\ seq \in Sequence /\ Unsuperseded(seq)
             /\ Required(seq) \cap removed = {}
  BY <1>5 DEF SequenceInv, RetainInv, AfterGate, Pending, Unsuperseded
<1>6. \A s \in Sequence : Unsuperseded(s) /\ Required(s) \cap removed = {}
                             => Required(s) \cap removed' = {}
  BY Zenon DEF providerVars, pin_bytes, unpin, protected
<1>7. (held \cap removed = {})'
  BY Zenon DEF providerVars, pin_bytes, unpin, RetainInv
<1>8. \A s \in inflight' : Required(s)' \cap removed' = {}
  BY Zenon, <1>1, <1>2, <1>3, <1>6 DEF RetainInv, SequenceInv
<1>9. ResolvedGraphRetained'
  BY Zenon, <1>1, <1>2, <1>3, <1>6
     DEF RetainInv, SequenceInv, ResolvedIsUnsuperseded, ResolvedGraphRetained
<1>10. (pc \in {"put", "await"} => Required(seq) \cap removed = {})'
  BY Zenon, <1>3, <1>5, <1>6
<1> QED
  BY Zenon, <1>4, <1>7, <1>8, <1>9, <1>10 DEF RetainInv

\* So does a call that fails, whether or not it took effect: a cleanup unpins what no row
\* references, a sweep what is not protected.
LEMMA FailedCallRetains ==
    ASSUME TypeInv, SequenceInv, RetainInv,
           \/ (PinError \/ CleanupDebt \/ CleanupDebtError) /\ UNCHANGED retentionVars
           \/ (UnpinDebtError \/ UnpinCandidateError) /\ UNCHANGED schedulerVars
    PROVE  RetainInv'
<1>1. manifest' = manifest /\ graph' = graph
  BY Zenon DEF PinError, CleanupDebt, CleanupDebtError, UnpinDebtError, UnpinCandidateError,
     record_pin_cleanup_debt, auditVars
<1>2. pc' = "idle" \/ UNCHANGED <<pc, seq>>
  BY Zenon DEF PinError, CleanupDebt, CleanupDebtError, FailAtGate, EndCycle, schedulerVars
<1>3. spc' \notin {"unpin", "debt_unpin"} \/ UNCHANGED <<spc, target>>
  <2>1. CASE UNCHANGED retentionVars
    BY Zenon, <2>1 DEF retentionVars
  <2>2. CASE UnpinDebtError \/ UnpinCandidateError
    BY Zenon, <2>2 DEF UnpinDebtError, UnpinCandidateError, NextCid
  <2> QED
    BY Zenon, <2>1, <2>2
<1>4. ~publication_cid_is_referenced(cid) => ~protected(cid)
  BY DEF publication_cid_is_referenced, protected, Unsuperseded
<1>5. \E c : UNCHANGED providerVars \/ pin_bytes(c) \/ (unpin(c) /\ ~protected(c))
  <2>1. CASE PinError
    BY Zenon, <2>1 DEF PinError
  <2>2. CASE CleanupDebt \/ CleanupDebtError
    BY Zenon, <1>4, <2>2 DEF CleanupDebt, CleanupDebtError, cleanup_fails
  <2>3. CASE UnpinDebtError \/ UnpinCandidateError
    BY ZenonT(60), <2>3 DEF UnpinDebtError, UnpinCandidateError, RetainInv
  <2> QED
    BY Zenon, <2>1, <2>2, <2>3
<1> QED
  BY Zenon, <1>1, <1>2, <1>3, <1>5, ProviderRetains

\* The steps of the publication task keep RetainInv.
LEMMA SchedulerRetains ==
    ASSUME TypeInv, SequenceInv, RetainInv, SchedulerNext, UNCHANGED retentionVars
    PROVE  RetainInv'
<1> USE MaxSequenceAssumption, ArtifactAssumption
<1> USE DEF TypeInv, ControlInv, SweeperAtGate, Up, TypeOK, ProviderTypeOK, AuditTypeOK,
      SchedulerTypeOK, RetentionTypeOK, AtGate, BeforeGate, AfterGate, providerVars, auditVars,
      lifecycleVars, memoryVars, schedulerVars, retentionVars, Goto, EndCycle, FailAtGate, unlock,
      lock, SequenceInv, ResolvedIsUnsuperseded, Unsuperseded, Pending, RetainInv,
      ResolvedGraphRetained, Required, protected
<1>1. CASE StartCycle
  BY SMTT(60), <1>1 DEF StartCycle
<1>2. CASE StopTask
  BY SMTT(60), <1>2 DEF StopTask
<1>3. CASE FailCycle
  BY SMTT(60), <1>3 DEF FailCycle
<1>4. CASE ReconcileNone
  BY SMTT(60), <1>4 DEF ReconcileNone, load_durable_publication_state,
     active_poi_artifact_manifest_publication
<1>5. CASE \E s \in Sequence : ReconcileAvailable(s)
  BY SMTT(60), <1>5 DEF ReconcileAvailable, contains
<1>6. CASE \E s \in Sequence, c \in CID : ReconcileAbandon(s, c)
  BY SMTT(60), <1>6 DEF ReconcileAbandon, abandon_pending_poi_v4_manifest_reconciliation,
     invalidate_pending_poi_manifest_reconciliation, Greatest
<1>7. CASE \E s \in Sequence, c \in CID : ReconcileAbandonError(s, c)
  BY SMTT(60), <1>7 DEF ReconcileAbandonError, abandon_pending_poi_v4_manifest_reconciliation,
     invalidate_pending_poi_manifest_reconciliation, Greatest
<1>7a. CASE \E a \in Artifact : ChooseArtifact(a)
  BY SMTT(60), <1>7a DEF ChooseArtifact
<1>8. CASE ReuseArtifact
  BY SMTT(60), <1>8 DEF ReuseArtifact
<1>9. CASE AcquireArtifact
  BY SMTT(60), <1>9 DEF AcquireArtifact, try_acquire_pin_ownership
<1>10. CASE Pin
  BY SMTT(60), <1>10 DEF Pin, pin_bytes
<1>11. CASE PinError
  BY ZenonT(60), <1>11, FailedCallRetains
<1>12. CASE RecordArtifact
  BY SMTT(60), <1>12 DEF RecordArtifact, record_poi_artifact_pin
<1>13. CASE RecordError
  BY SMTT(60), <1>13 DEF RecordError, record_poi_artifact_pin, record_poi_artifact_manifest_pin
<1>14. CASE CleanupPreserve
  BY SMTT(60), <1>14 DEF CleanupPreserve
<1>15. CASE CleanupUnpin
  BY SMTT(60), <1>15 DEF CleanupUnpin, unpin, publication_cid_is_referenced
<1>16. CASE CleanupDebt
  BY ZenonT(60), <1>16, FailedCallRetains
<1>17. CASE CleanupDebtError
  BY ZenonT(60), <1>17, FailedCallRetains
<1>18. CASE \E due \in BOOLEAN : FinishGraph(due)
  BY SMTT(60), <1>18 DEF FinishGraph
<1>19. CASE \E now \in Clock : ReserveSequence(now)
  BY SMTT(60), <1>19 DEF ReserveSequence, reserve_poi_publication_sequence, Greatest
<1>20. CASE AcquireManifest
  BY SMTT(60), <1>20 DEF AcquireManifest, try_acquire_pin_ownership
<1>21. CASE RecordManifest
  BY SMTT(60), <1>21 DEF RecordManifest, record_poi_artifact_manifest_pin
<1>22. CASE RefuseManifest
  BY SMTT(60), <1>22 DEF RefuseManifest
<1>23. CASE CheckAvailable
  BY SMTT(60), <1>23 DEF CheckAvailable, contains
<1>24. CASE PublishIpns
  BY SMTT(60), <1>24 DEF PublishIpns, publish_manifest_cid
<1>25. CASE IpnsPublished
  BY SMTT(60), <1>25 DEF IpnsPublished
<1>26. CASE record_v4_ipns
  BY SMTT(60), <1>26 DEF record_v4_ipns, record_poi_artifact_manifest_ipns_publication
<1>27. CASE ActivateError
  BY SMTT(60), <1>27 DEF ActivateError, record_poi_artifact_manifest_ipns_publication
<1> QED
  BY ZenonT(60), <1>1, <1>2, <1>3, <1>4, <1>5, <1>6, <1>7, <1>7a, <1>8, <1>9, <1>10, <1>11,
     <1>12, <1>13,
     <1>14, <1>15, <1>16, <1>17, <1>18, <1>19, <1>20, <1>21, <1>22, <1>23, <1>24, <1>25, <1>26,
     <1>27 DEF SchedulerNext

\* The steps of the retention task keep RetainInv.
LEMMA RetentionRetains ==
    ASSUME TypeInv, SequenceInv, RetainInv, RetentionNext, UNCHANGED schedulerVars
    PROVE  RetainInv'
<1> USE MaxSequenceAssumption, ArtifactAssumption
<1> USE DEF TypeInv, ControlInv, SweeperAtGate, Up, TypeOK, ProviderTypeOK, AuditTypeOK,
      SchedulerTypeOK, RetentionTypeOK, AtGate, BeforeGate, AfterGate, providerVars, auditVars,
      lifecycleVars, memoryVars, schedulerVars, retentionVars, Goto, EndCycle, FailAtGate, unlock,
      lock, SequenceInv, ResolvedIsUnsuperseded, Unsuperseded, Pending, RetainInv,
      ResolvedGraphRetained, Required, protected
<1>1. CASE \E rows \in SUBSET Stamped : StartSweep(rows)
  BY SMTT(60), <1>1 DEF StartSweep, Stamped
<1>2. CASE StopSweeper
  BY SMTT(60), <1>2 DEF StopSweeper
<1>3. CASE FailSweep
  BY SMTT(60), <1>3 DEF FailSweep
<1>4. CASE \E c \in CID : DebtReferenced(c)
  BY SMTT(60), <1>4 DEF DebtReferenced
<1>5. CASE \E c \in CID : LockDebt(c)
  BY SMTT(60), <1>5 DEF LockDebt, publication_cid_is_referenced
<1>6. CASE UnpinDebt
  BY SMTT(60), <1>6 DEF UnpinDebt, unpin
<1>7. CASE UnpinDebtError
  BY ZenonT(60), <1>7, FailedCallRetains
<1>8. CASE DeleteDebt
  BY SMTT(60), <1>8 DEF DeleteDebt, NextCid
<1>9. CASE ListCandidates
  BY SMTT(60), <1>9 DEF ListCandidates
<1>10. CASE \E c \in CID : LockCandidate(c)
  BY SMTT(60), <1>10 DEF LockCandidate, still_eligible
<1>11. CASE \E c \in CID : SkipCandidate(c)
  BY SMTT(60), <1>11 DEF SkipCandidate
<1>12. CASE UnpinCandidate
  BY SMTT(60), <1>12 DEF UnpinCandidate, unpin
<1>13. CASE UnpinCandidateError
  BY ZenonT(60), <1>13, FailedCallRetains
<1>14. CASE MarkUnpinned
  BY SMTT(60), <1>14 DEF MarkUnpinned, NextCid
<1>15. CASE EndSweep
  BY SMTT(60), <1>15 DEF EndSweep
<1> QED
  BY ZenonT(60), <1>1, <1>2, <1>3, <1>4, <1>5, <1>6, <1>7, <1>8, <1>9, <1>10, <1>11, <1>12,
     <1>13, <1>14,
     <1>15 DEF RetentionNext

\* The daemon, the provider and the DHT keep RetainInv.
LEMMA DaemonRetains ==
    ASSUME TypeInv, SequenceInv, RetainInv,
           \/ DaemonNext
           \/ \E c \in CID : ProviderLoses(c)
           \/ \E s \in Sequence : DhtStores(s)
    PROVE  RetainInv'
<1>1. CASE \/ RequestShutdown \/ DrainJoined \/ DrainDeadline \/ DrainAbort
           \/ Crash \/ Restart
  BY Zenon, <1>1, LifecycleChanges, LifecycleRetains
<1> USE MaxSequenceAssumption, ArtifactAssumption
<1> USE DEF TypeInv, ControlInv, SweeperAtGate, Up, TypeOK, ProviderTypeOK, AuditTypeOK,
      SchedulerTypeOK, RetentionTypeOK, AtGate, BeforeGate, AfterGate, providerVars, auditVars,
      lifecycleVars, memoryVars, schedulerVars, retentionVars, Goto, EndCycle, FailAtGate, unlock,
      lock, SequenceInv, ResolvedIsUnsuperseded, Unsuperseded, Pending, RetainInv,
      ResolvedGraphRetained, Required, protected
<1>2. CASE \E s \in Sequence : InvalidatePending(s)
  BY SMTT(60), <1>2 DEF InvalidatePending, invalidate_pending_poi_manifest_reconciliation,
     Greatest
<1>3. CASE \E c \in CID : ProviderLoses(c)
  BY SMTT(60), <1>3 DEF ProviderLoses
<1>4. CASE \E s \in Sequence : DhtStores(s)
  BY SMTT(60), <1>4 DEF DhtStores, IpnsLands
<1> QED
  BY ZenonT(60), <1>1, <1>2, <1>3, <1>4 DEF DaemonNext

-----------------------------------------------------------------------------
(* The theorems. *)

\* The initial state satisfies the inductive invariant.
LEMMA InitIInv == Init => IInv
<1> SUFFICES ASSUME Init PROVE SequenceInv /\ RetainInv
  BY InitTypes DEF IInv
<1> QED
  BY MaxSequenceAssumption
  DEF Init, ProviderInit, AuditInit, SchedulerStart, RetentionStart, SequenceInv, RetainInv,
      PendingIsNewest, ActiveIsPublished, ResolvedIsUnsuperseded, ResolvedGraphRetained,
      Pending, ActiveManifests, AfterGate

\* Every step keeps the inductive invariant.
LEMMA NextIInv == IInv /\ [Next]_vars => IInv'
<1> SUFFICES ASSUME IInv, [Next]_vars PROVE IInv'
  OBVIOUS
<1>1. CASE SchedulerNext /\ UNCHANGED retentionVars
  BY <1>1, SchedulerTypes, SchedulerSequences, SchedulerRetains DEF IInv
<1>2. CASE RetentionNext /\ UNCHANGED schedulerVars
  BY <1>2, RetentionTypes, RetentionSequences, RetentionRetains DEF IInv
<1>3. CASE \/ DaemonNext
           \/ \E c \in CID : ProviderLoses(c)
           \/ \E s \in Sequence : DhtStores(s)
  BY <1>3, DaemonTypes, DaemonSequences, DaemonRetains DEF IInv
<1>4. CASE UNCHANGED vars
  <2>1. /\ UNCHANGED <<held, removed, resolved, inflight>>
        /\ UNCHANGED <<live, manifest, graph, debt, state_sequence, old>>
        /\ UNCHANGED <<gate, admission, active, lease, phase, faults>>
        /\ UNCHANGED <<pc, cid, built, seq, last, flags>>
        /\ UNCHANGED <<spc, todo, target>>
    BY SMTT(60), <1>4 DEF vars, providerVars, auditVars, lifecycleVars, schedulerVars, retentionVars
  <2>2. TypeInv'
    BY SMTT(60), <2>1 DEF IInv, TypeInv, TypeOK, ProviderTypeOK, AuditTypeOK, LifecycleTypeOK,
       SchedulerTypeOK, RetentionTypeOK, ControlInv, Up
  <2>3. SequenceInv'
    BY SMTT(60), <2>1
    DEF IInv, SequenceInv, PendingIsNewest, ActiveIsPublished, ResolvedIsUnsuperseded,
       Unsuperseded, Pending, ActiveManifests
  <2>4. RetainInv'
    BY SMTT(60), <2>1 DEF IInv, RetainInv, ResolvedGraphRetained, Required, protected,
       Unsuperseded
  <2> QED
    BY <2>2, <2>3, <2>4 DEF IInv
<1> QED
  BY <1>1, <1>2, <1>3, <1>4 DEF Next

\* IInv holds throughout every behaviour.
THEOREM Invariance == Spec => []IInv
BY InitIInv, NextIInv, PTL DEF Spec

\* Every variable keeps its type.
THEOREM TypeCorrectness == Spec => []TypeOK
<1>1. IInv => TypeOK
  BY DEF IInv, TypeInv
<1> QED
  BY <1>1, Invariance, PTL

\* The pending manifest is unique and outranks all that is recorded or published:
\* reserve_poi_publication_sequence and reject_unresolved_pending together.
THEOREM PendingNewest == Spec => []PendingIsNewest
<1>1. IInv => PendingIsNewest
  BY DEF IInv, SequenceInv
<1> QED
  BY <1>1, Invariance, PTL

\* The database activates only what the DHT has stored, one manifest at a time.
THEOREM ActivePublished == Spec => []ActiveIsPublished
<1>1. IInv => ActiveIsPublished
  BY DEF IInv, SequenceInv
<1> QED
  BY <1>1, Invariance, PTL

\* The manifest the name resolves to is never superseded in the database, whichever
\* requests failed, timed out or were stored late.
THEOREM ResolvedUnsuperseded == Spec => []ResolvedIsUnsuperseded
<1>1. IInv => ResolvedIsUnsuperseded
  BY DEF IInv, SequenceInv
<1> QED
  BY <1>1, Invariance, PTL

\* Nothing the name resolves to has been unpinned by this program.
THEOREM ResolvedRetained == Spec => []ResolvedGraphRetained
<1>1. IInv => ResolvedGraphRetained
  BY DEF IInv, RetainInv
<1> QED
  BY <1>1, Invariance, PTL

\* Only a cleanup, a debt retry and a sweep unpin anything.
LEMMA Unpinners ==
    ASSUME [Next]_vars
    PROVE  \/ removed' \subseteq removed
           \/ pc = "cleanup" /\ ~publication_cid_is_referenced(cid) /\ unpin(cid)
           \/ spc \in {"debt_unpin", "unpin"} /\ unpin(target)
<1>1. CASE SchedulerNext
  BY ZenonT(60), <1>1 DEF SchedulerNext, providerVars, pin_bytes, publish_manifest_cid,
     cleanup_fails,
     StartCycle,
     StopTask, FailCycle, ReconcileNone, ReconcileAvailable, ReconcileAbandon,
     ReconcileAbandonError, ChooseArtifact, ReuseArtifact, AcquireArtifact, Pin, PinError,
        RecordArtifact,
     RecordError, CleanupPreserve, CleanupUnpin, CleanupDebt, CleanupDebtError, FinishGraph,
     ReserveSequence, AcquireManifest, RecordManifest, RefuseManifest, CheckAvailable,
     PublishIpns, IpnsPublished, record_v4_ipns, ActivateError
<1>2. CASE RetentionNext
  <2>1. CASE \E rows \in SUBSET Stamped : StartSweep(rows)
    BY Zenon, <2>1 DEF StartSweep, providerVars
  <2>2. CASE StopSweeper \/ ListCandidates \/ EndSweep
    BY Zenon, <2>2 DEF StopSweeper, ListCandidates, EndSweep, providerVars
  <2>3. CASE FailSweep
    BY Zenon, <2>3 DEF FailSweep, providerVars
  <2>4. CASE \E c \in CID : DebtReferenced(c) \/ SkipCandidate(c)
    BY Zenon, <2>4 DEF DebtReferenced, SkipCandidate, providerVars
  <2>5. CASE \E c \in CID : LockDebt(c) \/ LockCandidate(c)
    BY Zenon, <2>5 DEF LockDebt, LockCandidate, providerVars
  <2>6. CASE UnpinDebt \/ UnpinCandidate
    BY Zenon, <2>6 DEF UnpinDebt, UnpinCandidate
  <2>7. CASE UnpinDebtError \/ UnpinCandidateError \/ DeleteDebt \/ MarkUnpinned
    BY Zenon, <2>7 DEF UnpinDebtError, UnpinCandidateError, DeleteDebt, MarkUnpinned, providerVars
  <2> QED
    BY Zenon, <1>2, <2>1, <2>2, <2>3, <2>4, <2>5, <2>6, <2>7 DEF RetentionNext
<1>3. CASE \/ DaemonNext
           \/ \E c \in CID : ProviderLoses(c)
           \/ \E s \in Sequence : DhtStores(s)
  BY SMTT(60), <1>3 DEF DaemonNext, IpnsLands, providerVars, RequestShutdown, DrainJoined,
     DrainDeadline,
     DrainAbort, Crash, Restart, InvalidatePending, ProviderLoses, DhtStores
<1>4. CASE UNCHANGED vars
  BY <1>4 DEF vars, providerVars
<1> QED
  BY <1>1, <1>2, <1>3, <1>4 DEF Next

\* No unpin hits a CID of an unsuperseded manifest: the gate keeps what the sweeper
\* rechecked true until its unpin, and the cleanup asks for references first.
THEOREM UnpinSpares == Spec => UnpinSparesUnsuperseded
<1>1. IInv /\ [Next]_vars =>
         [\A c \in removed' \ removed : \A s \in Sequence :
             Unsuperseded(s) => c \notin Required(s)]_vars
  <2> SUFFICES ASSUME IInv, [Next]_vars,
                      NEW c \in removed' \ removed, NEW s \in Sequence, Unsuperseded(s)
               PROVE  c \notin Required(s)
    OBVIOUS
  <2>1. CASE ~publication_cid_is_referenced(cid) /\ unpin(cid)
    BY <2>1 DEF unpin, publication_cid_is_referenced, Unsuperseded
  <2>2. CASE spc \in {"debt_unpin", "unpin"} /\ unpin(target)
    BY <2>2 DEF unpin, protected, IInv, RetainInv
  <2> QED
    BY <2>1, <2>2, Unpinners
<1> QED
  BY <1>1, Invariance, PTL DEF Spec, UnpinSparesUnsuperseded

\* A sweep neither takes nor settles an ownership lease, and does not end the process.
LEMMA RetentionSparesLease ==
    ASSUME RetentionNext
    PROVE  active' = active /\ lease' = lease /\ phase' = phase
<1>1. CASE \E rows \in SUBSET Stamped : StartSweep(rows)
  BY <1>1 DEF StartSweep, lifecycleVars
<1>2. CASE StopSweeper \/ ListCandidates \/ EndSweep
  BY <1>2 DEF StopSweeper, ListCandidates, EndSweep, lifecycleVars
<1>3. CASE FailSweep
  BY <1>3 DEF FailSweep, ownershipVars
<1>4. CASE \E c \in CID : DebtReferenced(c) \/ SkipCandidate(c)
  BY <1>4 DEF DebtReferenced, SkipCandidate, lifecycleVars
<1>5. CASE \E c \in CID : LockDebt(c) \/ LockCandidate(c)
  BY <1>5 DEF LockDebt, LockCandidate, ownershipVars
<1>6. CASE UnpinDebt \/ UnpinCandidate
  BY <1>6 DEF UnpinDebt, UnpinCandidate, lifecycleVars
<1>7. CASE UnpinDebtError \/ UnpinCandidateError \/ DeleteDebt \/ MarkUnpinned
  BY <1>7 DEF UnpinDebtError, UnpinCandidateError, DeleteDebt, MarkUnpinned, NextCid,
     ownershipVars
<1> QED
  BY <1>1, <1>2, <1>3, <1>4, <1>5, <1>6, <1>7 DEF RetentionNext

\* An orderly exit finds no lease in the publication task's hands.
THEOREM ExitSparesOwner == Spec => ExitSparesPinOwner
<1>1. IInv /\ [Next]_vars => [(Up /\ phase' = "exited") => lease = "none"]_vars
  <2> SUFFICES ASSUME IInv, [Next]_vars, Up, phase' = "exited"
               PROVE  lease = "none"
    OBVIOUS
  <2> USE DEF IInv, TypeInv, TypeOK, LifecycleTypeOK, Up
  <2>1. CASE SchedulerNext
    BY ZenonT(60), <2>1 DEF SchedulerNext, lifecycleVars, FailAtGate, StartCycle, StopTask,
       FailCycle,
       ReconcileNone, ReconcileAvailable, ReconcileAbandon, ReconcileAbandonError,
       ChooseArtifact, ReuseArtifact, AcquireArtifact, Pin, PinError, RecordArtifact, RecordError,
       CleanupPreserve, CleanupUnpin, CleanupDebt, CleanupDebtError, FinishGraph,
       ReserveSequence, AcquireManifest, RecordManifest, RefuseManifest, CheckAvailable,
       PublishIpns, IpnsPublished, record_v4_ipns, ActivateError
  <2>2. CASE RetentionNext
    BY <2>2, RetentionSparesLease
  <2>3. CASE DrainJoined
    BY <2>3 DEF DrainJoined, AllJoined, ControlInv, AtGate
  <2>4. CASE DrainAbort
    BY SMTT(60), <2>4 DEF DrainAbort, ControlInv
  <2>5. CASE \/ DaemonNext
             \/ \E c \in CID : ProviderLoses(c)
             \/ \E s \in Sequence : DhtStores(s)
    BY SMTT(60), <2>3, <2>4, <2>5 DEF DaemonNext, lifecycleVars, RequestShutdown,
       DrainDeadline, Crash,
       Restart, InvalidatePending, ProviderLoses, DhtStores
  <2>6. CASE UNCHANGED vars
    BY <2>6 DEF vars, lifecycleVars
  <2> QED
    BY <2>1, <2>2, <2>5, <2>6 DEF Next
<1> QED
  BY <1>1, Invariance, PTL DEF Spec, ExitSparesPinOwner

\* Only these steps begin where a pin is owned and not yet settled.
LEMMA SettlingSteps ==
    ASSUME SchedulerNext, pc \in {"record", "cleanup"}
    PROVE  \/ RecordArtifact \/ RecordManifest \/ CleanupPreserve \/ CleanupUnpin \/ CleanupDebt
           \/ RecordError \/ CleanupDebtError \/ RefuseManifest
<1>1. ~StartCycle /\ ~StopTask /\ ~FailCycle
  BY DEF StartCycle, StopTask, FailCycle, BeforeGate, AfterGate
<1>2. /\ ~ReconcileNone
      /\ ~\E s \in Sequence : ReconcileAvailable(s)
      /\ ~\E s \in Sequence, c \in CID : ReconcileAbandon(s, c)
      /\ ~\E s \in Sequence, c \in CID : ReconcileAbandonError(s, c)
  BY DEF ReconcileNone, ReconcileAvailable, ReconcileAbandon, ReconcileAbandonError
<1>3. /\ ~\E a \in Artifact : ChooseArtifact(a)
      /\ ~ReuseArtifact /\ ~AcquireArtifact /\ ~Pin /\ ~PinError
  BY DEF ChooseArtifact, ReuseArtifact, AcquireArtifact, Pin, PinError
<1>4. /\ ~\E due \in BOOLEAN : FinishGraph(due)
      /\ ~\E now \in Clock : ReserveSequence(now)
      /\ ~AcquireManifest
  BY DEF FinishGraph, ReserveSequence, AcquireManifest
<1>5. ~CheckAvailable /\ ~PublishIpns /\ ~IpnsPublished /\ ~record_v4_ipns /\ ~ActivateError
  BY DEF CheckAvailable, PublishIpns, IpnsPublished, record_v4_ipns, ActivateError
<1> QED
  BY <1>1, <1>2, <1>3, <1>4, <1>5 DEF SchedulerNext

\* A settled lease leaves its pin unpinned, referenced or in debt.
THEOREM SettledAccounted == Spec => SettledPinIsAccounted
<1> DEFINE Accounted(c) ==
      \/ c \notin held'
      \/ publication_cid_is_referenced(c)'
      \/ c \in debt'
<1>1. ASSUME IInv, Next, NEW c \in CID,
             c = cid, pc \in {"record", "cleanup"}, active' < active, Up'
      PROVE  Accounted(c)
  <2> USE <1>1 DEF IInv, TypeInv, TypeOK, LifecycleTypeOK
  <2>1. CASE RecordArtifact
    BY <2>1 DEF RecordArtifact, record_poi_artifact_pin, publication_cid_is_referenced
  <2>2. CASE RecordManifest
    <3>1. seq \in Pending'
      BY ZenonT(60), <2>2, RecordingManifest DEF RecordManifest
    <3> QED
      BY ZenonT(60), <2>2, <3>1 DEF RecordManifest, publication_cid_is_referenced, Pending,
         Required
  <2>3. CASE CleanupPreserve
    BY ZenonT(60), <2>3 DEF CleanupPreserve, publication_cid_is_referenced, Required, auditVars
  <2>4. CASE CleanupUnpin
    BY <2>4 DEF CleanupUnpin, unpin
  <2>5. CASE CleanupDebt
    BY <2>5 DEF CleanupDebt, record_pin_cleanup_debt
  <2>6. CASE SchedulerNext
    <3>1. CASE RecordError \/ CleanupDebtError \/ RefuseManifest
      BY <3>1 DEF RecordError, CleanupDebtError, RefuseManifest, drop_unsettled, lifecycleVars,
         ownershipVars
    <3> QED
      BY ZenonT(60), <2>1, <2>2, <2>3, <2>4, <2>5, <2>6, <3>1, SettlingSteps
  <2>7. CASE RetentionNext
    BY SMTT(60), <2>7, RetentionSparesLease
  <2>8. CASE \/ DaemonNext
             \/ \E d \in CID : ProviderLoses(d)
             \/ \E s \in Sequence : DhtStores(s)
    BY SMTT(60), <2>8 DEF DaemonNext, lifecycleVars, ownershipVars, Up, ControlInv,
       RequestShutdown,
       DrainJoined, DrainDeadline, DrainAbort, Crash, Restart, InvalidatePending,
       ProviderLoses, DhtStores
  <2> QED
    BY <2>6, <2>7, <2>8 DEF Next
<1>2. IInv /\ [Next]_vars =>
         [\A c \in CID :
            (c = cid /\ pc \in {"record", "cleanup"} /\ active' < active /\ Up') =>
               Accounted(c)]_vars
  BY <1>1
<1> QED
  BY <1>2, Invariance, PTL DEF Spec, SettledPinIsAccounted

=============================================================================
