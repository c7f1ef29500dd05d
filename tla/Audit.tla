------------------------------- MODULE Audit -------------------------------
(***************************************************************************)
(* The durable publication tables of the POI v4 channel and the             *)
(* transactions on them (audit.rs, store.rs).                               *)
(*                                                                         *)
(* published_poi_v4_manifests has four nullable timestamps.  The            *)
(* transactions below reach five combinations of them:                      *)
(*    pending      none set                                                 *)
(*    active       ipns_published_at                                        *)
(*    invalidated  reconciliation_invalidated_at                            *)
(*    superseded   superseded_at, after active or invalidated               *)
(*    unpinned     superseded_at and unpinned_at                            *)
(***************************************************************************)
EXTENDS PinProvider

VARIABLES
    live,           \* published_poi_v4_artifacts rows with unpinned_at IS NULL
    manifest,       \* published_poi_v4_manifests, by ipns_sequence
    graph,          \* published_poi_v4_manifest_artifacts: artifact_cid by manifest
    debt,           \* pin_cleanup_debt
    state_sequence, \* indexer_state: the last reserved POI publication sequence
    old             \* rows whose time stamp is at or before the running sweep's cutoff

auditVars == <<live, manifest, graph, debt, state_sequence, old>>

Status == {"none", "pending", "active", "invalidated", "superseded", "unpinned"}

AuditTypeOK ==
    /\ live \in SUBSET Artifact
    /\ manifest \in [Sequence -> Status]
    /\ graph \in [Sequence -> SUBSET Artifact]
    /\ debt \in SUBSET CID
    /\ state_sequence \in 0..MaxSequence
    /\ old \in SUBSET CID

AuditInit ==
    /\ live = {}
    /\ manifest = [s \in Sequence |-> "none"]
    /\ graph = [s \in Sequence |-> {}]
    /\ debt = {}
    /\ state_sequence = 0
    /\ old = {}

\* The SQL function GREATEST.
Greatest(x, y) == IF x >= y THEN x ELSE y

\* Every CID a wallet needs once the name resolves to manifest s.
Required(s) == graph[s] \cup {s}

Unsuperseded(s) == manifest[s] \in {"pending", "active", "invalidated"}

Pending == {s \in Sequence : manifest[s] = "pending"}

ActiveManifests == {s \in Sequence : manifest[s] = "active"}

\* The row with the highest sequence, 0 when there is none.
active_poi_artifact_manifest_publication(s) ==
    /\ s \in ActiveManifests \cup {0}
    /\ \A t \in ActiveManifests : t <= s

publication_cid_is_referenced(c) ==
    \/ c \in live
    \/ \E s \in Sequence :
          /\ manifest[s] \notin {"none", "unpinned"}
          /\ c \in Required(s)

-----------------------------------------------------------------------------
\* Mutant: the wall clock alone picks the sequence.
reserve_from_clock(now) ==
    /\ state_sequence' = Greatest(1, now)
    /\ state_sequence' <= MaxSequence
    /\ UNCHANGED <<live, manifest, graph, debt, old>>

\* reserve_poi_publication_sequence: `now' is the wall clock, which may run behind.
reserve_poi_publication_sequence(now) ==
    /\ state_sequence' = Greatest(state_sequence + 1, now)
    /\ state_sequence' <= MaxSequence
    /\ UNCHANGED <<live, manifest, graph, debt, old>>

record_poi_artifact_pin(c) ==
    /\ live' = live \cup {c}
    /\ old' = old \ {c}
    /\ UNCHANGED <<manifest, graph, debt, state_sequence>>

\* reject_unresolved_pending and the check for MissingManifestArtifacts.
manifest_is_recordable(cids) ==
    /\ cids \subseteq live
    /\ Pending = {}

record_poi_artifact_manifest_pin(s, cids) ==
    /\ manifest_is_recordable(cids)
    /\ manifest' = [manifest EXCEPT ![s] = "pending"]
    /\ graph' = [graph EXCEPT ![s] = cids]
    /\ UNCHANGED <<live, debt, state_sequence, old>>

\* ensure_newer_than_invalidated_pending, then activation, then supersession.
record_poi_artifact_manifest_ipns_publication(s) ==
    /\ \A t \in Sequence : manifest[t] = "invalidated" => s > t
    /\ manifest[s] \in {"pending", "active"}
    /\ manifest' = [t \in Sequence |->
          IF t = s THEN "active"
          ELSE IF manifest[t] = "active" \/ (manifest[t] = "invalidated" /\ t < s)
               THEN "superseded"
               ELSE manifest[t]]
    /\ UNCHANGED <<live, graph, debt, state_sequence, old>>

invalidate_pending_poi_manifest_reconciliation(s) ==
    /\ s \in Pending
    /\ manifest' = [manifest EXCEPT ![s] = "invalidated"]
    /\ state_sequence' = Greatest(state_sequence, s)

\* `c' is the unavailable CID; its row is closed when it is an artifact.
abandon_pending_poi_v4_manifest_reconciliation(s, c) ==
    /\ invalidate_pending_poi_manifest_reconciliation(s)
    /\ live' = live \ {c}
    /\ UNCHANGED <<graph, debt, old>>

record_pin_cleanup_debt(c) ==
    /\ debt' = debt \cup {c}
    /\ UNCHANGED <<live, manifest, graph, state_sequence, old>>

=============================================================================
