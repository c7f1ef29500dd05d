------------------------- MODULE PoiArtifactGraph -------------------------
(***************************************************************************)
(* The graph of artifacts a POI manifest names for one scope (main.rs       *)
(* publish_poi_artifact_entry, poi_v4.rs ValidatedCorpus): a checkpoint of  *)
(* the first events cut in chunks, the current tail after it, and bridges,  *)
(* which are the tails of earlier checkpoints.  A new reader takes the      *)
(* checkpoint and the tail; a reader who knows the events of an earlier     *)
(* manifest takes the bridges and the tail.                                 *)
(*                                                                         *)
(* The corpus only grows and replays to the root the upstream accepts       *)
(* (PoiScrape), so it is the number of its events, and the size of an       *)
(* artifact is the number of events in it.  Rows and the publisher read the *)
(* same clock.  How CIDs are pinned, leased and retained is PoiScheduler.   *)
(***************************************************************************)
EXTENDS Naturals, FiniteSets, FiniteSetsExt

CONSTANTS
    MaxEvents,  \* bound on the corpus
    MaxClock,   \* bound on the clock
    MaxFaults,  \* bound on cycles that fail or crash on the way
    ByteLimit,  \* events that fit in one artifact
    Span,       \* CHECKPOINT_EVENT_SPAN
    Interval,   \* base_rebuild_interval
    Retain,     \* V4_BRIDGE_RETENTION_TARGET
    MaxBridges  \* MAX_RETAINED_BRIDGES

ASSUME GraphAssumption ==
    /\ {MaxEvents, MaxClock, MaxFaults, Interval, Retain} \subseteq Nat
    /\ Span \in 1..ByteLimit
    /\ MaxBridges \in Nat \ {0}

VARIABLES
    events,       \* events in the stored corpus
    clock,
    published_at, \* when the row of a bridge or a checkpoint catalog was first recorded
    unpinned,     \* the rows of checkpoint catalogs with unpinned_at
    current,      \* the entry of the active manifest
    recorded,     \* the entry of the pending manifest
    draft,        \* the entry this cycle publishes
    stage,        \* what this cycle does next
    reader,       \* what a reader holds and since when, if there is one
    mishaps       \* cycles that failed so far

graphVars == <<events, clock, published_at, unpinned, current, recorded, draft, stage, reader, mishaps>>

\* The events with an index in from..upto-1.
Slices == [from : 0..MaxEvents, upto : 0..MaxEvents]
Slice(a, b) == [from |-> a, upto |-> b]

\* The chunks and the bridges of an entry are in the order of their events.  origin is history: the
\* events there were when its line of entries was started without an active graph.
NoGraph == [event_count |-> 0, checkpoint |-> 0, chunks |-> {}, tail |-> {},
            bridges |-> {}, origin |-> 0, exists |-> "no"]

GraphTypeOK ==
    /\ events \in 0..MaxEvents
    /\ clock \in 0..MaxClock
    /\ DOMAIN published_at \subseteq {"bridge", "catalog"} \X Slices
    /\ unpinned \subseteq DOMAIN published_at
    /\ \A g \in {current, recorded, draft} :
          /\ g.checkpoint \in 0..g.event_count
          /\ g.event_count \in 0..events
          /\ Cardinality(g.bridges) <= MaxBridges
    /\ stage \in {"idle", "bridge", "catalog", "tail", "ipns"}
    /\ mishaps \in 0..MaxFaults

GraphInit ==
    /\ events \in 0..MaxEvents
    /\ clock = 0
    /\ published_at = <<>>
    /\ unpinned = {}
    /\ current = NoGraph
    /\ recorded = NoGraph
    /\ draft = NoGraph
    /\ stage = "idle"
    /\ reader = {}
    /\ mishaps = 0

-----------------------------------------------------------------------------
\* EventArtifact::to_bytes refuses an artifact over the byte limit.
Fits(r) == r.upto - r.from <= ByteLimit

\* The chunks of the first n events: full spans, and what is left.
prepare_checkpoint(n) ==
    {Slice(k * Span, Min({(k + 1) * Span, n})) : k \in {k \in 0..n : k * Span < n}}

TailFrom(n) == IF n < events THEN {Slice(n, events)} ELSE {}

current_tail_fits(n) == \A r \in TailFrom(n) : Fits(r)

Bridge(r) == <<"bridge", r>>
Catalog(n) == <<"catalog", Slice(0, n)>>

\* Mutant: only the age of the checkpoint asks for a rotation.
rotation_by_age(g) ==
    g.tail # {} /\ clock - published_at[Catalog(g.checkpoint)] >= Interval

poi_artifact_rotation_required(g) ==
    \/ g.tail # {} /\ clock - published_at[Catalog(g.checkpoint)] >= Interval
    \/ ~current_tail_fits(g.checkpoint)

\* Bridges of the active graph age from their rows, the new one is of this cycle.
IsRecent(g, r) ==
    r \in g.bridges => clock - published_at[Bridge(r)] <= Retain

\* Mutant: the drain takes one bridge too many.
retain_too_few(g, bridges) ==
    LET retained == {r \in bridges : IsRecent(g, r)}
    IN  {r \in retained : Cardinality({s \in retained : s.from > r.from}) < MaxBridges - 1}

\* Those that are recent, and of these the last MaxBridges.
retain_recent_bridges(g, bridges) ==
    LET retained == {r \in bridges : IsRecent(g, r)}
    IN  {r \in retained : Cardinality({s \in retained : s.from > r.from}) < MaxBridges}

Entry(checkpoint, bridges, origin) ==
    [event_count |-> events, checkpoint |-> checkpoint,
     chunks |-> prepare_checkpoint(checkpoint), tail |-> TailFrom(checkpoint),
     bridges |-> bridges, origin |-> origin, exists |-> "yes"]

\* The published tail becomes a bridge; the checkpoint moves to where it ended.
Rotated(g) ==
    Entry(g.event_count,
          retain_recent_bridges(g, IF g.event_count > g.checkpoint
                                   THEN g.bridges \cup {Slice(g.checkpoint, g.event_count)}
                                   ELSE g.bridges),
          g.origin)

publish_poi_artifact_entry(g) ==
    IF g.exists = "no" THEN Entry(events, {}, events)
    ELSE IF poi_artifact_rotation_required(g) THEN Rotated(g)
    ELSE Entry(g.checkpoint, g.bridges, g.origin)

-----------------------------------------------------------------------------
\* The scraper stores an event.
StoreEvent ==
    /\ events < MaxEvents
    /\ events' = events + 1
    /\ UNCHANGED <<clock, published_at, unpinned, current, recorded, draft, stage, reader, mishaps>>

PassTime ==
    /\ clock < MaxClock
    /\ clock' = clock + 1
    /\ UNCHANGED <<events, published_at, unpinned, current, recorded, draft, stage, reader, mishaps>>

\* A reader fetches the manifest the name resolves to, which is the active one or,
\* before the activation is recorded, the pending one.
Fetch(g) ==
    /\ g.exists = "yes"
    /\ reader' = {[holds |-> g.event_count, since |-> clock]}
    /\ UNCHANGED <<events, clock, published_at, unpinned, current, recorded, draft, stage, mishaps>>

\* The pending manifest of an earlier cycle is published again: Activated.
Reactivate ==
    /\ stage = "idle"
    /\ recorded.exists = "yes"
    /\ current' = recorded
    /\ recorded' = NoGraph
    /\ UNCHANGED <<events, clock, published_at, unpinned, draft, stage, reader, mishaps>>

\* The provider lost a CID of the pending manifest: Abandoned, and the row of that CID, which
\* may be the catalog that the active manifest names as well, is marked.
abandon_pending_poi_v4_manifest_reconciliation ==
    /\ stage = "idle"
    /\ recorded.exists = "yes"
    /\ recorded' = NoGraph
    /\ unpinned' \in {unpinned, unpinned \cup {Catalog(recorded.checkpoint)}}
    /\ UNCHANGED <<events, clock, published_at, current, draft, stage, reader, mishaps>>

\* The entry of the active manifest, if the row of its checkpoint catalog is not marked.
active_poi_graph == IF Catalog(current.checkpoint) \in unpinned THEN NoGraph ELSE current

\* A cycle without a pending manifest builds the entry of the corpus it reads.
BuildEntry ==
    /\ stage = "idle"
    /\ recorded.exists = "no"
    /\ draft' = publish_poi_artifact_entry(active_poi_graph)
    /\ stage' = "bridge"
    /\ UNCHANGED <<events, clock, published_at, unpinned, current, recorded, reader, mishaps>>

\* ON CONFLICT keeps the published_at of a row that is there already, and clears unpinned_at.
record_poi_artifact_pin(rows) ==
    /\ published_at' = [a \in DOMAIN published_at \cup rows |->
                           IF a \in DOMAIN published_at THEN published_at[a] ELSE clock]
    /\ unpinned' = unpinned \ rows

\* The new bridge first, then those retained, which have their rows.
PublishBridges ==
    /\ stage = "bridge"
    /\ record_poi_artifact_pin({Bridge(r) : r \in draft.bridges})
    /\ stage' = "catalog"
    /\ UNCHANGED <<events, clock, current, recorded, draft, reader, mishaps>>

publish_poi_checkpoint_catalog ==
    /\ stage = "catalog"
    /\ record_poi_artifact_pin({Catalog(draft.checkpoint)})
    /\ stage' = "tail"
    /\ UNCHANGED <<events, clock, current, recorded, draft, reader, mishaps>>

EndPublication ==
    /\ draft' = NoGraph
    /\ stage' = "idle"

\* A tail that is too long after the rotation fails the cycle, which keeps the rows.
RefuseTail ==
    /\ stage = "tail"
    /\ \E r \in draft.tail : ~Fits(r)
    /\ EndPublication
    /\ UNCHANGED <<events, clock, published_at, unpinned, current, recorded, reader, mishaps>>

SameGraph(g, h) == [g EXCEPT !.origin = 0] = [h EXCEPT !.origin = 0]

\* The graph hash is the one published last, and no republication is due.
KeepManifest ==
    /\ stage = "tail"
    /\ \A r \in draft.tail : Fits(r)
    /\ SameGraph(draft, current)
    /\ EndPublication
    /\ UNCHANGED <<events, clock, published_at, unpinned, current, recorded, reader, mishaps>>

\* The tail, the blocked shields and the manifest have been pinned and recorded.
publish_poi_manifests ==
    /\ stage = "tail"
    /\ \A r \in draft.tail : Fits(r)
    /\ recorded' = draft
    /\ stage' = "ipns"
    /\ UNCHANGED <<events, clock, published_at, unpinned, current, draft, reader, mishaps>>

publish_poi_ipns ==
    /\ stage = "ipns"
    /\ current' = recorded
    /\ recorded' = NoGraph
    /\ EndPublication
    /\ UNCHANGED <<events, clock, published_at, unpinned, reader, mishaps>>

\* A call of the cycle fails, or the process stops and is started again.
AbortCycle ==
    /\ stage # "idle"
    /\ mishaps < MaxFaults
    /\ mishaps' = mishaps + 1
    /\ EndPublication
    /\ UNCHANGED <<events, clock, published_at, unpinned, current, recorded, reader>>

publish_cycle ==
    \/ Reactivate
    \/ abandon_pending_poi_v4_manifest_reconciliation
    \/ BuildEntry
    \/ PublishBridges
    \/ publish_poi_checkpoint_catalog
    \/ RefuseTail
    \/ KeepManifest
    \/ publish_poi_manifests
    \/ publish_poi_ipns

GraphNext ==
    \/ publish_cycle
    \/ AbortCycle
    \/ StoreEvent
    \/ PassTime
    \/ Fetch(current)
    \/ Fetch(recorded)

\* The scheduler loop keeps running cycles.
GraphSpec == GraphInit /\ [][GraphNext]_graphVars /\ WF_graphVars(publish_cycle)

-----------------------------------------------------------------------------
Holds(slices, i) == \E r \in slices : r.from <= i /\ i < r.upto

\* The active graph, and the one about to replace it, serve every reader: a new one gets
\* each event from the checkpoint or the tail, and one that fetched a manifest no longer
\* ago than the retention gets each event it lacks from the bridges and the tail, unless
\* the graph is at its limit of bridges.  Rotations, cycles that fail half way and
\* manifests that are reactivated or abandoned leave no gap between the artifacts.  When the
\* provider lost the catalog of the active checkpoint the next entry is built as if none had
\* been published, without bridges: a reader of before, who holds fewer events than it started
\* with, is served as a new one.
ReadersAreServed ==
    \A g \in {current, recorded} :
        /\ \A i \in 0..(g.event_count - 1) : Holds(g.chunks \cup g.tail, i)
        /\ \A r \in reader :
              (/\ clock - r.since <= Retain
               /\ Cardinality(g.bridges) < MaxBridges
               /\ g.origin <= r.holds) =>
                  \A i \in r.holds..(g.event_count - 1) : Holds(g.bridges \cup g.tail, i)

\* Stored events are published again and again, although the tail outgrows an artifact:
\* only more new events than one artifact holds, stored since the last manifest was
\* activated, stop the publication.
PublicationCatchesUp ==
    \/ []<>(current.event_count = events)
    \/ <>[](events - current.event_count > ByteLimit)

============================================================================
