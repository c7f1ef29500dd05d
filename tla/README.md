# Verification of railgun-indexer

TLA+ models of the parts of railgun-indexer whose correctness depends on the order
of events or on boundaries that tests hardly reach: how POI lists are mirrored, how
chain logs become rows, and what is pinned, recorded, published under an IPNS name,
unpinned and rewound, by tasks that run concurrently and can fail or be killed
between any two awaits. TLC checks the models on small instances; TLAPS proves all but
four of the safety properties for every size, two of them under a condition.

Paths below are relative to the repository. `core` stands for
`crates/railgun-indexer-core/src`, `bin` for `bins/railgun-indexer/src`.

## The system

One process runs a set of tokio tasks over one Postgres database.

| Part | Source | What it keeps | What runs it |
|---|---|---|---|
| POI scrape worker, orchestrator | `core/scrape/*` | event rows, page cursor, page size | one worker per list and chain, poll interval |
| Blocked shields | `core/blocked.rs`, `core/scrape` | rows of refused shields | its own loop, resync interval |
| POI v4 artifacts | `core/poi_v4.rs`, `core/snapshot` | checkpoint, tail, bridges of each scope | a publication cycle |
| POI publication scheduler | `bin/main.rs` `PublicationScheduler` | last manifest, flags | `delta_publish_interval`, `ipns_republish_interval` |
| Publication audit tables | `core/audit.rs` | artifacts, manifests, edges, cleanup debts | scheduler, sweeper, recovery command |
| Pin lifecycle coordinator | `core/audit.rs` | gate mutex, ownership leases, admission | scheduler, sweeper, drain |
| Retention sweeper | `core/audit.rs` `Retention` | cutoff, candidates | `retention_interval` |
| IPFS pinning client | `core/publish/ipfs.rs` | nothing; the services hold the objects | scheduler, sweeper |
| IPNS publisher task | `core/publish/ipns.rs` | request queue, active put, DHT swarm | requests, swarm events, deadlines |
| Publication sequence | `core/publication_sequence.rs`, `core/store.rs` | last reserved sequence | each new manifest |
| Chain-indexed indexing loop | `bin/chain_indexed.rs`, `core/chain_indexer.rs` | progress, headers, rows, batch span | one loop per chain, tail wake-ups |
| Chain log ingestion | `core/chain_logs.rs`, `core/public_txid.rs` and others | rows decoded from logs, calldata, traces | the indexing loop |
| Chain-indexed publication | `bin/chain_indexed.rs`, `core/merkle_checkpoint.rs` | chunks, catalogs and manifests of the second channel | `publish_interval` |
| Chain canonicality coordinator | `core/audit.rs` | RwLock: publications read, rewinds write | both of the above |
| Background tasks, drain | `bin/main.rs` | shutdown flag, join set, deadline | signals, the first task to exit |
| Backfill tools | `bin/bin/backfill_*` | rows that an older release left incomplete | an operator, beside the daemon |
| Status server, configuration, verify tools | `core/status.rs`, `core/config.rs`, `bin/bin/*` | read-only or one-shot | HTTP, command line |

The publication scheduler pins content at several services, writes down that it did,
puts a signed record naming a manifest into the DHT and writes that down as well. None
of these is atomic with the next. A commit may take effect and report an error, a put
may be stored after it was reported as failed, a service may lose an object, and
the process may be killed. Meanwhile the sweeper unpins what it believes nobody
needs, and the indexing loop may find that the blocks a manifest describes are no
longer part of the chain. What is published was read page by page from an upstream that
changes its lists, and range by range from providers that lag and reorganise.

## Modules

```
 POI channel                                 chain-indexed channel

 PinProvider     PinLifecycle                RemoteChain
      |               |                           |
    Audit             |                      ChainIndexer
    |   \             |                           |
    |    +-----+------+                     ChainPublisher
    |          |      |                      /          \
 PoiScheduler Retention                  MCChain   ChainIndexerProofs
        \     /
       PoiDaemon
       /       \
 MCPoiDaemon  PoiDaemonProofs

 the mirror                                  from logs to rows

     ScrapeWorkers                            CommitmentTree ------------ ChainTables
      /        \                              /            \                   |
 PoiScrape  PoiBlockedShields       PublicTxOutputs     MerkleCheckpoint  TimestampBackfill
      \        /                     /         \           |        \           |
      PoiMirror               ActionLogs  LegacyOutputs    |         \      ChainRows
       /     \                       \         /      CheckpointRoots  \     /
 MCPoiMirror PoiMirrorProofs          MCChainLogs ---------+         ChainCatalogs
                                       |                                   |
                       ChainLogFilters-+                              MCChainRows

 proofs about rows

 ChainRows, ChainLogFilters <-- ChainRowsProofs <--+
 ChainCatalogs <-- ChainDatasetsProofs <-----------+-- ChainCatalogsProofs
 CheckpointRoots <---------------------------------+

 what a publication is made of

 IpnsChannel <== IpnsPublisher   MultiPinner   PoiArtifactGraph
                     |    \       /    |        |      |
                     |   PublishProofs |        |  PoiArtifactGraphProofs
                     |                 |        |
                     +---------- MCPublication -+
```

A line or `<--` is an EXTENDS, `<==` an implementation (INSTANCE). The parts meet through
what each promises: `PoiDaemon` and `ChainPublisher` see the IPNS publisher as a request
that ends in one of the ways `IpnsChannel` allows, and one provider that keeps what it
acknowledged, which is what `MultiPinner` shows of the quorum. `ChainIndexer` says when a
batch is indexed and where to rewind to, `ChainTables` which rows this writes and deletes.

### POI channel

* `PinProvider`: the pinning provider and the IPNS name, both external. `held` is what
  `contains` answers, `resolved` what the name resolves to, `inflight` the records that
  a peer may still store, also long after the request was answered with an error.
  `removed` is a history variable: the CIDs the daemon itself unpinned last.
* `Audit`: the tables and each transaction on them. The four nullable time stamps of
  a manifest row are one `Status`, because the transactions reach five of the
  sixteen combinations.
* `PinLifecycle`: gate, admission flag, number of unsettled leases, the phase of the
  process, and the fault counter.
* `PoiScheduler`: one `publish_cycle` after another. An await is a place (`pc`) at
  which others may run. Which artifacts a cycle builds is a free choice here; the code
  paths for event artifacts, checkpoint catalogs and blocked shields are the same
  sequence of reuse, gate, lease, pin, record, and cleanup on failure.
* `Retention`: a sweep. Debts first, then the candidates; the lists are read without
  the gate and each entry is rechecked under it.
* `PoiDaemon`: both tasks in one process with shutdown, drain and its deadline,
  crash, restart and the operator's command that invalidates a pending manifest.
* `PoiArtifactGraph`: which artifacts a cycle builds for one scope. The corpus is the number
  of its events, since it only grows (`PoiScrape`); an artifact is the range of events in it.
  Checkpoint chunks, tail, rotation, bridges and their retention, through cycles that
  fail half way and manifests that are reactivated or abandoned. An abandonment
  marks a checkpoint catalog the providers have lost as `unpinned`, and the next entry is
  then built as if none had been published. `origin` is a history field: the events the
  first entry of such a line started with.

### The mirror

* `ScrapeWorkers`: chunks of pairs, the page size adapter, the retry budget, and an
  upstream that times out on pages above a size.
* `PoiScrape`: cursor, page, root validation, ingestion, hydration of the placeholder
  rows an old release left, adoption of a TXID version. A worker is a place per await; the
  first error aborts its siblings wherever they are. The content of an event is 1 when the
  upstream first served it and 2 when it was rewritten.
* `PoiBlockedShields`: the list of refused shields, which is not append-only, collected page
  by page, collected again when it differs from the table, and stored when both agree.
  `recent` is a history variable: the sets the list has been since the worker was spawned.
* `PoiMirror`: both as tasks of one process with admission, shutdown and crash.

### Chain-indexed channel

* `RemoteChain`: a chain that grows and reorganises among fixed branches, and two
  providers of which any may lag behind. A block is its height and the branch it
  first appears on. A behaviour meets one member of `Networks`: how deep reorganisations
  are, and who lags.
* `ChainIndexer`: the loop of one chain. The logs of a block are abstracted to the hash
  of the block, so `rows[b]` says which blocks at height `b` have left rows.
  Resume check, gate, recheck, rewind, header, one `get_logs` call per filter,
  commit, fallback to the archive provider, span adaptation.
* `ChainPublisher`: publication cycles of the same chain beside the loop, and the queue
  of the IPNS task with the leases inside its requests. Two datasets are enough to
  observe them at two different moments.
* `ChainTables`: the tables row by row, with their keys: upsert of a batch, rewind, the
  legacy-shield tool. A batch is put together from several answers (resume check, header,
  logs), and nothing compares them: each may be of any branch in `served`, those a provider
  still serves. `mixed` is a history variable: a batch since the last rewind was not all of
  the chain the progress stands on. `TimestampBackfill` adds the tool that fills in block
  timestamps, `ChainRows` what an earlier release may have left in the tables before either
  runs, and `ChainCatalogs` a publication cycle that plans chunks from one read, builds them
  from another and pages by rows, blocks and trees.

### From logs to rows

* `CommitmentTree`, `PublicTxOutputs`: tree positions, and how the outputs of an outer
  transaction are given to its Railgun transactions.
* `ActionLogs`: the contract (external) executes a call tree with nested and reverted
  calls and emits logs, of which a provider may lose one; the code rebuilds the
  transactions from Action logs, or from calldata and traces. A call the contract refused
  is there as calldata only.
* `LegacyOutputs`: the same for the entrypoints of the first contracts, with withdrawals
  that emit a commitment or nothing, and relay calls that end with a generated commitment.
* `ChainLogFilters`: which events are asked for in which block range.
* `MerkleCheckpoint`, `CheckpointRoots`: the checkpoint of a partly filled tree and its root.

### Transports

* `IpnsPublisher`: caller, request queue, deadlines, `not_before`, retries, bootstrap and
  peers, one put at a time, of which a late result may arrive while another request is
  active. Time is relative, a deadline is the ticks left. A turn of the loop reads the clock
  twice, to drop and start requests and then to compute the wake-up (`ComputeWake`), and
  time may pass between the two; `missed` is history: what fell due there. `leased` tells
  the chain-indexed channel from the POI channel.
* `IpnsChannel`: the abstract specification, what a caller of `publish_manifest_cid` may
  rely on.
* `MultiPinner`: `pin_bytes`, `unpin` and `contains` over several services; the S3 calls of
  one service (store, name, copy, delete) each fail before or after they take effect.

## Runs

Passing runs; the times are with two workers.

| Run | Bounds | Checks | States |
|---|---|---|---|
| `poi_daemon` | 1 artifact, 2 sequences, 1 fault of any kind, clock 1 or 2 | `PendingIsNewest`, `ActiveIsPublished`, `ResolvedGraphRetained`, `UnpinSparesUnsuperseded`, `SettledPinIsAccounted`, `ExitSparesPinOwner`, `PendingIsResolved`, `DebtIsPaid` | 0.10 M, 50 s |
| `poi_mirror` | 2 pairs in chunks of 1 or 2, 3 and 1 events, 2 of them old, pages of 1 to 3, 1 rewrite, 2 versions, 2 shields with 2 changes, 1 fault; scraper and resync each on their own | `CorpusHasNoGap`, `CorpusIsServed`, `EveryPairCatchesUp`, `StoredSetWasServed`, `StoredSetFollows` | 0.58 M, 125 s |
| `chain_index` | 5 blocks, 3 branches, 3 reorgs, 2 confirmations, deep reorgs with lagging providers or shallow ones without, 1 fault | `IndexedWithoutGaps`, `ProgressHasHeader`, `IndexedIsCanonical` | 0.56 M, 25 s |
| `chain_lease` | 2 blocks, 2 reorgs, 2 sequences, 2 faults of any kind but one | `LeasedWatermarkStands`, `ResolvedIsKept` | 1.0 M, 25 s |
| `chain_liveness` | 3 blocks, 1 reorg, a lagging archive, 1 fault of any kind | `IndexCatchesUp`, `RewindIsNotStarved` | 0.95 M, 170 s |
| `chain_logs` | call trees of up to 7 logs over a tree boundary, up to 3 legacy transactions, 5 blocks with every place of 3 era boundaries, trees of 8 leaves | `RowsAreExecuted`, `IntactLogsDecode`, `CalldataAgrees`, `LegacyRowsArePlaced`, `LogsRequestedOnce`, `RootIsOfWholeTree` | 2.0 M, 70 s |
| `chain_rows` | 3 blocks, a fork at the second, 1 reorg, trees of 4 leaves, pages of 3 rows | `TimestampsAreTheirBlocks`, `BackfillIsComplete`, `CatalogsListEveryRow`, `RootsAreOfListedRows`, `UndisturbedCycleSucceeds`, `TablesAreOfOneChain` | 1.4 M, 195 s |
| `publication` | 2 calls, time-out 3, 2 retry delays, queue of 1; 3 services, quorum 2, 2 CIDs, 2 outages; 4 events, 2 ticks, artifacts of 2 events, 2 bridges | `LeaseCoversPut`, `NothingIsOverdue`, `EveryRequestEnds`, `ImplementsChannel`; `PinnedAtQuorum`, `PinnedIsNeverDenied`; `ReadersAreServed`, `PublicationCatchesUp` | 0.49 M, 190 s |

Three MC modules (`MCChainLogs`, `MCChainRows`, `MCPublication`) hold components that share
no state. A behaviour observes one of them, named by `part`, and the others stand still.

What the properties say:

* `PendingIsNewest`: the pending manifest outranks every recorded manifest and every record
  of the DHT. Without it a reconciliation could publish an old manifest.
* `ActiveIsPublished`: the database never runs ahead of the DHT.
* `ResolvedGraphRetained`: nothing of the graph of the manifest the name resolves to has
  been unpinned by the daemon, also when that manifest was abandoned in the database and
  stored by a peer later.
* `UnpinSparesUnsuperseded`: no unpin, by the sweeper, by cleanup or for a debt, touches a
  CID an unsuperseded manifest needs.
* `SettledPinIsAccounted`: settling a lease leaves the pin gone, referenced or written down
  as a debt.
* `ExitSparesPinOwner`: the drain does not abort a task between a pin and its record.
* `PendingIsResolved`, `DebtIsPaid`: while the daemon runs, a pending manifest is activated
  or abandoned, and a debt is paid.
* `CorpusHasNoGap`, `CorpusIsServed`: whatever pages were repeated, aborted or committed
  without an answer, and whatever the upstream rewrote meanwhile, the stored events are a
  prefix without gaps of one list the upstream served, under one TXID version.
* `EveryPairCatchesUp`: every pair catches up, although large pages time out and a failing
  pair aborts the others.
* `StoredSetWasServed`, `StoredSetFollows`: the stored blocked shields are a set the
  upstream had while they were collected, if its list changed at most twice meanwhile, and
  once the list rests they become that list.
* `IndexedWithoutGaps`, `ProgressHasHeader`: whatever rewinds, repeated batches, fallbacks
  and crashes came before, rows cover exactly the blocks up to the progress, and the
  progress names a stored header.
* `IndexedIsCanonical`: `safe_confirmations` does what it is for.
* `LeasedWatermarkStands`: from the validation of a manifest to the end of the last request
  for it, the headers its watermarks name are not rewound. It is checked without ambiguous
  commits of the indexing loop. With them it fails: when a tail batch commits and reports an
  error, the archive fallback commits the same range again and may replace the header at the
  progress, without the gate.
* `ResolvedIsKept`: the name resolves to the active or the pending manifest, the two that
  retention leaves alone.
* `IndexCatchesUp`: progress reaches the safe head again and again, although the provider
  refuses long ranges, the archive lags and calls fail.
* `RewindIsNotStarved`: a rewind that waits for the gate gets it, although the leases travel
  with requests that outlive their cycles and failing cycles keep coming.
* `RowsAreExecuted`, `IntactLogsDecode`, `CalldataAgrees`: the rows rebuilt from Action logs
  are the transactions the contract executed, also when a log is missing (then there are no
  rows); a complete set of logs always decodes; the way through calldata and traces gives
  the same rows.
* `LegacyRowsArePlaced`: legacy rows start where their own outputs start. Nothing is said of
  the place of a withdrawal that emits nothing, which the code offers all outputs.
* `LogsRequestedOnce`: however the chain is cut into ranges, each event is asked for once.
* `RootIsOfWholeTree`: the folded checkpoint root is the root of the whole padded tree,
  which is the reference definition (`FullRoot`).
* `TablesAreOfOneChain`: below the deepest reorganisation the tables are the chain's,
  whatever answers batches were put together from. Up to the progress they are those of the
  chain it stands on, unless a batch since the last rewind mixed two: a rewind and a second
  indexing leave no orphaned row in any table. A mixed batch does leave orphans below a
  progress that is canonical, until a rewind that another reorganisation causes.
* `TimestampsAreTheirBlocks`, `BackfillIsComplete`: the backfill never gives a row the time
  of another block, and misses no row a publication reads.
* `CatalogsListEveryRow`, `RootsAreOfListedRows`, `UndisturbedCycleSucceeds`: when the
  tables stay as they were below its heights, a cycle lists every row once, roots are over
  what is listed, and no layout of the rows of a chain stops it. After a mixed batch two
  tables may have a commitment of one position, and a cycle then fails for that reason.
* `ImplementsChannel`: the IPNS publisher refines `IpnsChannel`. `NothingIsOverdue`,
  `EveryRequestEnds`: the loop never sleeps past a deadline and every request ends. Excepted
  is what falls due between the two readings of the clock: a delay, and the deadline of a
  request whose caller gave up before the second.
  `LeaseCoversPut`: a put of a leased request never outlives the lease.
* `PinnedAtQuorum`, `PinnedIsNeverDenied`: what `pin_bytes` returned is held by a quorum
  under that CID until somebody asks to unpin it, and `contains` never calls it missing.
* `ReadersAreServed`, `PublicationCatchesUp`: a new reader gets every event from checkpoint
  and tail, one with a recent manifest from bridges and tail; stored events are published.
  When the catalog of the active checkpoint was lost the bridges are given up with it, and
  a reader from before is served as a new one.

Each property has a mutant, an operator whose comment starts with "Mutant:". It is a
plausible slip in the code (a dropped guard, a missing clamp, a lock not waited for)
under which TLC finds the property violated.

### Bounds

Every race in question is between two tasks over one or two CIDs, a manifest and its
predecessor, or a chain and one fork.

* POI channel: with two sequences a manifest and its predecessor share the artifact or not,
  and one is active, abandoned or pending while the other is built. The safety properties
  are also proved for any number of artifacts, sequences and faults.
* Mirror: three events in pages of one to three give full, cut and repeated pages. Two
  changes of the blocked-shield list while one worker collects it are the exact limit of the
  code's promise: the second collection shows one or two changes, while three changes that
  restore a page between its two readings go unnoticed, and the stored set is then one that
  never was. `BlockedInv`, the invariant the proof rests on, was also checked with 3 shields
  and 4 changes (23 M states).
* Chain: five blocks with a window of two let a rewind end above, at, and below the fork,
  and a reorganisation return to an earlier branch. In `chain_rows` the tables alone meet
  every content of the blocks. Beside the timestamp tool or a cycle the first block has
  events, the other branch has the transactions in the opposite order or starts with an
  empty block, and the tables move until the tool or the cycle ends or has been disturbed.
  The run also holds with two reorgs (2.9 M states), and the safety properties of
  `PoiArtifactGraph` with 5 events and 4 ticks (7.3 M states).
* Logs: seven logs hold two calls, one nested in the other, with two transactions in one of
  them; the first leaf is the last of its tree, so that outputs cross the boundary.
* Publisher: a second call is made after the first gave up, so that results of the first
  arrive while the second waits, is active or retries. `PublicationCatchesUp` excludes one
  case, which the code documents as failing closed: more new events than one artifact holds
  since the last manifest.

### Where the code and what is written about it disagree

Four runs are expected to be violated.

* `poi_untracked_pin`: an artifact pinned again after the provider lost it, whose audit
  commit fails, is preserved by cleanup because a manifest references it, but has no
  live row. Retention never finds it once it is superseded.
* `poi_quiet_cycle`: after an activation that committed and reported an error, the
  scheduler remembers the previous manifest as the last. When the graph returns to
  that manifest's, the cycle publishes nothing until the republish interval.
* `chain_mixed_snapshot`: the rows of the datasets are read at different moments and
  only the hash at the watermark is compared afterwards. A rewind during the cycle that
  is followed by reindexing to the same block goes unnoticed.
* `chain_stuck_pending`: a pending chain-indexed manifest whose watermark was rewound
  fails its validation in every cycle. Unlike the POI channel there is no abandonment,
  so the channel publishes nothing more.

## Fairness

In all models faults are finitely many, which is the assumption that outages end.

* `PoiDaemon`: weak fairness of the publication task and of a record that a peer may
  store, because tokio keeps polling a ready task and DHT queries end; strong fairness of
  the sweeper, because the gate is a FIFO mutex and every sweep lists all debts again.
* `PoiMirror`: weak fairness of each loop, of each worker (they run in a JoinSet), of the
  supervisor starting the process, and of the upstream recovering.
* `ChainPublisher`: weak fairness of the indexing loop, the publication task and the IPNS
  task, and of a lagging provider catching up. Taking the gate needs no strong
  fairness: tokio's RwLock queues readers behind a waiting writer, which the guard of
  `TakePublicationLease` states. `IndexCatchesUp` further relies on the providers serving the
  tail span: the loop shrinks the span only during the historical catch-up.
* `IpnsPublisher`: weak fairness of the task's own steps, of the bootstrap timer, which
  keeps ticking, and of the caller; strong fairness of the clock, of receiving from the
  channel and of the end of a put, since `select!` polls all of its branches fairly, and
  libp2p bounds its queries.
* `PoiArtifactGraph`: weak fairness of the cycle, which a timer starts.

## Proofs

All constants are arbitrary up to the assumptions named in the modules: they say which set a
constant is in, that artifacts and CIDs are not confused with numbers or answers, that
spans, page sizes, query and row limits are positive, that delays and deadlines are numbers,
that a quorum is at most the number of services, that a chain's blocked shields are finitely
many, and, in `ChainTables` (`ForkAssumption`), that no reorganisation is deeper than a
rewind. The code relies on the last without checking it: a rewind goes back
`max_blocks_per_batch` and takes the header below from the provider, so that orphaned rows
further down are not noticed. `ChainIndexer` models deeper reorganisations.

| Module | Theorem | Statement |
|---|---|---|
| `PoiDaemonProofs` | `Invariance` | `Spec => []IInv` |
| | `TypeCorrectness` | `Spec => []TypeOK` |
| | `PendingNewest` | `Spec => []PendingIsNewest` |
| | `ActivePublished` | `Spec => []ActiveIsPublished` |
| | `ResolvedUnsuperseded` | `Spec => []ResolvedIsUnsuperseded` |
| | `ResolvedRetained` | `Spec => []ResolvedGraphRetained` |
| | `UnpinSpares` | `Spec => UnpinSparesUnsuperseded` |
| | `ExitSparesOwner` | `Spec => ExitSparesPinOwner` |
| | `SettledAccounted` | `Spec => SettledPinIsAccounted` |
| `ChainIndexerProofs` | `IndexInvariance` | `Spec => [](IndexInv /\ CanonInv)` |
| | `NoGaps` | `Spec => []IndexedWithoutGaps` |
| | `WatermarkHasHeader` | `Spec => []ProgressHasHeader` |
| | `ConfirmedIsCanonical` | `Spec => []IndexedIsCanonical` |
| | `Invariance` | `Spec => []IInv` |
| | `TypeCorrectness` | `Spec => []TypeOK` |
| | `ResolvedKept` | `Spec => []ResolvedIsKept` |
| | `WatermarksStand` | `Spec => []("index_commit" \notin FaultKinds => LeasedWatermarkStands)` |
| `PublishProofs` | `PutsAreLeased` | `Spec => []LeaseCoversPut` |
| | `NeverOverdue` | `Spec => []NothingIsOverdue` |
| | `Refinement` | `Spec => ImplementsChannel` |
| | `PinsAreKept` | `PinnerSpec => []PinnedAtQuorum` |
| | `PinsAreNotDenied` | `PinnerSpec => []PinnedIsNeverDenied` |
| `PoiArtifactGraphProofs` | `EveryReaderIsServed` | `GraphSpec => []ReadersAreServed` |
| `PoiMirrorProofs` | `NoGap` | `Spec => []CorpusHasNoGap` |
| | `ServedAsAWhole` | `Spec => [](ingested \subseteq {identity} /\ (MaxRewrites <= 1 => CorpusIsServed))` |
| | `StoredAsServed` | `Spec => StoredSetWasServed` |
| `ChainRowsProofs` | `OneChain` | `RowsSpec => []TablesAreOfOneChain` |
| | `TimestampsAreRight` | `RowsSpec => []TimestampsAreTheirBlocks` |
| | `NothingIsMissing` | `RowsSpec => []BackfillIsComplete` |
| | `RequestedOnce` | `FiltersSpec => []LogsRequestedOnce` |
| `ChainCatalogsProofs` | `CycleInvariant` | `CatalogsSpec => []CatalogsInv` |
| | `EveryRowIsListedOnce` | `CatalogsSpec => []CatalogsListEveryRow` |
| | `RootsAreOfRows` | `CatalogsSpec => []RootsAreOfListedRows` |
| | `CycleFailsForAReason` | `CatalogsSpec => []UndisturbedCycleSucceeds` |
| | `RootsAreWhole` | `CheckpointSpec => []RootIsOfWholeTree` |

`ChainDatasetsProofs` holds the lemmas of `ChainCatalogsProofs` about single datasets.

Conditional are `ServedAsAWhole` and `WatermarksStand`. Each theorem rests on an inductive
invariant, shown to be preserved task by task with one step per action.

**`PoiDaemonProofs`**: `IInv` has three parts.

1. `TypeInv`: types, and who is where while the gate or a lease is held. It is needed
   because "no other task is at the gate" is what makes a recheck under the gate count.
2. `SequenceInv`: every recorded sequence has been reserved; the three sequence
   properties; whatever the DHT may still store is unsuperseded and newer than what it
   has; the manifest in the task's hands has the newest sequence before it is recorded
   and is the pending one afterwards. `PendingIsNewest` alone is not inductive: a
   late store has to be known to belong to a manifest that nothing has replaced.
3. `RetainInv`: nothing that a manifest the DHT holds or may still store requires has
   been unpinned, and what the sweeper is about to unpin under the gate is required by
   no unsuperseded manifest.

The action properties follow from the invariant and a case split over the only actions
that unpin.

**`ChainIndexerProofs`**: `IndexInv` adds to the two table properties that the range in the
loop's hands begins no later than one above the progress and ends no earlier than at it.
Beginning exactly there is not invariant: after an ambiguous commit the fallback repeats
a range the progress already covers. `CanonInv` says, for a network that keeps to
`safe_confirmations`, that everything the loop has read, holds or stored lies at or below the
safe head, which only moves up and below which the chain never changes; progress alone
would say nothing about logs fetched before a reorganisation and committed after it.

For the publication, `PublishInv` relates the cycle's place to the audit table
(`CycleInv`) and every request, queued or under way, to it (`RequestInv`): a request is for the
active or the pending manifest or for one the name has moved past, and at most the
awaiting cycle's own request still has a caller. `LeaseInv` is what `WatermarksStand` needs: no
lease is out while a rewind is at work, a range starts right above the progress, so that
no commit replaces a header below it, and the draft in hand is the recorded manifest.
The second fact is where the assumption on ambiguous commits enters.

**`PublishProofs`**: for the IPNS publisher, only the latest call may be open, and a call
that was not made has no request. The refinement maps `response` to `outcome` and steps of
the queue, the clock and the swarm to stutters. `NothingIsOverdue` needs `WakeInv`. Between
the two readings of the clock at most one request is left in the queue, and it may not start
yet or fell due since the first (`BetweenInv`). While the loop sleeps, its wake-up is no later
than any deadline in the queue whose caller waits, than that of an active unleased request
and than the delay of a request that may start (`AsleepInv`). The loop takes the
least of these times, and that a least one exists is an induction.

For the quorum, `PinCallInv` ties each service's step to the call under way and says that
an acknowledged CID is in the service's objects before the temporary key is deleted.

**`PoiArtifactGraphProofs`**: `ReadersAreServed` speaks of the active entry only. `GraphInv`
says the same of the entry that is being built and of the recorded one, which a later cycle
may reactivate, and what keeps it true: a bridge has its row before a manifest names it
(`RowsInv`), bridges do not overlap and end no later than where an active manifest ended,
and a reader who fetched after the row of a bridge was written holds the events of that
bridge (`ReadersInv`). What is kept for old readers (`ServesAll`) goes back to the `origin`
of the entry's line, and a new entry follows the active one or starts a line (`Follows`). So
a bridge that retention drops by age is needed only by readers who are older than the
retention, and one that it drops by number leaves as many newer ones as are allowed.

**`PoiMirrorProofs`**: `ScrapeInv` says of every worker at its commit that its page starts no
later than one above the tip and that its cache is the corpus with the page applied, which
a sibling's abort or a repeated page must not disturb; the property alone says nothing of
pages in hand. `FenceInv` ties the version a process runs with to the database's, and
`ServedInv` says that a list about to be committed is all from before the rewrite or a
beginning of the present one. The condition `MaxRewrites <= 1` is the property's own limit:
it tells the first list from the present one, and after two rewrites a stored list may be
the one between them. `BlockedInv` measures a worker's collections by the number of changes
since it was spawned. Pages are numbered and a change moves the records behind it, so that a
collection may miss a record or have one twice. With one change, what was read is still a
set the list has been or it has a record the list has no more. The second collection, with
at most one change left, either is the list as it is or misses a record of the first, and
only what both agree on is stored (`FirstPass`, `ReadOnce`, `SecondPass`).

**`ChainRowsProofs`**: the first three theorems are about `RowsSpec`. The run's
specification (`MCChainRows`) restricts its initial states and adds a publication cycle that
reads the tables. `OneChain` needs `ChainInv`: below the fork the tables hold the chain up
to the progress and nothing else, except what the shield tool wrote above it (`Settled`),
and while no batch was mixed there is a branch the progress stands on such that the tables
hold all its rows up to the progress and nothing of another. That a batch replaces no row of
an earlier block rests on positions being numbered along the chain, a sum over the blocks
before (`Before`). `TimestampsAreRight` needs the property of the answers in the tool's
hands too (`TimeInv`). `NothingIsMissing` needs that lists and answers are not empty while
the tool works on them and that tables are finite, so that a limited list of the missing
blocks is empty only when none is missing (`CompleteInv`). For `RequestedOnce`, the filters
of a range ask for each event once in each of its blocks, by cases on where the three era
boundaries lie (`CombinedCovers`, `SplitCovers`), and `WalkInv` adds that nothing at or
above `from_block` was asked for yet.

**`ChainDatasetsProofs`, `ChainCatalogsProofs`**: `CatalogsSpec` is a cycle beside the
indexer, for every list of datasets. Its properties are about the end of a cycle.
`CatalogsInv` says what holds on the way: the tables are finite and have one row per key, of
whichever branches (`TableInv`); the datasets behind have complete catalogs, those ahead
none (`ProgressInv`); the one at work has pushed chunks that follow one another and hold all
rows below a place (`Lists`), and its plan covers all rows from there to the end of the page
(`Ranges`); a failed cycle has a reason (`Excuse`), one of which is that two tables have a
commitment of one position. It is claimed as long as the rows below the heights are as they
were; growth above them is part of the steps. Rows are placed by tree position, by block,
or, for public TXIDs, by rank in the order of the query, and that ranks have no gaps is what
makes a page by index complete (`Dense`).

`RootsAreWhole` compares the fold over the stored leaves with the whole tree, level by
level: each level of the fold is a beginning of the level of the tree, which has the zero
node of its height from there on (`IsLevel`). Padding a level of odd length keeps this, and
so does hashing its pairs. The proof uses nothing of the hash function.

Inductions over numbers take a least counterexample (`WFMin` on the order of the naturals),
which the provers can use without instantiating an operator.

Only model-checked:

* The liveness properties (`PendingIsResolved`, `DebtIsPaid`, `EveryPairCatchesUp`,
  `StoredSetFollows`, `IndexCatchesUp`, `RewindIsNotStarved`, `EveryRequestEnds`,
  `PublicationCatchesUp`): fairness is outside the prover's reach.
* `RowsAreExecuted`, `IntactLogsDecode`, `CalldataAgrees`, `LegacyRowsArePlaced`: what the
  folds and filters over logs compute for every call tree needs an induction over sequences
  and trees.

## Not modelled

* Bytes: encoding, hashing, signatures, ABI and JSON decoding, the snapshot formats. A CID
  names content, a hash is injective, a manifest is its sequence, graph and watermarks.
* Several chains in one combined manifest and several scopes in one POI manifest. Pins,
  gate and retention of the chain-indexed channel share the code modelled for the POI
  channel and are not modelled a second time.
* Several contracts on one chain. Headers are kept per chain and progress per contract, so
  that a rewind for one deletes headers another one was validated with.
* Durations: outside `IpnsPublisher` and `PoiArtifactGraph` a deadline is a fault that
  can happen at any time.
* Configuration (its constraints are assumptions on constants), status server, schema
  migrations, and the verify tools, which write nothing.
* Log messages. One of them promises more than the drain does: a lease dropped unsettled is
  logged as "clean shutdown will remain blocked" (`core/audit.rs`), but the drain looks at
  the owners only after its deadline.
