----------------------------- MODULE PoiScrape -----------------------------
(***************************************************************************)
(* The POI scraper: Orchestrator::run_until_caught_up_or_shutdown under      *)
(* run_scraper_loop, a ScrapeWorker per pair of list and chain, and the      *)
(* poi_events, chain_tips and poi_dataset_identity tables.                   *)
(*                                                                         *)
(* An event is abstracted to its content, 1 for the event the upstream first *)
(* served at an index and 2 for one it was rewritten to.  A row is none, a   *)
(* placeholder leaf of an old release, or a complete event.                  *)
(***************************************************************************)
EXTENDS ScrapeWorkers

CONSTANTS
    Version,             \* TXID versions a configuration may name
    AdoptedVersion,      \* the one an operator adopts the old release's database for
    MaxEvents,           \* bound: events of each pair
    LegacyEvents,        \* bound: the events of each pair an old release left behind
    MaxRewrites          \* bound: times the upstream rewrites its events

VARIABLES
    upstream, \* per pair, the contents of the events the upstream serves
    row,      \* poi_events: per pair and index
    tip,      \* chain_tips.last_event_index, -1 when there is no row
    identity, \* poi_dataset_identity.txid_version
    ingested, \* history: the versions under which rows were written
    config,   \* the version the process runs with
    chunk,    \* the chunk of pairs the scraper works on, 0 between cycles
    worker,   \* per pair, the ScrapeWorker
    rewrites

corpusVars == <<row, tip, identity, ingested>>
scrapeVars == <<upstream, corpusVars, config, chunk, worker, rewrites>>

Index == 0..(Max({MaxEvents[p] : p \in Pair}) - 1)

\* An old release's rows are a prefix of what the upstream may come to serve; the longest list
\* has a length, as it has whenever there are finitely many pairs.
ASSUME EventsAssumption ==
    \A p \in Pair : /\ LegacyEvents[p] \in 0..MaxEvents[p]
                    /\ Max({MaxEvents[q] : q \in Pair}) \in Nat
                    /\ MaxEvents[p] \in 0..Max({MaxEvents[q] : q \in Pair})

ASSUME VersionAssumption == AdoptedVersion \in Version /\ "none" \notin Version
ASSUME RewritesAssumption == MaxRewrites \in Nat

Content == {1, 2}
Row == [kind : {"none"}, content : {0}] \cup [kind : {"leaf", "event"}, content : Content]
NoRow == [kind |-> "none", content |-> 0]

NoCache == <<0>> \* no leaf has this content
NoPage == [start |-> 0, events |-> <<>>]
NoWorker == [pc |-> "none", size |-> max_size, successes |-> 0, attempts |-> 0,
             cache |-> NoCache, page |-> NoPage]
NoWorkers == [p \in Pair |-> NoWorker]

Place == {"none", "page", "backoff", "validate", "commit", "caught_up", "shutdown",
          "failed", "exhausted"}

ScrapeTypeOK ==
    /\ \A p \in Pair :
         /\ upstream[p] \in UNION {[1..n -> Content] : n \in 0..MaxEvents[p]}
         /\ row[p] \in [Index -> Row]
         /\ tip[p] \in Index \cup {-1}
         /\ worker[p].pc \in Place
         /\ worker[p].size \in min_size..max_size
         /\ worker[p].attempts \in 0..retry_budget
    /\ identity \in Version \cup {"none"}

-----------------------------------------------------------------------------
(* The database of an old release: leaves without signatures, and no identity. *)
ScrapeInit ==
    /\ upstream = [p \in Pair |-> [i \in 1..LegacyEvents[p] |-> 1]]
    /\ row = [p \in Pair |-> [i \in Index |->
          IF i < LegacyEvents[p] THEN [kind |-> "leaf", content |-> 1] ELSE NoRow]]
    /\ tip = [p \in Pair |-> LegacyEvents[p] - 1]
    /\ identity = "none"
    /\ ingested = {}
    /\ config = "none"
    /\ chunk = 0
    /\ worker = NoWorkers
    /\ rewrites = 0

-----------------------------------------------------------------------------
(* The upstream. *)

UpstreamAppends(p) ==
    /\ "scraper" \in tasks
    /\ Len(upstream[p]) < MaxEvents[p]
    /\ upstream' = [upstream EXCEPT ![p] = Append(@, 1)]
    /\ UNCHANGED <<corpusVars, config, chunk, worker, rewrites, workersVars>>

\* Another list behind the same URL: from some index on the upstream serves other events.
UpstreamRewrites(p, i) ==
    /\ "scraper" \in tasks
    /\ rewrites < MaxRewrites
    /\ upstream[p][i] = 1
    /\ upstream' = [upstream EXCEPT ![p] = [n \in DOMAIN @ |-> IF n >= i THEN 2 ELSE @[n]]]
    /\ rewrites' = rewrites + 1
    /\ UNCHANGED <<corpusVars, config, chunk, worker, workersVars>>

-----------------------------------------------------------------------------
(* Admission of the configured version at startup. *)

poi_dataset_has_state == \E p \in Pair : tip[p] >= 0 \/ \E i \in Index : row[p][i] # NoRow

\* Whether set_poi_txid_version succeeds for the configured version.
set_poi_txid_version(v, allow_populated_adoption) ==
    IF identity # "none" THEN identity = v
    ELSE allow_populated_adoption \/ ~poi_dataset_has_state

-----------------------------------------------------------------------------
(* The worker. *)

first_incomplete(p) == {i \in Index : row[p][i].kind = "leaf"}

\* Mutant: the scan resumes after the tip although placeholders remain below it.
resume_after_tip(p) == tip[p] + 1

next_start_index(p) ==
    IF first_incomplete(p) # {} THEN Min(first_incomplete(p)) ELSE tip[p] + 1

\* page_event_range_for_hydration from 0 to the tip.
load_poi_cache(p) == [n \in 1..(tip[p] + 1) |-> row[p][n - 1].content]

\* PoiCache (external): events overwrite or extend the leaves they are contiguous with.
apply_events(cache, page) ==
    LET last == Max({Len(cache), page.start + Len(page.events)})
    IN  [n \in 1..last |-> IF n > page.start /\ n <= page.start + Len(page.events)
                           THEN page.events[n - page.start]
                           ELSE cache[n]]

\* poi_events answers with the first n events of the requested page.
FetchPage(p, n) ==
    LET start == next_start_index(p) IN
    /\ MayRequest(worker[p])
    /\ worker[p].size <= served
    /\ n \in 1..Min({worker[p].size, Len(upstream[p]) - start})
    /\ worker' = [worker EXCEPT ![p].pc = "validate",
          ![p].page = [start |-> start, events |-> SubSeq(upstream[p], start + 1, start + n)]]
    /\ UNCHANGED <<upstream, corpusVars, config, chunk, rewrites, workersVars>>

CaughtUp(p) ==
    /\ MayRequest(worker[p])
    /\ worker[p].size <= served
    /\ next_start_index(p) >= Len(upstream[p])
    /\ worker' = [worker EXCEPT ![p].pc = "caught_up"]
    /\ UNCHANGED <<upstream, corpusVars, config, chunk, rewrites, workersVars>>

\* A page too large for the upstream; every page is during an outage.
FetchTimesOut(p) ==
    /\ MayRequest(worker[p])
    /\ worker[p].size > served
    /\ worker' = [worker EXCEPT ![p] = Retry(@)]
    /\ UNCHANGED <<upstream, corpusVars, config, chunk, rewrites, workersVars>>

\* The backoff sleep, which the shutdown flag cuts short.
EndBackoff(p) ==
    /\ worker[p].pc = "backoff"
    /\ worker' = [worker EXCEPT ![p] = BackedOff(@)]
    /\ UNCHANGED <<upstream, corpusVars, config, chunk, rewrites, workersVars>>

\* A shutdown seen before a page is requested for the first time.
StopWorker(p) ==
    /\ worker[p].pc = "page"
    /\ ~MayRequest(worker[p])
    /\ worker' = [worker EXCEPT ![p].pc = "shutdown"]
    /\ UNCHANGED <<upstream, corpusVars, config, chunk, rewrites, workersVars>>

\* Mutant: the roots of the extended list are not put to the upstream.
AcceptRoots(p) ==
    LET cache == IF worker[p].cache = NoCache THEN load_poi_cache(p) ELSE worker[p].cache
    IN
    /\ worker[p].pc = "validate"
    /\ worker' = [worker EXCEPT ![p].pc = "commit",
          ![p].cache = apply_events(cache, worker[p].page)]
    /\ UNCHANGED <<upstream, corpusVars, config, chunk, rewrites, workersVars>>

\* apply_verified_artifact_events on a copy of the cache and validate_roots: the
\* upstream knows the roots exactly of the lists it serves.
ValidateRoots(p) ==
    LET cache == IF worker[p].cache = NoCache THEN load_poi_cache(p) ELSE worker[p].cache
        leaves == apply_events(cache, worker[p].page)
    IN
    /\ worker[p].pc = "validate"
    /\ worker' = IF /\ worker[p].page.start <= Len(cache)
                    /\ Len(leaves) <= Len(upstream[p])
                    /\ leaves = SubSeq(upstream[p], 1, Len(leaves))
                 THEN [worker EXCEPT ![p].pc = "commit", ![p].cache = leaves]
                 ELSE [worker EXCEPT ![p].pc = "failed"]
    /\ UNCHANGED <<upstream, corpusVars, config, chunk, rewrites, workersVars>>

\* A malformed answer, a bad signature, or a database error while reading.
FailWorker(p) ==
    /\ worker[p].pc \in {"page", "validate", "commit"}
    /\ Fault
    /\ worker' = [worker EXCEPT ![p].pc = "failed"]
    /\ UNCHANGED <<upstream, corpusVars, config, chunk, rewrites, process,
                   per_pair_concurrency_limit, served, tasks>>

\* insert_events: a row is new, a placeholder of the same content, or the same event.
insert_events(p, page) ==
    \A n \in 1..Len(page.events) :
        LET stored == row[p][page.start + n - 1]
        IN  stored.kind = "none" \/ stored.content = page.events[n]

\* Mutant: the tip is the end of the requested page, also when the answer is shorter.
tip_at_page_end(p, last) ==
    Max({tip[p], Min({worker[p].page.start + worker[p].size, MaxEvents[p]}) - 1})

\* advance_chain_tip, called only when the page ends at or above the tip.
advance_chain_tip(p, last) == Max({tip[p], last})

\* The transaction of sync_next_page, for the pages of the workers ps.
Ingest(ps) ==
    /\ row' = [p \in Pair |-> IF p \notin ps THEN row[p] ELSE
          [i \in Index |-> LET page == worker[p].page
                           IN  IF i \in page.start..(page.start + Len(page.events) - 1)
                               THEN [kind |-> "event", content |-> page.events[i - page.start + 1]]
                               ELSE row[p][i]]]
    /\ tip' = [p \in Pair |-> IF p \notin ps THEN tip[p] ELSE
          advance_chain_tip(p, worker[p].page.start + Len(worker[p].page.events) - 1)]
    /\ ingested' = IF ps = {} THEN ingested ELSE ingested \cup {config}
    /\ UNCHANGED identity

CommitPage(p) ==
    /\ worker[p].pc = "commit"
    /\ insert_events(p, worker[p].page)
    /\ Ingest({p})
    /\ worker' = [worker EXCEPT ![p] = [PageDone(@) EXCEPT !.page = NoPage]]
    /\ UNCHANGED <<upstream, config, chunk, rewrites, workersVars>>

\* PoiEventConflict rolls the transaction back.
RefusePage(p) ==
    /\ worker[p].pc = "commit"
    /\ ~insert_events(p, worker[p].page)
    /\ worker' = [worker EXCEPT ![p].pc = "failed"]
    /\ UNCHANGED <<upstream, corpusVars, config, chunk, rewrites, workersVars>>

-----------------------------------------------------------------------------
(* The orchestrator. *)

SpawnWorkers(k) == [p \in Pair |-> IF p \in Chunk(k) THEN [NoWorker EXCEPT !.pc = "page"] ELSE NoWorker]

\* A cycle of run_scraper_loop begins.
StartCycle ==
    /\ "scraper" \in tasks
    /\ process = "up"
    /\ chunk = 0
    /\ chunk' = 1
    /\ worker' = SpawnWorkers(1)
    /\ UNCHANGED <<upstream, corpusVars, config, rewrites, workersVars>>

\* All workers of the chunk joined without an error.
JoinChunk ==
    LET next == ChunkAfter(chunk) IN
    /\ chunk # 0
    /\ \A p \in Chunk(chunk) : worker[p].pc \in {"caught_up", "shutdown"}
    /\ chunk' = next
    /\ worker' = IF next = 0 THEN NoWorkers ELSE SpawnWorkers(next)
    /\ UNCHANGED <<upstream, corpusVars, config, rewrites, workersVars>>

\* Workers whose commit is on its way; dropping them leaves it open whether it lands.
Committing == {p \in Pair : worker[p].pc = "commit" /\ insert_events(p, worker[p].page)}

\* The first error joined drops the join set, which aborts the other workers.
AbortCycle ==
    /\ \E p \in Pair : worker[p].pc \in {"failed", "exhausted"}
    /\ \E ps \in SUBSET Committing : Ingest(ps)
    /\ chunk' = 0
    /\ worker' = NoWorkers
    /\ UNCHANGED <<upstream, config, rewrites, workersVars>>

\* A commit takes effect or not and reports an error.
CommitFails(p) ==
    /\ worker[p].pc = "commit"
    /\ Fault
    /\ \E ps \in SUBSET (Committing \cap {p}) : Ingest(ps)
    /\ worker' = [worker EXCEPT ![p].pc = "failed"]
    /\ UNCHANGED <<upstream, config, chunk, rewrites, process,
                   per_pair_concurrency_limit, served, tasks>>

-----------------------------------------------------------------------------
WorkerNext(p) ==
    \/ \E n \in 1..max_size : FetchPage(p, n)
    \/ CaughtUp(p) \/ FetchTimesOut(p) \/ EndBackoff(p) \/ StopWorker(p)
    \/ ValidateRoots(p) \/ FailWorker(p)
    \/ CommitPage(p) \/ RefusePage(p) \/ CommitFails(p)

CycleNext == StartCycle \/ JoinChunk \/ AbortCycle

ScrapeNext ==
    \/ \E p \in Pair : UpstreamAppends(p)
    \/ \E p \in Pair : \E i \in DOMAIN upstream[p] : UpstreamRewrites(p, i)
    \/ CycleNext
    \/ \E p \in Pair : WorkerNext(p)

-----------------------------------------------------------------------------
(* Properties. *)

Corpus(p) == [n \in 1..(tip[p] + 1) |-> row[p][n - 1].content]

\* The rows up to the tip have no gap, and none lies above it: whatever pages were
\* cut short, repeated, aborted or committed without an answer, sync_next_page
\* resumes where it left off.
CorpusHasNoGap ==
    \A p \in Pair, i \in Index : row[p][i].kind = "none" <=> i > tip[p]

\* The corpus is a list the upstream has served as a whole, never part of an old one
\* and part of a rewritten one: validate_roots speaks for all leaves, not for the page.
\* All of it was asked for under the version the database is fenced to, whatever the
\* processes that wrote it were configured with.
CorpusIsServed ==
    /\ ingested \subseteq {identity}
    /\ \A p \in Pair :
          \/ \A n \in DOMAIN Corpus(p) : Corpus(p)[n] = 1
          \/ /\ Len(Corpus(p)) <= Len(upstream[p])
             /\ Corpus(p) = SubSeq(upstream[p], 1, Len(Corpus(p)))

CaughtUpWith(p) == tip[p] + 1 = Len(upstream[p]) /\ first_incomplete(p) = {}

\* Every pair of every chunk catches up with the upstream again and again unless the process
\* is asked to stop or the upstream breaks with what was scraped, although the upstream times
\* out on large pages, calls fail and a failing pair aborts the others: large pages are given
\* up, the budget starts over, and each cycle resumes from the database.
EveryPairCatchesUp ==
    \A p \in Pair :
        []<>(CaughtUpWith(p) \/ process # "up" \/ rewrites > 0 \/ "scraper" \notin tasks)

=============================================================================
