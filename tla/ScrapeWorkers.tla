--------------------------- MODULE ScrapeWorkers ---------------------------
(***************************************************************************)
(* What the scraper and the blocked-shield resync of the Orchestrator share: *)
(* the process they are tasks of, the chunks of pairs they spawn workers     *)
(* for, the page size adapter and the retry budget of a ScrapeWorker, and    *)
(* an upstream that times out on large pages.                                *)
(***************************************************************************)
EXTENDS Integers, Sequences, FiniteSetsExt

CONSTANTS
    Pairs,               \* the pairs of list and chain, in the order of the configuration
    Limit,               \* values a configuration gives per_pair_concurrency_limit
    page_size_max,
    DEFAULT_MIN_PAGE_SIZE,
    UPSTREAM_MAX_PAGE_SIZE,
    retry_budget,
    ServedSize,          \* the largest page the upstream answers in time
    TaskSets,            \* sets of tasks a behaviour may observe
    MaxFaults            \* bound: outages, failed calls and crashes

GROW_AFTER_SUCCESSES == 2

ASSUME SizeAssumption ==
    page_size_max \in Nat /\ DEFAULT_MIN_PAGE_SIZE \in Nat /\ UPSTREAM_MAX_PAGE_SIZE \in Nat \ {0}

VARIABLES
    process,  \* "down", "up" or "stopping"
    per_pair_concurrency_limit,
    served,   \* pages above this size time out at the upstream
    tasks,    \* the tasks observed: they share neither tables nor memory
    faults

workersVars == <<process, per_pair_concurrency_limit, served, tasks, faults>>

Pair == {Pairs[k] : k \in DOMAIN Pairs}

Clamp(n, low, high) == Max({low, Min({n, high})})

\* PageSizeAdapter::new
max_size == Clamp(page_size_max, 1, UPSTREAM_MAX_PAGE_SIZE)
min_size == Clamp(DEFAULT_MIN_PAGE_SIZE, 1, max_size)

WorkersTypeOK ==
    /\ process \in {"down", "up", "stopping"}
    /\ per_pair_concurrency_limit \in Limit \cup {0}
    /\ served \in {0, ServedSize}
    /\ tasks \in TaskSets
    /\ faults \in 0..MaxFaults

WorkersInit ==
    /\ process = "down"
    /\ per_pair_concurrency_limit = 0
    /\ served = ServedSize
    /\ tasks \in TaskSets
    /\ faults = 0

Fault == faults < MaxFaults /\ faults' = faults + 1

-----------------------------------------------------------------------------
(* The upstream and the process. *)

OutageBegins ==
    /\ served = ServedSize
    /\ Fault
    /\ served' = 0
    /\ UNCHANGED <<process, per_pair_concurrency_limit, tasks>>

OutageEnds ==
    /\ served = 0
    /\ served' = ServedSize
    /\ UNCHANGED <<process, per_pair_concurrency_limit, tasks, faults>>

StartProcess(limit) ==
    /\ process = "down"
    /\ process' = "up"
    /\ per_pair_concurrency_limit' = limit
    /\ UNCHANGED <<served, tasks, faults>>

RequestShutdown ==
    /\ process = "up"
    /\ process' = "stopping"
    /\ UNCHANGED <<per_pair_concurrency_limit, served, tasks, faults>>

EndProcess ==
    /\ process' = "down"
    /\ per_pair_concurrency_limit' = 0
    /\ UNCHANGED <<served, tasks>>

-----------------------------------------------------------------------------
(* A worker. *)

\* A request is sent; the shutdown flag is only read before the first attempt.
MayRequest(w) == w.pc = "page" /\ (process = "up" \/ w.attempts > 0)

\* PageSizeAdapter::on_failure, the size after it.
on_failure(n) == Max({n \div 2, min_size})

\* PageSizeAdapter::on_success
on_success(w) ==
    IF w.successes + 1 < GROW_AFTER_SUCCESSES \/ w.size = max_size
    THEN [w EXCEPT !.successes = Min({@ + 1, GROW_AFTER_SUCCESSES})]
    ELSE [w EXCEPT !.size = Min({@ * 2, max_size}), !.successes = 0]

\* What a request that failed with a retryable error does to the worker.
Retry(w) ==
    IF w.attempts + 1 < retry_budget
    THEN [w EXCEPT !.pc = "backoff", !.attempts = @ + 1]
    ELSE IF on_failure(w.size) = w.size
         THEN [w EXCEPT !.pc = "exhausted", !.successes = 0]
         ELSE [w EXCEPT !.pc = "page", !.attempts = 0, !.successes = 0, !.size = on_failure(@)]

\* What a page that was answered does to it; a shutdown cuts the polite pause short.
PageDone(w) ==
    [on_success(w) EXCEPT !.pc = IF process = "up" THEN "page" ELSE "shutdown", !.attempts = 0]

\* The backoff sleep, which a shutdown cuts short.
BackedOff(w) == [w EXCEPT !.pc = IF process = "up" THEN "page" ELSE "shutdown"]

-----------------------------------------------------------------------------
(* The orchestrator. *)

\* pairs.chunks(per_pair_concurrency_limit)
Chunk(k) == {Pairs[i] : i \in {j \in DOMAIN Pairs : (j - 1) \div per_pair_concurrency_limit = k - 1}}

\* The chunk after k, 0 when there is none or the loop sees a shutdown.
ChunkAfter(k) == IF Chunk(k + 1) # {} /\ process = "up" THEN k + 1 ELSE 0

=============================================================================
