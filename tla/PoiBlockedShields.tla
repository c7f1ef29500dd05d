------------------------- MODULE PoiBlockedShields -------------------------
(***************************************************************************)
(* The blocked-shield resync: run_blocked_shield_resync_loop_or_shutdown, a  *)
(* ScrapeWorker per pair that collects the upstream's list page by page, a   *)
(* second time when it differs from the blocked_shields table, and replaces  *)
(* the table when both collections agree.                                    *)
(*                                                                         *)
(* The upstream's list is not append-only: a shield may be blocked at any    *)
(* place and unblocked again, which moves the records after it.              *)
(***************************************************************************)
EXTENDS ScrapeWorkers, Functions

CONSTANTS
    Shields,             \* bound: the signed records the upstream may hold for each pair
    MaxChanges           \* bound: changes of the upstream's lists

ASSUME ShieldsAssumption == \A p \in Pair : IsFiniteSet(Shields[p])

VARIABLES
    blocklist,       \* per pair, the upstream's list
    blocked_shields, \* per pair, the stored set
    resyncChunk,     \* the chunk of pairs the resync works on, 0 between cycles
    resync,          \* per pair, the ScrapeWorker
    recent,          \* history: the sets the list has been, one after the other, since the
                     \* worker was spawned
    changes

blockedVars == <<blocklist, blocked_shields, resyncChunk, resync, recent, changes>>

Shield == UNION {Shields[p] : p \in Pair}

\* The records of a set in some order.
Listing(S) == CHOOSE list \in Bijection(1..Cardinality(S), S) : TRUE

NoResync == [pc |-> "none", size |-> max_size, successes |-> 0, attempts |-> 0,
             first |-> <<>>, records |-> <<>>, round |-> 1]
NoResyncs == [p \in Pair |-> NoResync]

BlockedTypeOK ==
    \A p \in Pair :
        /\ blocked_shields[p] \subseteq Shields[p]
        /\ Range(blocklist[p]) \subseteq Shields[p]
        /\ resync[p].size \in min_size..max_size
        /\ Range(resync[p].records) \subseteq Shields[p]

BlockedInit ==
    /\ blocklist = [p \in Pair |-> Listing(Shields[p])]
    /\ blocked_shields = [p \in Pair |-> {}]
    /\ resyncChunk = 0
    /\ resync = NoResyncs
    /\ recent = [p \in Pair |-> <<>>]
    /\ changes = 0

-----------------------------------------------------------------------------
(* The upstream. *)

Change(p, list) ==
    /\ "resync" \in tasks
    /\ changes < MaxChanges
    /\ changes' = changes + 1
    /\ blocklist' = [blocklist EXCEPT ![p] = list]
    /\ recent' = [recent EXCEPT ![p] = IF resync[p].pc = "none" THEN @ ELSE Append(@, Range(list))]
    /\ UNCHANGED <<blocked_shields, resyncChunk, resync, workersVars>>

Inserted(list, i, s) == SubSeq(list, 1, i - 1) \o <<s>> \o SubSeq(list, i, Len(list))
Removed(list, i) == SubSeq(list, 1, i - 1) \o SubSeq(list, i + 1, Len(list))

Block(p, s, i) ==
    /\ s \notin Range(blocklist[p])
    /\ Change(p, Inserted(blocklist[p], i, s))

Unblock(p, i) == Change(p, Removed(blocklist[p], i))

-----------------------------------------------------------------------------
(* The worker. *)

\* sync_blocked_shields_page answers with the first n records of the requested page.
CollectPage(p, n) ==
    LET w == resync[p]
        start == Len(w.records)
    IN
    /\ MayRequest(w)
    /\ w.size <= served
    /\ n \in 1..Min({w.size, Len(blocklist[p]) - start})
    /\ resync' = [resync EXCEPT ![p] =
          [PageDone(w) EXCEPT !.records = w.records \o SubSeq(blocklist[p], start + 1, start + n)]]
    /\ UNCHANGED <<blocklist, blocked_shields, resyncChunk, recent, changes, workersVars>>

\* Mutant: a record that is missing on the left is not noticed.
all_left_match(left, right) == Range(left) \subseteq Range(right)

\* blocked_shield_sets_match: equal once both are sorted.
blocked_shield_sets_match(left, right) ==
    \A s \in Shield : Cardinality({i \in DOMAIN left : left[i] = s})
                        = Cardinality({i \in DOMAIN right : right[i] = s})

\* An empty page ends a collection; the second one is compared with the first.
EndCollection(p) ==
    /\ MayRequest(resync[p])
    /\ resync[p].size <= served
    /\ Len(resync[p].records) >= Len(blocklist[p])
    /\ resync' = [resync EXCEPT ![p].attempts = 0, ![p].pc =
          IF resync[p].round = 1 THEN "compare"
          ELSE IF blocked_shield_sets_match(resync[p].first, resync[p].records) THEN "commit"
          ELSE "failed"]
    /\ UNCHANGED <<blocklist, blocked_shields, resyncChunk, recent, changes, workersVars>>

\* Mutant: the first collection is stored without a second one.
ReplaceAtOnce(p) ==
    LET w == resync[p] IN
    /\ w.pc = "compare"
    /\ resync' = [resync EXCEPT ![p].pc =
          IF blocked_shield_sets_match(w.records, Listing(blocked_shields[p]))
          THEN "caught_up" ELSE "commit"]
    /\ UNCHANGED <<blocklist, blocked_shields, resyncChunk, recent, changes, workersVars>>

\* The first collection against all_blocked_shields.
CompareLocal(p) ==
    LET w == resync[p] IN
    /\ w.pc = "compare"
    /\ resync' = [resync EXCEPT ![p] =
          IF blocked_shield_sets_match(w.records, Listing(blocked_shields[p]))
          THEN [w EXCEPT !.pc = "caught_up"]
          ELSE [w EXCEPT !.first = w.records, !.records = <<>>, !.round = 2,
                         !.pc = IF process = "up" THEN "page" ELSE "shutdown"]]
    /\ UNCHANGED <<blocklist, blocked_shields, resyncChunk, recent, changes, workersVars>>

\* replace_blocked_shields in the transactions of the workers ps.
ReplaceBlocked(ps) ==
    blocked_shields' = [p \in Pair |->
        IF p \in ps THEN Range(resync[p].records) ELSE blocked_shields[p]]

CommitReplace(p) ==
    /\ resync[p].pc = "commit"
    /\ ReplaceBlocked({p})
    /\ resync' = [resync EXCEPT ![p].pc = "caught_up"]
    /\ UNCHANGED <<blocklist, resyncChunk, recent, changes, workersVars>>

ResyncTimesOut(p) ==
    /\ MayRequest(resync[p])
    /\ resync[p].size > served
    /\ resync' = [resync EXCEPT ![p] = Retry(@)]
    /\ UNCHANGED <<blocklist, blocked_shields, resyncChunk, recent, changes, workersVars>>

ResyncBackedOff(p) ==
    /\ resync[p].pc = "backoff"
    /\ resync' = [resync EXCEPT ![p] = BackedOff(@)]
    /\ UNCHANGED <<blocklist, blocked_shields, resyncChunk, recent, changes, workersVars>>

StopResync(p) ==
    /\ resync[p].pc = "page"
    /\ ~MayRequest(resync[p])
    /\ resync' = [resync EXCEPT ![p].pc = "shutdown"]
    /\ UNCHANGED <<blocklist, blocked_shields, resyncChunk, recent, changes, workersVars>>

\* A malformed answer, a bad signature or a database error; a commit may have landed.
FailResync(p) ==
    /\ resync[p].pc \in {"page", "compare", "commit"}
    /\ Fault
    /\ \E ps \in SUBSET {q \in {p} : resync[q].pc = "commit"} : ReplaceBlocked(ps)
    /\ resync' = [resync EXCEPT ![p].pc = "failed"]
    /\ UNCHANGED <<blocklist, resyncChunk, recent, changes, process,
                   per_pair_concurrency_limit, served, tasks>>

-----------------------------------------------------------------------------
(* The loop. *)

SpawnResyncs(k) ==
    /\ resync' = [p \in Pair |-> IF p \in Chunk(k) THEN [NoResync EXCEPT !.pc = "page"] ELSE NoResync]
    /\ recent' = [p \in Pair |-> IF p \in Chunk(k) THEN <<Range(blocklist[p])>> ELSE <<>>]

EndResyncs ==
    /\ resync' = NoResyncs
    /\ recent' = [p \in Pair |-> <<>>]

\* The interval ticks.
StartResync ==
    /\ "resync" \in tasks
    /\ process = "up"
    /\ resyncChunk = 0
    /\ resyncChunk' = 1
    /\ SpawnResyncs(1)
    /\ UNCHANGED <<blocklist, blocked_shields, changes, workersVars>>

JoinResync ==
    LET next == ChunkAfter(resyncChunk) IN
    /\ resyncChunk # 0
    /\ \A p \in Chunk(resyncChunk) : resync[p].pc \in {"caught_up", "shutdown"}
    /\ resyncChunk' = next
    /\ IF next = 0 THEN EndResyncs ELSE SpawnResyncs(next)
    /\ UNCHANGED <<blocklist, blocked_shields, changes, workersVars>>

Replacing == {p \in Pair : resync[p].pc = "commit"}

\* The first error joined aborts the other workers; the loop waits for the next tick.
AbortResync ==
    /\ \E p \in Pair : resync[p].pc \in {"failed", "exhausted"}
    /\ \E ps \in SUBSET Replacing : ReplaceBlocked(ps)
    /\ resyncChunk' = 0
    /\ EndResyncs
    /\ UNCHANGED <<blocklist, changes, workersVars>>

ResyncWorkerNext(p) ==
    \/ \E n \in 1..max_size : CollectPage(p, n)
    \/ EndCollection(p) \/ CompareLocal(p) \/ CommitReplace(p)
    \/ ResyncTimesOut(p) \/ ResyncBackedOff(p) \/ StopResync(p) \/ FailResync(p)

ResyncNext == StartResync \/ JoinResync \/ AbortResync

BlockedNext ==
    \/ \E p \in Pair : \E s \in Shields[p], i \in 1..(Len(blocklist[p]) + 1) : Block(p, s, i)
    \/ \E p \in Pair : \E i \in DOMAIN blocklist[p] : Unblock(p, i)
    \/ ResyncNext
    \/ \E p \in Pair : ResyncWorkerNext(p)

-----------------------------------------------------------------------------
(* Properties. *)

\* A set is stored only if the upstream's list was that set while the worker ran, although
\* it is read in pages between which the list changes, up to twice while the worker runs:
\* sync_blocked_shields stores nothing that one pass over a moving list made up.
StoredSetWasServed ==
    [][\A p \in Pair : blocked_shields'[p] # blocked_shields[p] /\ Len(recent[p]) <= 3
                         => blocked_shields'[p] \in Range(recent[p])]_blockedVars

\* Once the upstream's list rests, the stored set follows it unless the process is
\* asked to stop: refused collections are taken again at the next tick.
StoredSetFollows ==
    \A p \in Pair :
        []<>(blocked_shields[p] = Range(blocklist[p]) \/ process # "up" \/ "resync" \notin tasks)

=============================================================================
