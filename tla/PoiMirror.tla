----------------------------- MODULE PoiMirror -----------------------------
(***************************************************************************)
(* The process that mirrors the POI lists: the scraper and the blocked-      *)
(* shield resync as background tasks, admission of the configured TXID       *)
(* version at startup, the shutdown flag, and crashes.                       *)
(***************************************************************************)
EXTENDS PoiScrape, PoiBlockedShields

vars == <<scrapeVars, blockedVars, workersVars>>

TypeOK == WorkersTypeOK /\ ScrapeTypeOK /\ BlockedTypeOK

Init == WorkersInit /\ ScrapeInit /\ BlockedInit

\* admit_poi_txid_version in main; a refused process exits.
Start(v, limit) ==
    /\ StartProcess(limit)
    /\ set_poi_txid_version(v, FALSE)
    /\ identity' = v
    /\ config' = v
    /\ UNCHANGED <<upstream, row, tip, ingested, chunk, worker, rewrites, blockedVars>>

\* The command line run that adopts a version and exits.
Adopt ==
    /\ process = "down"
    /\ identity = "none"
    /\ set_poi_txid_version(AdoptedVersion, TRUE)
    /\ identity' = AdoptedVersion
    /\ UNCHANGED <<upstream, row, tip, ingested, config, chunk, worker, rewrites, blockedVars,
                   workersVars>>

Signal == RequestShutdown /\ UNCHANGED <<scrapeVars, blockedVars>>

\* Both loops have returned.
Exit ==
    /\ process = "stopping"
    /\ chunk = 0
    /\ resyncChunk = 0
    /\ EndProcess
    /\ config' = "none"
    /\ UNCHANGED <<upstream, corpusVars, chunk, worker, rewrites, blockedVars, faults>>

Crash ==
    /\ process # "down"
    /\ Fault
    /\ EndProcess
    /\ config' = "none"
    /\ \E ps \in SUBSET Committing : Ingest(ps)
    /\ \E ps \in SUBSET Replacing : ReplaceBlocked(ps)
    /\ chunk' = 0
    /\ worker' = NoWorkers
    /\ resyncChunk' = 0
    /\ EndResyncs
    /\ UNCHANGED <<upstream, rewrites, blocklist, changes>>

Outage == (OutageBegins \/ OutageEnds) /\ UNCHANGED <<scrapeVars, blockedVars>>

Next ==
    \/ ScrapeNext /\ UNCHANGED blockedVars
    \/ BlockedNext /\ UNCHANGED scrapeVars
    \/ \E v \in Version, limit \in Limit : Start(v, limit)
    \/ Adopt \/ Signal \/ Exit \/ Crash
    \/ Outage

Spec == Init /\ [][Next]_vars

\* The tasks are polled, an outage ends, and an operator starts the process again, with a
\* version that it admits.
FairSpec ==
    /\ Spec
    /\ WF_vars(CycleNext /\ UNCHANGED blockedVars)
    /\ \A p \in Pair : WF_vars(WorkerNext(p) /\ UNCHANGED blockedVars)
    /\ WF_vars(ResyncNext /\ UNCHANGED scrapeVars)
    /\ \A p \in Pair : WF_vars(ResyncWorkerNext(p) /\ UNCHANGED scrapeVars)
    /\ WF_vars(Exit)
    /\ WF_vars(OutageEnds /\ UNCHANGED <<scrapeVars, blockedVars>>)
    /\ WF_vars(\E v \in Version, limit \in Limit : Start(v, limit))
    /\ WF_vars(Adopt)

=============================================================================
