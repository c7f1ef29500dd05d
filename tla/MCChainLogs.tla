---------------------------- MODULE MCChainLogs ----------------------------
(***************************************************************************)
(* From logs to rows: the filters, the decoding of Action logs, the legacy   *)
(* entrypoints and the checkpoint of a tree.  They share no state, so a      *)
(* behaviour observes one of them.                                           *)
(***************************************************************************)
EXTENDS ActionLogs, LegacyOutputs, ChainLogFilters, CheckpointRoots

Config(n, c, u) == [nullifiers |-> n, commitments |-> c, unshield |-> u]

MCCallShapes ==
    {<<Config(1, 0, TRUE)>>,
     <<Config(1, 1, FALSE)>>,
     <<Config(1, 1, TRUE)>>,
     <<Config(2, 1, FALSE), Config(1, 0, TRUE)>>,
     <<Config(1, 0, TRUE), Config(1, 2, TRUE)>>}

VARIABLE part \* the part observed

vars == <<part, actionLogsVars, legacyVars, filterVars, checkpointVars>>

Init ==
    /\ part \in {"actions", "legacy", "filters", "roots"}
    /\ ActionLogsInit
    /\ IF part = "legacy" THEN LegacyInit
       ELSE legacy = [kind |-> "none"] /\ legacyRows = NotHydrated
    /\ IF part = "filters" THEN FiltersInit
       ELSE FiltersInit /\ <<v2_start_block, legacy_shield_block, action_start_block>> = <<0, 0, 0>>
    /\ IF part = "roots" THEN CheckpointInit ELSE treeRows = {} /\ published_root = NoRoot

Actions == part = "actions" /\ ActionLogsNext /\ UNCHANGED <<part, legacyVars, filterVars, checkpointVars>>

LegacyCalls == part = "legacy" /\ HydrateLegacy /\ UNCHANGED <<part, actionLogsVars, filterVars, checkpointVars>>

Filters == part = "filters" /\ FiltersNext /\ UNCHANGED <<part, actionLogsVars, legacyVars, checkpointVars>>

Roots == part = "roots" /\ PublishCheckpoint /\ UNCHANGED <<part, actionLogsVars, legacyVars, filterVars>>

Finished ==
    \/ phase \in {"decoded", "hydrated"}
    \/ legacyRows # NotHydrated
    \/ from_block > LastBlock
    \/ published_root # NoRoot

Done == Finished /\ UNCHANGED vars

Next == Actions \/ LegacyCalls \/ Filters \/ Roots \/ Done

Spec == Init /\ [][Next]_vars
=============================================================================
