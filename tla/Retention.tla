----------------------------- MODULE Retention -----------------------------
(***************************************************************************)
(* Retention::sweep_with_coordinator and retry_pin_cleanup_debt (audit.rs), *)
(* driven by run_retention_sweeper (main.rs).  A sweep reads its cutoff,    *)
(* the debts and later the candidates without the gate; it then takes the   *)
(* gate for one CID at a time, rechecks it, unpins it at the provider and   *)
(* commits the mark.                                                        *)
(*                                                                         *)
(* Time is abstracted to `old': which rows the cutoff of the sweep leaves   *)
(* behind.  Any set may be old when the sweep starts; a row stamped during  *)
(* the sweep is not, because the cutoff is fixed.                           *)
(***************************************************************************)
EXTENDS Audit, PinLifecycle

VARIABLES
    spc,   \* where the retention task is
    todo,  \* debts, then candidates, the sweep has yet to visit
    target \* the CID it holds the gate for, 0 when there is none

retentionVars == <<spc, todo, target>>

RetentionTypeOK ==
    /\ spc \in {"idle", "exited", "debts", "debt_unpin", "debt_delete", "sweep", "unpin", "mark"}
    /\ todo \in SUBSET CID
    /\ target \in CID \cup {0}

RetentionStart ==
    /\ spc = "idle"
    /\ todo = {}
    /\ target = 0

\* Rows that carry a time stamp the cutoff is compared with.
Stamped == live \cup {s \in Sequence : manifest[s] = "superseded"}

\* Mutant: only published manifests and the pending one protect their graph.
protected_unless_invalidated(c) ==
    \E s \in Sequence : manifest[s] \in {"pending", "active"} /\ c \in Required(s)

\* The manifest rows whose graph the sweep must leave alone.
protected(c) == \E s \in Sequence : Unsuperseded(s) /\ c \in Required(s)

\* The candidate query, and the same predicate rechecked under the gate.
still_eligible(c) ==
    /\ c \in old
    /\ c \in Stamped
    /\ ~protected(c)

\* The gate is given back and the sweep goes on to the next CID.
NextCid(l) ==
    /\ spc' = l
    /\ todo' = todo \ {target}
    /\ target' = 0
    /\ unlock("sweeper")
    /\ UNCHANGED <<ownershipVars, phase>>

-----------------------------------------------------------------------------
StartSweep(rows) ==
    /\ spc = "idle"
    /\ ~shutdown_requested
    /\ old' = rows
    /\ spc' = "debts"
    /\ todo' = debt
    /\ UNCHANGED <<target, providerVars, live, manifest, graph, debt, state_sequence, lifecycleVars>>

StopSweeper ==
    /\ spc = "idle"
    /\ Up /\ shutdown_requested
    /\ spc' = "exited"
    /\ UNCHANGED <<todo, target, providerVars, auditVars, lifecycleVars>>

\* A database error ends the sweep wherever it stands and rolls its transaction back.
FailSweep ==
    /\ spc \notin {"idle", "exited"}
    /\ Fault("database")
    /\ spc' = "idle"
    /\ todo' = {}
    /\ target' = 0
    /\ old' = {}
    /\ unlock("sweeper")
    /\ UNCHANGED <<providerVars, live, manifest, graph, debt, state_sequence, ownershipVars, phase>>

-----------------------------------------------------------------------------
(* retry_pin_cleanup_debt. *)

DebtReferenced(c) ==
    /\ spc = "debts"
    /\ c \in todo
    /\ gate = "free"
    /\ publication_cid_is_referenced(c)
    /\ debt' = debt \ {c}
    /\ todo' = todo \ {c}
    /\ UNCHANGED <<spc, target, providerVars, live, manifest, graph, state_sequence, old, lifecycleVars>>

LockDebt(c) ==
    /\ spc = "debts"
    /\ c \in todo
    /\ lock("sweeper")
    /\ ~publication_cid_is_referenced(c)
    /\ spc' = "debt_unpin"
    /\ target' = c
    /\ UNCHANGED <<todo, providerVars, auditVars, ownershipVars, phase, faults>>

UnpinDebt ==
    /\ spc = "debt_unpin"
    /\ unpin(target)
    /\ spc' = "debt_delete"
    /\ UNCHANGED <<todo, target, auditVars, lifecycleVars>>

\* attempts = attempts + 1; the debt stays for the next sweep.  A call that failed
\* may have taken effect.
UnpinDebtError ==
    /\ spc = "debt_unpin"
    /\ Fault("provider")
    /\ unpin(target) \/ UNCHANGED providerVars
    /\ NextCid("debts")
    /\ UNCHANGED auditVars

\* Mutant: the debt is not deleted once paid.
KeepDebt ==
    /\ spc = "debt_delete"
    /\ NextCid("debts")
    /\ UNCHANGED <<providerVars, auditVars, faults>>

DeleteDebt ==
    /\ spc = "debt_delete"
    /\ debt' = debt \ {target}
    /\ NextCid("debts")
    /\ UNCHANGED <<providerVars, live, manifest, graph, state_sequence, old, faults>>

-----------------------------------------------------------------------------
(* The sweep proper. *)

ListCandidates ==
    /\ spc = "debts"
    /\ todo = {}
    /\ todo' = {c \in CID : still_eligible(c)}
    /\ spc' = "sweep"
    /\ UNCHANGED <<target, providerVars, auditVars, lifecycleVars>>

\* Mutant: the candidate list is trusted once the gate is held.
LockUnchecked(c) ==
    /\ spc = "sweep"
    /\ c \in todo
    /\ lock("sweeper")
    /\ spc' = "unpin"
    /\ target' = c
    /\ UNCHANGED <<todo, providerVars, auditVars, ownershipVars, phase, faults>>

LockCandidate(c) ==
    /\ spc = "sweep"
    /\ c \in todo
    /\ lock("sweeper")
    /\ still_eligible(c)
    /\ spc' = "unpin"
    /\ target' = c
    /\ UNCHANGED <<todo, providerVars, auditVars, ownershipVars, phase, faults>>

SkipCandidate(c) ==
    /\ spc = "sweep"
    /\ c \in todo
    /\ gate = "free"
    /\ ~still_eligible(c)
    /\ todo' = todo \ {c}
    /\ UNCHANGED <<spc, target, providerVars, auditVars, lifecycleVars>>

UnpinCandidate ==
    /\ spc = "unpin"
    /\ unpin(target)
    /\ spc' = "mark"
    /\ UNCHANGED <<todo, target, auditVars, lifecycleVars>>

UnpinCandidateError ==
    /\ spc = "unpin"
    /\ Fault("provider")
    /\ unpin(target) \/ UNCHANGED providerVars
    /\ NextCid("sweep")
    /\ UNCHANGED auditVars

\* SET unpinned_at on the rows of the CID the cutoff leaves behind, and commit.
MarkUnpinned ==
    /\ spc = "mark"
    /\ live' = live \ ({target} \cap old)
    /\ manifest' = [s \in Sequence |->
          IF s \in {target} \cap old /\ manifest[s] = "superseded"
          THEN "unpinned"
          ELSE manifest[s]]
    /\ NextCid("sweep")
    /\ UNCHANGED <<providerVars, graph, debt, state_sequence, old, faults>>

EndSweep ==
    /\ spc = "sweep"
    /\ todo = {}
    /\ spc' = "idle"
    /\ old' = {}
    /\ UNCHANGED <<todo, target, providerVars, live, manifest, graph, debt, state_sequence, lifecycleVars>>

-----------------------------------------------------------------------------
RetentionNext ==
    \/ \E rows \in SUBSET Stamped : StartSweep(rows)
    \/ StopSweeper \/ FailSweep
    \/ \E c \in CID : DebtReferenced(c)
    \/ \E c \in CID : LockDebt(c)
    \/ UnpinDebt \/ UnpinDebtError \/ DeleteDebt
    \/ ListCandidates
    \/ \E c \in CID : LockCandidate(c)
    \/ \E c \in CID : SkipCandidate(c)
    \/ UnpinCandidate \/ UnpinCandidateError \/ MarkUnpinned
    \/ EndSweep

=============================================================================
