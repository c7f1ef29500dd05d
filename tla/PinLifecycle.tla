--------------------------- MODULE PinLifecycle ---------------------------
(***************************************************************************)
(* PinLifecycleCoordinator (audit.rs) and the process around it: the gate   *)
(* mutex that serialises a pin and its audit record against retention, the  *)
(* ownership leases that cover a pin until it is recorded or cleaned up,    *)
(* and the shutdown flag every background task watches (main.rs).           *)
(***************************************************************************)
EXTENDS Integers

CONSTANTS
    FaultKinds, \* the kinds of fault an instance admits
    MaxFaults   \* bound: the number of faults in one behaviour

\* A failed or falsely failing database call, a failed provider call, a pin the
\* provider loses, a failed IPNS request, a killed process.
ASSUME FaultKindsAssumption == FaultKinds \subseteq {"database", "provider", "loss", "ipns", "crash"}
ASSUME MaxFaultsAssumption == MaxFaults \in Nat

VARIABLES
    gate,      \* who holds the gate mutex
    admission, \* PinOwnershipState.accepting: "open" or "closed"
    active,    \* PinOwnershipState.active, the number of unsettled leases
    lease,     \* whether the publication task holds an unsettled lease
    phase,     \* where run_background_tasks stands
    faults     \* faults so far

lifecycleVars == <<gate, admission, active, lease, phase, faults>>
ownershipVars == <<admission, active, lease>>

Phase == {"running", "draining", "overdue", "exited", "crashed"}

LifecycleTypeOK ==
    /\ gate \in {"free", "publisher", "sweeper"}
    /\ admission \in {"open", "closed"}
    /\ active \in Nat
    /\ lease \in {"none", "held"}
    /\ phase \in Phase
    /\ faults \in 0..MaxFaults

LifecycleInit ==
    /\ gate = "free"
    /\ admission = "open"
    /\ active = 0
    /\ lease = "none"
    /\ phase = "running"
    /\ faults = 0

\* The process executes tasks.
Up == phase \in {"running", "draining", "overdue"}

shutdown_requested == phase # "running"

Fault(kind) ==
    /\ kind \in FaultKinds
    /\ faults < MaxFaults
    /\ faults' = faults + 1

-----------------------------------------------------------------------------
lock(task) ==
    /\ gate = "free"
    /\ gate' = task

unlock(task) == gate' = IF gate = task THEN "free" ELSE gate

try_acquire_pin_ownership ==
    /\ admission = "open"
    /\ active' = active + 1
    /\ lease' = "held"
    /\ UNCHANGED admission

\* PinOwnershipLease::settle, when the task holds a lease at all.
settle ==
    /\ active' = IF lease = "held" THEN active - 1 ELSE active
    /\ lease' = "none"
    /\ UNCHANGED admission

\* Drop for PinOwnershipLease: an unsettled lease stays in the count.
drop_unsettled ==
    /\ lease' = "none"
    /\ UNCHANGED <<admission, active>>

=============================================================================
