---------------------------- MODULE IpnsChannel ----------------------------
(***************************************************************************)
(* What a publication task may rely on when it calls publish_manifest_cid:  *)
(* the promise of the IPNS publisher (publish/ipns.rs) to its callers.  A    *)
(* call ends once; it ends in "published" only when the name resolves to     *)
(* its manifest or to a newer one; a record is handed to the DHT only for a  *)
(* call that still waits, and once handed over may be stored at any later    *)
(* time, also after the call has failed.                                     *)
(***************************************************************************)
EXTENDS Integers

CONSTANT MaxCalls \* bound: calls of publish_manifest_cid in a behaviour

VARIABLES
    sequence, \* the sequence number each call asks to publish, 0 before the call
    outcome,  \* how each call stands
    inflight, \* sequences handed to the DHT
    resolved  \* the sequence the name resolves to, 0 before the first

vars == <<sequence, outcome, inflight, resolved>>

Call == 1..MaxCalls

Init ==
    /\ sequence = [c \in Call |-> 0]
    /\ outcome = [c \in Call |-> "none"]
    /\ inflight = {}
    /\ resolved = 0

Submit(c, s) ==
    /\ outcome[c] = "none"
    /\ outcome' \in {[outcome EXCEPT ![c] = o] : o \in {"open", "failed"}}
    /\ sequence' = [sequence EXCEPT ![c] = s]
    /\ UNCHANGED <<inflight, resolved>>

HandOver(c) ==
    /\ outcome[c] = "open"
    /\ inflight' = inflight \cup {sequence[c]}
    /\ UNCHANGED <<sequence, outcome, resolved>>

\* A peer stores a record; resolvers keep the one with the highest sequence.
Store(s) ==
    /\ s \in inflight
    /\ s > resolved
    /\ resolved' = s
    /\ UNCHANGED <<sequence, outcome, inflight>>

Publish(c) ==
    /\ outcome[c] = "open"
    /\ sequence[c] <= resolved
    /\ outcome' = [outcome EXCEPT ![c] = "published"]
    /\ UNCHANGED <<sequence, inflight, resolved>>

Fail(c) ==
    /\ outcome[c] = "open"
    /\ outcome' = [outcome EXCEPT ![c] = "failed"]
    /\ UNCHANGED <<sequence, inflight, resolved>>

Next ==
    \/ \E c, s \in Call : Submit(c, s)
    \/ \E c \in Call : HandOver(c) \/ Publish(c) \/ Fail(c)
    \/ \E s \in inflight : Store(s)

Spec == Init /\ [][Next]_vars

=============================================================================
