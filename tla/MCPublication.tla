--------------------------- MODULE MCPublication ---------------------------
(* PoiArtifactGraph, MultiPinner and IpnsPublisher, what a publication is made of, on *)
(* small instances, each observed alone.                                              *)
EXTENDS IpnsPublisher, MultiPinner, PoiArtifactGraph

VARIABLE part \* the component this behaviour is about

MCRetryDelay(n) == IF n <= 1 THEN 1 ELSE 2

MCInit ==
    /\ part \in {"graph", "ipns", "pinning"}
    /\ Init
    /\ PinnerInit
    /\ GraphInit
    /\ subject = cid_of[First(Services)]
    /\ part # "pinning" => cid_of = [i \in Services |-> CHOOSE c \in Cid : TRUE]
    /\ part # "ipns" => leased = "no"
    /\ part # "graph" => events = 0

MCNext ==
    \/ part = "ipns" /\ Next /\ UNCHANGED <<part, pinnerVars, graphVars>>
    \/ part = "pinning" /\ PinnerNext /\ UNCHANGED <<part, vars, graphVars>>
    \/ part = "graph" /\ GraphNext /\ UNCHANGED <<part, vars, pinnerVars>>

\* Fairness of IpnsPublisher and of PoiArtifactGraph, for the part observed.
MCFairness ==
    /\ WF_vars(part = "ipns" /\ Task)
    /\ WF_vars(part = "ipns" /\ Rebootstrap)
    /\ SF_vars(part = "ipns" /\ Tick)
    /\ WF_vars(part = "ipns" /\ \E c \in Call : Send(c) \/ GiveUp(c))
    /\ SF_vars(part = "ipns" /\ \E c \in Call : Receive(c))
    /\ SF_vars(part = "ipns" /\ \E c \in Call : PutEnds(c))
    /\ WF_graphVars(part = "graph" /\ publish_cycle)

MCSpec == MCInit /\ [][MCNext]_<<part, vars, pinnerVars, graphVars>> /\ MCFairness

=============================================================================
