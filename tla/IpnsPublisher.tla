--------------------------- MODULE IpnsPublisher ---------------------------
(***************************************************************************)
(* IpnsPublisher and IpnsPublisherTask (publish/ipns.rs): a publication     *)
(* task that calls publish_manifest_cid and waits until a deadline, and the *)
(* task that queues its requests and runs one put_record query at a time.   *)
(* The daemon runs two such pairs, the POI channel's without a lease and    *)
(* the chain-indexed channel's with one; `leased' says which is modelled.   *)
(*                                                                         *)
(* Time is discrete and relative: a deadline is the ticks left until it.    *)
(* Timers fire when they are due: the clock does not tick past a due one.   *)
(* A turn of the loop reads the clock twice, at its head and for the next   *)
(* wake-up, and time may pass between the two.                              *)
(*                                                                         *)
(* The queue is ordered by the number of the call: a request enters at the  *)
(* back, and a retried one, older than all that wait, at the front.         *)
(***************************************************************************)
EXTENDS Integers, FiniteSets

CONSTANTS
    MaxCalls,          \* bound: calls of publish_manifest_cid
    PublishTimeout,    \* config.publish_timeout, in ticks
    MinRetryRemaining, \* IPNS_MIN_RETRY_REMAINING
    RetryDelays,       \* the length of IPNS_PUBLISH_RETRY_DELAYS
    RetryDelay(_),     \* its entries, by number of attempts started
    MinPeers,          \* IPNS_MIN_CONNECTED_PEERS_FOR_PUBLISH
    QueueCapacity      \* IPNS_PUBLISH_QUEUE_CAPACITY

ASSUME MaxCallsAssumption == MaxCalls \in Nat
ASSUME TimesAssumption ==
    /\ PublishTimeout \in Nat /\ MinRetryRemaining \in Nat /\ RetryDelays \in Nat
    /\ \A n \in 0..RetryDelays : RetryDelay(n) \in Nat

VARIABLES
    leased,       \* "yes" when the requests carry a canonicality lease
    calls,        \* the calls made so far
    sequence,     \* the sequence number each call asks to publish
    left,         \* ticks left until a request's deadline
    delay,        \* ticks left until a request's not_before
    attempts,     \* attempts_started of a request, up to RetryDelays
    place,        \* where each request is
    response,     \* the oneshot of each call: closed once it is not "open"
    tpc,          \* where the task's loop is
    wake,         \* ticks left until the instant the loop sleeps to
    missed,       \* history: requests with a time between the turn's two readings of the clock
    peers,        \* connected DHT peers, up to MinPeers
    bootstrapped, \* bootstrap_completed
    running,      \* calls whose put_record query is under way in the swarm
    inflight,     \* sequences handed to the DHT
    resolved      \* the sequence the name resolves to, 0 before the first

timeVars == <<left, delay, wake, missed>>
swarmVars == <<peers, bootstrapped>>
dhtVars == <<inflight, resolved>>
vars == <<leased, calls, sequence, attempts, place, response, tpc, running,
          timeVars, swarmVars, dhtVars>>

Call == 1..MaxCalls
NoWake == PublishTimeout + 1

At(where) == {c \in Call : place[c] = where}
active == At("active")
pending == At("pending")
channel == At("channel")

IsFront(c, S) == c \in S /\ \A d \in S : c <= d

is_closed(c) == response[c] # "open"
is_expired(c) == left[c] = 0

\* respond: nothing happens when nobody waits for the answer any more.
respond(S, answer) ==
    response' = [c \in Call |-> IF c \in S /\ ~is_closed(c) THEN answer ELSE response[c]]

TypeOK ==
    /\ leased \in {"yes", "no"}
    /\ calls \in 0..MaxCalls
    /\ sequence \in [Call -> 0..MaxCalls]
    /\ place \in [Call -> {"none", "sending", "channel", "pending", "active", "gone"}]
    /\ response \in [Call -> {"none", "open", "published", "failed"}]
    /\ tpc \in {"select", "head", "start", "wake", "handled", "stopped"}
    /\ missed \subseteq Call
    /\ running \subseteq Call
    /\ inflight \subseteq 0..MaxCalls
    /\ resolved \in 0..MaxCalls

Init ==
    /\ leased \in {"yes", "no"}
    /\ calls = 0
    /\ sequence = [c \in Call |-> 0]
    /\ left = [c \in Call |-> 0]
    /\ delay = [c \in Call |-> 0]
    /\ attempts = [c \in Call |-> 0]
    /\ place = [c \in Call |-> "none"]
    /\ response = [c \in Call |-> "none"]
    /\ tpc = "select"
    /\ wake = NoWake
    /\ missed = {}
    /\ peers = 0
    /\ bootstrapped = "no"
    /\ running = {}
    /\ inflight = {}
    /\ resolved = 0

-----------------------------------------------------------------------------
(* The caller: publish_manifest_cid_inner.  A publication task makes one    *)
(* call at a time; after a failure it asks again for the same manifest or   *)
(* for a newer one.                                                         *)

has_room == Cardinality(channel) < QueueCapacity

publish_manifest_cid(s) ==
    /\ calls < MaxCalls
    /\ calls > 0 => is_closed(calls) /\ s \in {sequence[calls], sequence[calls] + 1}
    /\ calls = 0 => s = 1
    /\ calls' = calls + 1
    /\ sequence' = [sequence EXCEPT ![calls'] = s]
    /\ left' = [left EXCEPT ![calls'] = PublishTimeout]
    /\ IF tpc = "stopped"
       THEN /\ place' = [place EXCEPT ![calls'] = "gone"]
            /\ response' = [response EXCEPT ![calls'] = "failed"]
       ELSE /\ place' = [place EXCEPT ![calls'] = IF has_room THEN "channel" ELSE "sending"]
            /\ response' = [response EXCEPT ![calls'] = "open"]
    /\ UNCHANGED <<leased, delay, attempts, tpc, wake, missed, running, swarmVars, dhtVars>>

\* The channel has room again for a caller that waits in send.
Send(c) ==
    /\ place[c] = "sending"
    /\ has_room
    /\ place' = [place EXCEPT ![c] = "channel"]
    /\ UNCHANGED <<leased, calls, sequence, attempts, response, tpc, running, timeVars, swarmVars, dhtVars>>

\* timeout_at passes first: the receiver is dropped, the request stays where it is.
GiveUp(c) ==
    /\ response[c] = "open"
    /\ is_expired(c)
    /\ response' = [response EXCEPT ![c] = "failed"]
    /\ place' = [place EXCEPT ![c] = IF @ = "sending" THEN "gone" ELSE @]
    /\ UNCHANGED <<leased, calls, sequence, attempts, tpc, running, timeVars, swarmVars, dhtVars>>

-----------------------------------------------------------------------------
(* The loop of the task: the clock, expire_active_publish and                *)
(* maybe_start_publish at its head, the clock again and next_publish_wake,   *)
(* then one event of the select.                                             *)

\* Mutant: the lease does not keep an expired request active.
expires_like_any(c) == is_expired(c)

may_expire_while_active(c) == leased = "no" /\ is_expired(c)

expire_active_publish ==
    LET expired == {c \in active : may_expire_while_active(c)}
    IN  /\ tpc = "head"
        /\ respond(expired, "failed")
        /\ place' = [c \in Call |-> IF c \in expired THEN "gone" ELSE place[c]]
        /\ tpc' = "start"
        /\ missed' = {}
        /\ UNCHANGED <<leased, calls, sequence, attempts, running, left, delay, wake, swarmVars, dhtVars>>

\* The requests discard_unpublishable_pending drops.
unpublishable == {c \in pending : is_closed(c) \/ is_expired(c)}

has_enough_connected_peers_for_publish ==
    IF bootstrapped = "yes" THEN peers > 0 ELSE peers >= MinPeers

\* The request maybe_start_publish takes from the queue, if any.
Startable ==
    LET retained == pending \ unpublishable
    IN  IF active # {} \/ ~has_enough_connected_peers_for_publish
        THEN {}
        ELSE {c \in retained : IsFront(c, retained) /\ delay[c] = 0}

least(S) == CHOOSE n \in S : \A m \in S : n <= m

\* Mutant: only the front of the queue wakes the loop.
wake_for_front ==
    least({NoWake}
          \cup {left[c] : c \in {d \in active : leased = "no"}}
          \cup {delay[c] : c \in {d \in pending : ~is_closed(d) /\ IsFront(d, pending) /\ delay[d] > 0}})

next_publish_wake ==
    least({NoWake}
          \cup {left[c] : c \in {d \in active : leased = "no"}}
          \cup {left[c] : c \in {d \in pending : ~is_closed(d)}}
          \cup {delay[c] : c \in {d \in pending : ~is_closed(d) /\ IsFront(d, pending) /\ delay[d] > 0}})

\* The second reading of the clock: a not_before that has passed since the first is not
\* waited for, and neither is a request whose caller has given up meanwhile.
ComputeWake ==
    /\ tpc = "wake"
    /\ tpc' = "select"
    /\ wake' = next_publish_wake
    /\ UNCHANGED <<leased, calls, sequence, attempts, place, response, running, left, delay, missed,
                   swarmVars, dhtVars>>

\* At the head of the loop the wake is computed next; after an event the loop
\* comes round to its head.
AfterStart ==
    /\ IF tpc = "start" THEN tpc' = "wake" /\ wake' = NoWake ELSE tpc' = "head" /\ UNCHANGED wake
    /\ UNCHANGED missed

\* Nothing to start, or nothing that may start yet.
StartNothing ==
    /\ tpc \in {"start", "handled"}
    /\ Startable = {}
    /\ place' = [c \in Call |-> IF c \in unpublishable THEN "gone" ELSE place[c]]
    /\ respond(unpublishable, "failed")
    /\ UNCHANGED <<leased, calls, sequence, left, delay, attempts, running, swarmVars, dhtVars>>
    /\ AfterStart

maybe_start_publish(c) ==
    /\ tpc \in {"start", "handled"}
    /\ c \in Startable
    /\ place' = [d \in Call |-> IF d = c THEN "active"
                                ELSE IF d \in unpublishable THEN "gone" ELSE place[d]]
    /\ respond(unpublishable, "failed")
    /\ attempts' = [attempts EXCEPT ![c] = IF @ < RetryDelays THEN @ + 1 ELSE @]
    /\ running' = running \cup {c}
    /\ inflight' = inflight \cup {sequence[c]}
    /\ UNCHANGED <<leased, calls, sequence, left, delay, swarmVars, resolved>>
    /\ AfterStart

\* build_signed_record or put_record returns an error.
StartRefused(c) ==
    /\ tpc \in {"start", "handled"}
    /\ c \in Startable
    /\ place' = [d \in Call |-> IF d \in unpublishable \cup {c} THEN "gone" ELSE place[d]]
    /\ respond(unpublishable \cup {c}, "failed")
    /\ UNCHANGED <<leased, calls, sequence, left, delay, attempts, running, swarmVars, dhtVars>>
    /\ AfterStart

-----------------------------------------------------------------------------
(* The events of the select. *)

\* sleep_until_wake ends.
Woken ==
    /\ tpc = "select"
    /\ wake = 0
    /\ tpc' = "head"
    /\ UNCHANGED <<leased, calls, sequence, attempts, place, response, running, timeVars, swarmVars, dhtVars>>

\* bootstrap_interval ticks, or an event that changes nothing.
Rebootstrap ==
    /\ tpc = "select"
    /\ tpc' = "head"
    /\ UNCHANGED <<leased, calls, sequence, attempts, place, response, running, timeVars, swarmVars, dhtVars>>

Receive(c) ==
    /\ tpc = "select"
    /\ IsFront(c, channel)
    /\ place' = [place EXCEPT ![c] = "pending"]
    /\ tpc' = "head"
    /\ UNCHANGED <<leased, calls, sequence, attempts, response, running, timeVars, swarmVars, dhtVars>>

\* The query of the active request ends in Ok: a peer has stored the record.
PutStored(c) ==
    /\ tpc = "select"
    /\ c \in running
    /\ sequence[c] <= resolved
    /\ running' = running \ {c}
    /\ c \in active
    /\ place' = [place EXCEPT ![c] = "gone"]
    /\ respond({c}, "published")
    /\ tpc' = "handled"
    /\ UNCHANGED <<leased, calls, sequence, attempts, timeVars, swarmVars, dhtVars>>

Smaller(m, n) == IF m <= n THEN m ELSE n

\* next_retry_at is Some.
may_retry(c) == ~is_closed(c) /\ left[c] > MinRetryRemaining

retry_delay(c) == Smaller(RetryDelay(attempts[c]), left[c] - MinRetryRemaining)

\* Mutant: a failed query that is not retried stays the active one.
failure_keeps_active(c) ==
    /\ tpc = "select"
    /\ c \in running
    /\ running' = running \ {c}
    /\ c \in active
    /\ IF may_retry(c)
       THEN /\ place' = [place EXCEPT ![c] = "pending"]
            /\ delay' = [delay EXCEPT ![c] = retry_delay(c)]
            /\ UNCHANGED response
       ELSE respond({c}, "failed") /\ UNCHANGED <<place, delay>>
    /\ tpc' = "handled"
    /\ UNCHANGED <<leased, calls, sequence, attempts, left, wake, missed, swarmVars, dhtVars>>

PutFailed(c) ==
    /\ tpc = "select"
    /\ c \in running
    /\ running' = running \ {c}
    /\ c \in active
    /\ IF may_retry(c)
       THEN /\ place' = [place EXCEPT ![c] = "pending"]
            /\ delay' = [delay EXCEPT ![c] = retry_delay(c)]
            /\ UNCHANGED response
       ELSE /\ place' = [place EXCEPT ![c] = "gone"]
            /\ respond({c}, "failed")
            /\ UNCHANGED delay
    /\ tpc' = "handled"
    /\ UNCHANGED <<leased, calls, sequence, attempts, left, wake, missed, swarmVars, dhtVars>>

\* Mutant: the result of any put_record query is taken for the active one's.
AnyPutStored(c) ==
    /\ tpc = "select"
    /\ c \in running \ active
    /\ running' = running \ {c}
    /\ respond(active, "published")
    /\ place' = [d \in Call |-> IF d \in active THEN "gone" ELSE place[d]]
    /\ tpc' = "handled"
    /\ UNCHANGED <<leased, calls, sequence, attempts, timeVars, swarmVars, dhtVars>>

\* The query of a request that expired ends: its id matches no active publish.
PutIgnored(c) ==
    /\ tpc = "select"
    /\ c \in running \ active
    /\ running' = running \ {c}
    /\ tpc' = "head"
    /\ UNCHANGED <<leased, calls, sequence, attempts, place, response, timeVars, swarmVars, dhtVars>>

BootstrapCompletes ==
    /\ tpc = "select"
    /\ bootstrapped = "no"
    /\ bootstrapped' = "yes"
    /\ tpc' = "handled"
    /\ UNCHANGED <<leased, calls, sequence, attempts, place, response, running, timeVars, peers, dhtVars>>

ConnectionEstablished ==
    /\ tpc = "select"
    /\ peers < MinPeers
    /\ peers' = peers + 1
    /\ tpc' = "handled"
    /\ UNCHANGED <<leased, calls, sequence, attempts, place, response, running, timeVars, bootstrapped, dhtVars>>

ConnectionClosed ==
    /\ tpc = "select"
    /\ peers > 0
    /\ peers' = peers - 1
    /\ tpc' = "head"
    /\ UNCHANGED <<leased, calls, sequence, attempts, place, response, running, timeVars, bootstrapped, dhtVars>>

\* The shutdown flag: run returns and drops the queue, the channel and the swarm.
Stop ==
    /\ tpc \in {"select", "head"}
    /\ tpc' = "stopped"
    /\ place' = [c \in Call |-> IF place[c] = "none" THEN "none" ELSE "gone"]
    /\ respond(Call \ At("none"), "failed")
    /\ running' = {}
    /\ UNCHANGED <<leased, calls, sequence, attempts, timeVars, swarmVars, dhtVars>>

-----------------------------------------------------------------------------
(* The DHT and the clock. *)

Store(s) ==
    /\ s \in inflight
    /\ s > resolved
    /\ resolved' = s
    /\ UNCHANGED <<leased, calls, sequence, attempts, place, response, tpc, running, timeVars, swarmVars, inflight>>

TimerDue ==
    \/ tpc = "select" /\ wake = 0
    \/ tpc \in {"head", "start", "handled"}
    \/ \E c \in Call : response[c] = "open" /\ is_expired(c)

Monus1(n) == IF n = 0 THEN 0 ELSE n - 1

Tick ==
    /\ ~TimerDue
    /\ left' = [c \in Call |-> Monus1(left[c])]
    /\ delay' = [c \in Call |-> Monus1(delay[c])]
    /\ wake' = IF wake = NoWake THEN wake ELSE Monus1(wake)
    /\ missed' = IF tpc = "wake" THEN missed \cup {c \in pending : left[c] = 1 \/ delay[c] = 1}
                 ELSE missed
    /\ UNCHANGED <<leased, calls, sequence, attempts, place, response, tpc, running, swarmVars, dhtVars>>

-----------------------------------------------------------------------------
Caller ==
    \/ \E s \in Call : publish_manifest_cid(s)
    \/ \E c \in Call : Send(c) \/ GiveUp(c)

PutEnds(c) == PutStored(c) \/ PutFailed(c) \/ PutIgnored(c)

Task ==
    \/ expire_active_publish \/ StartNothing \/ ComputeWake
    \/ \E c \in Call : maybe_start_publish(c) \/ StartRefused(c) \/ Receive(c)
    \/ Woken

Next ==
    \/ Caller \/ Task \/ Rebootstrap \/ Stop
    \/ \E c \in Call : PutEnds(c)
    \/ BootstrapCompletes \/ ConnectionEstablished \/ ConnectionClosed
    \/ \E s \in inflight : Store(s)
    \/ Tick

Spec == Init /\ [][Next]_vars

\* The task and the caller's timer are scheduled and time passes; bootstrap_interval keeps
\* ticking.  The select comes round to every branch that stays ready, bootstrap_interval being
\* minutes long, and the swarm ends every query: kad_config.set_query_timeout.
Fairness ==
    /\ WF_vars(Task)
    /\ WF_vars(Rebootstrap)
    /\ SF_vars(Tick)
    /\ WF_vars(\E c \in Call : Send(c) \/ GiveUp(c))
    /\ SF_vars(\E c \in Call : Receive(c))
    /\ SF_vars(\E c \in Call : PutEnds(c))

FairSpec == Spec /\ Fairness

-----------------------------------------------------------------------------
Channel == INSTANCE IpnsChannel WITH outcome <- response

\* The publisher keeps its promise to its callers (IpnsChannel): an Ok is given only
\* for a record the DHT has, also when the query of a request that expired ends
\* while a later request is active; no query starts for a caller that has gone; and
\* no call is answered twice.
ImplementsChannel == Channel!Spec

\* While a query of a leased request is under way the request, and with it the lease
\* that keeps rewinds out, is still held, although its caller may have given up.
LeaseCoversPut ==
    leased = "yes" => running \subseteq active

\* The loop never sleeps past something it has to do: no request outlives its deadline
\* in the queue, no unleased one while active, and none that may start waits on.  The
\* exceptions are those of the two readings of the clock in a turn: a not_before between them,
\* which is then waited for no longer, and a deadline between them when the caller gave up
\* before the wake-up was computed.
NothingIsOverdue ==
    (tpc = "select" /\ wake # 0) =>
        /\ \A c \in pending : is_expired(c) => is_closed(c) /\ c \in missed
        /\ \A c \in active : ~may_expire_while_active(c)
        /\ Startable \subseteq missed

\* Every request leaves the publisher, and gives its lease back, whatever became of
\* its caller and of its queries.
EveryRequestEnds ==
    \A c \in Call : place[c] # "none" ~> place[c] = "gone"

=============================================================================
