--------------------------- MODULE PublishProofs ---------------------------
(***************************************************************************)
(* The services a publication calls keep their promises.  What MultiPinner   *)
(* reports is true of a quorum of services, for every number of services,    *)
(* every quorum and any number of failing calls.  The IPNS publisher answers *)
(* its callers truthfully and covers its puts with their leases, for every   *)
(* number of calls and every choice of the timeouts, the retry delays, the   *)
(* peer threshold and the queue capacity.                                    *)
(***************************************************************************)
EXTENDS MultiPinner, IpnsPublisher, FiniteSetTheorems, WellFoundedInduction, TLAPS

-----------------------------------------------------------------------------
(* MultiPinner *)

Word == {"", "error", "present", "missing", "gone"}

PinStep == {"put", "cid", "copy", "delete"}

PinnerTypeOK ==
    /\ cid_of \in [Services -> Cid]
    /\ op \in {"idle", "pin", "unpin", "contains"}
    /\ subject \in Cid
    /\ step \in [Services -> PinStep \cup {"unpin", "contains", "done"}]
    /\ answer \in [Services -> Cid \cup Word]
    /\ objects \in [Services -> SUBSET Cid]
    /\ promised \subseteq Cid

\* The calls under way are those of the operation, and what they have returned is
\* true of their service until the operation ends.
PinCallInv ==
    /\ \A i \in Services : step[i] \in PinStep => op = "pin"
    /\ \A i \in Services : step[i] = "unpin" => op = "unpin"
    /\ \A i \in Services : step[i] = "contains" => op = "contains"
    /\ \A i \in Services : step[i] = "delete" => cid_of[i] \in objects[i]
    /\ op = "pin" => \A i \in Services : answer[i] \in Cid => answer[i] \in objects[i]
    /\ op = "unpin" => subject \notin promised
    /\ op = "contains" => \A i \in Services :
          /\ answer[i] = "missing" => subject \notin objects[i]
          /\ step[i] = "done" => answer[i] \in {"present", "missing", "error"}

PinInv == PinnerTypeOK /\ PinCallInv /\ PinnedAtQuorum /\ PinnedIsNeverDenied

\* More holders never make a quorum smaller.
LEMMA QuorumGrows ==
    ASSUME NEW A, NEW B, A \subseteq B, B \subseteq Services, Cardinality(A) >= Quorum
    PROVE  Cardinality(B) >= Quorum
<1>1. IsFiniteSet(B) /\ IsFiniteSet(A)
  BY Zenon, FS_Subset, ServicesAssumption
<1>2. Cardinality(A) <= Cardinality(B)
  BY <1>1, FS_Subset
<1>3. Cardinality(A) \in Nat /\ Cardinality(B) \in Nat
  BY <1>1, FS_CardinalityType
<1>4. Cardinality(Services) \in Nat
  BY ServicesAssumption, FS_CardinalityType
<1>5. Quorum \in Int
  BY <1>4, QuorumAssumption
<1> QED
  BY <1>2, <1>3, <1>5

\* Nothing is pinned and nothing has been promised.
LEMMA PinInitInv == PinnerInit => PinInv
BY Zenon, CidAssumption
DEF PinnerInit, PinInv, PinnerTypeOK, PinCallInv, PinnedAtQuorum, PinnedIsNeverDenied, Word, PinStep

\* A step that removes no promised object from a service keeps every promise.
LEMMA PromisesKept ==
    ASSUME PinInv, promised' \subseteq promised, objects' \in [Services -> SUBSET Cid],
           \A i \in Services : \A c \in promised : c \in objects[i] => c \in objects'[i]
    PROVE  PinnedAtQuorum'
<1> SUFFICES ASSUME NEW c \in promised' PROVE Cardinality(Holders(c)') >= Quorum
  BY DEF PinnedAtQuorum
<1>1. c \in promised /\ Cardinality(Holders(c)) >= Quorum
  BY DEF PinInv, PinnedAtQuorum
<1>2. Holders(c) \subseteq Holders(c)' /\ Holders(c)' \subseteq Services
  BY <1>1 DEF Holders
<1> QED
  BY <1>1, <1>2, QuorumGrows

\* Every call of a service preserves the invariant.
LEMMA ServiceStep ==
    ASSUME PinInv, NEW i \in Services, ServiceNext(i)
    PROVE  PinInv'
<1> USE CidAssumption
<1> USE DEF PinInv, PinnerTypeOK, PinCallInv, PinnedIsNeverDenied, Word, PinStep, ServiceNext,
      Advance, Return, Succeed, Raise, Outage
<1>1. CASE put_object(i)
  <2>1. PinnedAtQuorum'
    BY Zenon, <1>1, PromisesKept DEF put_object
  <2> QED
    BY ZenonT(60), <1>1, <2>1 DEF put_object
<1>2. CASE returned_cid_from_filebase(i)
  <2>1. PinnedAtQuorum'
    BY Zenon, <1>2, PromisesKept DEF returned_cid_from_filebase
  <2> QED
    BY ZenonT(60), <1>2, <2>1 DEF returned_cid_from_filebase
<1>3. CASE copy_object(i)
  <2> DEFINE copied == [objects EXCEPT ![i] = @ \cup {cid_of[i]}]
  <2>1. objects \in [Services -> SUBSET Cid] /\ objects[i] \cup {cid_of[i]} \in SUBSET Cid
    <3>1. objects \in [Services -> SUBSET Cid] /\ cid_of \in [Services -> Cid]
      BY ZenonT(60)
    <3>2. objects[i] \in SUBSET Cid /\ cid_of[i] \in Cid
      BY ZenonT(60), <3>1
    <3> QED
      BY ZenonT(60), <3>1, <3>2
  <2>2. copied \in [Services -> SUBSET Cid]
    BY Zenon, <2>1
  <2>3. \A j \in Services : objects[j] \subseteq copied[j]
    BY Zenon, <2>1
  <2>4. /\ objects' \in {objects, copied}
        /\ step[i] = "copy" /\ UNCHANGED <<op, subject, cid_of, result, promised>>
    BY Zenon, <1>3 DEF copy_object
  <2> HIDE DEF copied
  <2>5. /\ objects' \in [Services -> SUBSET Cid]
        /\ \A j \in Services : objects[j] \subseteq objects'[j]
        /\ step[i] = "copy" /\ op = "pin" /\ UNCHANGED <<op, subject, cid_of, result, promised>>
    BY Zenon, <2>2, <2>3, <2>4
  <2>6. PinnedAtQuorum'
    BY Zenon, <2>5, PromisesKept
  <2>7. CASE objects' = [objects EXCEPT ![i] = @ \cup {cid_of[i]}] /\ Advance(i, "delete")
    BY ZenonT(60), <2>5, <2>6, <2>7
  <2>8. CASE Raise(i)
    BY ZenonT(60), <2>5, <2>6, <2>8
  <2> QED
    BY Zenon, <1>3, <2>7, <2>8 DEF copy_object
<1>4. CASE delete_temporary_object(i)
  <2>1. PinnedAtQuorum'
    BY Zenon, <1>4, PromisesKept DEF delete_temporary_object
  <2> QED
    BY Zenon, <1>4, <2>1 DEF delete_temporary_object
<1>5. CASE unpin(i)
  <2> DEFINE deleted == [objects EXCEPT ![i] = @ \ {subject}]
  <2>1. /\ deleted \in [Services -> SUBSET Cid]
        /\ \A j \in Services : \A c \in Cid \ {subject} : c \in objects[j] => c \in deleted[j]
    OBVIOUS
  <2>2. /\ objects' \in {objects, deleted}
        /\ step[i] = "unpin" /\ UNCHANGED <<op, subject, cid_of, result, promised>>
    BY Zenon, <1>5 DEF unpin
  <2> HIDE DEF deleted
  <2>3. /\ objects' \in [Services -> SUBSET Cid]
        /\ \A j \in Services : \A c \in Cid \ {subject} : c \in objects[j] => c \in objects'[j]
        /\ step[i] = "unpin" /\ op = "unpin" /\ UNCHANGED <<op, subject, cid_of, result, promised>>
    BY Zenon, <2>1, <2>2
  <2>4. PinnedAtQuorum'
    BY Zenon, <2>3, PromisesKept
  <2>5. PICK word \in {"gone", "error"} : Return(i, word)
    BY Zenon, <1>5 DEF unpin
  <2> QED
    BY ZenonT(60), <2>3, <2>4, <2>5
<1>6. CASE contains(i)
  <2>1. PinnedAtQuorum'
    BY Zenon, <1>6, PromisesKept DEF contains
  <2>2. /\ step[i] = "contains" /\ op = "contains"
        /\ UNCHANGED <<op, subject, objects, cid_of, result, promised>>
    BY Zenon, <1>6 DEF contains
  <2>3. PICK word \in {"present", "missing", "error"} :
          Return(i, word) /\ (word = "missing" => subject \notin objects[i])
    BY Zenon, <1>6 DEF contains
  <2>4. PinnerTypeOK' /\ PinnedIsNeverDenied'
    BY Zenon, <2>2, <2>3
  <2>5. PinCallInv'
    BY ZenonT(60), <2>2, <2>3
  <2> QED
    BY Zenon, <2>1, <2>4, <2>5
<1> QED
  BY Zenon, <1>1, <1>2, <1>3, <1>4, <1>5, <1>6

\* Beginning and ending an operation preserves the invariant: a pin is promised only
\* on the word of a quorum, and a denial needs the word of every service.
LEMMA OperationStep ==
    ASSUME PinInv,
           \/ \E c \in Cid : StartUnpin(c) \/ StartContains(c) \/ PinReturns(c)
           \/ StartPin \/ PinningQuorumNotMet \/ UnpinReturns \/ ContainsReturns
    PROVE  PinInv'
<1> USE CidAssumption
<1> USE DEF PinInv, PinnerTypeOK, PinCallInv, PinnedIsNeverDenied, Word, PinStep, Begin, Finish
<1>1. ASSUME NEW c \in Cid, StartUnpin(c) PROVE PinInv'
  <2>1. PinnedAtQuorum'
    BY Zenon, <1>1, PromisesKept DEF StartUnpin
  <2> QED
    BY Zenon, <1>1, <2>1 DEF StartUnpin
<1>2. ASSUME NEW c \in Cid, StartContains(c) PROVE PinInv'
  <2>1. PinnedAtQuorum'
    BY Zenon, <1>2, PromisesKept DEF StartContains
  <2> QED
    BY Zenon, <1>2, <2>1 DEF StartContains
<1>3. CASE StartPin
  <2>1. PinnedAtQuorum'
    BY Zenon, <1>3, PromisesKept DEF StartPin
  <2> QED
    BY Zenon, <1>3, <2>1 DEF StartPin
<1>4. ASSUME NEW c \in Cid, PinReturns(c) PROVE PinInv'
  <2>1. Answered(c) \subseteq Holders(c) /\ Holders(c) \subseteq Services
    BY Zenon, <1>4 DEF PinReturns, Answered, Holders
  <2>2. Cardinality(Holders(c)) >= Quorum
    BY Zenon, <1>4, <2>1, QuorumGrows DEF PinReturns, PinAgreed
  <2>3. PinnedAtQuorum'
    <3> SUFFICES ASSUME NEW d \in promised' PROVE Cardinality(Holders(d)') >= Quorum
      BY Zenon DEF PinnedAtQuorum
    <3>1. Holders(d)' = Holders(d)
      BY Zenon, <1>4 DEF PinReturns, Holders
    <3>2. d \in promised \/ d = c
      BY Zenon, <1>4 DEF PinReturns
    <3> QED
      BY Zenon, <2>2, <3>1, <3>2 DEF PinnedAtQuorum
  <2> QED
    BY Zenon, <1>4, <2>3 DEF PinReturns
<1>5. CASE PinningQuorumNotMet
  <2>1. PinnedAtQuorum'
    BY Zenon, <1>5, PromisesKept DEF PinningQuorumNotMet
  <2> QED
    BY Zenon, <1>5, <2>1 DEF PinningQuorumNotMet
<1>6. CASE UnpinReturns
  <2>1. PinnedAtQuorum'
    BY Zenon, <1>6, PromisesKept DEF UnpinReturns
  <2> QED
    BY Zenon, <1>6, <2>1 DEF UnpinReturns
<1>7. CASE ContainsReturns
  <2>1. PinnedAtQuorum'
    BY Zenon, <1>7, PromisesKept DEF ContainsReturns
  <2>2. CASE ContainsVerdict = "missing"
    <3>1. Answered("error") = {} /\ ~(Cardinality(Answered("present")) >= Quorum)
      BY Zenon, <2>2 DEF ContainsVerdict
    <3>2. Holders(subject) \subseteq Answered("present") /\ Answered("present") \subseteq Services
      BY Zenon, <1>7, <3>1 DEF ContainsReturns, Holders, Answered
    <3>3. subject \notin promised
      BY Zenon, <3>1, <3>2, QuorumGrows DEF PinnedAtQuorum
    <3> QED
      BY Zenon, <1>7, <2>1, <3>3 DEF ContainsReturns
  <2>3. CASE ContainsVerdict # "missing"
    BY Zenon, <1>7, <2>1, <2>3 DEF ContainsReturns
  <2> QED
    BY Zenon, <2>2, <2>3
<1> QED
  BY Zenon, <1>1, <1>2, <1>3, <1>4, <1>5, <1>6, <1>7

\* The invariant holds throughout.
LEMMA PinInvariance == PinnerSpec => []PinInv
<1>1. PinInv /\ [PinnerNext]_pinnerVars => PinInv'
  <2> SUFFICES ASSUME PinInv, [PinnerNext]_pinnerVars PROVE PinInv'
    OBVIOUS
  <2>1. CASE UNCHANGED pinnerVars
    BY <2>1 DEF pinnerVars, callVars, PinInv, PinnerTypeOK, PinCallInv, PinnedAtQuorum, Holders,
       PinnedIsNeverDenied
  <2> QED
    BY <2>1, ServiceStep, OperationStep DEF PinnerNext
<1> QED
  BY PinInitInv, <1>1, PTL DEF PinnerSpec

\* What pin_bytes returned is kept by a quorum of services until somebody asks to
\* unpin it.
THEOREM PinsAreKept == PinnerSpec => []PinnedAtQuorum
<1>1. PinInv => PinnedAtQuorum
  BY DEF PinInv
<1> QED
  BY PinInvariance, <1>1, PTL

\* contains() never denies what was pinned and not unpinned, however many services
\* fail to answer.
THEOREM PinsAreNotDenied == PinnerSpec => []PinnedIsNeverDenied
<1>1. PinInv => PinnedIsNeverDenied
  BY DEF PinInv
<1> QED
  BY PinInvariance, <1>1, PTL

-----------------------------------------------------------------------------
(* IpnsPublisher *)

\* One call at a time: only the last call may be open, and later ones do not exist.
CallInv ==
    /\ \A c \in Call : response[c] = "open" => c = calls
    /\ \A c \in Call : c > calls => response[c] = "none" /\ place[c] = "none"

IInv == TypeOK /\ CallInv /\ LeaseCoversPut

USE MaxCallsAssumption
USE DEF Call

\* The initial state satisfies the invariant.
LEMMA InitInv == Init => IInv
BY DEF Init, IInv, TypeOK, CallInv, LeaseCoversPut

\* An answer to a set of requests leaves the response of each call well typed and
\* opens none.
LEMMA RespondInv ==
    ASSUME IInv, NEW S, NEW reply \in {"published", "failed"}, respond(S, reply)
    PROVE  /\ response' \in [Call -> {"none", "open", "published", "failed"}]
           /\ \A c \in Call : response'[c] = "open" => response[c] = "open"
           /\ \A c \in Call : response[c] = "none" => response'[c] = "none"
BY DEF respond, IInv, TypeOK, is_closed

\* Every step of the caller, of the task, of the swarm and of the clock preserves the
\* invariant.
LEMMA NextInv == IInv /\ [Next]_vars => IInv'
<1> SUFFICES ASSUME IInv, [Next]_vars PROVE IInv'
  OBVIOUS
<1> USE DEF timeVars, swarmVars, dhtVars
<1>1. ASSUME NEW s \in Call, publish_manifest_cid(s) PROVE IInv'
  <2> DEFINE new == calls + 1
  <2>1. /\ new \in Call /\ new > calls /\ calls' = new
        /\ response[new] = "none" /\ place[new] = "none"
    BY <1>1 DEF publish_manifest_cid, IInv, TypeOK, CallInv
  <2>2. PICK p \in {"gone", "channel", "sending"}, r \in {"failed", "open"} :
           place' = [place EXCEPT ![new] = p] /\ response' = [response EXCEPT ![new] = r]
    BY <1>1 DEF publish_manifest_cid
  <2>3. TypeOK'
    BY <1>1, <2>1, <2>2 DEF publish_manifest_cid, IInv, TypeOK
  <2>4. \A c \in Call : response[c] # "open"
    BY <1>1 DEF publish_manifest_cid, IInv, TypeOK, CallInv, is_closed
  <2>5. CallInv'
    BY <2>1, <2>2, <2>4 DEF IInv, TypeOK, CallInv
  <2>6. LeaseCoversPut'
    BY <1>1, <2>1, <2>2 DEF publish_manifest_cid, IInv, TypeOK, LeaseCoversPut, active, At
  <2> QED
    BY <2>3, <2>5, <2>6 DEF IInv
<1>2. ASSUME NEW c \in Call, Send(c) PROVE IInv'
  BY <1>2 DEF Send, IInv, TypeOK, CallInv, LeaseCoversPut, active, At
<1>3. ASSUME NEW c \in Call, GiveUp(c) PROVE IInv'
  BY <1>3 DEF GiveUp, IInv, TypeOK, CallInv, LeaseCoversPut, active, At
<1>4. CASE expire_active_publish
  BY Zenon, <1>4, RespondInv DEF expire_active_publish, may_expire_while_active,
     IInv, TypeOK, CallInv, LeaseCoversPut, active, At
<1>5. CASE StartNothing
  BY Zenon, <1>5, RespondInv DEF StartNothing, AfterStart, unpublishable, pending,
     IInv, TypeOK, CallInv, LeaseCoversPut, active, At
<1>6. ASSUME NEW c \in Call, maybe_start_publish(c) PROVE IInv'
  <2>1. active = {} /\ place[c] = "pending"
    BY <1>6 DEF maybe_start_publish, Startable, pending, At
  <2>2. TypeOK'
    BY Zenon, <1>6, RespondInv DEF maybe_start_publish, AfterStart, IInv, TypeOK
  <2>3. CallInv'
    BY <1>6, <2>1, RespondInv DEF maybe_start_publish, unpublishable, pending, At,
       IInv, TypeOK, CallInv
  <2>4. LeaseCoversPut'
    BY Zenon, <1>6, <2>1 DEF maybe_start_publish, IInv, TypeOK, LeaseCoversPut, active, At
  <2> QED
    BY <2>2, <2>3, <2>4 DEF IInv
<1>7. ASSUME NEW c \in Call, StartRefused(c) PROVE IInv'
  BY Zenon, <1>7, RespondInv DEF StartRefused, AfterStart, Startable, unpublishable, pending,
     IInv, TypeOK, CallInv, LeaseCoversPut, active, At
<1>8. ASSUME NEW c \in Call, Receive(c) PROVE IInv'
  BY <1>8 DEF Receive, IsFront, channel, IInv, TypeOK, CallInv, LeaseCoversPut, active, At
<1>9. ASSUME NEW c \in Call, PutStored(c) PROVE IInv'
  BY Zenon, <1>9, RespondInv DEF PutStored, IInv, TypeOK, CallInv, LeaseCoversPut, active, At
<1>10. ASSUME NEW c \in Call, PutFailed(c) PROVE IInv'
  <2>1. PICK p \in {"pending", "gone"} : place' = [place EXCEPT ![c] = p]
    BY <1>10 DEF PutFailed
  <2>2. place[c] = "active"
    BY <1>10 DEF PutFailed, active, At
  <2>3. /\ response' \in [Call -> {"none", "open", "published", "failed"}]
        /\ \A d \in Call : response'[d] = "open" => response[d] = "open"
        /\ \A d \in Call : response[d] = "none" => response'[d] = "none"
    BY Zenon, <1>10, RespondInv DEF PutFailed, IInv, TypeOK
  <2>4. TypeOK'
    BY <1>10, <2>1, <2>3 DEF PutFailed, IInv, TypeOK
  <2>5. CallInv'
    BY <1>10, <2>1, <2>2, <2>3 DEF PutFailed, IInv, TypeOK, CallInv
  <2>6. LeaseCoversPut'
    BY <1>10, <2>1 DEF PutFailed, IInv, TypeOK, LeaseCoversPut, active, At
  <2> QED
    BY <2>4, <2>5, <2>6 DEF IInv
<1>11. ASSUME NEW c \in Call, PutIgnored(c) PROVE IInv'
  BY <1>11 DEF PutIgnored, IInv, TypeOK, CallInv, LeaseCoversPut, active, At
<1>12. CASE Stop
  BY Zenon, <1>12, RespondInv DEF Stop, IInv, TypeOK, CallInv, LeaseCoversPut, active, At
<1>13. CASE Woken \/ Rebootstrap \/ BootstrapCompletes \/ ConnectionEstablished \/ ConnectionClosed
  BY Zenon, <1>13
  DEF Woken, Rebootstrap, BootstrapCompletes, ConnectionEstablished, ConnectionClosed,
     IInv, TypeOK, CallInv, LeaseCoversPut, active, At
<1>14. ASSUME NEW s \in inflight, Store(s) PROVE IInv'
  BY <1>14 DEF Store, IInv, TypeOK, CallInv, LeaseCoversPut, active, At
<1>15. CASE Tick
  BY <1>15 DEF Tick, IInv, TypeOK, CallInv, LeaseCoversPut, active, pending, At
<1>16. CASE ComputeWake
  BY <1>16 DEF ComputeWake, IInv, TypeOK, CallInv, LeaseCoversPut, active, At
<1>17. CASE UNCHANGED vars
  BY <1>17 DEF vars, IInv, TypeOK, CallInv, LeaseCoversPut, active, At
<1> QED
  BY <1>1, <1>2, <1>3, <1>4, <1>5, <1>6, <1>7, <1>8, <1>9, <1>10, <1>11, <1>12, <1>13, <1>14,
     <1>15, <1>16, <1>17 DEF Next, Caller, Task, PutEnds

\* The invariant holds throughout.
LEMMA Invariance == Spec => []IInv
BY InitInv, NextInv, PTL DEF Spec

\* While a query of a leased request is under way the publisher holds the request and
\* its lease, for every timing.
THEOREM PutsAreLeased == Spec => []LeaseCoversPut
<1>1. IInv => LeaseCoversPut
  BY DEF IInv
<1> QED
  BY Invariance, <1>1, PTL

-----------------------------------------------------------------------------
(* The wake-up: while the loop sleeps, the instant it sleeps to is no later   *)
(* than anything it has to do, what fell between the two readings excepted.  *)

TimesOK ==
    /\ left \in [Call -> 0..PublishTimeout]
    /\ delay \in [Call -> Nat]
    /\ attempts \in [Call -> 0..RetryDelays]
    /\ wake \in 0..NoWake

\* Between the readings: at most one request is left, and it may not start yet.
BetweenInv ==
    /\ \A c, d \in pending : c = d
    /\ \A c \in pending : (response[c] = "open" /\ left[c] # 0) \/ c \in missed
    /\ active = {} /\ has_enough_connected_peers_for_publish
          => \A c \in pending : delay[c] # 0 \/ c \in missed

AsleepInv ==
    /\ \A c \in pending : response[c] = "open" \/ wake = 0 \/ c \in missed
    /\ \A c \in pending : response[c] = "open" => wake <= left[c]
    /\ leased = "no" => \A c \in active : wake <= left[c]
    /\ wake # 0 /\ active = {} /\ has_enough_connected_peers_for_publish
          => \A c \in pending : c \in missed \/ (0 < delay[c] /\ wake <= delay[c])

WakeInv ==
    /\ TimesOK
    /\ tpc = "wake" => BetweenInv
    /\ tpc = "select" => AsleepInv

\* The least of some naturals is one of them and no larger than any.
LEMMA LeastOfMany ==
    ASSUME NEW S \in SUBSET Nat, S # {}
    PROVE  least(S) \in S /\ \A m \in S : least(S) <= m
<1>1. \E x \in S : \A y \in S : ~(<<y, x>> \in OpToRel(<, Nat))
  BY Zenon, NatLessThanWellFounded, WFMin
<1>2. \E x \in S : \A y \in S : ~(y < x)
  BY Zenon, <1>1 DEF OpToRel
<1>3. \E x \in S : \A y \in S : x <= y
  BY <1>2
<1> QED
  BY Zenon, <1>3 DEF least

\* While the loop sleeps and its wake-up is ahead, nothing is overdue that was not missed.
LEMMA AsleepSuffices == IInv /\ WakeInv => NothingIsOverdue
<1> SUFFICES ASSUME IInv, WakeInv, tpc = "select", wake # 0
             PROVE  /\ \A c \in pending : is_expired(c) => is_closed(c) /\ c \in missed
                    /\ \A c \in active : ~may_expire_while_active(c)
                    /\ Startable \subseteq missed
  BY Zenon DEF NothingIsOverdue
<1>1. TimesOK /\ AsleepInv
  BY DEF WakeInv
<1>2. \A c \in pending : is_expired(c) => is_closed(c) /\ c \in missed
  <2>1. \A c \in pending : response[c] = "open" => left[c] # 0
    BY <1>1 DEF TimesOK, AsleepInv, pending, At
  <2> QED
    BY Zenon, <1>1, <2>1 DEF AsleepInv, is_expired, is_closed
<1>3. \A c \in active : ~may_expire_while_active(c)
  BY <1>1 DEF TimesOK, AsleepInv, is_expired, may_expire_while_active, active, At
<1>4. ASSUME active = {}, has_enough_connected_peers_for_publish, NEW c \in pending
      PROVE  delay[c] # 0 \/ c \in missed
  BY <1>1, <1>4 DEF TimesOK, AsleepInv, pending, At
<1>5. Startable \subseteq missed
  BY Zenon, <1>4 DEF Startable
<1> QED
  BY Zenon, <1>2, <1>3, <1>5

\* A step that leaves the requests at the task alone, and closes one only when it is due.
LEMMA AsleepStep ==
    ASSUME WakeInv, TimesOK', UNCHANGED <<leased, tpc, delay, wake, missed, peers, bootstrapped>>,
           pending' = pending, active' = active,
           \A c \in pending \cup active : left'[c] = left[c],
           \A c \in pending : response'[c] = response[c] \/ (response[c] = "open" /\ left[c] = 0)
    PROVE  WakeInv'
<1>1. has_enough_connected_peers_for_publish' = has_enough_connected_peers_for_publish
  BY Zenon DEF has_enough_connected_peers_for_publish
<1>2. ASSUME tpc = "wake" PROVE BetweenInv'
  <2>1. BetweenInv
    BY Zenon, <1>2 DEF WakeInv
  <2>2. \A c, d \in pending' : c = d
    BY Zenon, <2>1 DEF BetweenInv
  <2>3. \A c \in pending' : (response'[c] = "open" /\ left'[c] # 0) \/ c \in missed'
    BY Zenon, <2>1 DEF BetweenInv
  <2>4. active' = {} /\ has_enough_connected_peers_for_publish'
           => \A c \in pending' : delay'[c] # 0 \/ c \in missed'
    BY Zenon, <1>1, <2>1 DEF BetweenInv
  <2> QED
    BY Zenon, <2>2, <2>3, <2>4 DEF BetweenInv
<1>3. ASSUME tpc = "select" PROVE AsleepInv'
  <2>1. TimesOK /\ AsleepInv
    BY Zenon, <1>3 DEF WakeInv
  <2>2. \A c \in pending : wake # 0 => response'[c] = response[c]
    BY SMTT(30), <2>1 DEF TimesOK, AsleepInv, pending, At
  <2>3. ASSUME NEW c \in pending' PROVE response'[c] = "open" \/ wake' = 0 \/ c \in missed'
    BY Zenon, <2>1, <2>2 DEF AsleepInv
  <2>4. ASSUME NEW c \in pending', response'[c] = "open" PROVE wake' <= left'[c]
    BY Zenon, <2>1, <2>2, <2>4 DEF TimesOK, AsleepInv, pending, At
  <2>5. ASSUME leased' = "no", NEW c \in active' PROVE wake' <= left'[c]
    BY <2>1, <2>5 DEF AsleepInv
  <2>6. ASSUME wake' # 0, active' = {}, has_enough_connected_peers_for_publish', NEW c \in pending'
        PROVE  c \in missed' \/ (0 < delay'[c] /\ wake' <= delay'[c])
    BY <1>1, <2>1, <2>6 DEF AsleepInv
  <2> QED
    BY Zenon, <2>3, <2>4, <2>5, <2>6 DEF AsleepInv
<1> QED
  BY Zenon, <1>2, <1>3 DEF WakeInv

\* A step of maybe_start_publish leaves at most the last call's request, which may not start yet.
LEMMA StartStep ==
    ASSUME WakeInv, AfterStart, tpc \in {"start", "handled"}, UNCHANGED <<left, delay>>,
           attempts' \in [Call -> 0..RetryDelays],
           \A c \in pending' : c = calls /\ response'[c] = "open" /\ left[c] # 0,
           active' = {} /\ has_enough_connected_peers_for_publish'
              => \A c \in pending' : delay[c] # 0
    PROVE  WakeInv'
<1>1. TimesOK /\ NoWake \in 0..NoWake
  BY TimesAssumption DEF WakeInv, NoWake
<1>2. tpc' # "select" /\ (wake' = NoWake \/ wake' = wake)
  BY DEF AfterStart
<1>3. TimesOK'
  BY Zenon, <1>1, <1>2 DEF TimesOK, NoWake
<1>4. BetweenInv'
  BY Zenon DEF BetweenInv
<1> QED
  BY Zenon, <1>2, <1>3, <1>4 DEF WakeInv

\* The wake-up is computed from the request that is left.
LEMMA ComputeWakeStep ==
    ASSUME IInv, WakeInv, ComputeWake
    PROVE  WakeInv'
<1> USE TimesAssumption
<1> USE DEF swarmVars
<1>1. TimesOK /\ BetweenInv
  BY Zenon DEF WakeInv, ComputeWake
<1> DEFINE A == {left[c] : c \in {d \in active : leased = "no"}}
           B == {left[c] : c \in {d \in pending : ~is_closed(d)}}
           C == {delay[c] : c \in {d \in pending :
                    ~is_closed(d) /\ IsFront(d, pending) /\ delay[d] > 0}}
           S == {NoWake} \cup A \cup B \cup C
<1>2. /\ tpc' = "select" /\ wake' = least(S)
      /\ UNCHANGED <<leased, place, response, left, delay, attempts, missed, peers, bootstrapped>>
  BY Zenon DEF ComputeWake, next_publish_wake
<1>3. active \subseteq Call /\ pending \subseteq Call
  BY Zenon DEF active, pending, At
<1>4. NoWake \in Nat /\ 0..PublishTimeout \subseteq 0..NoWake /\ 0..NoWake \subseteq Nat
  BY DEF NoWake
<1>5. S \in SUBSET Nat /\ S # {}
  BY Zenon, <1>1, <1>3, <1>4 DEF TimesOK
<1>6. NoWake \in S /\ A \subseteq S /\ B \subseteq S /\ C \subseteq S
  BY Zenon
<1>7. \A m \in S : wake' <= m
  BY Zenon, <1>2, <1>5, LeastOfMany
<1>8. wake' \in 0..NoWake
  <2>1. wake' \in Nat /\ wake' <= NoWake
    BY Zenon, <1>2, <1>5, <1>6, <1>7, LeastOfMany
  <2> QED
    BY <1>4, <2>1
<1>9. TimesOK'
  BY Zenon, <1>1, <1>2, <1>8 DEF TimesOK, NoWake
<1>10. pending' = pending /\ active' = active
       /\ has_enough_connected_peers_for_publish' = has_enough_connected_peers_for_publish
  BY Zenon, <1>2 DEF pending, active, At, has_enough_connected_peers_for_publish
<1>11. ASSUME NEW c \in pending, response[c] = "open" PROVE wake' <= left[c]
  <2>1. left[c] \in S
    BY Zenon, <1>11 DEF is_closed
  <2> QED
    BY Zenon, <1>7, <2>1
<1>12. ASSUME leased = "no", NEW c \in active PROVE wake' <= left[c]
  <2>1. left[c] \in S
    BY Zenon, <1>12
  <2> QED
    BY Zenon, <1>7, <2>1
<1>13. ASSUME active = {}, has_enough_connected_peers_for_publish, NEW c \in pending, c \notin missed
       PROVE  0 < delay[c] /\ wake' <= delay[c]
  <2>1. delay[c] # 0 /\ ~is_closed(c)
    BY Zenon, <1>1, <1>13 DEF BetweenInv, is_closed
  <2>2. delay[c] > 0 /\ 0 < delay[c]
    BY <1>1, <1>3, <2>1 DEF TimesOK
  <2>3. \A d \in pending : c = d
    BY Zenon, <1>1 DEF BetweenInv
  <2>4. c \in Int
    BY <1>3
  <2>5. IsFront(c, pending)
    BY <2>3, <2>4 DEF IsFront
  <2>6. delay[c] \in S
    BY Zenon, <2>1, <2>2, <2>5
  <2> QED
    BY Zenon, <1>7, <2>2, <2>6
<1> HIDE DEF S
<1>14. AsleepInv'
  BY Zenon, <1>1, <1>2, <1>10, <1>11, <1>12, <1>13 DEF AsleepInv, BetweenInv
<1>15. tpc' # "wake"
  BY <1>2
<1> QED
  BY Zenon, <1>9, <1>14, <1>15 DEF WakeInv

\* Every step keeps the wake-up ahead of what is due.
LEMMA WakeStep ==
    ASSUME IInv, IInv', WakeInv, [Next]_vars
    PROVE  WakeInv'
<1> USE TimesAssumption
<1> USE DEF timeVars, swarmVars, dhtVars
<1>1. TimesOK
  BY DEF WakeInv
<1>2. ASSUME UNCHANGED <<left, delay, attempts, wake>> PROVE TimesOK'
  BY Zenon, <1>1, <1>2 DEF TimesOK, NoWake
<1>3. ASSUME TimesOK', tpc' # "select", tpc' # "wake" PROVE WakeInv'
  BY Zenon, <1>3 DEF WakeInv
<1>4. ASSUME NEW s \in Call, publish_manifest_cid(s) PROVE WakeInv'
  <2> DEFINE new == calls + 1
  <2>1. /\ new \in Call /\ calls' = new /\ place[new] = "none"
    BY <1>4 DEF publish_manifest_cid, IInv, TypeOK, CallInv
  <2>2. PICK p \in {"gone", "channel", "sending"}, r \in {"failed", "open"} :
           place' = [place EXCEPT ![new] = p] /\ response' = [response EXCEPT ![new] = r]
    BY Zenon, <1>4 DEF publish_manifest_cid
  <2> HIDE DEF new
  <2>3. place \in [Call -> {"none", "sending", "channel", "pending", "active", "gone"}]
        /\ response \in [Call -> {"none", "open", "published", "failed"}]
    BY Zenon DEF IInv, TypeOK
  <2>4. pending' = pending /\ active' = active /\ new \notin pending \cup active
    BY <2>1, <2>2, <2>3 DEF pending, active, At
  <2>5. /\ left' = [left EXCEPT ![new] = PublishTimeout]
        /\ UNCHANGED <<leased, tpc, delay, attempts, wake, missed, peers, bootstrapped>>
    BY Zenon, <1>4, <2>1 DEF publish_manifest_cid
  <2>6. PublishTimeout \in 0..PublishTimeout
    OBVIOUS
  <2>7. TimesOK'
    BY Zenon, <1>1, <2>1, <2>5, <2>6 DEF TimesOK, NoWake
  <2>8. \A c \in pending \cup active : c \in Call /\ c # new
    BY Zenon, <2>4 DEF pending, active, At
  <2>9. \A c \in pending \cup active : left'[c] = left[c] /\ response'[c] = response[c]
    BY Zenon, <1>1, <2>2, <2>3, <2>5, <2>8 DEF TimesOK
  <2> QED
    BY Zenon, <2>4, <2>5, <2>7, <2>9, AsleepStep
<1>5. ASSUME NEW c \in Call, Send(c) PROVE WakeInv'
  <2>1. pending' = pending /\ active' = active
    BY <1>5 DEF Send, pending, active, At, IInv, TypeOK
  <2>2. UNCHANGED <<leased, response, tpc, left, delay, attempts, wake, missed, peers, bootstrapped>>
    BY Zenon, <1>5 DEF Send
  <2> QED
    BY Zenon, <1>2, <2>1, <2>2, AsleepStep
<1>6. ASSUME NEW c \in Call, GiveUp(c) PROVE WakeInv'
  <2>1. pending' = pending /\ active' = active
    BY <1>6 DEF GiveUp, pending, active, At, IInv, TypeOK
  <2>2. UNCHANGED <<leased, tpc, left, delay, attempts, wake, missed, peers, bootstrapped>>
    BY Zenon, <1>6 DEF GiveUp
  <2>3. /\ response' = [response EXCEPT ![c] = "failed"] /\ response[c] = "open" /\ left[c] = 0
        /\ response \in [Call -> {"none", "open", "published", "failed"}]
    BY Zenon, <1>6 DEF GiveUp, is_expired, IInv, TypeOK
  <2>4. \A d \in pending : d \in Call
    BY Zenon DEF pending, At
  <2>5. \A d \in pending : response'[d] = response[d] \/ (response[d] = "open" /\ left[d] = 0)
    BY Zenon, <2>3, <2>4
  <2> QED
    BY Zenon, <1>2, <2>1, <2>2, <2>5, AsleepStep
<1>7. ASSUME NEW s \in inflight, Store(s) PROVE WakeInv'
  <2>1. UNCHANGED <<leased, place, response, tpc, left, delay, attempts, wake, missed, peers, bootstrapped>>
    BY Zenon, <1>7 DEF Store
  <2>2. pending' = pending /\ active' = active
    BY Zenon, <2>1 DEF pending, active, At
  <2> QED
    BY Zenon, <1>2, <2>1, <2>2, AsleepStep
<1>8. CASE UNCHANGED vars
  <2>1. UNCHANGED <<leased, place, response, tpc, left, delay, attempts, wake, missed, peers, bootstrapped>>
    BY Zenon, <1>8 DEF vars
  <2>2. pending' = pending /\ active' = active
    BY Zenon, <2>1 DEF pending, active, At
  <2> QED
    BY Zenon, <1>2, <2>1, <2>2, AsleepStep
<1>9. CASE expire_active_publish \/ Woken \/ Rebootstrap \/ Stop
        \/ BootstrapCompletes \/ ConnectionEstablished \/ ConnectionClosed
  <2>1. UNCHANGED <<left, delay, attempts, wake>>
    BY Zenon, <1>9 DEF expire_active_publish, Woken, Rebootstrap, Stop,
       BootstrapCompletes, ConnectionEstablished, ConnectionClosed
  <2>2. tpc' \in {"start", "head", "stopped", "handled"}
    BY Zenon, <1>9 DEF expire_active_publish, Woken, Rebootstrap, Stop,
       BootstrapCompletes, ConnectionEstablished, ConnectionClosed
  <2>3. tpc' # "select" /\ tpc' # "wake"
    BY <2>2
  <2> QED
    BY Zenon, <1>2, <1>3, <2>1, <2>3
<1>10. ASSUME NEW c \in Call, Receive(c) \/ PutStored(c) \/ PutIgnored(c) PROVE WakeInv'
  <2>1. UNCHANGED <<left, delay, attempts, wake>>
    BY Zenon, <1>10 DEF Receive, PutStored, PutIgnored
  <2>2. tpc' \in {"head", "handled"}
    BY Zenon, <1>10 DEF Receive, PutStored, PutIgnored
  <2>3. tpc' # "select" /\ tpc' # "wake"
    BY <2>2
  <2> QED
    BY Zenon, <1>2, <1>3, <2>1, <2>3
<1>11. ASSUME NEW c \in Call, PutFailed(c) PROVE WakeInv'
  <2>1. tpc' = "handled" /\ UNCHANGED <<left, attempts, wake>>
    BY Zenon, <1>11 DEF PutFailed
  <2>2. delay' = delay \/ (may_retry(c) /\ delay' = [delay EXCEPT ![c] = retry_delay(c)])
    BY Zenon, <1>11 DEF PutFailed
  <2>3. may_retry(c) => retry_delay(c) \in Nat
    BY <1>1 DEF TimesOK, may_retry, retry_delay, Smaller
  <2>4. TimesOK'
    BY Zenon, <1>1, <2>1, <2>2, <2>3 DEF TimesOK, NoWake
  <2>5. tpc' # "select" /\ tpc' # "wake"
    BY <2>1
  <2> QED
    BY Zenon, <1>3, <2>4, <2>5
<1>12. \A c \in pending \ unpublishable :
          c \in Call /\ c = calls /\ response[c] = "open" /\ left[c] # 0
  BY Zenon DEF unpublishable, pending, At, is_closed, is_expired, IInv, CallInv
<1>13. CASE StartNothing
  <2>1. pending' = pending \ unpublishable /\ active' = active
    BY <1>13 DEF StartNothing, unpublishable, pending, active, At, IInv, TypeOK
  <2>2. \A c \in pending' : response'[c] = response[c]
    BY Zenon, <1>12, <1>13, <2>1 DEF StartNothing, respond
  <2>3. /\ AfterStart /\ tpc \in {"start", "handled"}
        /\ UNCHANGED <<leased, left, delay, attempts, peers, bootstrapped>>
    BY Zenon, <1>13 DEF StartNothing
  <2>4. has_enough_connected_peers_for_publish' = has_enough_connected_peers_for_publish
    BY Zenon, <2>3 DEF has_enough_connected_peers_for_publish
  <2>5. ASSUME active = {}, has_enough_connected_peers_for_publish,
               NEW c \in pending \ unpublishable
        PROVE  delay[c] # 0
    <3>1. calls \in Nat
      BY DEF IInv, TypeOK
    <3>2. IsFront(c, pending \ unpublishable)
      BY <1>12, <2>5, <3>1 DEF IsFront
    <3> QED
      BY Zenon, <1>13, <2>5, <3>2 DEF StartNothing, Startable
  <2>6. attempts' \in [Call -> 0..RetryDelays]
    BY Zenon, <1>1, <2>3 DEF TimesOK
  <2> QED
    BY Zenon, <1>12, <2>1, <2>2, <2>3, <2>4, <2>5, <2>6, StartStep
<1>14. ASSUME NEW c \in Call, StartRefused(c) PROVE WakeInv'
  <2>1. c \in pending \ unpublishable
    BY Zenon, <1>14 DEF StartRefused, Startable
  <2>2. pending' = {}
    <3>1. \A d \in Call : d \in unpublishable \cup {c} \/ place[d] # "pending"
      BY Zenon, <1>12, <2>1 DEF pending, At
    <3>2. ASSUME NEW d \in Call PROVE place'[d] # "pending"
      BY <1>14, <3>1 DEF StartRefused
    <3> QED
      BY Zenon, <3>2 DEF pending, At
  <2>3. /\ AfterStart /\ tpc \in {"start", "handled"} /\ UNCHANGED <<leased, left, delay, attempts>>
    BY Zenon, <1>14 DEF StartRefused
  <2>4. attempts' \in [Call -> 0..RetryDelays]
    BY Zenon, <1>1, <2>3 DEF TimesOK
  <2> QED
    BY Zenon, <2>2, <2>3, <2>4, StartStep
<1>15. ASSUME NEW c \in Call, maybe_start_publish(c) PROVE WakeInv'
  <2>1. c \in pending \ unpublishable
    BY Zenon, <1>15 DEF maybe_start_publish, Startable
  <2>2. pending' = {} /\ active' # {}
    <3>1. \A d \in Call : d \in unpublishable \cup {c} \/ place[d] # "pending"
      BY Zenon, <1>12, <2>1 DEF pending, At
    <3>2. ASSUME NEW d \in Call PROVE place'[d] # "pending"
      BY <1>15, <3>1 DEF maybe_start_publish
    <3>3. place'[c] = "active"
      BY Zenon, <1>15 DEF maybe_start_publish
    <3> QED
      BY Zenon, <3>2, <3>3 DEF pending, active, At
  <2>3. /\ AfterStart /\ tpc \in {"start", "handled"} /\ UNCHANGED <<leased, left, delay>>
    BY Zenon, <1>15 DEF maybe_start_publish
  <2>4. attempts' \in [Call -> 0..RetryDelays]
    <3> DEFINE n == IF attempts[c] < RetryDelays THEN attempts[c] + 1 ELSE attempts[c]
    <3>1. attempts \in [Call -> 0..RetryDelays] /\ attempts' = [attempts EXCEPT ![c] = n]
      BY Zenon, <1>1, <1>15 DEF maybe_start_publish, TimesOK
    <3>2. n \in 0..RetryDelays
      BY <3>1
    <3> QED
      BY Zenon, <3>1, <3>2
  <2> QED
    BY Zenon, <2>2, <2>3, <2>4, StartStep
<1>16. CASE Tick
  <2>1. /\ left' = [c \in Call |-> Monus1(left[c])] /\ delay' = [c \in Call |-> Monus1(delay[c])]
        /\ wake' = IF wake = NoWake THEN wake ELSE Monus1(wake)
        /\ UNCHANGED <<leased, tpc, place, response, attempts, peers, bootstrapped>>
    BY Zenon, <1>16 DEF Tick
  <2>2. tpc = "select" => wake # 0
    BY Zenon, <1>16 DEF Tick, TimerDue
  <2>3. TimesOK'
    <3>1. \A n \in Nat : Monus1(n) \in Nat
      BY DEF Monus1
    <3>2. \A n \in 0..PublishTimeout : Monus1(n) \in 0..PublishTimeout
      BY DEF Monus1
    <3>3. wake' \in 0..NoWake
      BY <1>1, <2>1 DEF TimesOK, Monus1, NoWake
    <3>4. left' \in [Call -> 0..PublishTimeout]
      BY Zenon, <1>1, <2>1, <3>2 DEF TimesOK
    <3>5. delay' \in [Call -> Nat]
      BY Zenon, <1>1, <2>1, <3>1 DEF TimesOK
    <3> QED
      BY Zenon, <1>1, <2>1, <3>3, <3>4, <3>5 DEF TimesOK, NoWake
  <2>4. pending' = pending /\ active' = active /\ pending \subseteq Call /\ active \subseteq Call
    BY Zenon, <2>1 DEF pending, active, At
  <2>5. has_enough_connected_peers_for_publish' = has_enough_connected_peers_for_publish
    BY Zenon, <2>1 DEF has_enough_connected_peers_for_publish
  <2>6. ASSUME tpc = "wake" PROVE BetweenInv'
    <3>1. /\ BetweenInv
          /\ missed' = missed \cup {c \in pending : left[c] = 1 \/ delay[c] = 1}
      BY <1>16, <2>6 DEF Tick, WakeInv
    <3>2. \A n \in Nat : n = 0 \/ n = 1 \/ Monus1(n) # 0
      BY DEF Monus1
    <3>3. 0..PublishTimeout \subseteq Nat
      OBVIOUS
    <3>4. \A c \in pending : (left[c] # 0 => left'[c] # 0 \/ c \in missed')
                             /\ (delay[c] # 0 => delay'[c] # 0 \/ c \in missed')
      BY Zenon, <1>1, <2>1, <2>4, <3>1, <3>2, <3>3 DEF TimesOK
    <3>5. missed \subseteq missed'
      BY Zenon, <3>1
    <3> QED
      BY Zenon, <2>1, <2>4, <2>5, <3>1, <3>4, <3>5 DEF BetweenInv
  <2>7. ASSUME tpc = "select" PROVE AsleepInv'
    <3>1. AsleepInv /\ wake # 0 /\ missed' = missed
      BY <1>16, <2>2, <2>7 DEF Tick, WakeInv
    <3>2. ASSUME NEW c \in Call, wake <= left[c]
          PROVE  wake # NoWake /\ wake' <= left'[c]
      BY <1>1, <2>1, <3>1, <3>2 DEF TimesOK, Monus1, NoWake
    <3>3. \A c \in pending : response[c] = "open" \/ c \in missed
      BY Zenon, <3>1 DEF AsleepInv
    <3>4. ASSUME NEW c \in pending, c \notin missed, 0 < delay[c], wake <= delay[c], wake' # 0
          PROVE  0 < delay'[c] /\ wake' <= delay'[c]
      <4>1. c \in Call /\ wake # NoWake
        BY Zenon, <2>4, <3>1, <3>2, <3>3, <3>4 DEF AsleepInv
      <4>2. /\ wake' = Monus1(wake) /\ delay'[c] = Monus1(delay[c])
            /\ delay[c] \in Nat /\ wake \in 0..NoWake
        BY Zenon, <1>1, <2>1, <4>1 DEF TimesOK
      <4> QED
        BY <3>1, <3>4, <4>2 DEF Monus1, NoWake
    <3>5. \A c \in pending' : response'[c] = "open" \/ wake' = 0 \/ c \in missed'
      BY Zenon, <2>1, <2>4, <3>1, <3>3
    <3>6. \A c \in pending' : response'[c] = "open" => wake' <= left'[c]
      BY Zenon, <2>1, <2>4, <3>1, <3>2 DEF AsleepInv
    <3>7. leased' = "no" => \A c \in active' : wake' <= left'[c]
      BY Zenon, <2>1, <2>4, <3>1, <3>2 DEF AsleepInv
    <3>8. wake' # 0 /\ active' = {} /\ has_enough_connected_peers_for_publish'
             => \A c \in pending' : c \in missed' \/ (0 < delay'[c] /\ wake' <= delay'[c])
      BY Zenon, <2>4, <2>5, <3>1, <3>4 DEF AsleepInv
    <3> QED
      BY Zenon, <3>5, <3>6, <3>7, <3>8 DEF AsleepInv
  <2> QED
    BY Zenon, <2>1, <2>3, <2>6, <2>7 DEF WakeInv
<1>17. CASE ComputeWake
  BY Zenon, <1>17, ComputeWakeStep
<1> QED
  BY Zenon, <1>4, <1>5, <1>6, <1>7, <1>8, <1>9, <1>10, <1>11, <1>13, <1>14, <1>15, <1>16, <1>17
  DEF Next, Caller, Task, PutEnds

\* The loop never sleeps past something it has to do: no request outlives its deadline
\* in the queue, no unleased one while active, and none that may start waits on, but for
\* a time that fell between the two readings of the clock in the turn.
THEOREM NeverOverdue == Spec => []NothingIsOverdue
<1>1. Init => WakeInv
  <2> SUFFICES ASSUME Init PROVE WakeInv
    OBVIOUS
  <2>1. TimesOK
    BY TimesAssumption DEF Init, TimesOK, NoWake
  <2>2. pending = {} /\ active = {}
    BY DEF Init, pending, active, At
  <2> QED
    BY Zenon, <2>1, <2>2 DEF WakeInv, BetweenInv, AsleepInv
<1>2. IInv /\ IInv' /\ WakeInv /\ [Next]_vars => WakeInv'
  BY Zenon, WakeStep
<1> QED
  BY <1>1, <1>2, Invariance, AsleepSuffices, PTL DEF Spec

-----------------------------------------------------------------------------
(* Refinement: every step is a step of IpnsChannel or leaves its state alone. *)

\* An answer reaches the open call, if that is among the requests, and no other.
LEMMA RespondStep ==
    ASSUME IInv, NEW S, NEW reply \in {"published", "failed"}, respond(S, reply)
    PROVE  \/ response' = response
           \/ /\ calls \in S \cap Call /\ response[calls] = "open"
              /\ response' = [response EXCEPT ![calls] = reply]
BY ZenonT(60) DEF respond, IInv, TypeOK, CallInv, is_closed

\* A step that only fails requests is a failure of the open call or a stutter.
LEMMA FailStep ==
    ASSUME IInv, NEW S, respond(S, "failed"), UNCHANGED <<sequence, inflight, resolved>>
    PROVE  [Channel!Next]_(Channel!vars)
<1>1. CASE response' = response
  BY <1>1 DEF Channel!vars
<1>2. CASE /\ calls \in Call /\ response[calls] = "open"
           /\ response' = [response EXCEPT ![calls] = "failed"]
  BY Zenon, <1>2 DEF Channel!Next, Channel!Fail, Channel!Call
<1> QED
  BY <1>1, <1>2, RespondStep

\* Every step of the publisher is a step of the abstract channel or a stutter.
LEMMA StepRefines == IInv /\ [Next]_vars => [Channel!Next]_(Channel!vars)
<1> SUFFICES ASSUME IInv, [Next]_vars PROVE [Channel!Next]_(Channel!vars)
  OBVIOUS
<1> USE DEF timeVars, swarmVars, dhtVars
<1>1. ASSUME NEW s \in Call, publish_manifest_cid(s) PROVE Channel!Next
  <2>1. calls + 1 \in Call /\ response[calls + 1] = "none"
    BY <1>1 DEF publish_manifest_cid, IInv, TypeOK, CallInv
  <2>2. Channel!Submit(calls + 1, s)
    BY <1>1, <2>1 DEF publish_manifest_cid, Channel!Submit
  <2> QED
    BY <2>1, <2>2 DEF Channel!Next, Channel!Call
<1>2. ASSUME NEW c \in Call, GiveUp(c) PROVE Channel!Next
  BY Zenon, <1>2 DEF GiveUp, Channel!Next, Channel!Fail, Channel!Call
<1>3. CASE expire_active_publish
  BY <1>3, FailStep DEF expire_active_publish
<1>4. CASE StartNothing
  BY <1>4, FailStep DEF StartNothing
<1>5. ASSUME NEW c \in Call, maybe_start_publish(c) PROVE Channel!Next
  <2>1. response[c] = "open" /\ c \notin unpublishable
    BY <1>5 DEF maybe_start_publish, Startable, unpublishable, pending, is_closed
  <2>2. response' = response
    BY <1>5, <2>1, RespondStep DEF maybe_start_publish, IInv, CallInv
  <2>3. Channel!HandOver(c)
    BY <1>5, <2>1, <2>2 DEF maybe_start_publish, Channel!HandOver
  <2> QED
    BY <2>3 DEF Channel!Next, Channel!Call
<1>6. ASSUME NEW c \in Call, StartRefused(c) PROVE [Channel!Next]_(Channel!vars)
  BY <1>6, FailStep DEF StartRefused
<1>7. ASSUME NEW c \in Call, PutStored(c) PROVE [Channel!Next]_(Channel!vars)
  <2>1. CASE response' = response
    BY <1>7, <2>1 DEF PutStored, Channel!vars
  <2>2. CASE c = calls /\ response[c] = "open" /\ response' = [response EXCEPT ![c] = "published"]
    BY Zenon, <1>7, <2>2 DEF PutStored, Channel!Next, Channel!Publish, Channel!Call
  <2> QED
    BY <1>7, <2>1, <2>2, RespondStep DEF PutStored
<1>8. ASSUME NEW c \in Call, PutFailed(c) PROVE [Channel!Next]_(Channel!vars)
  <2>1. CASE UNCHANGED response
    BY <1>8, <2>1 DEF PutFailed, Channel!vars
  <2>2. CASE respond({c}, "failed")
    BY <1>8, <2>2, FailStep DEF PutFailed
  <2> QED
    BY <1>8, <2>1, <2>2 DEF PutFailed
<1>9. CASE Stop
  BY <1>9, FailStep DEF Stop
<1>10. ASSUME NEW s \in inflight, Store(s) PROVE Channel!Next
  BY <1>10 DEF Store, Channel!Next, Channel!Store
<1>11. ASSUME NEW c \in Call, Send(c) \/ Receive(c) \/ PutIgnored(c) PROVE UNCHANGED Channel!vars
  BY <1>11 DEF Send, Receive, PutIgnored, Channel!vars
<1>12. CASE \/ ComputeWake \/ Woken \/ Rebootstrap \/ BootstrapCompletes \/ ConnectionEstablished
            \/ ConnectionClosed \/ Tick \/ UNCHANGED vars
  BY <1>12 DEF ComputeWake, Woken, Rebootstrap, BootstrapCompletes, ConnectionEstablished, ConnectionClosed,
     Tick, vars, Channel!vars
<1> QED
  BY <1>1, <1>2, <1>3, <1>4, <1>5, <1>6, <1>7, <1>8, <1>9, <1>10, <1>11, <1>12
  DEF Next, Caller, Task, PutEnds

\* The publisher implements the channel its callers rely on: whatever the timing of
\* deadlines, retries, lost peers, late query results and shutdown, an Ok means that
\* the name resolves to the manifest or to a newer one, no query starts for a caller
\* that has gone, and a call ends once.
THEOREM Refinement == Spec => ImplementsChannel
<1>1. Init => Channel!Init
  BY DEF Init, Channel!Init, Channel!Call
<1> QED
  BY <1>1, Invariance, StepRefines, PTL DEF Spec, ImplementsChannel, Channel!Spec

=============================================================================
