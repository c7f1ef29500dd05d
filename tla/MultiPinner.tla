---------------------------- MODULE MultiPinner ----------------------------
(***************************************************************************)
(* MultiPinner over several FilebaseIpfsClients (publish/ipfs.rs): one       *)
(* caller that pins some bytes, unpins a CID or asks whether a CID is there, *)
(* and the services' calls that join_all runs side by side.                  *)
(*                                                                         *)
(* Filebase stores the bytes under a temporary key, tells the CID it gave    *)
(* them, copies the object to the key of that CID and deletes the temporary  *)
(* one.  Services may name the same bytes by different CIDs.  A call of a    *)
(* service may fail before or after it took effect.                          *)
(***************************************************************************)
EXTENDS Integers, FiniteSets

CONSTANTS
    Services,  \* the clients, numbered in their order
    Quorum,    \* services that must agree
    Cid,       \* the CIDs the bytes may be given
    MaxOutages \* bound: calls of services that fail

ASSUME ServicesAssumption == Services \subseteq Int /\ IsFiniteSet(Services)
ASSUME QuorumAssumption == Quorum \in 1..Cardinality(Services)
ASSUME CidAssumption == \A c \in Cid : c \notin {"", "error", "present", "missing", "gone"}

VARIABLES
    cid_of,    \* the CID each service gives the bytes
    op,        \* the operation under way
    subject,   \* the CID the last unpin or contains is about
    step,      \* where each service's call is
    answer,    \* what each service's call returned
    objects,   \* the CIDs each service keeps under their own keys
    temporary, \* the services that keep the temporary object
    result,    \* what the last operation returned
    promised,  \* history: CIDs pin_bytes returned and nobody asked to unpin since
    outages    \* failed calls so far

callVars == <<op, subject, step, answer>>
pinnerVars == <<cid_of, callVars, objects, temporary, result, promised, outages>>

Holders(c) == {i \in Services : c \in objects[i]}

PinnerInit ==
    /\ cid_of \in [Services -> Cid]
    /\ op = "idle"
    /\ subject \in Cid
    /\ step = [i \in Services |-> "done"]
    /\ answer = [i \in Services |-> ""]
    /\ objects = [i \in Services |-> {}]
    /\ temporary = {}
    /\ result = "none"
    /\ promised = {}
    /\ outages = 0

-----------------------------------------------------------------------------
(* FilebaseIpfsClient. *)

Advance(i, next) ==
    /\ step' = [step EXCEPT ![i] = next]
    /\ UNCHANGED <<op, subject, answer, outages>>

Return(i, value) ==
    /\ step' = [step EXCEPT ![i] = "done"]
    /\ answer' = [answer EXCEPT ![i] = value]
    /\ UNCHANGED <<op, subject>>

Outage ==
    /\ outages < MaxOutages
    /\ outages' = outages + 1

Succeed(i, value) == Return(i, value) /\ UNCHANGED outages

Raise(i) == Return(i, "error") /\ Outage

put_object(i) ==
    /\ step[i] = "put"
    /\ \/ temporary' = temporary \cup {i} /\ Advance(i, "cid")
       \/ temporary' \in {temporary, temporary \cup {i}} /\ Raise(i)
    /\ UNCHANGED objects

\* The header of the answer, else the metadata of a HEAD, else MissingCid.
returned_cid_from_filebase(i) ==
    /\ step[i] = "cid"
    /\ Advance(i, "copy") \/ Raise(i)
    /\ UNCHANGED <<objects, temporary>>

copy_object(i) ==
    LET copied == [objects EXCEPT ![i] = @ \cup {cid_of[i]}]
    IN  /\ step[i] = "copy"
        /\ \/ objects' = copied /\ Advance(i, "delete")
           \/ objects' \in {objects, copied} /\ Raise(i)
        /\ UNCHANGED temporary

\* An error of the deletion is only logged.
delete_temporary_object(i) ==
    /\ step[i] = "delete"
    /\ \/ temporary' = temporary \ {i} /\ UNCHANGED outages
       \/ temporary' \in {temporary, temporary \ {i}} /\ Outage
    /\ Return(i, cid_of[i])
    /\ UNCHANGED objects

\* Deleting an absent object succeeds too.
unpin(i) ==
    LET deleted == [objects EXCEPT ![i] = @ \ {subject}]
    IN  /\ step[i] = "unpin"
        /\ \/ objects' = deleted /\ Succeed(i, "gone")
           \/ objects' \in {objects, deleted} /\ Raise(i)
        /\ UNCHANGED temporary

contains(i) ==
    /\ step[i] = "contains"
    /\ \/ Succeed(i, IF subject \in objects[i] THEN "present" ELSE "missing")
       \/ Raise(i)
    /\ UNCHANGED <<objects, temporary>>

ServiceNext(i) ==
    /\ \/ put_object(i) \/ returned_cid_from_filebase(i)
       \/ copy_object(i) \/ delete_temporary_object(i)
       \/ unpin(i) \/ contains(i)
    /\ UNCHANGED <<cid_of, result, promised>>

-----------------------------------------------------------------------------
(* MultiPinner: every operation asks all the services and counts answers. *)

Begin(name, c, first) ==
    /\ op = "idle"
    /\ op' = name
    /\ subject' = c
    /\ step' = [i \in Services |-> first]
    /\ answer' = [i \in Services |-> ""]
    /\ result' = "none"
    /\ UNCHANGED <<cid_of, objects, temporary, outages>>

StartPin == Begin("pin", subject, "put") /\ UNCHANGED promised

StartUnpin(c) == Begin("unpin", c, "unpin") /\ promised' = promised \ {c}

StartContains(c) == Begin("contains", c, "contains") /\ UNCHANGED promised

Answered(value) == {i \in Services : answer[i] = value}

First(S) == CHOOSE i \in S : \A j \in S : i <= j

\* add_cid_success and the stable sort by the size of the groups: the largest one,
\* among equals the one met first.
LargestGroup(c) ==
    /\ Answered(c) # {}
    /\ \A d \in Cid \ {c} :
          Answered(d) # {} =>
              \/ Cardinality(Answered(d)) < Cardinality(Answered(c))
              \/ /\ Cardinality(Answered(d)) = Cardinality(Answered(c))
                 /\ First(Answered(c)) < First(Answered(d))

\* Mutant: the services that pinned anything count towards the quorum.
any_successes(c) ==
    /\ LargestGroup(c)
    /\ Cardinality(Services \ Answered("error")) >= Quorum

PinAgreed(c) ==
    /\ LargestGroup(c)
    /\ Cardinality(Answered(c)) >= Quorum

Finish(name, value) ==
    /\ op = name
    /\ \A i \in Services : step[i] = "done"
    /\ op' = "idle"
    /\ result' = value
    /\ UNCHANGED <<cid_of, subject, step, answer, objects, temporary, outages>>

PinReturns(c) ==
    /\ PinAgreed(c)
    /\ Finish("pin", c)
    /\ promised' = promised \cup {c}

PinningQuorumNotMet ==
    /\ \A c \in Cid : ~PinAgreed(c)
    /\ Finish("pin", "error")
    /\ UNCHANGED promised

UnpinReturns ==
    /\ Finish("unpin", IF Cardinality(Answered("gone")) >= Quorum THEN "gone" ELSE "error")
    /\ UNCHANGED promised

\* Mutant: a service that does not answer counts as one that lacks the CID.
silence_is_absence ==
    IF Cardinality(Answered("present")) >= Quorum THEN "present" ELSE "missing"

ContainsVerdict ==
    IF Cardinality(Answered("present")) >= Quorum THEN "present"
    ELSE IF Answered("error") = {} THEN "missing"
    ELSE "error"

ContainsReturns ==
    /\ Finish("contains", ContainsVerdict)
    /\ UNCHANGED promised

PinnerNext ==
    \/ \E c \in Cid : StartUnpin(c) \/ StartContains(c) \/ PinReturns(c)
    \/ StartPin \/ PinningQuorumNotMet \/ UnpinReturns \/ ContainsReturns
    \/ \E i \in Services : ServiceNext(i)

PinnerSpec == PinnerInit /\ [][PinnerNext]_pinnerVars

-----------------------------------------------------------------------------
\* A CID that pin_bytes returned is kept by a quorum of services under that very CID
\* until somebody asks to unpin it, whatever later pins of the same bytes run into:
\* success is counted per CID, not per service that answered.
PinnedAtQuorum ==
    \A c \in promised : Cardinality(Holders(c)) >= Quorum

\* contains() never answers "missing" for a CID that was pinned and not unpinned,
\* whichever services fail to answer: the publication tasks abandon or pin again
\* what it denies.
PinnedIsNeverDenied ==
    result = "missing" => subject \notin promised

=============================================================================
