---------------------------- MODULE PinProvider ----------------------------
(***************************************************************************)
(* The pinning provider (Filebase behind the trait IpfsClient of           *)
(* publish/ipfs.rs) and the IPNS name of the POI channel, both external    *)
(* services, as the publisher meets them.                                  *)
(*                                                                         *)
(* A CID names content, so pinning the same bytes again yields the same    *)
(* CID: an artifact is its CID, and a manifest, whose bytes contain its    *)
(* sequence number, is named by that number.                               *)
(***************************************************************************)
EXTENDS Integers

CONSTANTS
    Artifact,   \* CIDs of checkpoint chunks, catalogs, tails, bridges, blocked shields
    MaxSequence \* bound: the highest manifest sequence number a behaviour reaches

ASSUME MaxSequenceAssumption == MaxSequence \in Nat \ {0}
ASSUME ArtifactAssumption == \A a \in Artifact : a \notin Int

VARIABLES
    held,     \* CIDs for which contains(cid) answers true
    removed,  \* history: CIDs this process asked to unpin and has not pinned since
    resolved, \* sequence of the manifest the IPNS name resolves to, 0 before the first
    inflight  \* sequences handed to the DHT that may still be stored by a peer

providerVars == <<held, removed, resolved, inflight>>

Sequence == 1..MaxSequence

CID == Artifact \cup Sequence

ProviderTypeOK ==
    /\ held \in SUBSET CID
    /\ removed \in SUBSET CID
    /\ resolved \in 0..MaxSequence
    /\ inflight \in SUBSET Sequence

ProviderInit ==
    /\ held = {}
    /\ removed = {}
    /\ resolved = 0
    /\ inflight = {}

-----------------------------------------------------------------------------
(* IpfsClient. *)

pin_bytes(c) ==
    /\ held' = held \cup {c}
    /\ removed' = removed \ {c}
    /\ UNCHANGED <<resolved, inflight>>

unpin(c) ==
    /\ held' = held \ {c}
    /\ removed' = removed \cup {c}
    /\ UNCHANGED <<resolved, inflight>>

contains(c) == c \in held

-----------------------------------------------------------------------------
(* IPNS.  A put is acknowledged when one peer has stored the record, but a   *)
(* request that timed out may be stored as well, then or later.  Resolvers   *)
(* keep the valid record with the highest sequence, so records at or below   *)
(* the resolved one have no further effect and leave `inflight'.             *)

publish_manifest_cid(s) ==
    /\ inflight' = IF s > resolved THEN inflight \cup {s} ELSE inflight
    /\ UNCHANGED <<held, removed, resolved>>

IpnsLands(s) ==
    /\ s \in inflight
    /\ resolved' = s
    /\ inflight' = {t \in inflight : t > s}
    /\ UNCHANGED <<held, removed>>

=============================================================================
