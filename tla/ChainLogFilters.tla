-------------------------- MODULE ChainLogFilters --------------------------
(***************************************************************************)
(* The log filters fetch_chain_index_logs asks a provider for, as the        *)
(* indexing loop walks the chain in ranges it cuts anywhere.  The contract   *)
(* changed its events twice: legacy commitment batches end before            *)
(* v2_start_block, the first Shield event ends with legacy_shield_block, and *)
(* Action and Unshield events begin at action_start_block.                   *)
(***************************************************************************)
EXTENDS Integers, FiniteSetsExt

CONSTANTS
    LastBlock,  \* bound: blocks of the chain
    EraBlock    \* values of the three configured blocks

ASSUME ErasAssumption == LastBlock \in Nat /\ EraBlock \subseteq Nat

\* An action_start_block that is not configured.
NoBlock == LastBlock + 1

VARIABLES
    v2_start_block, legacy_shield_block, action_start_block,
    from_block, \* the next block to fetch
    requested   \* how often each event of each block has been asked for

filterVars == <<v2_start_block, legacy_shield_block, action_start_block, from_block, requested>>

ChainBlock == 1..LastBlock

LegacyBatches == {"CommitmentBatch", "GeneratedCommitmentBatch"}
Nullifications == {"Nullifiers", "Nullified"}
ACTION_EVENT_SIGNATURES == {"Action", "Unshield"}
Event == LegacyBatches \cup Nullifications \cup ACTION_EVENT_SIGNATURES
         \cup {"Transact", "LegacyShield", "Shield"}

FiltersInit ==
    /\ v2_start_block \in EraBlock
    /\ legacy_shield_block \in EraBlock
    /\ action_start_block \in EraBlock \cup {NoBlock}
    /\ from_block = 1
    /\ requested = [e \in Event |-> [b \in ChainBlock |-> 0]]

-----------------------------------------------------------------------------

\* The events of a range that lies in one era, or none when it crosses a boundary.
era_event_signatures_for_range(from, to) ==
    CASE v2_start_block > 0 /\ to < v2_start_block -> LegacyBatches \cup Nullifications
      [] from < v2_start_block /\ to >= v2_start_block -> {}
      [] from >= v2_start_block /\ to <= legacy_shield_block ->
             {"Transact", "LegacyShield"} \cup Nullifications
      [] from >= v2_start_block /\ from > legacy_shield_block ->
             {"Transact", "Shield"} \cup Nullifications
      [] OTHER -> {}

combined_event_signatures_for_range(from, to) ==
    LET era == era_event_signatures_for_range(from, to) IN
    IF era # {} /\ from >= action_start_block THEN era \cup ACTION_EVENT_SIGNATURES ELSE era

Filter(from, to, events) == [from |-> from, to |-> to, events |-> events]

OptionalFilter(wanted, from, to, events) == IF wanted THEN {Filter(from, to, events)} ELSE {}

split_filters(from, to) ==
    LET v2 == Max({from, v2_start_block}) IN
    OptionalFilter(from <= v2_start_block, from, Min({to, v2_start_block}), LegacyBatches)
    \cup OptionalFilter(to >= v2_start_block, v2, to, {"Transact"})
    \cup OptionalFilter(to >= v2_start_block /\ v2 <= legacy_shield_block,
                        v2, Min({to, legacy_shield_block}), {"LegacyShield"})
    \cup OptionalFilter(to >= v2_start_block /\ to > legacy_shield_block,
                        Max({v2, legacy_shield_block + 1}), to, {"Shield"})
    \cup {Filter(from, to, Nullifications)}

\* Mutant: the separate Action filter is left to ranges that cross no era boundary.
one_era_log_filters(from, to) ==
    LET combined == combined_event_signatures_for_range(from, to)
    IN  IF combined = {} THEN split_filters(from, to) ELSE {Filter(from, to, combined)}

chain_index_log_filters(from, to) ==
    LET combined == combined_event_signatures_for_range(from, to)
        action_from == Max({from, action_start_block})
        action == OptionalFilter(action_start_block <= to, action_from, to, ACTION_EVENT_SIGNATURES)
    IN  IF combined = {} THEN split_filters(from, to) \cup action
        ELSE {Filter(from, to, combined)} \cup (IF action_from > from THEN action ELSE {})

Asks(filter, e, b) == e \in filter.events /\ b \in filter.from..filter.to

fetch_chain_index_logs(to) ==
    /\ from_block <= to
    /\ LET filters == chain_index_log_filters(from_block, to) IN
       requested' = [e \in Event |-> [b \in ChainBlock |->
                        requested[e][b] + Cardinality({f \in filters : Asks(f, e, b)})]]
    /\ from_block' = to + 1
    /\ UNCHANGED <<v2_start_block, legacy_shield_block, action_start_block>>

FiltersNext == \E to \in ChainBlock : fetch_chain_index_logs(to)

FiltersSpec == FiltersInit /\ [][FiltersNext]_filterVars

-----------------------------------------------------------------------------

\* The events the contract may emit in a block.
Emits(e, b) ==
    CASE e \in LegacyBatches -> b < v2_start_block
      [] e \in Nullifications -> TRUE
      [] e \in ACTION_EVENT_SIGNATURES -> b >= action_start_block
      [] e = "Transact" -> b >= v2_start_block
      [] e = "LegacyShield" -> b >= v2_start_block /\ b <= legacy_shield_block
      [] e = "Shield" -> b >= v2_start_block /\ b > legacy_shield_block

\* However the chain is cut into ranges, and wherever the era boundaries fall, a block that has
\* been passed had every event the contract may emit in it requested once: no log is missed,
\* and none arrives twice in one batch, where a Nullified or Action log read twice would not decode.
LogsRequestedOnce ==
    \A e \in Event, b \in ChainBlock : b < from_block /\ Emits(e, b) => requested[e][b] = 1

=============================================================================
