---------------------------- MODULE MCPoiMirror ----------------------------
(* Instances of the mirror. *)
EXTENDS PoiMirror

CONSTANTS p1, p2, s1, s2, v2, v3

\* One pair with a history, and one whose list fills up for the first time.
TwoPairs == <<p1, p2>>
Events == [p \in {p1, p2} |-> IF p = p1 THEN 3 ELSE 1]
OldEvents == [p \in {p1, p2} |-> IF p = p1 THEN 2 ELSE 0]
Records == [p \in {p1, p2} |-> IF p = p1 THEN {s1, s2} ELSE {}]

TwoVersions == {v2, v3}

\* The tasks one at a time.
EachTask == {{"scraper"}, {"resync"}}

=============================================================================
