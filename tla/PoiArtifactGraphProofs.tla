----------------------- MODULE PoiArtifactGraphProofs -----------------------
(***************************************************************************)
(* The published artifacts leave no reader behind, for a corpus of any       *)
(* length, any limits on artifacts, bridges and ages, and any number of      *)
(* cycles that fail on the way.                                              *)
(***************************************************************************)
EXTENDS PoiArtifactGraph, FiniteSetTheorems, WellFoundedInduction, TLAPS

-----------------------------------------------------------------------------
(* The inductive invariant. *)

\* What an entry is made of: bridges that do not overlap and end before its checkpoint.
IsGraph(g) ==
    /\ g.event_count \in 0..events
    /\ g.checkpoint \in 0..g.event_count
    /\ g.chunks = prepare_checkpoint(g.checkpoint)
    /\ g.tail = IF g.checkpoint < g.event_count THEN {Slice(g.checkpoint, g.event_count)} ELSE {}
    /\ g.bridges \in SUBSET Slices
    /\ IsFiniteSet(g.bridges)
    /\ \A r \in g.bridges : r.from < r.upto /\ r.upto <= g.checkpoint
    /\ \A r, s \in g.bridges : r = s \/ r.upto <= s.from \/ s.upto <= r.from
    /\ g.origin \in Nat
    /\ g.exists \in {"yes", "no"}
    /\ g.exists = "no" => g = NoGraph

GraphsInv ==
    /\ events \in 0..MaxEvents
    /\ IsGraph(current)
    /\ IsGraph(recorded)
    /\ IsGraph(draft)

\* What the cycle holds is built from the active entry, and goes no further back than it, or
\* starts a line of its own.
Follows(g) ==
    g.exists = "yes" => /\ current.event_count <= g.event_count
                        /\ g.checkpoint <= current.event_count \/ g.checkpoint = g.origin
                        /\ \A r \in g.bridges : r.upto <= current.event_count

CycleInv ==
    /\ stage \in {"idle", "bridge", "catalog", "tail", "ipns"}
    /\ stage = "idle" => draft = NoGraph
    /\ stage # "idle" => draft.exists = "yes"
    /\ stage \in {"bridge", "catalog", "tail"} => recorded = NoGraph
    /\ stage = "ipns" => recorded = draft
    /\ Follows(recorded)
    /\ Follows(draft)

HasRow(r) == Bridge(r) \in DOMAIN published_at

\* A bridge has its row once a manifest may name it, and ends where an active manifest ended.
RowsInv ==
    /\ clock \in Nat
    /\ \A x \in DOMAIN published_at : published_at[x] \in 0..clock
    /\ \A r \in current.bridges \cup recorded.bridges : HasRow(r)
    /\ stage # "bridge" => \A r \in draft.bridges : HasRow(r)
    /\ \A r \in Slices : HasRow(r) => r.upto <= current.event_count

\* A reader of later than the row of a bridge holds the events of the bridge.
ReadersInv ==
    /\ reader \in SUBSET [holds : 0..events, since : 0..clock]
    /\ \A rd \in reader, r \in Slices :
          HasRow(r) /\ published_at[Bridge(r)] < rd.since => r.upto <= rd.holds

\* A reader finds an event in the entry, fetched too long ago, or the event is older than
\* all of the MaxBridges bridges there are.
Finds(g, rd, i) ==
    \/ Holds(g.bridges \cup g.tail, i)
    \/ rd.since + Retain < clock
    \/ /\ ~(Cardinality(g.bridges) < MaxBridges)
       /\ \A b \in g.bridges : i < b.from

\* Every event since the line of the entry was started.
ServesAll(g) ==
    \A rd \in reader : \A i \in rd.holds..g.event_count - 1 : i >= g.origin => Finds(g, rd, i)

GraphInv ==
    /\ GraphsInv
    /\ CycleInv
    /\ RowsInv
    /\ ReadersInv
    /\ ServesAll(current)
    /\ ServesAll(recorded)
    /\ ServesAll(draft)

-----------------------------------------------------------------------------
(* Facts about the operators. *)

\* A set of naturals has a least element.
LEMMA LeastElement ==
    ASSUME NEW S \in SUBSET Nat, S # {}
    PROVE  \E x \in S : \A y \in S : x <= y
<1>1. \E x \in S : \A y \in S : ~(<<y, x>> \in OpToRel(<, Nat))
  BY Zenon, NatLessThanWellFounded, WFMin
<1>2. \E x \in S : \A y \in S : ~(y < x)
  BY Zenon, <1>1 DEF OpToRel
<1> QED
  BY <1>2

\* Among some slices there is one that starts last.
LEMMA LastSlice ==
    ASSUME NEW S \in SUBSET Slices, S # {}
    PROVE  \E r \in S : \A s \in S : s.from <= r.from
<1> DEFINE D == {MaxEvents - s.from : s \in S}
<1>1. \A s \in S : s.from \in 0..MaxEvents /\ MaxEvents - s.from \in Nat
  BY GraphAssumption DEF Slices
<1>2. D \in SUBSET Nat /\ D # {}
  BY <1>1
<1>3. PICK d \in D : \A e \in D : d <= e
  BY <1>2, LeastElement
<1>4. PICK r \in S : d = MaxEvents - r.from
  BY <1>3
<1>5. \A s \in S : MaxEvents - r.from <= MaxEvents - s.from
  BY <1>3, <1>4
<1>6. \A s \in S : s.from <= r.from
  BY <1>1, <1>5, GraphAssumption
<1> QED
  BY <1>6

\* The least of two numbers.
LEMMA MinOfTwo ==
    ASSUME NEW a \in Int, NEW b \in Int
    PROVE  Min({a, b}) = IF a <= b THEN a ELSE b
<1>1. \E x \in {a, b} : \A y \in {a, b} : x <= y
  OBVIOUS
<1>2. /\ Min({a, b}) \in {a, b}
      /\ \A y \in {a, b} : Min({a, b}) <= y
  BY Zenon, <1>1 DEF Min
<1> QED
  BY <1>2

\* Every number is in a span.
LEMMA SpanOf ==
    ASSUME NEW i \in Nat
    PROVE  \E k \in 0..i : k * Span <= i /\ i < (k + 1) * Span
<1>1. Span \in Nat /\ Span >= 1
  BY GraphAssumption
<1>2. i \div Span \in Nat /\ i % Span \in 0..Span - 1 /\ i = Span * (i \div Span) + (i % Span)
  BY <1>1
<1> DEFINE k == i \div Span
<1>3. k * Span <= i /\ i < k * Span + Span
  BY <1>1, <1>2
<1>4. k * Span + Span = (k + 1) * Span
  BY <1>1, <1>2
<1>5. k <= k * Span
  BY <1>1, <1>2
<1>6. k \in 0..i /\ k * Span <= i /\ i < (k + 1) * Span
  BY <1>2, <1>3, <1>4, <1>5, <1>1
<1> QED
  BY <1>6

\* The chunks of a checkpoint leave out none of its events.
LEMMA ChunksCover ==
    ASSUME NEW n \in Nat, NEW i \in 0..n - 1
    PROVE  Holds(prepare_checkpoint(n), i)
<1>1. PICK k \in 0..i : k * Span <= i /\ i < (k + 1) * Span
  BY SpanOf
<1>2. Span \in Nat
  BY GraphAssumption
<1>3. k * Span \in Nat /\ (k + 1) * Span \in Nat
  BY <1>2
<1>4. k \in 0..n /\ k * Span < n
  BY <1>1, <1>3
<1>5. Slice(k * Span, Min({(k + 1) * Span, n})) \in prepare_checkpoint(n)
  BY <1>4, Zenon DEF prepare_checkpoint
<1>6. i < Min({(k + 1) * Span, n})
  BY <1>1, <1>3, MinOfTwo
<1>7. /\ Slice(k * Span, Min({(k + 1) * Span, n})).from <= i
      /\ i < Slice(k * Span, Min({(k + 1) * Span, n})).upto
  BY <1>1, <1>6 DEF Slice
<1> QED
  BY <1>5, <1>7, Zenon DEF Holds

-----------------------------------------------------------------------------
(* Entries. *)

\* An entry without artifacts is one.
LEMMA NoGraphIsGraph ==
    ASSUME events \in Nat
    PROVE  IsGraph(NoGraph)
<1>1. prepare_checkpoint(0) = {}
  <2>1. \A k \in 0..0 : ~(k * Span < 0)
    BY GraphAssumption
  <2> QED
    BY <2>1 DEF prepare_checkpoint
<1>2. IsFiniteSet({})
  BY FS_EmptySet
<1> QED
  BY <1>1, <1>2 DEF IsGraph, NoGraph

\* The bridges that are kept are some of those there were.
LEMMA RetainedAreSome ==
    ASSUME NEW g, NEW S
    PROVE  retain_recent_bridges(g, S) \subseteq S
BY DEF retain_recent_bridges

\* An entry over the corpus as it is, with bridges that end before its checkpoint.
LEMMA EntryIsGraph ==
    ASSUME events \in 0..MaxEvents, NEW c \in 0..events, NEW S \in SUBSET Slices, IsFiniteSet(S),
           \A r \in S : r.from < r.upto /\ r.upto <= c,
           \A r, s \in S : r = s \/ r.upto <= s.from \/ s.upto <= r.from, NEW o \in Nat
    PROVE  IsGraph(Entry(c, S, o))
BY DEF IsGraph, Entry, TailFrom

\* A bridge is drained only when MaxBridges bridges are kept after it.
LEMMA DrainedAtLimit ==
    ASSUME NEW g, NEW S \in SUBSET Slices, IsFiniteSet(S), NEW r \in S, IsRecent(g, r),
           r \notin retain_recent_bridges(g, S)
    PROVE  ~(Cardinality(retain_recent_bridges(g, S)) < MaxBridges)
<1> DEFINE R == {b \in S : IsRecent(g, b)}
           After(b) == {s \in R : s.from > b.from}
           D == {b \in R : ~(Cardinality(After(b)) < MaxBridges)}
<1>1. retain_recent_bridges(g, S) = R \ D
  BY DEF retain_recent_bridges
<1>2. r \in D /\ D \in SUBSET Slices
  BY <1>1
<1>3. PICK d \in D : \A b \in D : b.from <= d.from
  BY <1>2, LastSlice
<1>4. \A b \in S : b.from \in Int
  BY GraphAssumption DEF Slices
<1>5. After(d) \subseteq R \ D
  BY <1>3, <1>4
<1>6. IsFiniteSet(R \ D) /\ IsFiniteSet(After(d))
  BY FS_Subset, Zenon
<1>7. Cardinality(After(d)) <= Cardinality(R \ D)
  BY <1>5, <1>6, FS_Subset
<1>8. Cardinality(After(d)) \in Nat /\ Cardinality(R \ D) \in Nat
  BY <1>6, FS_CardinalityType
<1>9. ~(Cardinality(After(d)) < MaxBridges)
  BY <1>3
<1>10. MaxBridges \in Nat
  BY GraphAssumption
<1> HIDE DEF R, After, D
<1> QED
  BY <1>1, <1>7, <1>8, <1>9, <1>10

\* When all of at least MaxBridges bridges are recent, no fewer are kept.
LEMMA LimitIsKept ==
    ASSUME NEW g, NEW S \in SUBSET Slices, NEW T \in SUBSET S, IsFiniteSet(S),
           ~(Cardinality(T) < MaxBridges), \A r \in T : IsRecent(g, r)
    PROVE  ~(Cardinality(retain_recent_bridges(g, S)) < MaxBridges)
<1>1. CASE \E r \in T : r \notin retain_recent_bridges(g, S)
  BY <1>1, DrainedAtLimit
<1>2. CASE T \subseteq retain_recent_bridges(g, S)
  <2>1. IsFiniteSet(retain_recent_bridges(g, S)) /\ IsFiniteSet(T)
    BY RetainedAreSome, FS_Subset, Zenon
  <2>2. Cardinality(T) <= Cardinality(retain_recent_bridges(g, S))
    BY <1>2, <2>1, FS_Subset
  <2>3. Cardinality(T) \in Nat /\ Cardinality(retain_recent_bridges(g, S)) \in Nat
    BY <2>1, FS_CardinalityType
  <2> QED
    BY <2>2, <2>3, GraphAssumption
<1> QED
  BY <1>1, <1>2

\* What is drained starts before all that is kept.
LEMMA DrainedFirst ==
    ASSUME NEW g, NEW S \in SUBSET Slices, IsFiniteSet(S), NEW b \in S, IsRecent(g, b),
           b \notin retain_recent_bridges(g, S), NEW c \in retain_recent_bridges(g, S)
    PROVE  b.from < c.from
<1> DEFINE R == {r \in S : IsRecent(g, r)}
           After(r) == {s \in R : s.from > r.from}
<1>1. c \in R /\ b \in R /\ ~(Cardinality(After(b)) < MaxBridges) /\ Cardinality(After(c)) < MaxBridges
  BY DEF retain_recent_bridges
<1>2. b.from \in Int /\ c.from \in Int /\ \A s \in R : s.from \in Int
  BY <1>1, GraphAssumption DEF Slices
<1>3. SUFFICES ASSUME ~(b.from < c.from) PROVE FALSE
  OBVIOUS
<1>4. After(b) \subseteq After(c)
  BY <1>2, <1>3
<1>5. IsFiniteSet(After(b)) /\ IsFiniteSet(After(c))
  BY FS_Subset, Zenon
<1>6. Cardinality(After(b)) <= Cardinality(After(c))
  BY <1>4, <1>5, FS_Subset
<1>7. Cardinality(After(b)) \in Nat /\ Cardinality(After(c)) \in Nat
  BY <1>5, FS_CardinalityType
<1> HIDE DEF R, After
<1> QED
  BY <1>1, <1>6, <1>7, GraphAssumption

\* The bridges of a rotation before the old ones are dropped.
WithTail(g) ==
    IF g.event_count > g.checkpoint
    THEN g.bridges \cup {Slice(g.checkpoint, g.event_count)} ELSE g.bridges

\* A bridge made of the published tail lies apart from the bridges before it.
LEMMA WithTailIsApart ==
    ASSUME events \in 0..MaxEvents, NEW g, IsGraph(g)
    PROVE  /\ WithTail(g) \in SUBSET Slices
           /\ IsFiniteSet(WithTail(g))
           /\ \A r \in WithTail(g) : r.from < r.upto /\ r.upto <= g.event_count
           /\ \A r, s \in WithTail(g) : r = s \/ r.upto <= s.from \/ s.upto <= r.from
<1> DEFINE t == Slice(g.checkpoint, g.event_count)
<1>1. t \in Slices /\ t.from = g.checkpoint /\ t.upto = g.event_count
  BY GraphAssumption DEF IsGraph, Slices, Slice
<1>2. g.checkpoint \in Int /\ g.event_count \in Int /\ g.checkpoint <= g.event_count
  BY GraphAssumption DEF IsGraph
<1>3. \A r \in g.bridges : /\ r \in Slices /\ r.from \in Int /\ r.upto \in Int
                           /\ r.from < r.upto /\ r.upto <= g.checkpoint
  BY GraphAssumption DEF IsGraph, Slices
<1>4. IsFiniteSet(g.bridges) /\ IsFiniteSet(g.bridges \cup {t})
  BY FS_AddElement, Zenon DEF IsGraph
<1>5. \A r, s \in g.bridges : r = s \/ r.upto <= s.from \/ s.upto <= r.from
  BY DEF IsGraph
<1>6. CASE g.event_count > g.checkpoint
  <2>1. WithTail(g) = g.bridges \cup {t}
    BY <1>6 DEF WithTail
  <2> HIDE DEF t
  <2> QED
    BY <2>1, <1>6, <1>1, <1>2, <1>3, <1>4, <1>5
<1>7. CASE ~(g.event_count > g.checkpoint)
  <2>1. WithTail(g) = g.bridges
    BY <1>7 DEF WithTail
  <2> QED
    BY <2>1, <1>2, <1>3, <1>4, <1>5
<1> QED
  BY <1>6, <1>7

\* A rotation gives an entry.
LEMMA RotatedIsGraph ==
    ASSUME events \in 0..MaxEvents, NEW g, IsGraph(g)
    PROVE  /\ Rotated(g) = Entry(g.event_count, retain_recent_bridges(g, WithTail(g)), g.origin)
           /\ IsGraph(Rotated(g))
<1> DEFINE K == retain_recent_bridges(g, WithTail(g))
<1>1. Rotated(g) = Entry(g.event_count, K, g.origin)
  BY DEF Rotated, WithTail
<1>2. K \subseteq WithTail(g)
  BY RetainedAreSome
<1>3. IsFiniteSet(K)
  BY <1>2, WithTailIsApart, FS_Subset, Zenon
<1>4. g.event_count \in 0..events /\ g.origin \in Nat
  BY DEF IsGraph
<1> HIDE DEF K
<1>5. IsGraph(Entry(g.event_count, K, g.origin))
  BY <1>2, <1>3, <1>4, WithTailIsApart, EntryIsGraph
<1> QED
  BY <1>1, <1>5 DEF K

-----------------------------------------------------------------------------
(* What a new entry serves. *)

\* A reader within the retention holds what the bridges that are too old hold.
LEMMA OldBridgesAreHeld ==
    ASSUME RowsInv, ReadersInv, IsGraph(current), NEW rd \in reader, ~(rd.since + Retain < clock),
           NEW b, ~IsRecent(current, b)
    PROVE  b.upto <= rd.holds
<1>1. b \in current.bridges /\ ~(clock - published_at[Bridge(b)] <= Retain)
  BY DEF IsRecent
<1>2. b \in Slices /\ HasRow(b)
  BY <1>1 DEF RowsInv, IsGraph
<1>3. published_at[Bridge(b)] \in 0..clock /\ clock \in Nat
  BY <1>2 DEF RowsInv, HasRow
<1>4. rd.since \in 0..clock
  BY DEF ReadersInv
<1>5. published_at[Bridge(b)] < rd.since
  BY <1>1, <1>3, <1>4, GraphAssumption
<1> QED
  BY <1>2, <1>5 DEF ReadersInv

\* An event at or after the checkpoint is in the tail.
LEMMA TailHolds ==
    ASSUME events \in Nat, NEW c \in 0..events, NEW S, NEW o, NEW i \in c..events - 1
    PROVE  Holds(S \cup Entry(c, S, o).tail, i)
<1>1. Slice(c, events) \in Entry(c, S, o).tail
  BY DEF Entry, TailFrom
<1>2. Slice(c, events).from <= i /\ i < Slice(c, events).upto
  BY DEF Slice
<1> QED
  BY <1>1, <1>2 DEF Holds

\* A rotation leaves no reader behind.
LEMMA RotatedServes ==
    ASSUME GraphsInv, RowsInv, ReadersInv, ServesAll(current)
    PROVE  ServesAll(Rotated(current))
<1> DEFINE S == WithTail(current)
           K == retain_recent_bridges(current, S)
<1>1. IsGraph(current) /\ events \in 0..MaxEvents
  BY DEF GraphsInv
<1>2. Rotated(current) = Entry(current.event_count, K, current.origin)
  BY <1>1, RotatedIsGraph
<1>3. /\ S \in SUBSET Slices
      /\ IsFiniteSet(S)
      /\ \A r \in S : r.from < r.upto
      /\ \A r, s \in S : r = s \/ r.upto <= s.from \/ s.upto <= r.from
  BY <1>1, WithTailIsApart
<1>4. /\ current.event_count \in 0..events /\ current.checkpoint \in 0..current.event_count
      /\ events \in Nat
  BY <1>1, GraphAssumption DEF IsGraph
<1>5. /\ Entry(current.event_count, K, current.origin).event_count = events
      /\ Entry(current.event_count, K, current.origin).bridges = K
      /\ Entry(current.event_count, K, current.origin).origin = current.origin
  BY DEF Entry
<1>6. K \subseteq S
  BY RetainedAreSome
<1> HIDE DEF S, K
<1> SUFFICES ASSUME NEW rd \in reader, NEW i \in rd.holds..events - 1, i >= current.origin,
                    ~Holds(K \cup Entry(current.event_count, K, current.origin).tail, i),
                    ~(rd.since + Retain < clock)
             PROVE  /\ ~(Cardinality(K) < MaxBridges)
                    /\ \A c \in K : i < c.from
  BY <1>2, <1>5 DEF ServesAll, Finds
<1>7. rd.holds \in 0..events /\ i \in Nat
  BY <1>4 DEF ReadersInv
<1>8. i < current.event_count
  BY <1>4, <1>7, TailHolds
<1>9. Finds(current, rd, i)
  BY <1>4, <1>7, <1>8 DEF ServesAll
<1>10. \A b \in S : i < b.upto => IsRecent(current, b)
  <2>1. \A b \in S : ~IsRecent(current, b) => b.upto <= rd.holds
    BY <1>1, OldBridgesAreHeld
  <2>2. \A b \in S : b.upto \in Int
    BY <1>3, GraphAssumption DEF Slices
  <2> QED
    BY <2>1, <2>2, <1>7, <1>4
<1>11. CASE Holds(current.bridges \cup current.tail, i)
  <2>1. PICK b \in current.bridges \cup current.tail : b.from <= i /\ i < b.upto
    BY <1>11 DEF Holds
  <2>2. b \in S
    BY <2>1, <1>1, <1>4 DEF S, WithTail, IsGraph
  <2>3. IsRecent(current, b)
    BY <2>1, <2>2, <1>10
  <2>4. b \notin K
    BY <2>1 DEF Holds
  <2>5. ~(Cardinality(K) < MaxBridges)
    BY <2>2, <2>3, <2>4, <1>3, DrainedAtLimit DEF K
  <2>6. ASSUME NEW c \in K PROVE i < c.from
    <3>1. b.from < c.from
      BY <2>2, <2>3, <2>4, <1>3, DrainedFirst DEF K
    <3>2. c \in S /\ b \in Slices /\ c \in Slices
      BY <1>6, <1>3, <2>2
    <3>3. {b.from, b.upto, c.from, c.upto} \subseteq Int
      BY <3>2, GraphAssumption DEF Slices
    <3>4. c = b \/ c.upto <= b.from \/ b.upto <= c.from
      BY <3>2, <2>2, <1>3
    <3>5. c.from < c.upto
      BY <3>2, <1>3
    <3> QED
      BY <3>1, <3>3, <3>4, <3>5, <2>1, <1>7
  <2> QED
    BY <2>5, <2>6
<1>12. CASE ~(Cardinality(current.bridges) < MaxBridges) /\ \A b \in current.bridges : i < b.from
  <2>1. current.bridges \subseteq S
    BY DEF S, WithTail
  <2>2. \A b \in current.bridges : {b.from, b.upto} \subseteq Int /\ b.from < b.upto /\ b.upto <= current.checkpoint
    BY <1>1, GraphAssumption DEF IsGraph, Slices
  <2>3. \A b \in current.bridges : IsRecent(current, b)
    BY <2>1, <2>2, <1>10, <1>12, <1>7
  <2>4. ~(Cardinality(K) < MaxBridges)
    BY <2>1, <2>3, <1>3, <1>12, LimitIsKept DEF K
  <2>5. current.bridges # {}
    <3>1. Cardinality({}) = 0 /\ 0 < MaxBridges
      BY FS_EmptySet, GraphAssumption
    <3> QED
      BY <3>1, <1>12
  <2>6. i < current.checkpoint
    BY <2>2, <2>5, <1>12, <1>7, <1>4
  <2>7. ASSUME NEW c \in K PROVE i < c.from
    <3>1. c \in current.bridges \/ c = Slice(current.checkpoint, current.event_count)
      BY <1>6 DEF S, WithTail
    <3> QED
      BY <3>1, <2>6, <1>12 DEF Slice
  <2> QED
    BY <2>4, <2>7
<1> QED
  BY <1>9, <1>11, <1>12 DEF Finds

\* What a cycle builds is an entry that follows the active one and serves its readers.
LEMMA BuiltEntry ==
    ASSUME GraphInv
    PROVE  LET d == publish_poi_artifact_entry(active_poi_graph)
           IN  IsGraph(d) /\ d.exists = "yes" /\ Follows(d) /\ ServesAll(d)
<1> DEFINE d == publish_poi_artifact_entry(active_poi_graph)
<1>1. IsGraph(current) /\ events \in 0..MaxEvents /\ events \in Nat
  BY GraphAssumption DEF GraphInv, GraphsInv
<1>2. /\ current.event_count \in 0..events /\ current.checkpoint \in 0..current.event_count
      /\ current.event_count \in Nat /\ current.checkpoint \in 0..events
      /\ current.exists \in {"yes", "no"} /\ current.origin \in Nat
  BY <1>1 DEF IsGraph
<1>3. CASE active_poi_graph.exists = "no"
  <2>1. d = Entry(events, {}, events)
    BY <1>3 DEF publish_poi_artifact_entry
  <2>2. IsGraph(d)
    BY <2>1, <1>1, EntryIsGraph, FS_EmptySet
  <2>3. /\ d.event_count = events /\ d.checkpoint = events /\ d.origin = events
        /\ d.bridges = {} /\ d.exists = "yes"
    BY <2>1 DEF Entry
  <2>4. Follows(d)
    BY <2>3, <1>2 DEF Follows
  <2>5. ServesAll(d)
    <3>1. \A rd \in reader : rd.holds \in Nat
      BY GraphAssumption DEF GraphInv, GraphsInv, ReadersInv
    <3> QED
      BY <2>3, <3>1, <1>1 DEF ServesAll
  <2> QED
    BY <2>2, <2>3, <2>4, <2>5
<1>6. active_poi_graph.exists # "no" => active_poi_graph = current
  BY DEF active_poi_graph, NoGraph
<1>4. CASE active_poi_graph.exists # "no" /\ poi_artifact_rotation_required(current)
  <2>1. d = Rotated(current)
    BY <1>4, <1>6 DEF publish_poi_artifact_entry
  <2>2. IsGraph(d) /\ ServesAll(d)
    BY <2>1, <1>1, RotatedIsGraph, RotatedServes DEF GraphInv
  <2>3. d = Entry(current.event_count, retain_recent_bridges(current, WithTail(current)), current.origin)
    BY <2>1, <1>1, RotatedIsGraph
  <2>4. \A r \in retain_recent_bridges(current, WithTail(current)) : r.upto <= current.event_count
    BY RetainedAreSome, WithTailIsApart, <1>1
  <2>5. d.exists = "yes" /\ Follows(d)
    BY <2>3, <2>4, <1>2 DEF Entry, Follows
  <2> QED
    BY <2>2, <2>5
<1>5. CASE active_poi_graph.exists # "no" /\ ~poi_artifact_rotation_required(current)
  <2>1. d = Entry(current.checkpoint, current.bridges, current.origin)
    BY <1>5, <1>6 DEF publish_poi_artifact_entry
  <2>2. IsGraph(d)
    <3>1. /\ current.bridges \in SUBSET Slices
          /\ IsFiniteSet(current.bridges)
          /\ \A r \in current.bridges : r.from < r.upto /\ r.upto <= current.checkpoint
          /\ \A r, s \in current.bridges : r = s \/ r.upto <= s.from \/ s.upto <= r.from
      BY <1>1 DEF IsGraph
    <3> HIDE DEF d
    <3> QED
      BY <2>1, <1>1, <1>2, <3>1, EntryIsGraph
  <2>3. d.exists = "yes" /\ d.checkpoint = current.checkpoint /\ d.bridges = current.bridges
        /\ d.event_count = events /\ d.origin = current.origin
    BY <2>1 DEF Entry
  <2>4. \A r \in current.bridges : r.upto \in Nat /\ r.upto <= current.checkpoint
    BY <1>1, GraphAssumption DEF IsGraph, Slices
  <2>5. Follows(d)
    BY <2>3, <2>4, <1>2 DEF Follows
  <2>6. ASSUME NEW rd \in reader, NEW i \in rd.holds..events - 1, i >= current.origin
        PROVE  Finds(d, rd, i)
    <3>1. rd.holds \in Nat /\ i \in Nat
      BY <1>1 DEF GraphInv, ReadersInv
    <3>2. CASE i >= current.checkpoint
      BY <3>1, <3>2, <2>1, <2>3, <1>1, <1>2, TailHolds DEF Finds
    <3>3. CASE i < current.checkpoint
      <4>1. Finds(current, rd, i)
        BY <2>6, <3>1, <3>3, <1>2 DEF GraphInv, ServesAll
      <4>2. ~Holds(current.tail, i)
        BY <3>1, <3>3, <1>1, <1>2 DEF IsGraph, Holds, Slice
      <4> QED
        BY <4>1, <4>2, <2>3 DEF Finds, Holds
    <3> QED
      BY <3>1, <3>2, <3>3, <1>2
  <2>7. ServesAll(d)
    BY <2>3, <2>6 DEF ServesAll
  <2> QED
    BY <2>2, <2>3, <2>5, <2>7
<1> QED
  BY <1>3, <1>4, <1>5

-----------------------------------------------------------------------------
(* Every step preserves the invariant. *)

\* Nothing is published at first.
LEMMA InitHolds == GraphInit => GraphInv
<1> SUFFICES ASSUME GraphInit PROVE GraphInv
  OBVIOUS
<1> USE DEF GraphInit
<1>1. IsGraph(NoGraph)
  BY NoGraphIsGraph
<1>3. GraphsInv
  BY <1>1 DEF GraphsInv
<1>4. CycleInv
  BY DEF CycleInv, Follows, NoGraph
<1>5. RowsInv
  BY DEF RowsInv, HasRow, NoGraph
<1>6. ReadersInv
  BY DEF ReadersInv
<1>7. ServesAll(current) /\ ServesAll(recorded) /\ ServesAll(draft)
  BY DEF ServesAll
<1> QED
  BY <1>3, <1>4, <1>5, <1>6, <1>7 DEF GraphInv

\* The entries change their roles.
LEMMA RolesChange ==
    ASSUME GraphInv, UNCHANGED <<events, clock, published_at, reader>>,
           current' \in {current, recorded}, recorded' \in {recorded, draft, NoGraph},
           draft' \in {draft, NoGraph}
    PROVE  GraphsInv' /\ ServesAll(current)' /\ ServesAll(recorded)' /\ ServesAll(draft)'
<1>1. IsGraph(NoGraph)
  BY NoGraphIsGraph, GraphAssumption DEF GraphInv, GraphsInv
<1>2. \A g : IsGraph(g)' <=> IsGraph(g)
  BY DEF IsGraph, prepare_checkpoint
<1>3. IsGraph(current)' /\ IsGraph(recorded)' /\ IsGraph(draft)'
  BY <1>1 DEF GraphInv, GraphsInv, IsGraph
<1>4. GraphsInv'
  BY <1>3 DEF GraphInv, GraphsInv
<1>5. ServesAll(NoGraph)
  <2>1. \A rd \in reader : rd.holds \in Nat
    BY GraphAssumption DEF GraphInv, GraphsInv, ReadersInv
  <2> QED
    BY <2>1 DEF ServesAll, NoGraph
<1>6. ServesAll(current)'
  BY DEF GraphInv, ServesAll, Finds
<1>7. ServesAll(recorded)' /\ ServesAll(draft)'
  BY <1>5 DEF GraphInv, ServesAll, Finds
<1> QED
  BY <1>4, <1>6, <1>7

\* A reactivated manifest is one that was published.
LEMMA ReactivateStep == GraphInv /\ Reactivate => GraphInv'
<1> SUFFICES ASSUME GraphInv, Reactivate PROVE GraphInv'
  OBVIOUS
<1>1. GraphsInv' /\ ServesAll(current)' /\ ServesAll(recorded)' /\ ServesAll(draft)'
  BY RolesChange DEF Reactivate
<1>2. CycleInv'
  BY DEF GraphInv, CycleInv, Reactivate, Follows, NoGraph
<1>3. current.event_count <= recorded.event_count /\ {current.event_count, recorded.event_count} \subseteq Int
  BY DEF GraphInv, GraphsInv, IsGraph, CycleInv, Reactivate, Follows
<1>4. RowsInv'
  <2>1. \A r \in Slices : HasRow(r) => r.upto <= recorded.event_count
    BY <1>3, GraphAssumption DEF GraphInv, RowsInv, Slices
  <2> QED
    BY <2>1 DEF GraphInv, CycleInv, RowsInv, Reactivate, HasRow, NoGraph
<1>5. ReadersInv'
  BY DEF GraphInv, ReadersInv, Reactivate, HasRow
<1> QED
  BY <1>1, <1>2, <1>4, <1>5 DEF GraphInv

\* An abandoned manifest leaves the active one as it was.
LEMMA AbandonStep == GraphInv /\ abandon_pending_poi_v4_manifest_reconciliation => GraphInv'
<1> SUFFICES ASSUME GraphInv, abandon_pending_poi_v4_manifest_reconciliation PROVE GraphInv'
  OBVIOUS
<1> USE DEF abandon_pending_poi_v4_manifest_reconciliation
<1>1. GraphsInv' /\ ServesAll(current)' /\ ServesAll(recorded)' /\ ServesAll(draft)'
  BY RolesChange
<1>2. CycleInv'
  BY DEF GraphInv, CycleInv, Follows, NoGraph
<1>3. RowsInv'
  BY DEF GraphInv, RowsInv, HasRow, NoGraph
<1>4. ReadersInv'
  BY DEF GraphInv, ReadersInv, HasRow
<1> QED
  BY <1>1, <1>2, <1>3, <1>4 DEF GraphInv

\* An entry built from the published one serves the readers of that one.
LEMMA BuildEntryStep == GraphInv /\ BuildEntry => GraphInv'
<1> SUFFICES ASSUME GraphInv, BuildEntry PROVE GraphInv'
  OBVIOUS
<1> DEFINE d == publish_poi_artifact_entry(active_poi_graph)
<1>1. IsGraph(d) /\ d.exists = "yes" /\ Follows(d) /\ ServesAll(d)
  BY BuiltEntry
<1>2. /\ draft' = d /\ recorded' = NoGraph /\ stage' = "bridge" /\ stage = "idle"
      /\ UNCHANGED <<events, clock, published_at, current, reader, mishaps>>
  BY DEF BuildEntry, GraphInv, GraphsInv, IsGraph
<1> HIDE DEF d
<1>3. IsGraph(NoGraph)
  BY NoGraphIsGraph, GraphAssumption DEF GraphInv, GraphsInv
<1>4. GraphsInv'
  BY <1>1, <1>2, <1>3 DEF GraphInv, GraphsInv, IsGraph
<1>5. CycleInv'
  BY <1>1, <1>2 DEF CycleInv, Follows, NoGraph
<1>6. RowsInv'
  BY <1>2 DEF GraphInv, RowsInv, HasRow, NoGraph
<1>7. ReadersInv'
  BY <1>2 DEF GraphInv, ReadersInv, HasRow
<1>8. ServesAll(current)' /\ ServesAll(draft)'
  BY <1>1, <1>2 DEF GraphInv, ServesAll, Finds
<1>9. ServesAll(recorded)'
  <2>1. \A rd \in reader : rd.holds \in Nat
    BY GraphAssumption DEF GraphInv, GraphsInv, ReadersInv
  <2> QED
    BY <2>1, <1>2 DEF ServesAll, NoGraph
<1> QED
  BY <1>4, <1>5, <1>6, <1>7, <1>8, <1>9 DEF GraphInv

\* A row that is there keeps its time, the others get the present.
LEMMA RowsRecorded ==
    ASSUME NEW rows, record_poi_artifact_pin(rows)
    PROVE  /\ DOMAIN published_at' = DOMAIN published_at \cup rows
           /\ \A x \in DOMAIN published_at : published_at'[x] = published_at[x]
           /\ \A x \in rows \ DOMAIN published_at : published_at'[x] = clock
BY DEF record_poi_artifact_pin

\* Rows are recorded, of bridges that end where the active entry ends or before.
LEMMA RecordingStep ==
    ASSUME GraphInv, NEW rows, record_poi_artifact_pin(rows),
           \A r \in Slices : Bridge(r) \in rows => r.upto <= current.event_count,
           UNCHANGED <<events, clock, current, recorded, draft, reader, mishaps>>,
           stage = "bridge" => \A r \in draft.bridges : Bridge(r) \in rows,
           stage \in {"bridge", "catalog"}, stage' \in {"catalog", "tail"}
    PROVE  GraphInv'
<1>1. /\ DOMAIN published_at' = DOMAIN published_at \cup rows
      /\ \A x \in DOMAIN published_at : published_at'[x] = published_at[x]
      /\ \A x \in rows \ DOMAIN published_at : published_at'[x] = clock
  BY RowsRecorded
<1>2. GraphsInv'
  BY DEF GraphInv, GraphsInv, IsGraph
<1>3. CycleInv'
  BY DEF GraphInv, CycleInv, Follows
<1>4. RowsInv'
  <2>1. \A x \in DOMAIN published_at' : published_at'[x] \in 0..clock /\ clock \in Nat
    BY <1>1 DEF GraphInv, RowsInv
  <2>2. \A r \in Slices : HasRow(r)' => r.upto <= current.event_count
    BY <1>1 DEF GraphInv, RowsInv, HasRow
  <2>3. \A r \in current.bridges \cup recorded.bridges \cup draft.bridges : HasRow(r)'
    BY <1>1 DEF GraphInv, RowsInv, HasRow
  <2>4. clock \in Nat
    BY DEF GraphInv, RowsInv
  <2> QED
    BY <2>1, <2>2, <2>3, <2>4 DEF RowsInv
<1>5. ReadersInv'
  <2>1. ASSUME NEW rd \in reader, NEW r \in Slices, HasRow(r)', published_at'[Bridge(r)] < rd.since
        PROVE  r.upto <= rd.holds
    <3>1. rd.since \in 0..clock /\ clock \in Nat
      BY DEF GraphInv, RowsInv, ReadersInv
    <3>2. HasRow(r)
      BY <1>1, <2>1, <3>1 DEF HasRow
    <3> QED
      BY <1>1, <2>1, <3>2 DEF GraphInv, ReadersInv, HasRow
  <2> QED
    BY <2>1 DEF GraphInv, ReadersInv
<1>6. ServesAll(current)' /\ ServesAll(recorded)' /\ ServesAll(draft)'
  BY DEF GraphInv, ServesAll, Finds
<1> QED
  BY <1>2, <1>3, <1>4, <1>5, <1>6 DEF GraphInv

\* Pinning the bridges changes nothing a reader sees.
LEMMA PublishBridgesStep == GraphInv /\ PublishBridges => GraphInv'
<1> SUFFICES ASSUME GraphInv, PublishBridges PROVE GraphInv'
  OBVIOUS
<1>1. \A r, s : Bridge(r) = Bridge(s) => r = s
  BY DEF Bridge
<1>2. \A r \in draft.bridges : r.upto <= current.event_count
  BY DEF GraphInv, CycleInv, Follows, PublishBridges
<1> QED
  BY <1>1, <1>2, RecordingStep DEF PublishBridges

\* Pinning the checkpoint catalog changes nothing a reader sees.
LEMMA PublishCatalogStep == GraphInv /\ publish_poi_checkpoint_catalog => GraphInv'
<1> SUFFICES ASSUME GraphInv, publish_poi_checkpoint_catalog PROVE GraphInv'
  OBVIOUS
<1>1. \A r : Bridge(r) # Catalog(draft.checkpoint)
  BY DEF Bridge, Catalog
<1> QED
  BY <1>1, RecordingStep DEF publish_poi_checkpoint_catalog

\* A cycle ends without a new manifest.
LEMMA CycleEnds ==
    ASSUME GraphInv, EndPublication, UNCHANGED <<events, clock, published_at, current, recorded, reader>>
    PROVE  GraphInv'
<1>1. GraphsInv' /\ ServesAll(current)' /\ ServesAll(recorded)' /\ ServesAll(draft)'
  BY RolesChange DEF EndPublication
<1>2. CycleInv'
  BY DEF GraphInv, CycleInv, EndPublication, Follows, NoGraph
<1>3. RowsInv'
  BY DEF GraphInv, RowsInv, EndPublication, HasRow, NoGraph
<1>4. ReadersInv'
  BY DEF GraphInv, ReadersInv, HasRow
<1> QED
  BY <1>1, <1>2, <1>3, <1>4 DEF GraphInv

\* The manifest that is made pending carries the entry that was built.
LEMMA PublishManifestsStep == GraphInv /\ publish_poi_manifests => GraphInv'
<1> SUFFICES ASSUME GraphInv, publish_poi_manifests PROVE GraphInv'
  OBVIOUS
<1>1. GraphsInv' /\ ServesAll(current)' /\ ServesAll(recorded)' /\ ServesAll(draft)'
  BY RolesChange DEF publish_poi_manifests
<1>2. CycleInv'
  BY DEF GraphInv, CycleInv, publish_poi_manifests, Follows
<1>3. RowsInv'
  BY DEF GraphInv, RowsInv, publish_poi_manifests, HasRow
<1>4. ReadersInv'
  BY DEF GraphInv, ReadersInv, publish_poi_manifests, HasRow
<1> QED
  BY <1>1, <1>2, <1>3, <1>4 DEF GraphInv

\* The name moves to the manifest the cycle made, or stays where it was.
LEMMA PublishIpnsStep == GraphInv /\ publish_poi_ipns => GraphInv'
<1> SUFFICES ASSUME GraphInv, publish_poi_ipns PROVE GraphInv'
  OBVIOUS
<1> USE DEF publish_poi_ipns, EndPublication
<1>1. GraphsInv' /\ ServesAll(current)' /\ ServesAll(recorded)' /\ ServesAll(draft)'
  BY RolesChange
<1>2. CycleInv'
  BY DEF GraphInv, CycleInv, Follows, NoGraph
<1>3. /\ recorded.exists = "yes" /\ current.event_count <= recorded.event_count
      /\ {current.event_count, recorded.event_count} \subseteq Int
  BY DEF GraphInv, GraphsInv, IsGraph, CycleInv, Follows
<1>4. RowsInv'
  <2>1. \A r \in Slices : HasRow(r) => r.upto <= recorded.event_count
    BY <1>3, GraphAssumption DEF GraphInv, RowsInv, Slices
  <2> QED
    BY <2>1 DEF GraphInv, RowsInv, HasRow, NoGraph
<1>5. ReadersInv'
  BY <1>3 DEF GraphInv, ReadersInv, HasRow
<1> QED
  BY <1>1, <1>2, <1>4, <1>5 DEF GraphInv

\* The corpus grows behind what is published.
LEMMA StoreEventStep == GraphInv /\ StoreEvent => GraphInv'
<1> SUFFICES ASSUME GraphInv, StoreEvent PROVE GraphInv'
  OBVIOUS
<1> USE DEF StoreEvent
<1>1. events \in 0..MaxEvents /\ MaxEvents \in Nat /\ events' = events + 1 /\ events' \in 0..MaxEvents
  BY GraphAssumption DEF GraphInv, GraphsInv
<1>2. 0..events \subseteq 0..events'
  BY <1>1
<1>3. GraphsInv'
  BY <1>1, <1>2 DEF GraphInv, GraphsInv, IsGraph
<1>4. CycleInv' /\ RowsInv'
  BY DEF GraphInv, CycleInv, Follows, RowsInv, HasRow
<1>5. ReadersInv'
  BY <1>2 DEF GraphInv, ReadersInv, HasRow
<1>6. ServesAll(current)' /\ ServesAll(recorded)' /\ ServesAll(draft)'
  BY DEF GraphInv, ServesAll, Finds
<1> QED
  BY <1>3, <1>4, <1>5, <1>6 DEF GraphInv

\* Bridges grow older with time.
LEMMA PassTimeStep == GraphInv /\ PassTime => GraphInv'
<1> SUFFICES ASSUME GraphInv, PassTime PROVE GraphInv'
  OBVIOUS
<1> USE DEF PassTime
<1>1. clock \in Nat /\ clock' = clock + 1 /\ Retain \in Nat /\ 0..clock \subseteq 0..clock'
  BY GraphAssumption DEF GraphInv, RowsInv
<1>2. GraphsInv'
  BY DEF GraphInv, GraphsInv, IsGraph
<1>3. CycleInv'
  BY DEF GraphInv, CycleInv, Follows
<1>4. RowsInv'
  BY <1>1 DEF GraphInv, RowsInv, HasRow
<1>5. ReadersInv'
  BY <1>1 DEF GraphInv, ReadersInv, HasRow
<1>6. \A rd \in reader : rd.since + Retain < clock => rd.since + Retain < clock'
  BY <1>1 DEF GraphInv, ReadersInv
<1>7. ServesAll(current)' /\ ServesAll(recorded)' /\ ServesAll(draft)'
  BY <1>6 DEF GraphInv, ServesAll, Finds
<1> QED
  BY <1>2, <1>3, <1>4, <1>5, <1>7 DEF GraphInv

\* Whoever holds what the active entry lists finds the rest in the tail of what follows it, or
\* the line of that was started later.
LEMMA TailServes ==
    ASSUME GraphInv, NEW g \in {current, recorded, draft}
    PROVE  \A i \in current.event_count..g.event_count - 1 : i >= g.origin => Holds(g.tail, i)
<1> SUFFICES ASSUME NEW i \in current.event_count..g.event_count - 1, i >= g.origin
             PROVE  Holds(g.tail, i)
  OBVIOUS
<1>1. IsGraph(g) /\ IsGraph(current) /\ events \in 0..MaxEvents /\ MaxEvents \in Nat
  BY GraphAssumption DEF GraphInv, GraphsInv
<1>2. {current.event_count, g.event_count, g.checkpoint, i} \subseteq Int
  BY <1>1 DEF IsGraph
<1>3. g.checkpoint <= i /\ i < g.event_count
  <2>1. CASE g = current
    BY <1>1, <2>1 DEF IsGraph
  <2>2. CASE g.exists = "no"
    BY <1>1, <1>2, <2>2 DEF IsGraph, NoGraph
  <2>3. CASE g # current /\ g.exists = "yes"
    BY <1>2, <2>3 DEF GraphInv, CycleInv, Follows
  <2> QED
    BY <1>1, <2>1, <2>2, <2>3 DEF IsGraph
<1>4. g.tail = {Slice(g.checkpoint, g.event_count)}
  BY <1>1, <1>2, <1>3 DEF IsGraph
<1> QED
  BY <1>3, <1>4 DEF Holds, Slice

\* A reader fetches an entry that lists what the active one lists, or more.
LEMMA FetchStep ==
    ASSUME GraphInv, NEW g \in {current, recorded}, Fetch(g)
    PROVE  GraphInv'
<1> USE DEF Fetch
<1> DEFINE rd == [holds |-> g.event_count, since |-> clock]
<1>1. /\ IsGraph(g) /\ IsGraph(current) /\ IsGraph(recorded) /\ IsGraph(draft)
      /\ events \in 0..MaxEvents /\ MaxEvents \in Nat /\ clock \in Nat
  BY GraphAssumption DEF GraphInv, GraphsInv, RowsInv
<1>2. /\ g.event_count \in 0..events /\ current.event_count \in 0..events
      /\ recorded.event_count \in 0..events /\ draft.event_count \in 0..events
  BY <1>1 DEF IsGraph
<1>3. current.event_count <= g.event_count
  BY <1>2 DEF GraphInv, CycleInv, Follows
<1>4. GraphsInv' /\ CycleInv' /\ RowsInv'
  BY DEF GraphInv, GraphsInv, IsGraph, CycleInv, Follows, RowsInv, HasRow
<1>5. ReadersInv'
  <2>1. rd \in [holds : 0..events, since : 0..clock]
    BY <1>1, <1>2
  <2>2. ASSUME NEW r \in Slices, HasRow(r)
        PROVE  r.upto <= rd.holds
    <3>1. r.upto <= current.event_count /\ r.upto \in Int
      BY <2>2, GraphAssumption DEF GraphInv, RowsInv, Slices
    <3> QED
      BY <1>1, <1>2, <1>3, <3>1
  <2> QED
    BY <2>1, <2>2 DEF ReadersInv, HasRow
<1>6. ASSUME NEW h \in {current, recorded, draft}, NEW i \in rd.holds..h.event_count - 1,
             i >= h.origin
      PROVE  Holds(h.bridges \cup h.tail, i)
  <2>1. i \in current.event_count..h.event_count - 1
    BY <1>1, <1>2, <1>3
  <2>2. Holds(h.tail, i)
    BY <1>6, <2>1, TailServes
  <2> QED
    BY <2>2 DEF Holds
<1>7. ServesAll(current)' /\ ServesAll(recorded)' /\ ServesAll(draft)'
  BY <1>6 DEF ServesAll, Finds
<1> QED
  BY <1>4, <1>5, <1>7 DEF GraphInv

\* Every step keeps the invariant.
LEMMA GraphInvStep == GraphInv /\ [GraphNext]_graphVars => GraphInv'
<1> SUFFICES ASSUME GraphInv, [GraphNext]_graphVars PROVE GraphInv'
  OBVIOUS
<1>1. CASE Reactivate
  BY <1>1, ReactivateStep
<1>2. CASE BuildEntry
  BY <1>2, BuildEntryStep
<1>3. CASE PublishBridges
  BY <1>3, PublishBridgesStep
<1>4. CASE publish_poi_checkpoint_catalog
  BY <1>4, PublishCatalogStep
<1>5. CASE RefuseTail
  BY <1>5, CycleEnds DEF RefuseTail
<1>6. CASE KeepManifest
  BY <1>6, CycleEnds DEF KeepManifest
<1>7. CASE publish_poi_manifests
  BY <1>7, PublishManifestsStep
<1>8. CASE publish_poi_ipns
  BY <1>8, PublishIpnsStep
<1>9. CASE AbortCycle
  BY <1>9, CycleEnds DEF AbortCycle
<1>10. CASE StoreEvent
  BY <1>10, StoreEventStep
<1>11. CASE PassTime
  BY <1>11, PassTimeStep
<1>12. CASE Fetch(current) \/ Fetch(recorded)
  BY <1>12, FetchStep
<1>13. CASE UNCHANGED graphVars
  <2>1. GraphsInv' /\ CycleInv'
    BY <1>13 DEF graphVars, GraphInv, GraphsInv, IsGraph, CycleInv, Follows
  <2>2. RowsInv' /\ ReadersInv'
    BY <1>13 DEF graphVars, GraphInv, RowsInv, ReadersInv, HasRow
  <2>3. ServesAll(current)' /\ ServesAll(recorded)' /\ ServesAll(draft)'
    BY <1>13 DEF graphVars, GraphInv, ServesAll, Finds
  <2> QED
    BY <2>1, <2>2, <2>3 DEF GraphInv
<1>14. CASE abandon_pending_poi_v4_manifest_reconciliation
  BY <1>14, AbandonStep
<1> QED
  BY <1>1, <1>2, <1>3, <1>4, <1>5, <1>6, <1>7, <1>8, <1>9, <1>10, <1>11, <1>12, <1>13, <1>14
     DEF GraphNext, publish_cycle

\* The invariant says of every reader that a path leads it on.
LEMMA GraphInvServes == GraphInv => ReadersAreServed
<1> SUFFICES ASSUME GraphInv, NEW g \in {current, recorded}
             PROVE  /\ \A i \in 0..(g.event_count - 1) : Holds(g.chunks \cup g.tail, i)
                    /\ \A r \in reader :
                          (/\ clock - r.since <= Retain
                           /\ Cardinality(g.bridges) < MaxBridges
                           /\ g.origin <= r.holds) =>
                              \A i \in r.holds..(g.event_count - 1) : Holds(g.bridges \cup g.tail, i)
  BY DEF ReadersAreServed
<1>1. IsGraph(g) /\ events \in 0..MaxEvents /\ MaxEvents \in Nat /\ clock \in Nat /\ Retain \in Nat
  BY GraphAssumption DEF GraphInv, GraphsInv, RowsInv
<1>2. ASSUME NEW i \in 0..(g.event_count - 1)
      PROVE  Holds(g.chunks \cup g.tail, i)
  <2>1. /\ g.event_count \in Nat /\ g.checkpoint \in Nat /\ i \in Nat /\ i < g.event_count
        /\ g.chunks = prepare_checkpoint(g.checkpoint)
    BY <1>1, <1>2 DEF IsGraph
  <2>2. CASE i < g.checkpoint
    BY <2>1, <2>2, ChunksCover DEF Holds
  <2>3. CASE ~(i < g.checkpoint)
    <3>1. g.tail = {Slice(g.checkpoint, g.event_count)}
      BY <1>1, <2>1, <2>3 DEF IsGraph
    <3>2. g.checkpoint <= i
      BY <2>1, <2>3
    <3>3. Holds(g.tail, i)
      BY <2>1, <3>1, <3>2 DEF Holds, Slice
    <3> QED
      BY <3>3 DEF Holds
  <2> QED
    BY <2>2, <2>3
<1>3. ASSUME NEW r \in reader, clock - r.since <= Retain, Cardinality(g.bridges) < MaxBridges,
             g.origin <= r.holds, NEW i \in r.holds..(g.event_count - 1)
      PROVE  Holds(g.bridges \cup g.tail, i)
  <2>1. r.since \in Int /\ r.holds \in Nat /\ g.origin \in Nat /\ g.event_count \in Nat
    BY <1>1 DEF GraphInv, ReadersInv, IsGraph
  <2>2. ~(r.since + Retain < clock)
    BY <1>1, <1>3, <2>1
  <2>3. i >= g.origin
    BY <1>3, <2>1
  <2>4. Finds(g, r, i)
    BY <1>3, <2>3 DEF GraphInv, ServesAll
  <2> QED
    BY <1>3, <2>2, <2>4 DEF Finds
<1> QED
  BY <1>2, <1>3

-----------------------------------------------------------------------------
\* Every reader that fetched a manifest within the retention gets each event it lacks from
\* the bridges and the tail of the active graph and of the one about to replace it, and a
\* new reader gets each event from the chunks and the tail.  Excepted are graphs at their
\* limit of bridges, and readers of before an entry that was built without an active graph,
\* the first one or the next after the catalog of the active checkpoint was lost.
THEOREM EveryReaderIsServed == GraphSpec => []ReadersAreServed
<1>1. GraphInit => GraphInv
  BY InitHolds
<1>2. GraphInv /\ [GraphNext]_graphVars => GraphInv'
  BY GraphInvStep
<1>3. GraphInv => ReadersAreServed
  BY GraphInvServes
<1> QED
  BY <1>1, <1>2, <1>3, PTL DEF GraphSpec

=============================================================================
