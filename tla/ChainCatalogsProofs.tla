------------------------ MODULE ChainCatalogsProofs ------------------------
(***************************************************************************)
(* A cycle of publish_chain_entry lists every row once and fails only where  *)
(* it has to, for chains of any length, blocks of any shape, any row limits, *)
(* any tree size and any filling of the chunks.                              *)
(*                                                                         *)
(* The root of a checkpoint is the root of its whole tree, for every tree    *)
(* depth and hash function.                                                  *)
(***************************************************************************)
EXTENDS ChainDatasetsProofs, ChainRowsProofs, CheckpointRoots

-----------------------------------------------------------------------------
(* The tables a cycle reads. *)

\* The rows of the tables are good.
LEMMA TableRows == TableInv => GoodRows(rows)
BY Zenon DEF TableInv, KeyedRows, GoodRows

-----------------------------------------------------------------------------
(* The inductive invariant, put together. *)

\* The datasets the cycle is through with, and those it has not come to.
Past(m) == cpc \in {"validate", "done"} \/ (cpc \in Working /\ m < turn)

Ahead(m) == cpc = "height" \/ (cpc \in Working /\ turn < m)

ProgressInv ==
    /\ \A m \in 1..Len(datasets) : Past(m) => FinishedWith(datasets[m])
    /\ \A m \in 1..Len(datasets) : Ahead(m) => chunks[datasets[m]] = <<>>
    /\ cpc \in Working => AtWorkOn(datasets[turn])

CatalogsInv ==
    /\ TableInv
    /\ HeightInv
    /\ CycleOK
    /\ disturbed = "no" /\ cpc # "failed" => ProgressInv
    /\ disturbed = "no" /\ cpc = "failed" => Excuse(failure)

\* The tables as they are.
LEMMA TableStutter == TableInv /\ UNCHANGED tableVars => TableInv'
BY Zenon DEF TableInv, TablesOK, KeyedRows, tableVars

\* Rows that stay are read as before.
LEMMA SameData ==
    ASSUME TableInv, HeightInv, UNCHANGED tableVars, heights' = heights, omitted' = omitted
    PROVE  /\ \A d \in Dataset : RowsOf(d)' = RowsOf(d) /\ Place(d)' = Place(d)
           /\ Checks' = Checks
           /\ validate_public_txid_compatibility_omissions' <=> validate_public_txid_compatibility_omissions
           /\ \A d \in Dataset : PositionTaken(heights[d].block)' <=> PositionTaken(heights[d].block)
<1>1. rows' = rows
  BY Zenon DEF tableVars
<1>2. GoodRows(rows) /\ GoodRows(rows')
  BY Zenon, <1>1, TableRows
<1>3. \A d \in Dataset : Below(d)' = Below(d)
  BY Zenon, <1>1 DEF Below
<1> QED
  BY Zenon, <1>2, <1>3, DataIsKept

\* A step leaves the cycle in order and the other datasets alone.
LEMMA StepTypes ==
    ASSUME CycleOK, Step(datasets[turn]), datasets' = datasets
    PROVE  CycleOK' /\ \A e \in Dataset : e # datasets[turn] => chunks'[e] = chunks[e]
<1> DEFINE d == datasets[turn]
           n == Len(datasets)
<1>1. n \in Nat /\ turn \in 1..n /\ d \in Dataset
  BY DEF CycleOK
<1>2. DOMAIN chunks = Dataset /\ \A e \in Dataset : IsASeq(chunks[e])
  BY Zenon DEF CycleOK
<1>3. /\ DOMAIN chunks' = Dataset
      /\ \A e \in Dataset : IsASeq(chunks'[e])
      /\ \A e \in Dataset : e # d => chunks'[e] = chunks[e]
  <2>1. CASE chunks' = chunks
    BY Zenon, <1>2, <2>1
  <2>2. ASSUME NEW x, chunks' = [chunks EXCEPT ![d] = Append(@, x)]
        PROVE  /\ DOMAIN chunks' = Dataset
               /\ \A e \in Dataset : IsASeq(chunks'[e])
               /\ \A e \in Dataset : e # d => chunks'[e] = chunks[e]
    <3> HIDE DEF d
    <3>1. DOMAIN chunks' = Dataset /\ chunks'[d] = Append(chunks[d], x) /\ \A e \in Dataset : e # d => chunks'[e] = chunks[e]
      BY <1>1, <1>2, <2>2
    <3>2. IsASeq(Append(chunks[d], x))
      BY Zenon, <1>1, <1>2, Appended
    <3> QED
      BY Zenon, <1>2, <3>1, <3>2
  <2> QED
    BY Zenon, <2>1, <2>2 DEF Step
<1>4. turn' \in 1..n /\ cpc' \in Working \cup {"height", "validate", "done", "failed"}
  <2>1. CASE FinishDataset
    BY <1>1, <2>1 DEF FinishDataset, Working
  <2>2. CASE turn' = turn /\ cpc' \in Working \cup {"failed"}
    BY Zenon, <1>1, <2>2
  <2> QED
    BY Zenon, <2>1, <2>2 DEF Step
<1>5. DOMAIN held' = HeldFields
  BY Zenon DEF Step
<1>6. ASSUME NEW e \in Dataset, \A m \in 1..n : datasets[m] # e PROVE chunks'[e] = <<>>
  BY Zenon, <1>1, <1>3, <1>6 DEF CycleOK
<1>7. CycleOK'
  BY Zenon, <1>3, <1>4, <1>5, <1>6 DEF CycleOK, HeldFields
<1> QED
  BY Zenon, <1>3, <1>7

\* The invariant after a step on a dataset.
LEMMA WorkStep ==
    ASSUME CatalogsInv, Works(datasets[turn]), UNCHANGED tableVars, datasets' = datasets, heights' = heights,
           omitted' = omitted, disturbed' = disturbed
    PROVE  CatalogsInv'
<1> DEFINE d == datasets[turn]
           n == Len(datasets)
<1>1. TableInv /\ HeightInv /\ CycleOK
  BY Zenon DEF CatalogsInv
<1>2. cpc \in Working /\ Step(d)
  BY Zenon DEF Works
<1>3. TableInv'
  BY Zenon, <1>1, TableStutter
<1>4. HeightInv'
  BY Zenon, <1>1 DEF HeightInv, tableVars
<1>5. CycleOK' /\ \A e \in Dataset : e # d => chunks'[e] = chunks[e]
  BY Zenon, <1>1, <1>2, StepTypes
<1>6. /\ \A e \in Dataset : RowsOf(e)' = RowsOf(e) /\ Place(e)' = Place(e)
      /\ Checks' = Checks
      /\ validate_public_txid_compatibility_omissions' <=> validate_public_txid_compatibility_omissions
      /\ \A e \in Dataset : PositionTaken(heights[e].block)' <=> PositionTaken(heights[e].block)
  BY Zenon, <1>1, SameData
<1>7. n \in Nat /\ turn \in 1..n /\ d \in Dataset /\ \A m \in 1..n : datasets[m] \in Dataset
  BY <1>1 DEF CycleOK
<1>8. \A m \in 1..n : m # turn => datasets[m] # d
  BY Zenon, <1>1, <1>7 DEF CycleOK
<1>9. ASSUME disturbed = "no"
      PROVE  (cpc' # "failed" => ProgressInv') /\ (cpc' = "failed" => Excuse(failure)')
  <2>1. cpc # "failed"
    BY Zenon, <1>2 DEF Working
  <2>2. ProgressInv
    BY Zenon, <1>9, <2>1 DEF CatalogsInv
  <2>3. Readable
    BY Zenon, <1>1, TableRows DEF Readable, TableInv
  <2>4. AtWorkOn(d)
    BY Zenon, <1>2, <2>2 DEF ProgressInv
  <2>5. Outcome(d)
    BY Zenon, <2>3, <2>4 DEF Works
  <2> HIDE DEF d, n
  <2>6. ASSUME NEW m \in 1..n, m < turn PROVE FinishedWith(datasets[m])'
    <3> DEFINE e == datasets[m]
    <3>1. m # turn
      BY <1>7, <2>6
    <3>2. e \in Dataset /\ e # d
      BY Zenon, <1>7, <1>8, <3>1
    <3>3. FinishedWith(e)
      BY Zenon, <1>2, <2>2, <2>6 DEF ProgressInv, Past, n
    <3>4. datasets'[m] = e
      BY Zenon
    <3> HIDE DEF e
    <3> QED
      BY Zenon, <1>5, <1>6, <3>2, <3>3, <3>4 DEF FinishedWith
  <2>7. ASSUME NEW m \in 1..n, turn < m PROVE chunks'[datasets'[m]] = <<>>
    <3>1. m # turn
      BY <1>7, <2>7
    <3>2. datasets[m] \in Dataset /\ datasets[m] # d
      BY Zenon, <1>7, <1>8, <3>1
    <3>3. chunks[datasets[m]] = <<>>
      BY Zenon, <1>2, <2>2, <2>7 DEF ProgressInv, Ahead, n
    <3> QED
      BY Zenon, <1>5, <3>2, <3>3
  <2>8. CASE cpc' \in Working /\ turn' = turn
             /\ AtWork(cpc', d, chunks'[d], cursor', plan', held', RowsOf(d), Place(d), Checks)
    <3>1. cpc' # "failed" /\ cpc' # "height" /\ cpc' \notin {"validate", "done"}
      BY <2>8 DEF Working
    <3>2. datasets'[turn'] = d
      BY Zenon, <2>8 DEF d
    <3>3. AtWorkOn(datasets[turn])'
      BY Zenon, <1>6, <1>7, <2>8, <3>2 DEF AtWorkOn
    <3>4. \A m \in 1..n : Past(m)' => m < turn
      BY Zenon, <2>8, <3>1 DEF Past
    <3>5. \A m \in 1..n : Ahead(m)' => turn < m
      BY Zenon, <2>8, <3>1 DEF Ahead
    <3>6. Len(datasets)' = n
      BY Zenon DEF n
    <3>7. ProgressInv'
      BY Zenon, <2>6, <2>7, <3>3, <3>4, <3>5, <3>6 DEF ProgressInv
    <3> QED
      BY Zenon, <3>1, <3>7
  <2>9. CASE FinishDataset /\ Finished(d, chunks'[d], RowsOf(d), Place(d), Checks)
    <3>1. cpc' = (IF turn < n THEN "start" ELSE "validate") /\ turn' = IF turn < n THEN turn + 1 ELSE 1
      BY Zenon, <2>9 DEF FinishDataset, n
    <3>2. ASSUME NEW m \in 1..n, m = turn PROVE FinishedWith(datasets[m])'
      <4>1. datasets'[m] = d
        BY Zenon, <3>2 DEF d
      <4> QED
        BY Zenon, <1>6, <1>7, <2>9, <4>1 DEF FinishedWith
    <3>3. Len(datasets)' = n
      BY Zenon DEF n
    <3>4. CASE turn < n
      <4>1. cpc' = "start" /\ turn' = turn + 1
        BY Zenon, <3>1, <3>4
      <4>2. cpc' # "failed" /\ cpc' # "height" /\ cpc' \notin {"validate", "done"} /\ cpc' \in Working
        BY <4>1 DEF Working
      <4>3. ASSUME NEW m \in 1..n, Past(m)' PROVE m < turn \/ m = turn
        <5>1. m < turn + 1
          BY Zenon, <4>1, <4>2, <4>3 DEF Past
        <5> QED
          BY <1>7, <5>1
      <4>4. ASSUME NEW m \in 1..n, Ahead(m)' PROVE turn < m
        <5>1. turn + 1 < m
          BY Zenon, <4>1, <4>2, <4>4 DEF Ahead
        <5> QED
          BY <1>7, <5>1
      <4>5. turn + 1 \in 1..n /\ turn < turn + 1
        BY <1>7, <3>4
      <4>6. chunks'[datasets'[turn']] = <<>>
        BY Zenon, <2>7, <4>1, <4>5
      <4>7. AtWorkOn(datasets[turn])'
        BY <4>1, <4>6 DEF AtWorkOn, AtWork
      <4>8. ProgressInv'
        BY Zenon, <2>6, <2>7, <3>2, <3>3, <4>3, <4>4, <4>7 DEF ProgressInv
      <4> QED
        BY Zenon, <4>2, <4>8
    <3>5. CASE ~(turn < n)
      <4>1. cpc' = "validate"
        BY Zenon, <3>1, <3>5
      <4>2. cpc' # "failed" /\ cpc' # "height" /\ cpc' \notin Working
        BY <4>1 DEF Working
      <4>3. \A m \in 1..n : m < turn \/ m = turn
        BY <1>7, <3>5
      <4>4. \A m \in 1..n : ~Ahead(m)'
        BY Zenon, <4>2 DEF Ahead
      <4>5. ProgressInv'
        BY Zenon, <2>6, <3>2, <3>3, <4>2, <4>3, <4>4 DEF ProgressInv
      <4> QED
        BY Zenon, <4>2, <4>5
    <3> QED
      BY Zenon, <3>4, <3>5
  <2>10. CASE cpc' = "failed" /\ turn' = turn /\ Excuse(failure')
    <3>1. "wallet" \in Dataset
      BY DEF Dataset
    <3>2. datasets'[turn'] = d /\ datasets[turn] = d
      BY Zenon, <2>10 DEF d
    <3>3. Excuse(failure)'
      BY Zenon, <1>6, <1>7, <2>10, <3>1, <3>2 DEF Excuse
    <3> QED
      BY Zenon, <2>10, <3>3
  <2> QED
    BY Zenon, <2>5, <2>8, <2>9, <2>10 DEF Outcome
<1>10. CatalogsInv'
  BY Zenon, <1>3, <1>4, <1>5, <1>9 DEF CatalogsInv
<1> QED
  BY Zenon, <1>10

\* The invariant after the height of a dataset is read.
LEMMA HeightStep ==
    ASSUME CatalogsInv, latest_indexed_heights, UNCHANGED tableVars, datasets' = datasets,
           omitted' = omitted, disturbed' = disturbed
    PROVE  CatalogsInv'
<1> DEFINE d == datasets[turn]
           n == Len(datasets)
<1>1. TableInv /\ HeightInv /\ CycleOK
  BY Zenon DEF CatalogsInv
<1>2. /\ cpc = "height"
      /\ heights' = [heights EXCEPT ![d] = progress]
      /\ cpc' = IF turn < n THEN "height" ELSE "start"
      /\ turn' = IF turn < n THEN turn + 1 ELSE 1
      /\ held' = held /\ chunks' = chunks
  BY Zenon DEF latest_indexed_heights
<1>3. n \in Nat /\ turn \in 1..n /\ d \in Dataset /\ \A m \in 1..n : datasets[m] \in Dataset
  BY <1>1 DEF CycleOK
<1>4. TableInv'
  BY Zenon, <1>1, TableStutter
<1>5. HeightInv'
  <2>1. DOMAIN heights = Dataset /\ disturbed \in {"yes", "no"}
    BY Zenon, <1>1 DEF HeightInv
  <2> HIDE DEF d
  <2>2. DOMAIN heights' = Dataset /\ heights'[d] = progress /\ \A e \in Dataset : e # d => heights'[e] = heights[e]
    BY <1>2, <1>3, <2>1
  <2>3. headers' = headers
    BY Zenon DEF tableVars
  <2>4. ASSUME NEW e \in Dataset, heights'[e] # NoHeight
        PROVE  /\ heights'[e].block \in Block
               /\ \E m \in 1..n : datasets[m] = e
               /\ disturbed = "no" => headers[heights'[e].block] = heights'[e].hash
    <3>1. CASE e = d
      <4>1. heights'[e] = progress
        BY Zenon, <2>2, <3>1
      <4>2. progress # NoHeight
        BY Zenon, <2>4, <4>1
      <4>3. progress.block # 0
        BY Zenon, <1>1, <4>2 DEF TableInv
      <4>4. progress.block \in 0..MaxBlock
        BY Zenon, <1>1 DEF TableInv, TablesOK
      <4>5. progress.block \in Block
        BY <4>3, <4>4, BlocksAssumption DEF Block
      <4>6. headers[progress.block] = progress.hash
        BY Zenon, <1>1, <4>3 DEF TableInv
      <4> QED
        BY Zenon, <1>3, <3>1, <4>1, <4>5, <4>6 DEF d
    <3>2. CASE e # d
      BY Zenon, <1>1, <2>2, <2>4, <3>2 DEF HeightInv, n
    <3> QED
      BY Zenon, <3>1, <3>2
  <2> QED
    BY Zenon, <2>1, <2>2, <2>3, <2>4 DEF HeightInv, n
<1>6. cpc' \in {"height", "start"} /\ turn' \in 1..n
  BY <1>2, <1>3
<1>7. cpc' # "failed" /\ cpc' \notin {"validate", "done"}
      /\ cpc' \in Working \cup {"height", "validate", "done", "failed"} /\ (cpc' = "height" => cpc' \notin Working)
  BY <1>6 DEF Working
<1>8. CycleOK'
  BY Zenon, <1>1, <1>2, <1>6, <1>7 DEF CycleOK
<1>9. ASSUME disturbed = "no" PROVE ProgressInv'
  <2>1. ProgressInv
    <3>1. cpc # "failed"
      BY <1>2
    <3> QED
      BY Zenon, <1>9, <3>1 DEF CatalogsInv
  <2>2. \A m \in 1..n : chunks'[datasets'[m]] = <<>>
    BY Zenon, <1>2, <2>1 DEF ProgressInv, Ahead
  <2>3. Len(datasets)' = n
    BY Zenon
  <2>4. ASSUME NEW m \in 1..n PROVE ~Past(m)'
    <3>1. CASE cpc' = "height"
      BY Zenon, <1>7, <3>1 DEF Past
    <3>2. CASE cpc' = "start"
      <4>1. turn' = 1
        BY <1>2, <3>2
      <4>2. ~(m < 1)
        OBVIOUS
      <4> QED
        BY Zenon, <1>7, <4>1, <4>2 DEF Past
    <3> QED
      BY Zenon, <1>6, <3>1, <3>2
  <2>5. cpc' \in Working => AtWorkOn(datasets[turn])'
    <3> SUFFICES ASSUME cpc' \in Working PROVE AtWorkOn(datasets[turn])'
      BY Zenon
    <3>1. cpc' = "start"
      BY Zenon, <1>6, <1>7
    <3>2. chunks'[datasets'[turn']] = <<>>
      BY Zenon, <1>6, <2>2
    <3> QED
      BY <3>1, <3>2 DEF AtWorkOn, AtWork
  <2> QED
    BY Zenon, <2>2, <2>3, <2>4, <2>5 DEF ProgressInv
<1> QED
  BY Zenon, <1>4, <1>5, <1>7, <1>8, <1>9 DEF CatalogsInv

\* The invariant after a height is validated.
LEMMA ValidateStep ==
    ASSUME CatalogsInv, validate_chain_snapshot, UNCHANGED tableVars, datasets' = datasets, heights' = heights,
           omitted' = omitted, disturbed' = disturbed
    PROVE  CatalogsInv'
<1> DEFINE d == datasets[turn]
           n == Len(datasets)
<1>1. TableInv /\ HeightInv /\ CycleOK
  BY Zenon DEF CatalogsInv
<1>2. n \in Nat /\ turn \in 1..n /\ d \in Dataset /\ \A m \in 1..n : datasets[m] \in Dataset
  BY <1>1 DEF CycleOK
<1>3. /\ cpc = "validate"
      /\ IF heights[d] = NoHeight \/ headers[heights[d].block] = heights[d].hash
         THEN /\ cpc' = IF turn < n THEN "validate" ELSE "done"
              /\ turn' = IF turn < n THEN turn + 1 ELSE turn
              /\ UNCHANGED <<cursor, plan, held, chunks, failure>>
         ELSE Fail("rewound")
  BY Zenon DEF validate_chain_snapshot
<1>4. held' = held /\ chunks' = chunks
  BY Zenon, <1>3 DEF Fail
<1>5. turn' \in 1..n /\ cpc' \in {"validate", "done", "failed"}
  BY <1>2, <1>3 DEF Fail
<1>6. cpc' \notin Working /\ cpc' # "height" /\ cpc' \in Working \cup {"height", "validate", "done", "failed"}
  BY <1>5 DEF Working
<1>7. TableInv' /\ HeightInv'
  BY Zenon, <1>1, TableStutter DEF HeightInv, tableVars
<1>8. CycleOK'
  BY Zenon, <1>1, <1>4, <1>5, <1>6 DEF CycleOK
<1>9. ASSUME disturbed = "no" PROVE cpc' # "failed" /\ ProgressInv'
  <2>1. heights[d] = NoHeight \/ headers[heights[d].block] = heights[d].hash
    BY Zenon, <1>1, <1>2, <1>9 DEF HeightInv
  <2>2. cpc' \in {"validate", "done"}
    BY Zenon, <1>3, <2>1
  <2>3. ProgressInv /\ cpc' # "failed"
    <3>1. cpc # "failed" /\ "validate" # "failed" /\ "done" # "failed"
      BY <1>3
    <3> QED
      BY Zenon, <1>9, <2>2, <3>1 DEF CatalogsInv
  <2>4. \A m \in 1..n : FinishedWith(datasets[m])
    BY Zenon, <1>3, <2>3 DEF ProgressInv, Past
  <2>5. /\ \A e \in Dataset : RowsOf(e)' = RowsOf(e) /\ Place(e)' = Place(e)
        /\ Checks' = Checks
    BY Zenon, <1>1, SameData
  <2>6. ASSUME NEW m \in 1..n PROVE FinishedWith(datasets[m])'
    <3>1. datasets'[m] = datasets[m] /\ datasets[m] \in Dataset
      BY Zenon, <1>2
    <3> QED
      BY Zenon, <1>4, <2>4, <2>5, <3>1 DEF FinishedWith
  <2>7. \A m \in 1..n : ~Ahead(m)'
    BY Zenon, <1>6 DEF Ahead
  <2>8. Len(datasets)' = n
    BY Zenon
  <2> QED
    BY Zenon, <1>6, <2>3, <2>6, <2>7, <2>8 DEF ProgressInv
<1> QED
  BY Zenon, <1>7, <1>8, <1>9 DEF CatalogsInv

\* The rows a cycle reads.
DataKept ==
    /\ \A d \in Dataset : RowsOf(d)' = RowsOf(d) /\ Place(d)' = Place(d)
    /\ Checks' = Checks
    /\ validate_public_txid_compatibility_omissions' <=> validate_public_txid_compatibility_omissions
    /\ \A d \in Dataset : PositionTaken(heights[d].block)' <=> PositionTaken(heights[d].block)

\* A cycle that waits keeps its part of the invariant while the rows it reads stay.
LEMMA CycleWaits ==
    ASSUME CatalogsInv, TableInv', HeightInv', disturbed' = "no" => disturbed = "no" /\ DataKept,
           datasets' = datasets, cpc' = cpc, turn' = turn, cursor' = cursor, plan' = plan, held' = held,
           chunks' = chunks, failure' = failure
    PROVE  CatalogsInv'
<1>1. CycleOK
  BY Zenon DEF CatalogsInv
<1>2. CycleOK'
  BY Zenon, <1>1 DEF CycleOK
<1>3. ASSUME disturbed' = "no"
      PROVE  (cpc' # "failed" => ProgressInv') /\ (cpc' = "failed" => Excuse(failure)')
  <2>1. disturbed = "no" /\ DataKept
    BY Zenon, <1>3
  <2>2. \A m \in 1..Len(datasets) : datasets[m] \in Dataset
    BY <1>1 DEF CycleOK
  <2>3. turn \in 1..Len(datasets) /\ "wallet" \in Dataset
    BY <1>1 DEF CycleOK, Dataset
  <2>4. ASSUME cpc' # "failed" PROVE ProgressInv'
    <3>1. ProgressInv
      BY Zenon, <2>1, <2>4 DEF CatalogsInv
    <3>2. ASSUME NEW m \in 1..Len(datasets), Past(m)' PROVE FinishedWith(datasets[m])'
      <4>1. FinishedWith(datasets[m])
        BY Zenon, <3>1, <3>2 DEF ProgressInv, Past
      <4>2. datasets'[m] = datasets[m] /\ datasets[m] \in Dataset
        BY Zenon, <2>2
      <4> QED
        BY Zenon, <2>1, <4>1, <4>2 DEF FinishedWith, DataKept
    <3>3. ASSUME NEW m \in 1..Len(datasets), Ahead(m)' PROVE chunks'[datasets'[m]] = <<>>
      BY Zenon, <3>1, <3>3 DEF ProgressInv, Ahead
    <3>4. ASSUME cpc' \in Working PROVE AtWorkOn(datasets[turn])'
      <4>1. AtWorkOn(datasets[turn])
        BY Zenon, <3>1, <3>4 DEF ProgressInv
      <4>2. datasets'[turn'] = datasets[turn] /\ datasets[turn] \in Dataset
        BY Zenon, <2>2, <2>3
      <4> QED
        BY Zenon, <2>1, <4>1, <4>2 DEF AtWorkOn, DataKept
    <3> QED
      BY Zenon, <3>2, <3>3, <3>4 DEF ProgressInv
  <2>5. ASSUME cpc' = "failed" PROVE Excuse(failure)'
    <3>1. Excuse(failure)
      BY Zenon, <2>1, <2>5 DEF CatalogsInv
    <3>2. datasets'[turn'] = datasets[turn] /\ datasets[turn] \in Dataset
      BY Zenon, <2>2, <2>3
    <3> QED
      BY Zenon, <2>1, <2>3, <3>1, <3>2 DEF Excuse, DataKept
  <2> QED
    BY Zenon, <2>4, <2>5
<1> QED
  BY Zenon, <1>2, <1>3 DEF CatalogsInv

\* The invariant while nothing happens.
LEMMA StutterStep ==
    ASSUME CatalogsInv, UNCHANGED tableVars, UNCHANGED catalogVars
    PROVE  CatalogsInv'
<1>1. TableInv /\ HeightInv
  BY Zenon DEF CatalogsInv
<1>2. /\ datasets' = datasets /\ cpc' = cpc /\ turn' = turn /\ heights' = heights /\ omitted' = omitted
      /\ cursor' = cursor /\ plan' = plan /\ held' = held /\ chunks' = chunks /\ failure' = failure
      /\ disturbed' = disturbed
  BY Zenon DEF catalogVars
<1>3. TableInv' /\ HeightInv'
  BY Zenon, <1>1, <1>2, TableStutter DEF HeightInv, tableVars
<1>4. DataKept
  BY Zenon, <1>1, <1>2, SameData DEF DataKept
<1> QED
  BY Zenon, <1>2, <1>3, <1>4, CycleWaits

\* The invariant after the tables move.
LEMMA TablesMoveStep ==
    ASSUME CatalogsInv, TablesMove
    PROVE  CatalogsInv'
<1>1. TableInv /\ HeightInv
  BY Zenon DEF CatalogsInv
<1>2. /\ TablesNext
      /\ datasets' = datasets /\ cpc' = cpc /\ turn' = turn /\ heights' = heights /\ omitted' = omitted
      /\ cursor' = cursor /\ plan' = plan /\ held' = held /\ chunks' = chunks /\ failure' = failure
  BY Zenon DEF TablesMove
<1>3. disturbed' \in {"yes", "no"}
  BY Zenon, <1>1 DEF TablesMove, HeightInv
<1>4. TableInv'
  BY Zenon, <1>1, <1>2, TableStep
<1>5. GoodRows(rows) /\ GoodRows(rows')
  <2>1. GoodRows(rows)
    BY Zenon, <1>1, TableRows
  <2>2. TableInv' => GoodRows(rows)'
    BY TableRows, PTL
  <2> QED
    BY Zenon, <1>4, <2>1, <2>2
<1>6. ASSUME disturbed' = "no"
      PROVE  /\ disturbed = "no"
             /\ \A d \in Dataset : Below(d)' = Below(d)
             /\ \A d \in Dataset : heights[d] # NoHeight => headers'[heights[d].block] = headers[heights[d].block]
  BY Zenon, <1>1, <1>5, <1>6, NotDisturbed
<1>7. HeightInv'
  BY Zenon, <1>1, <1>2, <1>3, <1>6 DEF HeightInv
<1>8. disturbed' = "no" => disturbed = "no" /\ DataKept
  BY Zenon, <1>1, <1>2, <1>5, <1>6, DataIsKept DEF DataKept
<1> QED
  BY Zenon, <1>2, <1>4, <1>7, <1>8, CycleWaits

\* The invariant holds at the start.
LEMMA CatalogsInvInit == CatalogsInit => CatalogsInv
<1> SUFFICES ASSUME CatalogsInit PROVE CatalogsInv
  BY Zenon
<1>1. RowsInit /\ part = "catalogs" /\ CatalogInit
  BY Zenon DEF CatalogsInit
<1>2. TableInv
  BY Zenon, <1>1, TableInit
<1>3. /\ datasets \in Seq(Dataset) /\ datasets # <<>>
      /\ \A m, n \in 1..Len(datasets) : datasets[m] = datasets[n] => m = n
      /\ cpc = "height" /\ turn = 1 /\ heights = [d \in Dataset |-> NoHeight] /\ held = NoneHeld
      /\ chunks = [d \in Dataset |-> <<>>] /\ disturbed = "no"
  BY Zenon, <1>1 DEF CatalogInit
<1>4. \A d \in Dataset : chunks[d] = <<>> /\ heights[d] = NoHeight
  BY Zenon, <1>3
<1>5. DOMAIN chunks = Dataset /\ DOMAIN heights = Dataset
  BY Zenon, <1>3
<1>6. HeightInv
  BY Zenon, <1>3, <1>4, <1>5 DEF HeightInv
<1>7. CycleOK
  <2>1. turn \in 1..Len(datasets)
    BY <1>3
  <2>2. DOMAIN held = {"fill", "found", "last", "items"}
    BY <1>3 DEF NoneHeld
  <2>3. IsASeq(<<>>)
    BY DEF IsASeq
  <2> QED
    BY Zenon, <1>3, <1>4, <1>5, <2>1, <2>2, <2>3 DEF CycleOK
<1>8. ProgressInv
  <2>1. \A m \in 1..Len(datasets) : datasets[m] \in Dataset
    BY <1>3
  <2>2. cpc \notin Working /\ cpc \notin {"validate", "done"}
    BY <1>3 DEF Working
  <2>3. \A m \in 1..Len(datasets) : ~Past(m)
    BY Zenon, <2>2 DEF Past
  <2> QED
    BY Zenon, <1>4, <2>1, <2>2, <2>3 DEF ProgressInv
<1>9. cpc # "failed"
  BY <1>3
<1> QED
  BY Zenon, <1>2, <1>6, <1>7, <1>8, <1>9 DEF CatalogsInv

\* Every step keeps the invariant.
LEMMA CatalogsInvStep == CatalogsInv /\ CatalogsNext => CatalogsInv'
<1> SUFFICES ASSUME CatalogsInv, CatalogsNext PROVE CatalogsInv'
  BY Zenon
<1>1. CycleOK
  BY Zenon DEF CatalogsInv
<1>2. CASE TablesMove
  BY Zenon, <1>2, TablesMoveStep
<1>3. CASE CatalogNext
  <2>1. UNCHANGED tableVars /\ datasets' = datasets /\ omitted' = omitted /\ disturbed' = disturbed
    BY Zenon, <1>3 DEF CatalogNext
  <2>2. CASE latest_indexed_heights
    BY Zenon, <2>1, <2>2, HeightStep
  <2>3. CASE validate_chain_snapshot /\ UNCHANGED heights
    BY Zenon, <2>1, <2>3, ValidateStep
  <2>4. CASE (PassOver \/ TxidNext \/ WalletNext \/ CommitmentsNext \/ CheckpointsNext) /\ UNCHANGED heights
    <3>1. \A d : Works(d) => datasets[turn] = d
      BY Zenon DEF Works
    <3>2. Works(datasets[turn])
      BY Zenon, <1>1, <2>4, <3>1, PassOverWorks, TxidWorks, WalletWorks, CommitmentsWork, CheckpointsWork
    <3> QED
      BY Zenon, <2>1, <2>4, <3>2, WorkStep
  <2> QED
    BY Zenon, <1>3, <2>2, <2>3, <2>4 DEF CatalogNext
<1> QED
  BY Zenon, <1>2, <1>3 DEF CatalogsNext

-----------------------------------------------------------------------------
(* What the invariant says at the end of a cycle. *)

\* At the end of an undisturbed cycle every configured dataset is finished with.
LEMMA CycleDone ==
    ASSUME CatalogsInv, cpc = "done", disturbed = "no"
    PROVE  /\ Readable /\ CycleOK
           /\ \A m \in 1..Len(datasets) : datasets[m] \in Dataset /\ FinishedWith(datasets[m])
<1>1. TableInv /\ HeightInv /\ CycleOK
  BY Zenon DEF CatalogsInv
<1>2. GoodRows(rows) /\ IsFiniteSet(rows)
  BY Zenon, <1>1, TableRows DEF TableInv
<1>3. cpc # "failed"
  OBVIOUS
<1>4. ProgressInv
  BY Zenon, <1>3 DEF CatalogsInv
<1>5. \A m \in 1..Len(datasets) : datasets[m] \in Dataset
  BY <1>1 DEF CycleOK
<1> QED
  BY Zenon, <1>1, <1>2, <1>4, <1>5 DEF Readable, ProgressInv, Past

\* A finished catalog lists every row of its dataset once.
LEMMA FinishedListsEveryRow ==
    ASSUME Readable, CycleOK, NEW d \in Dataset, d # "checkpoints", FinishedWith(d)
    PROVE  /\ Listed(d) = {Ident(r) : r \in RowsOf(d)}
           /\ Wanted(d) = {Ident(r) : r \in RowsOf(d)}
           /\ \A i \in 1..Len(chunks[d]) - 1 : chunks[d][i].end < chunks[d][i + 1].start
           /\ row_count(chunks[d]) = Cardinality(Wanted(d))
<1>1. RowsOf(d) = WantedRows(d)
  BY Zenon DEF RowsOf
<1>2. ListsAll(chunks[d], RowsOf(d), Place(d)) /\ IsASeq(chunks[d])
  BY Zenon DEF FinishedWith, Finished, CycleOK
<1>3. /\ IsFiniteSet(RowsOf(d)) /\ Place(d) \in [RowsOf(d) -> Nat]
      /\ \A r, s \in RowsOf(d) : Ident(r) = Ident(s) => r = s
  BY Zenon, RowsAndPlaces DEF Readable
<1>4. /\ UNION {chunks[d][i].rows : i \in 1..Len(chunks[d])} = {Ident(r) : r \in RowsOf(d)}
      /\ \A i \in 1..Len(chunks[d]) - 1 : chunks[d][i].end < chunks[d][i + 1].start
      /\ row_count(chunks[d]) = Cardinality({Ident(r) : r \in RowsOf(d)})
  BY Zenon, <1>2, <1>3, EveryRowOnce
<1>5. Wanted(d) = {Ident(r) : r \in RowsOf(d)}
  BY Zenon, <1>1 DEF Wanted
<1> QED
  BY Zenon, <1>4, <1>5 DEF Listed

\* What the invariant says of a finished cycle: its catalogs list every row once.
LEMMA InvListsEveryRow == CatalogsInv => CatalogsListEveryRow
<1> SUFFICES ASSUME CatalogsInv, cpc = "done", disturbed = "no", NEW m \in 1..Len(datasets), datasets[m] # "checkpoints"
             PROVE  LET list == chunks[datasets[m]]
                    IN  /\ Listed(datasets[m]) = Wanted(datasets[m])
                        /\ \A i \in 1..Len(list) - 1 : list[i].end < list[i + 1].start
                        /\ row_count(list) = Cardinality(Wanted(datasets[m]))
  BY Zenon DEF CatalogsListEveryRow
<1>1. Readable /\ CycleOK /\ datasets[m] \in Dataset /\ FinishedWith(datasets[m])
  BY Zenon, CycleDone
<1> QED
  BY Zenon, <1>1, FinishedListsEveryRow

\* The leaves of finished checkpoints are the hashes of the commitments, at their positions.
LEMMA CheckpointLeaves ==
    ASSUME Readable, Checkpoints(chunks["checkpoints"], Checks, {})
    PROVE  /\ Leaves = {<<r.pos, r.bhash>> : r \in Checked}
           /\ \A i \in 1..Len(chunks["checkpoints"]) :
                 LET c == chunks["checkpoints"][i]
                 IN  \A k \in 1..Len(c.root) : c.root[k] = MERKLE_ZERO_VALUE \/ c.root[k][1] = c.start + k - 1
<1> DEFINE list == chunks["checkpoints"]
           n == Len(list)
           hash(r) == <<r.pos, r.bhash>>
<1>1. /\ \A s \in Summaries : s.tree \in Nat /\ s.leaf_count \in Nat \ {0}
      /\ \A r \in Checked : \E s \in Summaries : s.tree = TreeOf(r) /\ PlaceOf(r) < s.leaf_count
      /\ DOMAIN Checks = Summaries
      /\ \A s \in Summaries : Checks[s] = CheckpointOf(s)
  BY Zenon, CheckpointData
<1>2. /\ \A i \in 1..n : \E s \in Summaries : list[i] = Checks[s]
      /\ \A s \in Summaries : Checks[s].root # <<>> /\ \E i \in 1..n : list[i] = Checks[s]
  BY Zenon, <1>1 DEF Checkpoints
<1>3. \A r \in Checked : r \in rows /\ r.family \in Families /\ r.pos \in Nat /\ r.hash = hash(r)
  BY Zenon DEF Checked, Readable, GoodRows
<1>4. \A r : hash(r) # MERKLE_ZERO_VALUE /\ hash(r)[1] = r.pos
  BY DEF MERKLE_ZERO_VALUE
<1>5. ASSUME NEW s \in Summaries
      PROVE  /\ Checks[s].start = s.tree * TREE_LEAF_COUNT
             /\ Filled(Checks[s].root, s.tree * TREE_LEAF_COUNT, s.leaf_count, Checked)
  <2> DEFINE c == commitment_tree_checkpoint(rows, s, heights["checkpoints"].block)
             start == global_tree_position(s.tree, 0)
  <2>1. Filled(c.leaves, s.tree * TREE_LEAF_COUNT, s.leaf_count, Checked) \/ c.leaves = <<>>
    BY Zenon, CheckpointBuilt
  <2>2. Checks[s] = Chunk(start, start + s.leaf_count - 1, {}, c.leaves)
    BY Zenon, <1>1 DEF CheckpointOf
  <2> HIDE DEF c
  <2>3. Checks[s].start = start /\ Checks[s].root = c.leaves
    BY <2>2 DEF Chunk
  <2>4. start = s.tree * TREE_LEAF_COUNT
    BY <1>1, LeafCount DEF global_tree_position
  <2> QED
    BY Zenon, <1>2, <2>1, <2>3, <2>4
<1> HIDE DEF hash
<1>6. ASSUME NEW i \in 1..n, NEW k \in 1..Len(list[i].root)
      PROVE  \/ list[i].root[k] = MERKLE_ZERO_VALUE
             \/ \E r \in Checked : list[i].root[k] = hash(r) /\ r.pos = list[i].start + k - 1
  <2>1. PICK s \in Summaries : list[i] = Checks[s]
    BY Zenon, <1>2
  <2> DEFINE a == s.tree * TREE_LEAF_COUNT
             root == list[i].root
  <2>2. list[i].start = a /\ Filled(root, a, s.leaf_count, Checked)
    BY Zenon, <1>5, <2>1
  <2>3. a \in Nat /\ s.leaf_count \in Nat
    BY <1>1, LeafCount
  <2> HIDE DEF a
  <2>4. k \in 1..s.leaf_count
    BY Zenon, <2>2 DEF Filled
  <2>5. root[k] = MERKLE_ZERO_VALUE \/ \E r \in Checked : r.pos = a + (k - 1) /\ root[k] = r.hash
    BY Zenon, <2>2, <2>4 DEF Filled, LeafAt
  <2>6. a + (k - 1) = a + k - 1
    BY <2>3, <2>4
  <2> QED
    BY Zenon, <1>3, <2>2, <2>5, <2>6
<1>7. \A x : x \in Leaves <=> x # MERKLE_ZERO_VALUE /\ \E i \in 1..n : \E k \in 1..Len(list[i].root) : x = list[i].root[k]
  <2> DEFINE C == {list[i] : i \in 1..n}
             R(c) == {c.root[k] : k \in 1..Len(c.root)}
             U == UNION {R(c) : c \in C}
  <2>1. Leaves = {x \in U : x # MERKLE_ZERO_VALUE}
    BY Zenon DEF Leaves
  <2>2. \A c : \A x : x \in R(c) <=> \E k \in 1..Len(c.root) : x = c.root[k]
    OBVIOUS
  <2> HIDE DEF R
  <2>3. \A x : x \in U <=> \E i \in 1..n : x \in R(list[i])
    OBVIOUS
  <2> HIDE DEF U
  <2>4. ASSUME NEW x PROVE x \in Leaves <=> x # MERKLE_ZERO_VALUE /\ \E i \in 1..n : x \in R(list[i])
    BY Zenon, <2>1, <2>3
  <2>5. ASSUME NEW x, NEW i \in 1..n PROVE x \in R(list[i]) <=> \E k \in 1..Len(list[i].root) : x = list[i].root[k]
    BY Zenon, <2>2
  <2>6. ASSUME NEW x
        PROVE  (\E i \in 1..n : x \in R(list[i])) <=> \E i \in 1..n : \E k \in 1..Len(list[i].root) : x = list[i].root[k]
    BY Zenon, <2>5
  <2> QED
    BY Zenon, <2>4, <2>6
<1>8. ASSUME NEW r \in Checked PROVE hash(r) \in Leaves
  <2>1. PICK s \in Summaries : s.tree = TreeOf(r) /\ PlaceOf(r) < s.leaf_count
    BY Zenon, <1>1
  <2>2. PICK i \in 1..n : list[i] = Checks[s]
    BY Zenon, <1>2
  <2> DEFINE a == s.tree * TREE_LEAF_COUNT
             k == PlaceOf(r) + 1
             root == list[i].root
  <2>3. Filled(root, a, s.leaf_count, Checked)
    BY Zenon, <1>5, <2>2
  <2>4. PlaceOf(r) \in Nat /\ r.pos = a + PlaceOf(r) /\ a \in Nat
    BY Zenon, <1>3, <2>1, PositionInTree
  <2>5. s.leaf_count \in Nat
    BY <1>1
  <2> HIDE DEF a
  <2>6. k \in 1..s.leaf_count /\ r.pos = a + (k - 1)
    BY <2>1, <2>4, <2>5
  <2> HIDE DEF k
  <2>7. root[k] = r.hash /\ k \in 1..Len(root)
    BY Zenon, <2>3, <2>6 DEF Filled, LeafAt
  <2> QED
    BY Zenon, <1>3, <1>4, <1>7, <2>7 DEF hash
<1>9. Leaves = {hash(r) : r \in Checked}
  <2>1. ASSUME NEW x \in Leaves PROVE \E r \in Checked : x = hash(r)
    <3>1. PICK i \in 1..n : \E k \in 1..Len(list[i].root) : x = list[i].root[k]
      BY Zenon, <1>7
    <3>2. PICK k \in 1..Len(list[i].root) : x = list[i].root[k]
      BY Zenon, <3>1
    <3>3. x # MERKLE_ZERO_VALUE
      BY Zenon, <1>7
    <3> QED
      BY Zenon, <1>6, <3>2, <3>3
  <2> QED
    BY Zenon, <1>8, <2>1
<1>10. \A i \in 1..n : \A k \in 1..Len(list[i].root) :
           list[i].root[k] = MERKLE_ZERO_VALUE \/ list[i].root[k][1] = list[i].start + k - 1
  BY Zenon, <1>4, <1>6 DEF hash
<1> QED
  BY Zenon, <1>9, <1>10 DEF hash

\* ... and the roots beside them are over the rows they list.
LEMMA InvRootsAreOfListedRows == CatalogsInv => RootsAreOfListedRows
<1> SUFFICES ASSUME CatalogsInv, cpc = "done", disturbed = "no"
             PROVE  /\ \A i \in 1..Len(chunks["txid"]) :
                          LET c == chunks["txid"][i]
                          IN  /\ SingleTree(c.start, c.end)
                              /\ c.root = UNION {chunks["txid"][j].rows :
                                             j \in {j \in 1..i : SingleTree(chunks["txid"][j].start, c.end)}}
                    /\ heights["commitments"] = heights["checkpoints"] /\ heights["commitments"] # NoHeight =>
                          {<<x[1][2], x[2]>> : x \in Listed("commitments")} = Leaves
                    /\ \A i \in 1..Len(chunks["checkpoints"]) :
                          LET c == chunks["checkpoints"][i]
                          IN  \A k \in 1..Len(c.root) : c.root[k] = MERKLE_ZERO_VALUE \/ c.root[k][1] = c.start + k - 1
  BY Zenon DEF RootsAreOfListedRows
<1>1. Readable /\ CycleOK /\ \A m \in 1..Len(datasets) : datasets[m] \in Dataset /\ FinishedWith(datasets[m])
  BY Zenon, CycleDone
<1>2. "txid" \in Dataset /\ "commitments" \in Dataset /\ "checkpoints" \in Dataset
  BY DEF Dataset
<1>3. \A d \in Dataset : FinishedWith(d) \/ chunks[d] = <<>>
  BY Zenon, <1>1 DEF CycleOK
<1>4. 1..Len(<<>>) = {}
  OBVIOUS
<1>5. ASSUME NEW i \in 1..Len(chunks["txid"])
      PROVE  LET c == chunks["txid"][i]
             IN  /\ SingleTree(c.start, c.end)
                 /\ c.root = UNION {chunks["txid"][j].rows :
                                j \in {j \in 1..i : SingleTree(chunks["txid"][j].start, c.end)}}
  <2> DEFINE list == chunks["txid"]
  <2>1. FinishedWith("txid")
    BY Zenon, <1>2, <1>3, <1>4
  <2>2. "txid" # "checkpoints"
    OBVIOUS
  <2>3. ListsAll(list, RowsOf("txid"), Place("txid")) /\ Rooted(list, RowsOf("txid"), Place("txid"))
    BY Zenon, <2>1, <2>2 DEF FinishedWith, Finished
  <2>4. IsASeq(list) /\ Place("txid") \in [RowsOf("txid") -> Nat]
    BY Zenon, <1>1, <1>2, TxidData DEF CycleOK
  <2>5. SingleTree(list[i].start, list[i].end)
    BY Zenon, <2>3 DEF Rooted
  <2>6. list[i].root = UNION {list[j].rows : j \in {j \in 1..i : SingleTree(list[j].start, list[i].end)}}
    <3> DEFINE W == RowsOf("txid")
               f == Place("txid")
    <3>1. f \in [W -> Nat] /\ IsASeq(list) /\ ListsAll(list, W, f) /\ Rooted(list, W, f) /\ i \in 1..Len(list)
      BY Zenon, <2>3, <2>4
    <3> HIDE DEF W, f, list
    <3> QED
      BY <3>1, RootsOfLists
  <2> QED
    BY Zenon, <2>5, <2>6
<1>6. FinishedWith("checkpoints") =>
        /\ Leaves = {<<r.pos, r.bhash>> : r \in Checked}
        /\ \A i \in 1..Len(chunks["checkpoints"]) :
              LET c == chunks["checkpoints"][i]
              IN  \A k \in 1..Len(c.root) : c.root[k] = MERKLE_ZERO_VALUE \/ c.root[k][1] = c.start + k - 1
  <2> SUFFICES ASSUME FinishedWith("checkpoints")
               PROVE  Checkpoints(chunks["checkpoints"], Checks, {})
    BY Zenon, <1>1, CheckpointLeaves
  <2> QED
    BY Zenon DEF FinishedWith, Finished
<1>7. ASSUME heights["commitments"] = heights["checkpoints"], heights["commitments"] # NoHeight
      PROVE  {<<x[1][2], x[2]>> : x \in Listed("commitments")} = Leaves
  <2>1. FinishedWith("commitments") /\ FinishedWith("checkpoints")
    BY Zenon, <1>1, <1>2, <1>7 DEF Readable, HeightInv
  <2>2. "commitments" # "checkpoints"
    OBVIOUS
  <2>3. Listed("commitments") = {Ident(r) : r \in RowsOf("commitments")}
    BY Zenon, <1>1, <1>2, <2>1, <2>2, FinishedListsEveryRow
  <2>4. RowsOf("commitments") = Checked
    BY Zenon, <1>1, <1>7, CommitmentData DEF Checked
  <2>5. Leaves = {<<r.pos, r.bhash>> : r \in Checked}
    BY Zenon, <1>6, <2>1
  <2>6. \A r : Ident(r)[1][2] = r.pos /\ Ident(r)[2] = r.bhash
    BY DEF Ident, Key
  <2>7. \A x : x \in {<<y[1][2], y[2]>> : y \in Listed("commitments")} <=> \E r \in Checked : x = <<r.pos, r.bhash>>
    BY Zenon, <2>3, <2>4, <2>6
  <2> QED
    BY Zenon, <2>5, <2>7
<1>8. ASSUME NEW i \in 1..Len(chunks["checkpoints"])
      PROVE  LET c == chunks["checkpoints"][i]
             IN  \A k \in 1..Len(c.root) : c.root[k] = MERKLE_ZERO_VALUE \/ c.root[k][1] = c.start + k - 1
  <2>1. FinishedWith("checkpoints")
    BY Zenon, <1>2, <1>3, <1>4
  <2> QED
    BY Zenon, <1>6, <2>1
<1> QED
  BY Zenon, <1>5, <1>7, <1>8

\* What the invariant says of a failed cycle: the tables moved, or one of three reasons holds.
LEMMA InvUndisturbedCycleSucceeds == CatalogsInv => UndisturbedCycleSucceeds
<1> SUFFICES ASSUME CatalogsInv, cpc = "failed", disturbed = "no"
             PROVE  \/ failure = "MissingBlockTimestamp" /\ \E r \in rows : InWalletScan(r) /\ r.time = NoTime
                    \/ failure = "omission" /\ ~validate_public_txid_compatibility_omissions
                    \/ /\ failure \in {"NonIncreasingGlobalPosition", "DuplicateCommitmentTreePosition"}
                       /\ PositionTaken(heights[datasets[turn]].block)
  BY Zenon DEF UndisturbedCycleSucceeds
<1>1. Excuse(failure)
  BY Zenon DEF CatalogsInv
<1>2. RowsOf("wallet") = wallet_scan_rows(rows, 1, heights["wallet"].block)
  BY DEF RowsOf, WantedRows
<1>3. \A r \in RowsOf("wallet") : r \in rows /\ InWalletScan(r)
  BY Zenon, <1>2 DEF wallet_scan_rows
<1> QED
  BY Zenon, <1>1, <1>3 DEF Excuse

-----------------------------------------------------------------------------
\* In every state of a cycle CatalogsInv holds, over tables that hold one row of a key: rows of
\* two branches may be among them.
THEOREM CycleInvariant == CatalogsSpec => []CatalogsInv
<1>1. CatalogsInv /\ UNCHANGED <<rowVars, catalogVars>> => CatalogsInv'
  <2> SUFFICES ASSUME CatalogsInv, UNCHANGED <<rowVars, catalogVars>> PROVE CatalogsInv'
    BY Zenon
  <2>1. UNCHANGED tableVars /\ UNCHANGED catalogVars
    BY Zenon DEF rowVars
  <2> QED
    BY Zenon, <2>1, StutterStep
<1> QED
  BY <1>1, CatalogsInvInit, CatalogsInvStep, PTL DEF CatalogsSpec

\* A cycle that ends while the tables stayed as they were below its heights has listed every
\* row of every dataset once: for all row limits, trees, layouts of rows and ways to fill chunks.
THEOREM EveryRowIsListedOnce == CatalogsSpec => []CatalogsListEveryRow
BY CycleInvariant, InvListsEveryRow, PTL

\* The root of a chunk of public TXIDs and the leaves of a Merkle checkpoint are of the rows
\* the catalogs list.
THEOREM RootsAreOfRows == CatalogsSpec => []RootsAreOfListedRows
BY CycleInvariant, InvRootsAreOfListedRows, PTL

\* A cycle fails only for tables that moved under it, a row without a timestamp, an omission of
\* another chain, or two commitments at one position, which batches of two branches can leave.
THEOREM CycleFailsForAReason == CatalogsSpec => []UndisturbedCycleSucceeds
BY CycleInvariant, InvUndisturbedCycleSucceeds, PTL

-----------------------------------------------------------------------------
(* The root of a checkpoint. *)

\* The levels of checkpoint_root up to one of them.
FoldsUpTo(m, leaves, f) ==
    f = [level \in 0..m |->
            IF level = 0 THEN [layer |-> leaves, empty |-> MERKLE_ZERO_VALUE] ELSE FoldLevel(f[level - 1])]

\* Levels can be folded up to any of them.
LEMMA LevelsFold ==
    ASSUME NEW leaves, NEW m \in Nat
    PROVE  \E f : FoldsUpTo(m, leaves, f)
<1> DEFINE S == {x \in Nat : ~\E f : FoldsUpTo(x, leaves, f)}
           leaf == [layer |-> leaves, empty |-> MERKLE_ZERO_VALUE]
<1> SUFFICES ASSUME S # {} PROVE FALSE
  BY Zenon
<1>1. PICK x \in S : \A y \in S : x <= y
  <2>1. S \in SUBSET Nat
    BY Zenon
  <2> QED
    BY Zenon, <2>1, LeastNumber
<1>2. x \in Nat /\ ~\E f : FoldsUpTo(x, leaves, f)
  BY Zenon, <1>1
<1>3. x # 0
  <2> DEFINE f == [level \in 0..0 |-> leaf]
  <2>1. \A level \in 0..0 : level = 0
    BY SMT
  <2>2. f = [level \in 0..0 |-> IF level = 0 THEN leaf ELSE FoldLevel(f[level - 1])]
    BY Zenon, <2>1
  <2>3. FoldsUpTo(0, leaves, f)
    BY Zenon, <2>2 DEF FoldsUpTo
  <2> QED
    BY Zenon, <1>2, <2>3
<1>4. x - 1 \in Nat /\ ~(x <= x - 1)
  BY <1>2, <1>3
<1>5. PICK f : FoldsUpTo(x - 1, leaves, f)
  BY Zenon, <1>1, <1>4
<1> DEFINE g == [level \in 0..x |-> IF level = x THEN FoldLevel(f[x - 1]) ELSE f[level]]
           G(level) == IF level = 0 THEN leaf ELSE FoldLevel(g[level - 1])
<1>6. ASSUME NEW c \in 0..x PROVE g[c] = G(c)
  <2>1. \A d \in 0..(x - 1) : f[d] = IF d = 0 THEN leaf ELSE FoldLevel(f[d - 1])
    BY Zenon, <1>5 DEF FoldsUpTo
  <2>2. c \in 0..x /\ (c # x => c \in 0..(x - 1)) /\ (c # 0 => c - 1 \in 0..x /\ c - 1 # x)
    BY <1>2, <1>3, <1>6
  <2>3. c # 0 => g[c - 1] = f[c - 1]
    BY Zenon, <2>2
  <2>4. g[c] = IF c = x THEN FoldLevel(f[x - 1]) ELSE f[c]
    BY Zenon, <2>2
  <2> HIDE DEF g, leaf
  <2>5. CASE c = x
    BY Zenon, <1>3, <2>3, <2>4, <2>5
  <2>6. CASE c # x
    BY Zenon, <2>1, <2>2, <2>3, <2>4, <2>6
  <2> QED
    BY Zenon, <2>5, <2>6
<1>7. g = [level \in 0..x |-> G(level)]
  BY Zenon, <1>6
<1>8. FoldsUpTo(x, leaves, g)
  <2> HIDE DEF g
  <2> QED
    BY Zenon, <1>7 DEF FoldsUpTo
<1> QED
  BY Zenon, <1>2, <1>8

\* The levels of a tree up to one of them.
NodesUpTo(m, leaf, f) ==
    f = [level \in 0..m |->
            IF level = 0 THEN leaf
            ELSE [k \in Nat |-> poseidon(f[level - 1][2 * k], f[level - 1][2 * k + 1])]]

\* A tree has nodes on every level.
LEMMA LevelsHaveNodes ==
    ASSUME NEW leaf, NEW m \in Nat
    PROVE  \E f : NodesUpTo(m, leaf, f)
<1> DEFINE S == {x \in Nat : ~\E f : NodesUpTo(x, leaf, f)}
           Above(row) == [k \in Nat |-> poseidon(row[2 * k], row[2 * k + 1])]
<1> SUFFICES ASSUME S # {} PROVE FALSE
  BY Zenon
<1>1. PICK x \in S : \A y \in S : x <= y
  <2>1. S \in SUBSET Nat
    BY Zenon
  <2> QED
    BY Zenon, <2>1, LeastNumber
<1>2. x \in Nat /\ ~\E f : NodesUpTo(x, leaf, f)
  BY Zenon, <1>1
<1>3. x # 0
  <2> DEFINE f == [level \in 0..0 |-> leaf]
  <2>1. \A level \in 0..0 : level = 0
    BY SMT
  <2>2. f = [level \in 0..0 |-> IF level = 0 THEN leaf ELSE Above(f[level - 1])]
    BY Zenon, <2>1
  <2>3. NodesUpTo(0, leaf, f)
    BY Zenon, <2>2 DEF NodesUpTo
  <2> QED
    BY Zenon, <1>2, <2>3
<1>4. x - 1 \in Nat /\ ~(x <= x - 1)
  BY <1>2, <1>3
<1>5. PICK f : NodesUpTo(x - 1, leaf, f)
  BY Zenon, <1>1, <1>4
<1> DEFINE g == [level \in 0..x |-> IF level = x THEN Above(f[x - 1]) ELSE f[level]]
           G(level) == IF level = 0 THEN leaf ELSE Above(g[level - 1])
<1>6. ASSUME NEW c \in 0..x PROVE g[c] = G(c)
  <2>1. \A d \in 0..(x - 1) : f[d] = IF d = 0 THEN leaf ELSE Above(f[d - 1])
    BY Zenon, <1>5 DEF NodesUpTo
  <2>2. c \in 0..x /\ (c # x => c \in 0..(x - 1)) /\ (c # 0 => c - 1 \in 0..x /\ c - 1 # x)
    BY <1>2, <1>3, <1>6
  <2>3. c # 0 => g[c - 1] = f[c - 1]
    BY Zenon, <2>2
  <2>4. g[c] = IF c = x THEN Above(f[x - 1]) ELSE f[c]
    BY Zenon, <2>2
  <2> HIDE DEF g, Above
  <2>5. CASE c = x
    BY Zenon, <1>3, <2>3, <2>4, <2>5
  <2>6. CASE c # x
    BY Zenon, <2>1, <2>2, <2>3, <2>4, <2>6
  <2> QED
    BY Zenon, <2>5, <2>6
<1>7. g = [level \in 0..x |-> G(level)]
  BY Zenon, <1>6
<1>8. NodesUpTo(x, leaf, g)
  <2> HIDE DEF g
  <2> QED
    BY Zenon, <1>7 DEF NodesUpTo
<1> QED
  BY Zenon, <1>2, <1>8

\* A level of nodes is a layer, followed by roots of empty subtrees.
IsLevel(s, row) ==
    /\ IsASeq(s.layer)
    /\ Len(s.layer) \in Nat \ {0}
    /\ \A k \in Nat : row[k] = IF k < Len(s.layer) THEN s.layer[k + 1] ELSE s.empty

Above(row) == [k \in Nat |-> poseidon(row[2 * k], row[2 * k + 1])]

Even(layer, e) == IF Len(layer) % 2 = 0 THEN layer ELSE Append(layer, e)

\* A layer is completed to an even one.
LEMMA EvenLayer ==
    ASSUME NEW layer, IsASeq(layer), Len(layer) \in Nat \ {0}, NEW e
    PROVE  LET even == Even(layer, e) IN
           \E m \in Nat \ {0} :
              /\ Len(even) = 2 * m
              /\ 2 * m = Len(layer) \/ 2 * m = Len(layer) + 1
              /\ \A k \in 1..Len(layer) : even[k] = layer[k]
              /\ 2 * m = Len(layer) + 1 => even[2 * m] = e
<1>1. PICK T : layer \in Seq(T)
  BY Zenon DEF IsASeq
<1> DEFINE n == Len(layer)
           even == Even(layer, e)
<1>2. layer \in Seq(T \cup {e}) /\ e \in T \cup {e} /\ n \in Nat \ {0}
  BY <1>1
<1>3. CASE n % 2 = 0
  <2>1. PICK m \in Nat : n = 2 * m
    <3>1. n = 2 * (n \div 2) /\ n \div 2 \in Nat
      BY <1>2, <1>3
    <3> QED
      BY Zenon, <3>1
  <2>2. m # 0 /\ even = layer
    BY <1>2, <1>3, <2>1 DEF Even
  <2>3. m \in Nat \ {0} /\ 2 * m = n /\ 2 * m # n + 1
    BY <2>1, <2>2
  <2> QED
    BY Zenon, <2>2, <2>3
<1>4. CASE n % 2 # 0
  <2>1. PICK m \in Nat : n + 1 = 2 * m
    <3>1. n + 1 = 2 * ((n \div 2) + 1) /\ (n \div 2) + 1 \in Nat
      BY <1>2, <1>4
    <3> QED
      BY Zenon, <3>1
  <2>2. m # 0 /\ even = Append(layer, e)
    BY <1>2, <1>4, <2>1 DEF Even
  <2>3. Len(even) = n + 1 /\ even[n + 1] = e /\ \A k \in 1..n : even[k] = layer[k]
    BY <1>2, <2>2
  <2> HIDE DEF n
  <2>4. Len(even) = 2 * m /\ 2 * m = n + 1 /\ even[2 * m] = e
    BY <2>1, <2>3
  <2> QED
    BY Zenon, <2>1, <2>2, <2>3, <2>4 DEF n
<1> QED
  BY Zenon, <1>3, <1>4

\* checkpoint_root goes up a level as the tree does.
LEMMA LevelAbove ==
    ASSUME NEW s, NEW row, IsLevel(s, row)
    PROVE  IsLevel(FoldLevel(s), Above(row))
<1> DEFINE layer == s.layer
           n == Len(layer)
           even == Even(s.layer, s.empty)
           up == Parents(even)
           t == FoldLevel(s)
           above == Above(row)
<1>1. t = [layer |-> up, empty |-> poseidon(s.empty, s.empty)]
  BY Zenon DEF FoldLevel, Even
<1>2. t.layer = up /\ t.empty = poseidon(s.empty, s.empty)
  BY <1>1
<1>3. IsASeq(layer) /\ n \in Nat \ {0} /\ \A k \in Nat : row[k] = IF k < n THEN layer[k + 1] ELSE s.empty
  BY Zenon DEF IsLevel
<1>4. PICK m \in Nat \ {0} :
              /\ Len(even) = 2 * m
              /\ 2 * m = n \/ 2 * m = n + 1
              /\ \A k \in 1..n : even[k] = layer[k]
              /\ 2 * m = n + 1 => even[2 * m] = s.empty
  BY Zenon, <1>3, EvenLayer
<1> DEFINE P(k) == poseidon(even[2 * k - 1], even[2 * k])
<1>5. up = [k \in 1..m |-> P(k)]
  <2> HIDE DEF even
  <2>1. Len(even) \div 2 = m
    <3>1. Len(even) = 2 * m /\ m \in Nat
      BY Zenon, <1>4
    <3> QED
      BY <3>1
  <2> QED
    BY Zenon, <2>1 DEF Parents
<1> HIDE DEF even, t, n, layer, P, up
<1>6. Len(up) = m /\ IsASeq(up)
  <2> DEFINE R == {P(k) : k \in 1..m}
  <2>1. up \in [1..m -> R]
    BY Zenon, <1>5
  <2> HIDE DEF R
  <2>2. m \in Nat
    BY Zenon, <1>4
  <2>3. up \in Seq(R) /\ Len(up) = m
    BY <2>1, <2>2
  <2> QED
    BY Zenon, <2>3 DEF IsASeq
<1>7. \A k \in Nat : above[k] = poseidon(row[2 * k], row[2 * k + 1])
  BY Zenon DEF Above
<1> HIDE DEF above
<1>8. ASSUME NEW k \in Nat, k < m PROVE above[k] = up[k + 1]
  <2>1. k + 1 \in 1..m /\ 2 * (k + 1) - 1 = 2 * k + 1 /\ 2 * (k + 1) = 2 * k + 2
    BY <1>4, <1>8
  <2>2. up[k + 1] = poseidon(even[2 * k + 1], even[2 * k + 2])
    BY Zenon, <1>5, <2>1 DEF P
  <2>3. 2 * k \in Nat /\ 2 * k + 1 \in Nat /\ 2 * k < n /\ 2 * k + 1 \in 1..n /\ (2 * k + 1) + 1 = 2 * k + 2
    BY <1>3, <1>4, <1>8
  <2>4. row[2 * k] = even[2 * k + 1]
    BY Zenon, <1>3, <1>4, <2>3
  <2>5. row[2 * k + 1] = even[2 * k + 2]
    <3>1. CASE 2 * k + 1 < n
      <4>1. 2 * k + 2 \in 1..n
        BY <1>3, <2>3, <3>1
      <4> QED
        BY Zenon, <1>3, <1>4, <2>3, <3>1, <4>1
    <3>2. CASE ~(2 * k + 1 < n)
      <4>1. 2 * k + 2 = 2 * m /\ 2 * m = n + 1
        BY <1>3, <1>4, <1>8, <2>3, <3>2
      <4> QED
        BY Zenon, <1>3, <1>4, <2>3, <3>2, <4>1
    <3> QED
      BY Zenon, <3>1, <3>2
  <2> QED
    BY Zenon, <1>7, <2>2, <2>4, <2>5
<1>9. ASSUME NEW k \in Nat, ~(k < m) PROVE above[k] = poseidon(s.empty, s.empty)
  <2>1. 2 * k \in Nat /\ 2 * k + 1 \in Nat /\ ~(2 * k < n) /\ ~(2 * k + 1 < n)
    BY <1>3, <1>4, <1>9
  <2> QED
    BY Zenon, <1>3, <1>7, <2>1
<1>10. \A k \in Nat : above[k] = IF k < Len(t.layer) THEN t.layer[k + 1] ELSE t.empty
  BY Zenon, <1>2, <1>6, <1>8, <1>9
<1> QED
  BY Zenon, <1>2, <1>4, <1>6, <1>10 DEF IsLevel, t, above

\* The root of some leaves is that of the tree they begin.
LEMMA FoldIsRoot ==
    ASSUME NEW leaves, NEW leaf, IsLevel([layer |-> leaves, empty |-> MERKLE_ZERO_VALUE], leaf)
    PROVE  checkpoint_root(leaves) = FullRoot(leaf)
<1> DEFINE D == TREE_DEPTH
           s == [layer |-> leaves, empty |-> MERKLE_ZERO_VALUE]
           Fold(f) == f = [level \in 0..D |-> IF level = 0 THEN s ELSE FoldLevel(f[level - 1])]
           Node(f) == f = [level \in 0..D |-> IF level = 0 THEN leaf
                              ELSE [k \in Nat |-> poseidon(f[level - 1][2 * k], f[level - 1][2 * k + 1])]]
           fold == CHOOSE f : Fold(f)
           node == CHOOSE f : Node(f)
           top == fold[D]
<1>1. D \in Nat
  BY TreeAssumption
<1>2. Fold(fold)
  <2>1. \E f : Fold(f)
    BY Zenon, <1>1, LevelsFold DEF FoldsUpTo
  <2> QED
    BY Zenon, <2>1
<1>3. Node(node)
  <2>1. PICK f : NodesUpTo(D, leaf, f)
    BY Zenon, <1>1, LevelsHaveNodes
  <2>2. Node(f)
    BY Zenon, <2>1 DEF NodesUpTo
  <2> HIDE DEF Node
  <2> QED
    BY Zenon, <2>2
<1>4. checkpoint_root(leaves) = IF top.layer = <<>> THEN MERKLE_ZERO_VALUE ELSE Head(top.layer)
  BY Zenon DEF checkpoint_root
<1>5. FullRoot(leaf) = node[D][0]
  BY Zenon DEF FullRoot
<1>6. \A c \in 0..D : fold[c] = IF c = 0 THEN s ELSE FoldLevel(fold[c - 1])
  BY Zenon, <1>2
<1>7. \A c \in 0..D : node[c] = IF c = 0 THEN leaf ELSE Above(node[c - 1])
  BY Zenon, <1>3 DEF Above
<1> HIDE DEF fold, node, s
<1>8. \A c \in 0..D : IsLevel(fold[c], node[c])
  <2> DEFINE S == {c \in 0..D : ~IsLevel(fold[c], node[c])}
  <2> SUFFICES ASSUME S # {} PROVE FALSE
    BY Zenon
  <2>1. S \in SUBSET Nat
    BY <1>1
  <2>2. PICK x \in S : \A y \in S : x <= y
    BY Zenon, <2>1, LeastNumber
  <2>3. x \in 0..D /\ ~IsLevel(fold[x], node[x])
    BY Zenon, <2>2
  <2>4. x # 0
    BY Zenon, <1>6, <1>7, <2>3 DEF s
  <2>5. x - 1 \in 0..D /\ ~(x <= x - 1)
    BY <1>1, <2>3, <2>4
  <2>6. IsLevel(fold[x - 1], node[x - 1])
    BY Zenon, <2>2, <2>5
  <2> QED
    BY Zenon, <1>6, <1>7, <2>3, <2>4, <2>6, LevelAbove
<1>9. IsLevel(top, node[D])
  BY <1>1, <1>8
<1> HIDE DEF top
<1>10. PICK T : top.layer \in Seq(T)
  BY Zenon, <1>9 DEF IsLevel, IsASeq
<1>11. Len(top.layer) \in Nat \ {0} /\ 0 < Len(top.layer)
  BY <1>9 DEF IsLevel
<1>12. node[D][0] = top.layer[1]
  BY <1>9, <1>11 DEF IsLevel
<1>13. top.layer # <<>> /\ Head(top.layer) = top.layer[1]
  BY <1>10, <1>11
<1> QED
  BY Zenon, <1>4, <1>5, <1>12, <1>13

\* The rows of the tree are commitments of tree 1, at most one per family and place.
TreeInv ==
    /\ IsFiniteSet(treeRows)
    /\ \A r \in treeRows :
          /\ r.family \in Families /\ r.block <= 1
          /\ r.pos \in Nat /\ TreeOf(r) = 1

\* The tree is one at first.
LEMMA TreeInvInit == CheckpointInit => TreeInv
<1> SUFFICES ASSUME CheckpointInit PROVE TreeInv
  OBVIOUS
<1> DEFINE row(x) == [family |-> x[1], pos |-> TREE_LEAF_COUNT + x[2], block |-> 1, hash |-> x]
           Cells == CheckpointFamilies \X (0..TREE_LEAF_COUNT - 1)
<1>1. PICK S \in SUBSET Cells : treeRows = {row(x) : x \in S}
  BY Zenon DEF CheckpointInit
<1>2. TREE_LEAF_COUNT \in Nat \ {0}
  BY Zenon, LeafCount
<1>3. IsFiniteSet(CheckpointFamilies)
  <2>1. IsFiniteSet({} \cup {"transact"})
    BY Zenon, FS_EmptySet, FS_AddElement
  <2>2. IsFiniteSet(({} \cup {"transact"}) \cup {"shield"})
    BY Zenon, <2>1, FS_AddElement
  <2>3. IsFiniteSet((({} \cup {"transact"}) \cup {"shield"}) \cup {"encrypted"})
    BY Zenon, <2>2, FS_AddElement
  <2>4. IsFiniteSet(((({} \cup {"transact"}) \cup {"shield"}) \cup {"encrypted"}) \cup {"generated"})
    BY Zenon, <2>3, FS_AddElement
  <2>5. CheckpointFamilies \in SUBSET (((({} \cup {"transact"}) \cup {"shield"}) \cup {"encrypted"}) \cup {"generated"})
    BY Zenon, CheckpointAssumption DEF Families
  <2> QED
    BY Zenon, <2>4, <2>5, FS_Subset
<1>4. IsFiniteSet(S)
  <2>1. IsFiniteSet(0..TREE_LEAF_COUNT - 1)
    BY <1>2, FS_Interval
  <2>2. IsFiniteSet(Cells)
    BY Zenon, <1>3, <2>1, FS_Product
  <2> HIDE DEF Cells
  <2> QED
    BY Zenon, <2>2, FS_Subset
<1>5. IsFiniteSet(treeRows)
  <2> DEFINE f == [x \in S |-> row(x)]
  <2>1. treeRows = {f[x] : x \in S}
    BY Zenon, <1>1
  <2> HIDE DEF f
  <2> QED
    BY Zenon, <1>4, <2>1, ImageIsFinite
<1>6. ASSUME NEW r \in treeRows
      PROVE  r.family \in Families /\ r.block <= 1 /\ r.pos \in Nat /\ TreeOf(r) = 1
  <2>1. PICK x \in S : r = row(x)
    BY Zenon, <1>1
  <2>2. x[1] \in CheckpointFamilies /\ x[2] \in 0..TREE_LEAF_COUNT - 1
    BY <1>1
  <2>3. r.family = x[1] /\ r.block = 1 /\ r.pos = TREE_LEAF_COUNT + x[2]
    BY <2>1
  <2>4. r.pos \in Nat /\ TREE_LEAF_COUNT <= r.pos /\ r.pos < TREE_LEAF_COUNT + TREE_LEAF_COUNT
    BY <1>2, <2>2, <2>3
  <2>5. 1 * TREE_LEAF_COUNT = TREE_LEAF_COUNT /\ 1 \in Nat
    BY <1>2
  <2>6. r.pos \div TREE_LEAF_COUNT = 1
    BY Zenon, <2>4, <2>5, TreeOfPosition
  <2>7. normalized_global_position(r.pos) = <<0 + (r.pos \div TREE_LEAF_COUNT), r.pos % TREE_LEAF_COUNT>>
    BY Zenon DEF normalized_global_position, normalize_tree_position
  <2>8. TreeOf(r) = 1
    BY <2>6, <2>7 DEF TreeOf
  <2>9. r.block <= 1
    BY <2>3
  <2> QED
    BY Zenon, <2>2, <2>3, <2>4, <2>8, <2>9, CheckpointAssumption
<1> QED
  BY Zenon, <1>5, <1>6 DEF TreeInv

\* The leaves of the tree, place by place.
StoredLeaf ==
    [p \in Nat |-> IF \E r \in treeRows : PlaceOf(r) = p
                   THEN (CHOOSE r \in treeRows : PlaceOf(r) = p).hash
                   ELSE MERKLE_ZERO_VALUE]

\* A checkpoint without two commitments at a place has the leaves of the tree.
LEMMA CheckpointIsLevel ==
    ASSUME TreeInv, NEW summary \in commitment_tree_summaries(treeRows, 1),
           commitment_tree_checkpoint(treeRows, summary, 1).err = "none"
    PROVE  IsLevel([layer |-> commitment_tree_checkpoint(treeRows, summary, 1).leaves,
                    empty |-> MERKLE_ZERO_VALUE], StoredLeaf)
<1> DEFINE n == summary.leaf_count
           start == global_tree_position(summary.tree, 0)
           found == commitment_rows(treeRows, start, start + n - 1, 1)
           at(p) == {r \in found : r.pos = start + p}
           of(p) == {r \in treeRows : PlaceOf(r) = p}
           leaf(k) == IF at(k - 1) = {} THEN MERKLE_ZERO_VALUE ELSE (CHOOSE r \in at(k - 1) : TRUE).hash
           c == commitment_tree_checkpoint(treeRows, summary, 1)
           leaves == [k \in 1..n |-> leaf(k)]
<1>1. commitment_tree_summaries(treeRows, 1) = SummariesOf(treeRows)
  <2>1. treeRows = {r \in treeRows : r.family \in Families /\ r.block <= 1}
    BY Zenon DEF TreeInv
  <2> QED
    BY Zenon, <2>1 DEF commitment_tree_summaries, SummariesOf
<1>2. /\ \A s \in SummariesOf(treeRows) : s.tree \in Nat /\ s.leaf_count \in Nat \ {0}
      /\ \A s, u \in SummariesOf(treeRows) : s.tree = u.tree => s = u
      /\ \A r \in treeRows : \E s \in SummariesOf(treeRows) : s.tree = TreeOf(r) /\ PlaceOf(r) < s.leaf_count
  BY TreeSummaries DEF TreeInv
<1>3. summary.tree = 1 /\ n \in Nat \ {0}
  <2>1. summary \in SummariesOf(treeRows)
    BY Zenon, <1>1
  <2> DEFINE count(t) == Max({PlaceOf(r) : r \in {r \in treeRows : TreeOf(r) = t}}) + 1
  <2>2. PICK t \in {TreeOf(r) : r \in treeRows} : summary = [tree |-> t, leaf_count |-> count(t)]
    BY Zenon, <2>1 DEF SummariesOf
  <2> HIDE DEF count
  <2>3. summary.tree = t /\ \E r \in treeRows : t = TreeOf(r)
    BY Zenon, <2>2
  <2> QED
    BY Zenon, <1>2, <2>1, <2>3 DEF TreeInv
<1>4. start = TREE_LEAF_COUNT /\ TREE_LEAF_COUNT \in Nat \ {0}
  BY <1>3, LeafCount DEF global_tree_position
<1>5. ASSUME NEW r \in treeRows
      PROVE  r.pos = TREE_LEAF_COUNT + PlaceOf(r) /\ PlaceOf(r) \in Nat /\ PlaceOf(r) < n
  <2>1. r.pos \in Nat /\ TreeOf(r) = 1
    BY Zenon DEF TreeInv
  <2>2. r.pos = TreeOf(r) * TREE_LEAF_COUNT + PlaceOf(r) /\ PlaceOf(r) \in Nat
    BY Zenon, <2>1, PositionInTree
  <2>3. 1 * TREE_LEAF_COUNT = TREE_LEAF_COUNT
    BY LeafCount
  <2>4. PICK s \in SummariesOf(treeRows) : s.tree = 1 /\ PlaceOf(r) < s.leaf_count
    BY Zenon, <1>2, <2>1
  <2>5. s = summary
    BY Zenon, <1>1, <1>2, <1>3, <2>4
  <2> QED
    BY Zenon, <2>1, <2>2, <2>3, <2>4, <2>5
<1>6. c = IF \E p \in 0..n - 1 : Cardinality(at(p)) > 1
          THEN [err |-> "DuplicateCommitmentTreePosition", leaves |-> <<>>]
          ELSE [err |-> "none", leaves |-> leaves]
  BY Zenon DEF commitment_tree_checkpoint
<1>7. \A r : r \in found <=> r \in treeRows /\ r.family \in Families /\ r.pos \in start..start + n - 1 /\ r.block <= 1
  BY Zenon DEF commitment_rows
<1>8. \A p : \A r : r \in at(p) <=> r \in found /\ r.pos = start + p
  BY Zenon
<1> HIDE DEF n, start, found, at, leaf, c, leaves
<1>9. ASSUME NEW p \in 0..n - 1 PROVE at(p) = of(p)
  <2>1. ASSUME NEW r \in treeRows PROVE r.pos = start + p <=> PlaceOf(r) = p
    BY <1>3, <1>4, <1>5
  <2>2. start + p \in start..start + n - 1
    BY <1>3, <1>4
  <2>3. ASSUME NEW r PROVE r \in at(p) <=> r \in of(p)
    <3>1. r \in of(p) => r \in found /\ r.pos = start + p
      BY Zenon, <1>7, <2>1, <2>2 DEF TreeInv
    <3> QED
      BY Zenon, <1>7, <1>8, <2>1, <3>1
  <2> QED
    BY Zenon, <2>3
<1>10. c.err = "none" => c.leaves = leaves /\ \A p \in 0..n - 1 : ~(Cardinality(at(p)) > 1)
  <2>1. CASE \E p \in 0..n - 1 : Cardinality(at(p)) > 1
    <3>1. c = [err |-> "DuplicateCommitmentTreePosition", leaves |-> <<>>]
      BY Zenon, <1>6, <2>1
    <3> QED
      BY <3>1
  <2>2. CASE ~\E p \in 0..n - 1 : Cardinality(at(p)) > 1
    <3>1. c = [err |-> "none", leaves |-> leaves]
      BY Zenon, <1>6, <2>2
    <3>2. c.leaves = leaves
      BY <3>1
    <3> QED
      BY Zenon, <2>2, <3>2
  <2> QED
    BY Zenon, <2>1, <2>2
<1>11. c.leaves = leaves /\ \A p \in 0..n - 1 : ~(Cardinality(of(p)) > 1)
  BY Zenon, <1>9, <1>10 DEF c
<1>12. ASSUME NEW p \in 0..n - 1, NEW r \in of(p), NEW u \in of(p) PROVE r = u
  <2>1. IsFiniteSet(of(p))
    BY Zenon, FS_Subset DEF TreeInv
  <2> HIDE DEF of
  <2>2. Cardinality(of(p)) \in Nat /\ ~(Cardinality(of(p)) > 1)
    BY Zenon, <1>11, <2>1, FS_CardinalityType
  <2>3. Cardinality(of(p)) # 0
    BY Zenon, <2>1, FS_EmptySet
  <2>4. Cardinality(of(p)) = 1
    BY <2>2, <2>3
  <2>5. PICK x : of(p) = {x}
    BY Zenon, <2>1, <2>4, FS_Singleton
  <2>6. r = x /\ u = x
    BY Zenon, <1>12, <2>5
  <2> QED
    BY Zenon, <2>6
<1>13. ASSUME NEW p \in Nat, p < n PROVE StoredLeaf[p] = leaf(p + 1)
  <2>1. p \in 0..n - 1 /\ (p + 1) - 1 = p
    BY <1>3, <1>13
  <2>2. at((p + 1) - 1) = of(p)
    BY Zenon, <1>9, <2>1
  <2>3. StoredLeaf[p] = IF \E r \in treeRows : PlaceOf(r) = p
                        THEN (CHOOSE r \in treeRows : PlaceOf(r) = p).hash ELSE MERKLE_ZERO_VALUE
    BY Zenon DEF StoredLeaf
  <2>4. \A r : r \in of(p) <=> r \in treeRows /\ PlaceOf(r) = p
    BY Zenon
  <2>5. CASE of(p) = {}
    <3>1. leaf(p + 1) = MERKLE_ZERO_VALUE
      BY Zenon, <2>2, <2>5 DEF leaf
    <3> QED
      BY Zenon, <2>3, <2>4, <2>5, <3>1
  <2>6. CASE of(p) # {}
    <3> DEFINE x == CHOOSE r \in at((p + 1) - 1) : TRUE
               y == CHOOSE r \in treeRows : PlaceOf(r) = p
    <3>1. x \in of(p)
      BY Zenon, <2>2, <2>6
    <3>2. y \in treeRows /\ PlaceOf(y) = p
      BY Zenon, <2>4, <2>6
    <3>3. leaf(p + 1) = x.hash /\ StoredLeaf[p] = y.hash
      BY Zenon, <2>2, <2>3, <2>4, <2>6 DEF leaf
    <3> HIDE DEF x, y
    <3> QED
      BY Zenon, <1>12, <2>1, <2>4, <3>1, <3>2, <3>3
  <2> QED
    BY Zenon, <2>5, <2>6
<1>14. ASSUME NEW p \in Nat, ~(p < n) PROVE StoredLeaf[p] = MERKLE_ZERO_VALUE
  <2>1. ~\E r \in treeRows : PlaceOf(r) = p
    BY Zenon, <1>5, <1>14
  <2> QED
    BY Zenon, <2>1 DEF StoredLeaf
<1> HIDE DEF of
<1> DEFINE s == [layer |-> c.leaves, empty |-> MERKLE_ZERO_VALUE]
<1>15. IsASeq(leaves) /\ Len(leaves) = n /\ \A p \in Nat : p < n => leaves[p + 1] = leaf(p + 1)
  <2> DEFINE R == {leaf(k) : k \in 1..n}
  <2>1. leaves \in [1..n -> R]
    BY Zenon DEF leaves
  <2> HIDE DEF R
  <2>2. leaves \in Seq(R) /\ Len(leaves) = n
    BY <1>3, <2>1
  <2>3. \A p \in Nat : p < n => p + 1 \in 1..n
    BY <1>3
  <2> QED
    BY Zenon, <2>2, <2>3 DEF IsASeq, leaves
<1>16. s.layer = leaves /\ s.empty = MERKLE_ZERO_VALUE
  BY Zenon, <1>11
<1> HIDE DEF s
<1>17. IsLevel(s, StoredLeaf)
  BY Zenon, <1>3, <1>13, <1>14, <1>15, <1>16 DEF IsLevel
<1> QED
  BY Zenon, <1>17 DEF s, c

\* The root prepare_merkle_checkpoint_artifact publishes is that of the whole tree, for any
\* depth, whichever places are filled: checkpoint_root, which pads each level, computes it.
THEOREM RootsAreWhole == CheckpointSpec => []RootIsOfWholeTree
<1> DEFINE Inv == TreeInv /\ RootIsOfWholeTree
<1>1. CheckpointInit => Inv
  <2> SUFFICES ASSUME CheckpointInit PROVE Inv
    OBVIOUS
  <2>1. published_root = NoRoot
    BY Zenon DEF CheckpointInit
  <2> QED
    BY Zenon, <2>1, TreeInvInit DEF RootIsOfWholeTree
<1>2. Inv /\ [PublishCheckpoint]_checkpointVars => Inv'
  <2> SUFFICES ASSUME Inv, [PublishCheckpoint]_checkpointVars PROVE Inv'
    OBVIOUS
  <2>1. treeRows' = treeRows
    BY Zenon DEF PublishCheckpoint, checkpointVars
  <2>2. TreeInv'
    BY Zenon, <2>1 DEF TreeInv
  <2>3. StoredLeaf' = StoredLeaf
    BY Zenon, <2>1 DEF StoredLeaf
  <2>4. RootIsOfWholeTree <=> (published_root # NoRoot => published_root = FullRoot(StoredLeaf))
    BY Zenon DEF RootIsOfWholeTree, StoredLeaf
  <2>5. RootIsOfWholeTree' <=> (published_root' # NoRoot => published_root' = FullRoot(StoredLeaf'))
    BY Zenon DEF RootIsOfWholeTree, StoredLeaf
  <2>6. CASE PublishCheckpoint
    <3>1. PICK summary \in commitment_tree_summaries(treeRows, 1) :
              /\ commitment_tree_checkpoint(treeRows, summary, 1).err = "none"
              /\ published_root' = checkpoint_root(commitment_tree_checkpoint(treeRows, summary, 1).leaves)
      BY Zenon, <2>6 DEF PublishCheckpoint
    <3>2. published_root' = FullRoot(StoredLeaf)
      BY Zenon, <3>1, CheckpointIsLevel, FoldIsRoot
    <3> QED
      BY Zenon, <2>2, <2>3, <2>5, <3>2
  <2>7. CASE UNCHANGED checkpointVars
    <3>1. published_root' = published_root
      BY Zenon, <2>7 DEF checkpointVars
    <3> QED
      BY Zenon, <2>2, <2>3, <2>4, <2>5, <3>1
  <2> QED
    BY Zenon, <2>6, <2>7
<1> QED
  BY <1>1, <1>2, PTL DEF CheckpointSpec

=============================================================================
