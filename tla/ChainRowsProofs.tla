-------------------------- MODULE ChainRowsProofs --------------------------
(***************************************************************************)
(* What rewinds, second indexings and backfills leave in the tables of a     *)
(* chain, for chains of any length, forks anywhere and blocks of any shape;  *)
(* and, at the end, that the log filters of a range ask for every event      *)
(* once, for any activation blocks.                                          *)
(***************************************************************************)
EXTENDS ChainRows, ChainLogFilters, FiniteSetTheorems, WellFoundedInduction, TLAPS

Fields == {"leaves", "nullifiers", "txids", "transactions"}

\* A set of naturals has a least element.
LEMMA LeastElement ==
    ASSUME NEW S \in SUBSET Nat, S # {}
    PROVE  \E x \in S : \A y \in S : x <= y
<1>1. \E x \in S : \A y \in S : ~(<<y, x>> \in OpToRel(<, Nat))
  BY Zenon, NatLessThanWellFounded, WFMin
<1>2. \E x \in S : \A y \in S : ~(y < x)
  BY Zenon, <1>1 DEF OpToRel
<1> QED
  BY <1>2

\* A count of a block is a number.
LEMMA ShapeCounts ==
    ASSUME NEW shapes \in [Block -> BlockShapes], NEW b \in Block, NEW field \in Fields
    PROVE  shapes[b][field] \in Nat
BY ShapesAssumption DEF Fields

Partial(shapes, field, m, f) ==
    /\ f \in [0..m -> Nat]
    /\ f[0] = 0
    /\ \A c \in 1..m : f[c] = f[c - 1] + shapes[c][field]

\* The counts of the blocks can be added up to any block.
LEMMA PartialSums ==
    ASSUME NEW shapes \in [Block -> BlockShapes], NEW field \in Fields, NEW m \in 0..MaxBlock
    PROVE  \E f : Partial(shapes, field, m, f)
<1> USE BlocksAssumption
<1> DEFINE S == {x \in 0..MaxBlock : ~\E f : Partial(shapes, field, x, f)}
<1>1. SUFFICES ASSUME S # {} PROVE FALSE
  BY Zenon
<1>2. S \in SUBSET Nat
  BY SMT
<1>3. PICK x \in S : \A y \in S : x <= y
  BY Zenon, <1>1, <1>2, LeastElement
<1>4. x \in 0..MaxBlock /\ ~\E f : Partial(shapes, field, x, f)
  BY Zenon, <1>3
<1>5. x # 0
  <2>1. Partial(shapes, field, 0, [c \in 0..0 |-> 0])
    BY DEF Partial
  <2> QED
    BY Zenon, <1>4, <2>1
<1>6. x - 1 \in 0..MaxBlock /\ ~(x <= x - 1) /\ x \in Block
  BY <1>4, <1>5 DEF Block
<1>7. x - 1 \notin S
  BY Zenon, <1>3, <1>6
<1>8. PICK f : Partial(shapes, field, x - 1, f)
  BY Zenon, <1>6, <1>7
<1> DEFINE g == [c \in 0..x |-> IF c = x THEN f[x - 1] + shapes[x][field] ELSE f[c]]
<1>9. shapes[x][field] \in Nat
  BY Zenon, <1>6, ShapeCounts
<1>10. Partial(shapes, field, x, g)
  <2>1. f \in [0..(x - 1) -> Nat] /\ f[0] = 0 /\ x \in Nat /\ x # 0
        /\ \A c \in 1..(x - 1) : f[c] = f[c - 1] + shapes[c][field]
    BY Zenon, <1>3, <1>2, <1>5, <1>8 DEF Partial
  <2>2. g \in [0..x -> Nat]
    BY <1>9, <2>1
  <2>3. g[0] = 0
    BY <2>1
  <2>4. ASSUME NEW c \in 1..x PROVE g[c] = g[c - 1] + shapes[c][field]
    <3>1. CASE c = x
      BY <2>1, <3>1
    <3>2. CASE c # x
      <4>1. c \in 1..(x - 1) /\ c \in 0..x /\ c - 1 \in 0..x /\ c - 1 # x
        BY <2>1, <2>4, <3>2
      <4> QED
        BY Zenon, <2>1, <3>2, <4>1
    <3> QED
      BY Zenon, <3>1, <3>2
  <2> HIDE DEF g
  <2> QED
    BY Zenon, <2>2, <2>3, <2>4 DEF Partial
<1> QED
  BY Zenon, <1>4, <1>10

\* Before adds up the counts of the blocks below a block.
LEMMA BeforeAdds ==
    ASSUME NEW shapes \in [Block -> BlockShapes], NEW field \in Fields
    PROVE  /\ Before(shapes, 1, field) = 0
           /\ \A b \in Block : Before(shapes, b, field) \in Nat
           /\ \A b \in Block : b + 1 \in Block =>
                 Before(shapes, b + 1, field) = Before(shapes, b, field) + shapes[b][field]
<1> DEFINE Sums(f) == f = [c \in 0..MaxBlock |-> IF c = 0 THEN 0 ELSE f[c - 1] + shapes[c][field]]
           n == CHOOSE f : Sums(f)
<1>1. PICK g : Partial(shapes, field, MaxBlock, g)
  BY PartialSums, BlocksAssumption
<1>2. Sums(g)
  BY <1>1, BlocksAssumption DEF Partial
<1>3. Sums(n)
  BY Zenon, <1>2
<1>4. \A b : Before(shapes, b, field) = n[b - 1]
  BY Zenon DEF Before
<1> HIDE DEF n
<1>5. n[0] = 0 /\ \A c \in 1..MaxBlock : n[c] = n[c - 1] + shapes[c][field]
  <2>1. 0 \in 0..MaxBlock /\ \A c \in 1..MaxBlock : c \in 0..MaxBlock /\ c # 0
    BY BlocksAssumption
  <2>2. \A c \in 0..MaxBlock : n[c] = IF c = 0 THEN 0 ELSE n[c - 1] + shapes[c][field]
    BY Zenon, <1>3
  <2> QED
    BY Zenon, <2>1, <2>2
<1>6. \A c \in 0..MaxBlock : n[c] \in Nat
  <2> DEFINE S == {c \in 0..MaxBlock : n[c] \notin Nat}
  <2> SUFFICES ASSUME S # {} PROVE FALSE
    BY Zenon
  <2>1. S \in SUBSET Nat
    BY BlocksAssumption
  <2>2. PICK x \in S : \A y \in S : x <= y
    BY Zenon, <2>1, LeastElement
  <2>3. x \in 0..MaxBlock /\ x # 0
    BY <1>5, <2>2
  <2>4. x - 1 \in 0..MaxBlock /\ ~(x <= x - 1) /\ x \in Block /\ x \in 1..MaxBlock
    BY <2>3, BlocksAssumption DEF Block
  <2>5. n[x - 1] \in Nat
    BY Zenon, <2>2, <2>4
  <2>6. shapes[x][field] \in Nat
    BY Zenon, <2>4, ShapeCounts
  <2>7. n[x] \in Nat
    BY <1>5, <2>4, <2>5, <2>6
  <2> QED
    BY Zenon, <2>2, <2>7
<1>7. Before(shapes, 1, field) = 0
  BY <1>4, <1>5
<1>8. ASSUME NEW b \in Block PROVE Before(shapes, b, field) \in Nat
  <2>1. b - 1 \in 0..MaxBlock
    BY BlocksAssumption DEF Block
  <2> QED
    BY Zenon, <1>4, <1>6, <2>1
<1>9. ASSUME NEW b \in Block, b + 1 \in Block
      PROVE  Before(shapes, b + 1, field) = Before(shapes, b, field) + shapes[b][field]
  <2>1. (b + 1) - 1 = b /\ b \in 1..MaxBlock
    BY DEF Block
  <2> QED
    BY Zenon, <1>4, <1>5, <2>1
<1> QED
  BY Zenon, <1>7, <1>8, <1>9

\* The numbers of a block come after those of the blocks below it.
LEMMA BeforeGrows ==
    ASSUME NEW shapes \in [Block -> BlockShapes], NEW field \in Fields,
           NEW a \in Block, NEW b \in Block, a < b
    PROVE  Before(shapes, b, field) >= Before(shapes, a, field) + shapes[a][field]
<1> DEFINE B(x) == Before(shapes, x, field)
           S == {x \in Block : a < x /\ ~(B(x) >= B(a) + shapes[a][field])}
<1> SUFFICES ASSUME S # {} PROVE FALSE
  BY Zenon
<1>1. \A x \in Block : x \in Nat
  BY DEF Block
<1>2. \A x \in Block : B(x) \in Nat /\ shapes[x][field] \in Nat
  BY Zenon, BeforeAdds, ShapeCounts
<1>3. \A x \in Block : x + 1 \in Block => B(x + 1) = B(x) + shapes[x][field]
  BY Zenon, BeforeAdds
<1>4. S \in SUBSET Nat
  BY Zenon, <1>1
<1>5. PICK x \in S : \A y \in S : x <= y
  BY Zenon, <1>4, LeastElement
<1>6. x \in Block /\ a < x /\ ~(B(x) >= B(a) + shapes[a][field])
  BY Zenon, <1>5
<1>7. x - 1 \in Block /\ a <= x - 1 /\ (x - 1) + 1 = x /\ ~(x <= x - 1)
  <2>1. x \in Block /\ a < x
    BY Zenon, <1>6
  <2> HIDE DEF B
  <2> QED
    BY <2>1, BlocksAssumption DEF Block
<1>8. B(x) = B(x - 1) + shapes[x - 1][field]
  BY Zenon, <1>3, <1>6, <1>7
<1>9. CASE x - 1 = a
  <2>1. B(x) = B(a) + shapes[a][field]
    BY Zenon, <1>8, <1>9
  <2> HIDE DEF B
  <2> QED
    BY <1>2, <1>6, <2>1
<1>10. CASE x - 1 # a
  <2>1. a < x - 1
    BY <1>1, <1>7, <1>10
  <2>2. x - 1 \notin S
    BY Zenon, <1>5, <1>7
  <2>3. B(x - 1) >= B(a) + shapes[a][field]
    BY Zenon, <1>7, <2>1, <2>2
  <2>4. B(x - 1) \in Nat /\ shapes[x - 1][field] \in Nat /\ B(a) \in Nat /\ shapes[a][field] \in Nat
    BY Zenon, <1>2, <1>7
  <2> HIDE DEF B
  <2> QED
    BY <1>6, <1>8, <2>3, <2>4
<1> QED
  BY Zenon, <1>9, <1>10

\* The numbers of a block depend on the blocks below it only.
LEMMA BeforeAgrees ==
    ASSUME NEW shapes \in [Block -> BlockShapes], NEW other \in [Block -> BlockShapes],
           NEW field \in Fields, NEW b \in Block, \A c \in Block : c < b => shapes[c] = other[c]
    PROVE  Before(shapes, b, field) = Before(other, b, field)
<1> DEFINE B(x) == Before(shapes, x, field)
           C(x) == Before(other, x, field)
           S == {x \in Block : x <= b /\ B(x) # C(x)}
<1>1. \A x \in Block : x \in Nat /\ x <= x
  BY DEF Block
<1> SUFFICES ASSUME S # {} PROVE FALSE
  BY Zenon, <1>1
<1>2. B(1) = 0 /\ C(1) = 0
  BY Zenon, BeforeAdds
<1>3. \A x \in Block : x + 1 \in Block =>
         B(x + 1) = B(x) + shapes[x][field] /\ C(x + 1) = C(x) + other[x][field]
  BY Zenon, BeforeAdds
<1>4. S \in SUBSET Nat
  BY Zenon, <1>1
<1>5. PICK x \in S : \A y \in S : x <= y
  BY Zenon, <1>4, LeastElement
<1>6. x \in Block /\ x <= b /\ B(x) # C(x)
  BY Zenon, <1>5
<1>7. x # 1
  BY Zenon, <1>2, <1>6
<1>8. x - 1 \in Block /\ x - 1 <= b /\ x - 1 < b /\ (x - 1) + 1 = x /\ ~(x <= x - 1)
  <2>1. x \in Block /\ x <= b
    BY Zenon, <1>6
  <2> HIDE DEF B, C
  <2> QED
    BY <1>7, <2>1, BlocksAssumption DEF Block
<1>9. x - 1 \notin S
  BY Zenon, <1>5, <1>8
<1>10. B(x - 1) = C(x - 1) /\ shapes[x - 1] = other[x - 1]
  BY Zenon, <1>8, <1>9
<1>11. B(x) = B(x - 1) + shapes[x - 1][field] /\ C(x) = C(x - 1) + other[x - 1][field]
  BY Zenon, <1>3, <1>6, <1>8
<1> QED
  BY Zenon, <1>6, <1>10, <1>11

\* The larger of two integers.
LEMMA MaxOfTwo ==
    ASSUME NEW a \in Int, NEW b \in Int
    PROVE  Max({a, b}) = IF a >= b THEN a ELSE b
BY DEF Max

\* The smaller of two integers.
LEMMA MinOfTwo ==
    ASSUME NEW a \in Int, NEW b \in Int
    PROVE  Min({a, b}) = IF a <= b THEN a ELSE b
BY DEF Min

-----------------------------------------------------------------------------
(* The rows of a chain. *)

Contents == [Branch -> [Block -> BlockShapes]]

Chain(c, k) == [b \in Block |-> c[Hash(b, k)[2]][b]]

RowsAt(c, b, k) == BlockRows(Chain(c, k), b, k, Hash(b, k))

AllRows(c, k) == UNION {RowsAt(c, b, k) : b \in Block}

RowFamilies == Families \cup {"nullifier", "txid", "source"}

\* What counts the rows of a family.
FieldOf(family) ==
    IF family = "nullifier" THEN "nullifiers"
    ELSE IF family = "txid" THEN "txids"
    ELSE IF family = "source" THEN "transactions" ELSE "leaves"

RowOf(c, r, b, k) ==
    /\ r.family \in RowFamilies
    /\ r = NewRow(Chain(c, k), r.family, r.pos, b, k, Hash(b, k))
    /\ r.pos \in Nat
    /\ Before(Chain(c, k), b, FieldOf(r.family)) <= r.pos
    /\ r.pos < Before(Chain(c, k), b, FieldOf(r.family)) + Chain(c, k)[b][FieldOf(r.family)]

\* The blocks of a branch have shapes.
LEMMA ChainShapes ==
    ASSUME NEW c \in Contents, NEW k \in Branch
    PROVE  Chain(c, k) \in [Block -> BlockShapes]
<1>1. ASSUME NEW b \in Block PROVE Hash(b, k)[2] \in Branch
  BY DEF Hash, Branch
<1> QED
  BY Zenon, <1>1 DEF Chain, Contents

\* A hash has the number of its block and the branch it is of.
LEMMA HashParts ==
    ASSUME NEW b, NEW k
    PROVE  Hash(b, k)[1] = b /\ Hash(b, k)[2] = IF b < Fork THEN 0 ELSE k
  BY DEF Hash

\* What is known of a row of a block.
LEMMA RowFacts ==
    ASSUME NEW c \in Contents, NEW k \in Branch, NEW b \in Block, NEW r \in RowsAt(c, b, k)
    PROVE  RowOf(c, r, b, k)
<1> DEFINE sh == Chain(c, k)
<1>1. sh \in [Block -> BlockShapes]
  BY Zenon, ChainShapes
<1> HIDE DEF sh
<1> DEFINE Numbered(family, field) ==
        {NewRow(sh, family, Before(sh, b, field) + i, b, k, Hash(b, k)) : i \in 0..sh[b][field] - 1}
<1>2. sh[b].family \in Families
  BY <1>1, ShapesAssumption
<1>3. r \in Numbered(sh[b].family, "leaves") \/ r \in Numbered("nullifier", "nullifiers")
      \/ r \in Numbered("txid", "txids") \/ r \in Numbered("source", "transactions")
  BY Zenon DEF RowsAt, BlockRows, sh
<1>4. PICK family \in RowFamilies : r \in Numbered(family, FieldOf(family))
  <2>1. FieldOf("nullifier") = "nullifiers" /\ FieldOf("txid") = "txids"
        /\ FieldOf("source") = "transactions" /\ FieldOf(sh[b].family) = "leaves"
    BY <1>2 DEF FieldOf, Families
  <2>2. sh[b].family \in RowFamilies /\ "nullifier" \in RowFamilies /\ "txid" \in RowFamilies
        /\ "source" \in RowFamilies
    BY Zenon, <1>2 DEF RowFamilies
  <2> QED
    BY Zenon, <1>3, <2>1, <2>2
<1> DEFINE f == FieldOf(family)
<1>5. f \in Fields
  BY Zenon DEF FieldOf, Fields
<1>6. Before(sh, b, f) \in Nat /\ sh[b][f] \in Nat
  BY Zenon, <1>1, <1>5, BeforeAdds, ShapeCounts
<1>7. PICK i \in 0..sh[b][f] - 1 : r = NewRow(sh, family, Before(sh, b, f) + i, b, k, Hash(b, k))
  BY Zenon, <1>4
<1>8. r.family = family /\ r.pos = Before(sh, b, f) + i
  BY <1>7 DEF NewRow
<1>9. r.pos \in Nat /\ Before(sh, b, f) <= r.pos /\ r.pos < Before(sh, b, f) + sh[b][f]
  BY <1>6, <1>8
<1> QED
  BY Zenon, <1>7, <1>8, <1>9 DEF RowOf, sh

\* A row of a block has its number, its hash and its timestamp.
LEMMA RowFields ==
    ASSUME NEW c \in Contents, NEW k \in Branch, NEW b \in Block, NEW r \in RowsAt(c, b, k)
    PROVE  r.block = b /\ r.bhash = Hash(b, k) /\ r.time = Hash(b, k)
<1>1. r = NewRow(Chain(c, k), r.family, r.pos, b, k, Hash(b, k))
  BY Zenon, RowFacts DEF RowOf
<1> QED
  BY <1>1 DEF NewRow

\* A key is in one block of a chain.
LEMMA KeyIsInOneBlock ==
    ASSUME NEW c \in Contents, NEW k \in Branch, NEW a \in Block, NEW b \in Block,
           NEW r \in RowsAt(c, a, k), NEW s \in RowsAt(c, b, k), Key(r) = Key(s)
    PROVE  ~(a < b)
<1> SUFFICES ASSUME a < b PROVE FALSE
  BY Zenon
<1> DEFINE sh == Chain(c, k)
           f == FieldOf(r.family)
<1>1. r.family = s.family /\ r.pos = s.pos
  BY DEF Key
<1>2. RowOf(c, r, a, k) /\ RowOf(c, s, b, k)
  BY Zenon, RowFacts
<1>3. r.pos \in Nat /\ r.pos < Before(sh, a, f) + sh[a][f] /\ Before(sh, b, f) <= r.pos
  BY Zenon, <1>1, <1>2 DEF RowOf
<1>4. sh \in [Block -> BlockShapes] /\ f \in Fields
  BY Zenon, ChainShapes DEF FieldOf, Fields
<1> HIDE DEF sh, f
<1>5. Before(sh, b, f) >= Before(sh, a, f) + sh[a][f]
  BY Zenon, <1>4, BeforeGrows
<1>6. Before(sh, a, f) \in Nat /\ Before(sh, b, f) \in Nat /\ sh[a][f] \in Nat
  BY Zenon, <1>4, BeforeAdds, ShapeCounts
<1> QED
  BY <1>3, <1>5, <1>6

\* A key has one row on a chain.
LEMMA OneRowPerKey ==
    ASSUME NEW c \in Contents, NEW k \in Branch,
           NEW r \in AllRows(c, k), NEW s \in AllRows(c, k), Key(r) = Key(s)
    PROVE  r = s
<1>1. PICK a \in Block : r \in RowsAt(c, a, k)
  BY Zenon DEF AllRows
<1>2. PICK b \in Block : s \in RowsAt(c, b, k)
  BY Zenon DEF AllRows
<1>3. ~(a < b) /\ ~(b < a)
  BY Zenon, <1>1, <1>2, KeyIsInOneBlock
<1>4. a = b
  BY <1>3 DEF Block
<1>5. r.family = s.family /\ r.pos = s.pos
  BY DEF Key
<1>6. r = NewRow(Chain(c, k), r.family, r.pos, a, k, Hash(a, k))
  BY Zenon, <1>1, RowFacts DEF RowOf
<1>7. s = NewRow(Chain(c, k), s.family, s.pos, b, k, Hash(b, k))
  BY Zenon, <1>2, RowFacts DEF RowOf
<1> QED
  BY Zenon, <1>4, <1>5, <1>6, <1>7

\* Below the fork the branches have the same rows.
LEMMA SameBelowFork ==
    ASSUME NEW c \in Contents, NEW j \in Branch, NEW k \in Branch, NEW b \in Block, b < Fork
    PROVE  RowsAt(c, b, j) = RowsAt(c, b, k)
<1> DEFINE g == Chain(c, j)
           h == Chain(c, k)
<1>1. \A x \in Block : x <= b => x < Fork
  BY ForkAssumption, BlocksAssumption DEF Block
<1>2. \A x \in Block : x < b => x <= b
  BY DEF Block
<1>3. b <= b
  BY DEF Block
<1>4. ASSUME NEW x \in Block, x <= b PROVE g[x] = h[x]
  <2>1. x < Fork
    BY Zenon, <1>1, <1>4
  <2>2. Hash(x, j) = Hash(x, k)
    BY Zenon, <2>1 DEF Hash
  <2> QED
    BY Zenon, <2>2 DEF Chain
<1>5. Hash(b, j) = Hash(b, k)
  BY Zenon DEF Hash
<1>6. g \in [Block -> BlockShapes] /\ h \in [Block -> BlockShapes]
  BY Zenon, ChainShapes
<1>7. g[b] = h[b]
  BY Zenon, <1>3, <1>4
<1> HIDE DEF g, h
<1>8. \A f \in Fields : Before(g, b, f) = Before(h, b, f)
  BY Zenon, <1>2, <1>4, <1>6, BeforeAgrees
<1>9. Before(g, b, "leaves") = Before(h, b, "leaves")
      /\ Before(g, b, "nullifiers") = Before(h, b, "nullifiers")
      /\ Before(g, b, "txids") = Before(h, b, "txids")
      /\ Before(g, b, "transactions") = Before(h, b, "transactions")
  BY Zenon, <1>8 DEF Fields
<1>10. BlockRows(g, b, j, Hash(b, j)) = BlockRows(h, b, k, Hash(b, k))
  BY Zenon, <1>5, <1>7, <1>9 DEF BlockRows, NewRow
<1> QED
  BY Zenon, <1>10 DEF RowsAt, g, h

\* A row of a chain is one of the block it names.
LEMMA BlockOfRow ==
    ASSUME NEW c \in Contents, NEW k \in Branch, NEW r \in AllRows(c, k)
    PROVE  r.block \in Block /\ r \in RowsAt(c, r.block, k)
<1>1. PICK b \in Block : r \in RowsAt(c, b, k)
  BY Zenon DEF AllRows
<1>2. r.block = b
  BY <1>1, RowFields
<1> QED
  BY Zenon, <1>1, <1>2

\* An upsert of rows of the chain the table is of adds them and changes none.
LEMMA UpsertAdds ==
    ASSUME NEW c \in Contents, NEW k \in Branch,
           NEW table \in SUBSET AllRows(c, k), NEW batch \in SUBSET AllRows(c, k)
    PROVE  persist_indexed_log_batch(table, batch) = table \cup batch
<1>1. ASSUME NEW r \in batch PROVE record_source_transaction(table, r) = r
  <2> DEFINE blocks == {s.block : s \in {s \in table : Key(s) = Key(r)}} \cup {r.block}
  <2>1. blocks = {r.block}
    <3>1. \A s \in table : Key(s) = Key(r) => s = r
      BY Zenon, OneRowPerKey
    <3> QED
      BY Zenon, <3>1
  <2>2. r.block \in Nat
    <3>1. r.block \in Block
      BY Zenon, BlockOfRow
    <3> QED
      BY <3>1 DEF Block
  <2>3. Min({r.block}) = r.block
    BY <2>2 DEF Min
  <2>4. record_source_transaction(table, r) = [r EXCEPT !.block = Min(blocks)]
    BY Zenon DEF record_source_transaction
  <2>5. record_source_transaction(table, r) = [r EXCEPT !.block = r.block]
    BY Zenon, <2>1, <2>3, <2>4
  <2>6. r = NewRow(Chain(c, k), r.family, r.pos, r.block, k, Hash(r.block, k))
    BY Zenon, BlockOfRow, RowFacts DEF RowOf
  <2>7. [r EXCEPT !.block = r.block] = r
    BY <2>6 DEF NewRow
  <2> QED
    BY Zenon, <2>5, <2>7
<1>2. \A r \in batch, s \in table : Key(r) = Key(s) => r = s
  BY Zenon, OneRowPerKey
<1> QED
  BY Zenon, <1>1, <1>2 DEF persist_indexed_log_batch

\* The rows of a range of blocks.
LEMMA RangeIsPart ==
    ASSUME content \in Contents, NEW k \in Branch, NEW from \in Nat \ {0}, NEW to \in 0..MaxBlock
    PROVE  RangeRows(from, to, k) = {r \in AllRows(content, k) : r.block \in from..to}
<1>1. from..to \subseteq Block
  BY BlocksAssumption DEF Block
<1>2. Shapes(k) = Chain(content, k)
  BY Zenon DEF Shapes, Shape, Chain
<1>3. RangeRows(from, to, k) = UNION {RowsAt(content, b, k) : b \in from..to}
  BY Zenon, <1>2 DEF RangeRows, RowsAt
<1>4. ASSUME NEW r \in RangeRows(from, to, k)
      PROVE  r \in {s \in AllRows(content, k) : s.block \in from..to}
  <2>1. PICK b \in from..to : r \in RowsAt(content, b, k)
    BY Zenon, <1>3, <1>4
  <2>2. b \in Block
    BY Zenon, <1>1
  <2>3. r.block = b
    BY <2>1, <2>2, RowFields
  <2> QED
    BY Zenon, <2>1, <2>2, <2>3 DEF AllRows
<1>5. ASSUME NEW r \in {s \in AllRows(content, k) : s.block \in from..to}
      PROVE  r \in RangeRows(from, to, k)
  <2>1. r \in RowsAt(content, r.block, k) /\ r.block \in from..to
    BY Zenon, <1>5, BlockOfRow
  <2> QED
    BY Zenon, <1>3, <2>1
<1> QED
  BY Zenon, <1>4, <1>5

-----------------------------------------------------------------------------
(* The tables are of one chain. *)

\* The table holds the chain of branch k up to a height, and above it only what the legacy-shield
\* tool may have added, below the fork.
Holds(c, table, height, k) ==
    /\ table \subseteq AllRows(c, k)
    /\ \A r \in AllRows(c, k) : r.block <= height => r \in table
    /\ \A r \in table : r.block <= height \/ r.block < Fork

\* A table below the fork is of both branches.
LEMMA BothBranches ==
    ASSUME NEW c \in Contents, NEW j \in Branch, NEW k \in Branch, NEW height \in Nat,
           height < Fork, NEW table, Holds(c, table, height, k)
    PROVE  Holds(c, table, height, j)
<1>1. \A b \in Block : b <= height => b < Fork
  BY ForkAssumption, BlocksAssumption DEF Block
<1>2. \A b \in Block : b < Fork => RowsAt(c, b, j) = RowsAt(c, b, k)
  BY Zenon, SameBelowFork
<1>3. ASSUME NEW r \in table PROVE r \in AllRows(c, j)
  <2>1. r.block \in Block /\ r \in RowsAt(c, r.block, k) /\ (r.block <= height \/ r.block < Fork)
    BY Zenon, <1>3, BlockOfRow DEF Holds
  <2> QED
    BY Zenon, <1>1, <1>2, <2>1 DEF AllRows
<1>4. ASSUME NEW r \in AllRows(c, j), r.block <= height PROVE r \in table
  <2>1. r.block \in Block /\ r \in RowsAt(c, r.block, j)
    BY Zenon, <1>4, BlockOfRow
  <2>2. r \in AllRows(c, k)
    BY Zenon, <1>1, <1>2, <1>4, <2>1 DEF AllRows
  <2> QED
    BY Zenon, <1>4, <2>2 DEF Holds
<1> QED
  BY Zenon, <1>3, <1>4 DEF Holds

\* Below the fork a row of a branch is one of the other.
LEMMA LowRow ==
    ASSUME NEW c \in Contents, NEW j \in Branch, NEW k \in Branch, NEW r \in AllRows(c, j), r.block < Fork
    PROVE  r \in AllRows(c, k)
<1>1. r.block \in Block /\ r \in RowsAt(c, r.block, j)
  BY Zenon, BlockOfRow
<1>2. RowsAt(c, r.block, j) = RowsAt(c, r.block, k)
  BY Zenon, <1>1, SameBelowFork
<1> QED
  BY Zenon, <1>1, <1>2 DEF AllRows

\* Below the fork the table holds the chain up to a height and nothing else.
Settled(c, table, height) ==
    /\ \A r \in table : r.block \in Block /\ (r.block <= height \/ r.block < Fork)
    /\ \A r \in table : r.block < Fork => r \in AllRows(c, 0)
    /\ \A r \in AllRows(c, 0) : r.block < Fork /\ r.block <= height => r \in table

\* The least of some blocks.
LEMMA LeastBlock ==
    ASSUME NEW S \in SUBSET Block, S # {}
    PROVE  Min(S) \in S /\ \A y \in S : Min(S) <= y
<1>1. S \in SUBSET Nat
  BY DEF Block
<1>2. PICK m \in S : \A y \in S : m <= y
  BY Zenon, <1>1, LeastElement
<1>3. \A x, y \in Block : x <= y /\ y <= x => x = y
  BY DEF Block
<1> QED
  BY Zenon, <1>2, <1>3 DEF Min

\* What an upsert makes of a row of a batch.
Upserted(table, r) == IF r.family = "source" THEN record_source_transaction(table, r) ELSE r

\* A row below the fork is stored as it is, and one above it does not get below it: a transaction
\* that is in another block on the other branch is above the fork there, too.
LEMMA UpsertedBlock ==
    ASSUME NEW c \in Contents, NEW k \in Branch, NEW table, NEW height, Settled(c, table, height),
           NEW r \in AllRows(c, k)
    PROVE  \/ Upserted(table, r) = r
           \/ /\ ~(r.block < Fork)
              /\ Upserted(table, r).block \in Block
              /\ ~(Upserted(table, r).block < Fork)
              /\ Upserted(table, r).block <= r.block
<1> DEFINE stored == {s \in table : Key(s) = Key(r)}
           blocks == {s.block : s \in stored} \cup {r.block}
           new == [r EXCEPT !.block = Min(blocks)]
<1>1. CASE r.family # "source"
  BY Zenon, <1>1 DEF Upserted
<1>2. CASE r.family = "source"
  <2>1. Upserted(table, r) = new
    BY Zenon, <1>2 DEF Upserted, record_source_transaction
  <2>2. r.block \in Block
    BY Zenon, BlockOfRow
  <2>3. r = NewRow(Chain(c, k), r.family, r.pos, r.block, k, Hash(r.block, k))
    BY Zenon, BlockOfRow, RowFacts DEF RowOf
  <2>4. \A m : [r EXCEPT !.block = m].block = m
    BY <2>3 DEF NewRow
  <2>5. [r EXCEPT !.block = r.block] = r
    BY <2>3 DEF NewRow
  <2>6. \A s \in stored : s.block \in Block /\ (s.block < Fork => s = r)
    <3> SUFFICES ASSUME NEW s \in stored PROVE s.block \in Block /\ (s.block < Fork => s = r)
      BY Zenon
    <3>1. s.block \in Block /\ (s.block < Fork => s \in AllRows(c, 0)) /\ Key(s) = Key(r)
      BY Zenon DEF Settled
    <3>2. 0 \in Branch
      BY DEF Branch
    <3>3. s.block < Fork => s \in AllRows(c, k)
      BY Zenon, <3>1, <3>2, LowRow
    <3> QED
      BY Zenon, <3>1, <3>3, OneRowPerKey
  <2>7. blocks \in SUBSET Block /\ blocks # {} /\ r.block \in blocks
    BY Zenon, <2>2, <2>6
  <2> HIDE DEF blocks
  <2>8. PICK m \in blocks : m = Min(blocks) /\ \A y \in blocks : m <= y
    BY Zenon, <2>7, LeastBlock
  <2>10. m \in Block /\ m <= r.block /\ Upserted(table, r) = [r EXCEPT !.block = m]
    BY Zenon, <2>1, <2>7, <2>8
  <2>11. m = r.block \/ \E s \in stored : m = s.block
    BY Zenon, <2>8 DEF blocks
  <2>12. CASE m = r.block
    BY Zenon, <2>5, <2>10, <2>12
  <2>13. CASE m # r.block
    <3>1. PICK s \in stored : m = s.block
      BY Zenon, <2>11, <2>13
    <3>2. ~(m < Fork)
      BY Zenon, <2>6, <2>13, <3>1
    <3>3. ~(r.block < Fork)
      BY <2>2, <2>10, <3>2, ForkAssumption DEF Block
    <3> QED
      BY Zenon, <2>4, <2>10, <3>2, <3>3
  <2> QED
    BY Zenon, <2>12, <2>13
<1> QED
  BY Zenon, <1>1, <1>2

\* A batch of either branch that follows the height keeps the chain below the fork.
LEMMA UpsertSettled ==
    ASSUME NEW c \in Contents, NEW k \in Branch, NEW table, NEW p \in Nat, NEW to \in Nat, p <= to,
           Settled(c, table, p), NEW batch \in SUBSET AllRows(c, k),
           \A r \in batch : r.block <= to \/ r.block < Fork,
           \A r \in AllRows(c, k) : r.block < Fork /\ r.block <= to /\ ~(r.block <= p) => r \in batch
    PROVE  Settled(c, persist_indexed_log_batch(table, batch), to)
<1> DEFINE kept == {s \in table : \A r \in batch : Key(r) # Key(s)}
           table2 == persist_indexed_log_batch(table, batch)
<1>1. table2 = kept \cup {Upserted(table, r) : r \in batch}
  BY Zenon DEF persist_indexed_log_batch, Upserted
<1> HIDE DEF table2
<1>2. 0 \in Branch
  BY DEF Branch
<1>3. \A b \in Block : b <= p => b <= to
  BY DEF Block
<1>4. \A b, d \in Block : d <= b /\ b <= to => d <= to
  BY DEF Block
<1>5. ASSUME NEW r \in batch
      PROVE  LET new == Upserted(table, r)
             IN  /\ new.block \in Block /\ (new.block <= to \/ new.block < Fork)
                 /\ new.block < Fork => new \in AllRows(c, 0)
                 /\ r.block < Fork => new = r
  <2> DEFINE new == Upserted(table, r)
  <2>1. \/ new = r
        \/ ~(r.block < Fork) /\ new.block \in Block /\ ~(new.block < Fork) /\ new.block <= r.block
    BY Zenon, UpsertedBlock
  <2>2. r.block \in Block /\ (r.block <= to \/ r.block < Fork)
    BY Zenon, BlockOfRow
  <2>3. r.block < Fork => r \in AllRows(c, 0)
    BY Zenon, <1>2, LowRow
  <2> HIDE DEF new
  <2>4. CASE new = r
    BY Zenon, <2>2, <2>3, <2>4 DEF new
  <2>5. CASE ~(r.block < Fork) /\ new.block \in Block /\ ~(new.block < Fork) /\ new.block <= r.block
    <3>1. new.block <= to
      BY Zenon, <1>4, <2>2, <2>5
    <3> QED
      BY Zenon, <2>5, <3>1 DEF new
  <2> QED
    BY Zenon, <2>1, <2>4, <2>5
<1>6. ASSUME NEW x \in table2
      PROVE  x.block \in Block /\ (x.block <= to \/ x.block < Fork) /\ (x.block < Fork => x \in AllRows(c, 0))
  <2>1. CASE x \in kept
    <3>1. x.block \in Block /\ (x.block <= p \/ x.block < Fork) /\ (x.block < Fork => x \in AllRows(c, 0))
      BY Zenon, <2>1 DEF Settled
    <3> QED
      BY Zenon, <1>3, <3>1
  <2>2. CASE \E r \in batch : x = Upserted(table, r)
    <3>1. PICK r \in batch : x = Upserted(table, r)
      BY Zenon, <2>2
    <3> QED
      BY Zenon, <1>5, <3>1
  <2> QED
    BY Zenon, <1>1, <1>6, <2>1, <2>2
<1>7. ASSUME NEW r \in AllRows(c, 0), r.block < Fork, r.block <= to PROVE r \in table2
  <2>1. r \in AllRows(c, k)
    BY Zenon, <1>2, <1>7, LowRow
  <2>2. CASE r \in batch
    <3>1. Upserted(table, r) = r
      BY Zenon, <1>5, <1>7, <2>2
    <3> QED
      BY Zenon, <1>1, <2>2, <3>1
  <2>3. CASE r \notin batch
    <3>1. r \in table
      BY Zenon, <1>7, <2>1, <2>3 DEF Settled
    <3>2. \A q \in batch : Key(q) # Key(r)
      BY Zenon, <2>1, <2>3, OneRowPerKey
    <3> QED
      BY Zenon, <1>1, <3>1, <3>2
  <2> QED
    BY Zenon, <2>2, <2>3
<1> QED
  BY Zenon, <1>6, <1>7 DEF Settled, table2

\* The types of what the tables are made from.
TablesOK ==
    /\ content \in Contents
    /\ canonical \in Branch
    /\ served \subseteq Branch
    /\ progress.block \in 0..MaxBlock

\* Below the fork the tables are the chain's.  While no batch has mixed two chains, the progress
\* stands on a branch and the tables hold that branch.
ChainInv ==
    /\ TablesOK
    /\ part = "tables" =>
          /\ Settled(content, rows, progress.block)
          /\ mixed = "no" => \E k \in Branch : StandsOn(k) /\ Holds(content, rows, progress.block, k)

\* The rows up to the progress are then those of the branch its hash names.
LEMMA ChainInvSuffices == ChainInv => TablesAreOfOneChain
<1> SUFFICES ASSUME ChainInv, part = "tables"
             PROVE  /\ RowsAreOf(0, Min({progress.block, Fork - 1}))
                    /\ mixed = "no" /\ progress.block > 0 => RowsAreOf(progress.hash[2], progress.block)
  BY Zenon DEF TablesAreOfOneChain
<1> DEFINE p == progress.block
           h == progress.hash[2]
           m == Min({p, Fork - 1})
<1>1. content \in Contents /\ p \in 0..MaxBlock /\ p \in Nat /\ 1 \in Nat \ {0} /\ 0 \in Branch
  BY BlocksAssumption DEF ChainInv, TablesOK, Branch
<1>2. RowsAreOf(0, m)
  <2>1. m = IF p <= Fork - 1 THEN p ELSE Fork - 1
    BY <1>1, ForkAssumption, MinOfTwo
  <2>2. m \in 0..MaxBlock /\ \A b \in Block : b <= m <=> b < Fork /\ b <= p
    BY <1>1, <2>1, ForkAssumption, BlocksAssumption DEF Block
  <2> HIDE DEF m
  <2>3. RangeRows(1, m, 0) = {r \in AllRows(content, 0) : r.block \in 1..m}
    BY Zenon, <1>1, <2>2, RangeIsPart
  <2>4. \A b \in Block : b \in 1..m <=> b <= m
    BY <2>2 DEF Block
  <2>5. \A r \in AllRows(content, 0) : r.block \in Block
    BY Zenon, <1>1, BlockOfRow
  <2>6. Settled(content, rows, p)
    BY Zenon DEF ChainInv
  <2>7. {r \in rows : r.block <= m} = RangeRows(1, m, 0)
    BY Zenon, <2>2, <2>3, <2>4, <2>5, <2>6 DEF Settled
  <2> QED
    BY Zenon, <2>7 DEF RowsAreOf
<1>3. ASSUME mixed = "no", p > 0 PROVE RowsAreOf(h, p)
  <2>1. p # 0
    BY <1>1, <1>3
  <2>2. PICK k \in Branch : progress.hash = Hash(p, k) /\ Holds(content, rows, p, k)
    BY Zenon, <1>1, <1>3, <2>1 DEF ChainInv, StandsOn
  <2>3. h = IF p < Fork THEN 0 ELSE k
    <3>1. Hash(p, k)[2] = IF p < Fork THEN 0 ELSE k
      BY Zenon, HashParts
    <3> QED
      BY Zenon, <2>2, <3>1
  <2>4. h \in Branch
    BY Zenon, <2>3 DEF Branch
  <2>5. Holds(content, rows, p, h)
    BY Zenon, <1>1, <2>2, <2>3, <2>4, BothBranches
  <2>6. RangeRows(1, p, h) = {r \in AllRows(content, h) : r.block \in 1..p}
    BY Zenon, <1>1, <2>4, RangeIsPart
  <2>7. \A b \in Block : b \in 1..p <=> b <= p
    BY <1>1 DEF Block
  <2>8. \A r \in AllRows(content, h) : r.block \in Block
    BY Zenon, <1>1, <2>4, BlockOfRow
  <2>9. {r \in rows : r.block <= p} = RangeRows(1, p, h)
    BY Zenon, <2>5, <2>6, <2>7, <2>8 DEF Holds
  <2> QED
    BY Zenon, <2>9 DEF RowsAreOf
<1> QED
  BY Zenon, <1>2, <1>3

\* An empty table, or one indexed on branch 0 up to a block.
LEMMA ChainInvInit == RowsInit => ChainInv
<1> SUFFICES ASSUME RowsInit PROVE ChainInv
  BY Zenon
<1>1. content \in Contents /\ canonical = 0 /\ served = {0} /\ 0 \in Branch
  BY Zenon DEF RowsInit, TablesInit, Contents, Branch
<1>2. PICK top \in 0..MaxBlock :
         /\ progress = [block |-> top, hash |-> IF top > 0 THEN Hash(top, 0) ELSE NoHeader]
         /\ part \in {"backfill", "catalogs"} \/ rows = RangeRows(1, top, 0)
  BY Zenon DEF RowsInit, TablesInit
<1>3. progress.block = top /\ (top = 0 \/ progress.hash = Hash(top, 0))
  BY <1>2
<1>4. top \in Nat /\ 1 \in Nat \ {0}
  BY BlocksAssumption
<1>5. TablesOK
  BY Zenon, <1>1, <1>3, <1>4 DEF TablesOK
<1>6. ASSUME part = "tables"
      PROVE  StandsOn(0) /\ Holds(content, rows, progress.block, 0) /\ Settled(content, rows, progress.block)
  <2>1. rows = RangeRows(1, top, 0)
    BY <1>2, <1>6
  <2>2. RangeRows(1, top, 0) = {r \in AllRows(content, 0) : r.block \in 1..top}
    BY Zenon, <1>1, <1>4, RangeIsPart
  <2>3. \A b \in Block : b \in 1..top <=> b <= top
    BY <1>4 DEF Block
  <2>4. \A r \in AllRows(content, 0) : r.block \in Block
    BY Zenon, <1>1, BlockOfRow
  <2> QED
    BY Zenon, <1>3, <2>1, <2>2, <2>3, <2>4 DEF StandsOn, Holds, Settled
<1> QED
  BY Zenon, <1>1, <1>5, <1>6 DEF ChainInv

\* A batch that follows the progress on the branch it stands on.
LEMMA IndexBatchStep ==
    ASSUME TablesOK, NEW k \in served,
           NEW to \in progress.block + 1..Min({progress.block + MaxBlocksPerBatch, MaxBlock}),
           rows' = persist_indexed_log_batch(rows, RangeRows(progress.block + 1, to, k)),
           Holds(content, rows, progress.block, k)
    PROVE  Holds(content, rows', to, k)
<1> DEFINE p == progress.block
           batch == RangeRows(p + 1, to, k)
<1>1. content \in Contents /\ k \in Branch /\ p \in Nat
  BY DEF TablesOK
<1>2. to \in 0..MaxBlock /\ p + 1 \in Nat \ {0} /\ to \in Nat /\ p < to
  <2>1. Min({p + MaxBlocksPerBatch, MaxBlock}) \in Int /\ Min({p + MaxBlocksPerBatch, MaxBlock}) <= MaxBlock
    BY <1>1, BlocksAssumption, MinOfTwo
  <2> QED
    BY <1>1, <2>1, BlocksAssumption
<1>3. batch = {r \in AllRows(content, k) : r.block \in p + 1..to}
  BY Zenon, <1>1, <1>2, RangeIsPart
<1>4. rows \subseteq AllRows(content, k) /\ batch \subseteq AllRows(content, k)
  BY Zenon, <1>3 DEF Holds
<1>5. rows' = rows \cup batch
  <2>1. rows \in SUBSET AllRows(content, k) /\ batch \in SUBSET AllRows(content, k)
    BY Zenon, <1>4
  <2> HIDE DEF batch
  <2>2. persist_indexed_log_batch(rows, batch) = rows \cup batch
    BY <1>1, <2>1, UpsertAdds
  <2> QED
    BY Zenon, <2>2 DEF batch
<1>6. \A b \in Block : b <= to <=> b <= p \/ b \in p + 1..to
  BY <1>1, <1>2 DEF Block
<1>7. \A r \in AllRows(content, k) : r.block \in Block
  BY Zenon, <1>1, BlockOfRow
<1>8. rows' \subseteq AllRows(content, k)
  BY Zenon, <1>4, <1>5
<1>9. ASSUME NEW r \in AllRows(content, k), r.block <= to PROVE r \in rows'
  <2>1. r.block <= p \/ r.block \in p + 1..to
    BY Zenon, <1>6, <1>7, <1>9
  <2>2. r.block <= p => r \in rows
    BY Zenon, <1>9 DEF Holds
  <2> QED
    BY Zenon, <1>3, <1>5, <1>9, <2>1, <2>2
<1>10. ASSUME NEW r \in rows' PROVE r.block <= to \/ r.block < Fork
  <2>1. r.block \in Block
    BY Zenon, <1>7, <1>8, <1>10
  <2>2. CASE r \in rows
    <3>1. r.block <= p \/ r.block < Fork
      BY Zenon, <2>2 DEF Holds
    <3> QED
      BY Zenon, <1>6, <2>1, <3>1
  <2>3. CASE r \in batch
    BY Zenon, <1>3, <1>6, <2>1, <2>3
  <2> QED
    BY Zenon, <1>5, <1>10, <2>2, <2>3
<1> QED
  BY Zenon, <1>8, <1>9, <1>10 DEF Holds

\* A rewind reaches below the fork, so that what it leaves is of both branches.
LEMMA RewindStep ==
    ASSUME TablesOK, Settled(content, rows, progress.block), NEW a \in served,
           ~StandsOn(a), rows' = rewind_rows(rows, replay_from_block), NEW k \in Branch
    PROVE  /\ Holds(content, rows', replay_from_block - 1, k)
           /\ Settled(content, rows', replay_from_block - 1)
           /\ replay_from_block - 1 \in 0..MaxBlock /\ replay_from_block - 1 < Fork
<1> DEFINE p == progress.block
           replay == replay_from_block
<1>1. content \in Contents /\ p \in 0..MaxBlock /\ 0 \in Branch
  BY DEF TablesOK, Branch
<1>2. p # 0
  BY Zenon DEF StandsOn
<1>3. replay = IF p - MaxBlocksPerBatch + 1 >= 1 THEN p - MaxBlocksPerBatch + 1 ELSE 1
  BY <1>1, BlocksAssumption, MaxOfTwo DEF replay_from_block
<1>4. replay \in 1..p /\ replay - 1 \in 0..MaxBlock /\ replay - 1 < Fork
  BY <1>1, <1>2, <1>3, BlocksAssumption, ForkAssumption
<1> HIDE DEF replay
<1>5. rows' = {r \in rows : r.block < replay}
  BY Zenon DEF rewind_rows, replay
<1>6. \A b \in Block : (b < replay <=> b <= replay - 1) /\ (b < replay => b <= p /\ b < Fork)
  BY <1>1, <1>4, ForkAssumption DEF Block
<1>7. \A j \in Branch : \A r \in AllRows(content, j) : r.block \in Block
  BY Zenon, <1>1, BlockOfRow
<1>8. \A r \in rows' : r.block \in Block /\ r.block <= replay - 1 /\ r.block < Fork /\ r \in AllRows(content, 0)
  BY Zenon, <1>5, <1>6 DEF Settled
<1>9. \A r \in AllRows(content, 0) : r.block <= replay - 1 => r \in rows'
  BY Zenon, <1>1, <1>5, <1>6, <1>7 DEF Settled
<1>10. \A r \in AllRows(content, k) : r.block <= replay - 1 => r \in AllRows(content, 0)
  BY Zenon, <1>1, <1>6, <1>7, LowRow
<1>11. \A r \in rows' : r \in AllRows(content, k)
  BY Zenon, <1>1, <1>8, LowRow
<1>12. Holds(content, rows', replay - 1, k)
  BY Zenon, <1>8, <1>9, <1>10, <1>11 DEF Holds
<1>13. Settled(content, rows', replay - 1)
  BY Zenon, <1>8, <1>9 DEF Settled
<1> QED
  BY Zenon, <1>4, <1>12, <1>13 DEF replay

\* A batch of either branch.
LEMMA IndexBatchSettles ==
    ASSUME TablesOK, NEW k \in served,
           NEW to \in progress.block + 1..Min({progress.block + MaxBlocksPerBatch, MaxBlock}),
           rows' = persist_indexed_log_batch(rows, RangeRows(progress.block + 1, to, k)),
           Settled(content, rows, progress.block)
    PROVE  Settled(content, rows', to)
<1> DEFINE p == progress.block
           batch == RangeRows(p + 1, to, k)
<1>1. content \in Contents /\ k \in Branch /\ p \in Nat
  BY DEF TablesOK
<1>2. to \in 0..MaxBlock /\ p + 1 \in Nat \ {0} /\ to \in Nat /\ p <= to
  <2>1. Min({p + MaxBlocksPerBatch, MaxBlock}) \in Int /\ Min({p + MaxBlocksPerBatch, MaxBlock}) <= MaxBlock
    BY <1>1, BlocksAssumption, MinOfTwo
  <2> QED
    BY <1>1, <2>1, BlocksAssumption
<1>3. batch = {r \in AllRows(content, k) : r.block \in p + 1..to}
  BY Zenon, <1>1, <1>2, RangeIsPart
<1>4. \A b \in Block : (b \in p + 1..to => b <= to) /\ (b <= to /\ ~(b <= p) => b \in p + 1..to)
  BY <1>1, <1>2 DEF Block
<1>5. \A r \in AllRows(content, k) : r.block \in Block
  BY Zenon, <1>1, BlockOfRow
<1> HIDE DEF batch
<1>6. batch \in SUBSET AllRows(content, k)
  BY Zenon, <1>3
<1>7. \A r \in batch : r.block <= to \/ r.block < Fork
  BY Zenon, <1>3, <1>4, <1>5
<1>8. \A r \in AllRows(content, k) : r.block < Fork /\ r.block <= to /\ ~(r.block <= p) => r \in batch
  BY Zenon, <1>3, <1>4, <1>5
<1>9. Settled(content, persist_indexed_log_batch(rows, batch), to)
  BY Zenon, <1>1, <1>2, <1>6, <1>7, <1>8, UpsertSettled
<1> QED
  BY Zenon, <1>9 DEF batch

\* The tool upserts rows of the chain that lie below the fork.
LEMMA ShieldBatch ==
    ASSUME TablesOK, BackfillShields
    PROVE  \E batch \in SUBSET AllRows(content, canonical) :
              /\ \A r \in batch : r.block < Fork
              /\ rows' = persist_indexed_log_batch(rows, batch)
<1>1. content \in Contents /\ canonical \in Branch
  BY DEF TablesOK
<1>2. PICK to \in 1..Fork - 1 : \E batch \in SUBSET RangeRows(1, to, canonical) :
         rows' = persist_indexed_log_batch(rows, batch)
  BY Zenon DEF BackfillShields
<1> DEFINE Upserts(batch) == rows' = persist_indexed_log_batch(rows, batch)
<1>3. PICK batch \in SUBSET RangeRows(1, to, canonical) : Upserts(batch)
  BY Zenon, <1>2
<1>4. to \in 0..MaxBlock /\ 1 \in Nat \ {0}
  BY ForkAssumption, BlocksAssumption
<1>5. RangeRows(1, to, canonical) = {r \in AllRows(content, canonical) : r.block \in 1..to}
  BY Zenon, <1>1, <1>4, RangeIsPart
<1>6. \A b \in Block : b \in 1..to => b < Fork
  BY ForkAssumption, BlocksAssumption DEF Block
<1>7. \A r \in batch : r \in AllRows(content, canonical) /\ r.block < Fork
  BY Zenon, <1>1, <1>5, <1>6, BlockOfRow
<1> QED
  BY Zenon, <1>3, <1>7

\* The shields of a range below the fork.
LEMMA BackfillShieldsStep ==
    ASSUME TablesOK, NEW k \in Branch, Holds(content, rows, progress.block, k), BackfillShields
    PROVE  Holds(content, rows', progress.block, k)
<1>1. content \in Contents /\ canonical \in Branch
  BY DEF TablesOK
<1>2. PICK batch \in SUBSET AllRows(content, canonical) :
         (\A r \in batch : r.block < Fork) /\ rows' = persist_indexed_log_batch(rows, batch)
  BY Zenon, ShieldBatch
<1>3. \A r \in batch : r \in AllRows(content, k) /\ r.block < Fork
  BY Zenon, <1>1, <1>2, LowRow
<1>4. rows \in SUBSET AllRows(content, k) /\ batch \in SUBSET AllRows(content, k)
  BY Zenon, <1>3 DEF Holds
<1>5. rows' = rows \cup batch
  <2>1. persist_indexed_log_batch(rows, batch) = rows \cup batch
    BY <1>1, <1>4, UpsertAdds
  <2> QED
    BY Zenon, <1>2, <2>1
<1> QED
  BY Zenon, <1>3, <1>5 DEF Holds

\* ... also over tables that mix two chains above the fork.
LEMMA BackfillShieldsSettle ==
    ASSUME TablesOK, Settled(content, rows, progress.block), BackfillShields
    PROVE  Settled(content, rows', progress.block)
<1>1. content \in Contents /\ canonical \in Branch /\ progress.block \in Nat /\ progress.block <= progress.block
  BY DEF TablesOK
<1>2. PICK batch \in SUBSET AllRows(content, canonical) :
         (\A r \in batch : r.block < Fork) /\ rows' = persist_indexed_log_batch(rows, batch)
  BY Zenon, ShieldBatch
<1>3. Settled(content, persist_indexed_log_batch(rows, batch), progress.block)
  BY Zenon, <1>1, <1>2, UpsertSettled
<1> QED
  BY Zenon, <1>2, <1>3

\* No step but Rewind and IndexBatch moves the progress, and none changes what a branch holds.
LEMMA TablesStepOK == TablesOK /\ TablesNext => TablesOK'
<1> SUFFICES ASSUME TablesOK, TablesNext PROVE TablesOK'
  BY Zenon
<1>1. CASE Reorg
  <2>1. canonical' \in Branch
    BY <1>1 DEF Reorg, TablesOK, Branch
  <2> QED
    BY Zenon, <1>1, <2>1 DEF Reorg, TablesOK
<1>5. CASE ProvidersAgree
  BY Zenon, <1>5 DEF ProvidersAgree, TablesOK
<1>2. CASE IndexBatch
  <2>1. PICK to \in progress.block + 1..Min({progress.block + MaxBlocksPerBatch, MaxBlock}), h \in served :
           progress' = [block |-> to, hash |-> Hash(to, h)]
    BY Zenon, <1>2 DEF IndexBatch
  <2>2. progress.block \in Nat
    BY DEF TablesOK
  <2>3. Min({progress.block + MaxBlocksPerBatch, MaxBlock}) \in Int
        /\ Min({progress.block + MaxBlocksPerBatch, MaxBlock}) <= MaxBlock
    BY <2>2, BlocksAssumption, MinOfTwo
  <2>4. to \in 0..MaxBlock
    BY <2>2, <2>3, BlocksAssumption
  <2>5. progress'.block = to
    BY <2>1
  <2> QED
    BY Zenon, <1>2, <2>4, <2>5 DEF IndexBatch, TablesOK
<1>3. CASE Rewind(replay_from_block)
  <2>1. progress.block \in Nat /\ progress.block <= MaxBlock
    BY DEF TablesOK
  <2>2. replay_from_block = IF progress.block - MaxBlocksPerBatch + 1 >= 1
                            THEN progress.block - MaxBlocksPerBatch + 1 ELSE 1
    BY <2>1, BlocksAssumption, MaxOfTwo DEF replay_from_block
  <2>3. replay_from_block - 1 \in 0..MaxBlock
    BY <2>1, <2>2, BlocksAssumption
  <2>4. progress'.block = replay_from_block - 1
    BY <1>3 DEF Rewind
  <2> QED
    BY Zenon, <1>3, <2>3, <2>4 DEF Rewind, TablesOK
<1>4. CASE BackfillShields
  BY Zenon, <1>4 DEF BackfillShields, TablesOK
<1> QED
  BY Zenon, <1>1, <1>2, <1>3, <1>4, <1>5 DEF TablesNext

\* The timestamp tool changes rows only.
LEMMA TablesOKStep == TablesOK /\ [RowsNext]_rowVars => TablesOK'
<1> SUFFICES ASSUME TablesOK, [RowsNext]_rowVars PROVE TablesOK'
  BY Zenon
<1>1. CASE UNCHANGED <<content, canonical, served, progress>>
  BY Zenon, <1>1 DEF TablesOK
<1>2. TablesNext \/ UNCHANGED <<content, canonical, served, progress>>
  BY Zenon DEF RowsNext, BackfillNext, rowVars, tableVars
<1> QED
  BY Zenon, <1>1, <1>2, TablesStepOK

\* Each step of the tables keeps them on one chain, or mixes chains above the fork.
LEMMA ChainInvStep == ChainInv /\ [RowsNext]_rowVars => ChainInv'
<1> SUFFICES ASSUME ChainInv, [RowsNext]_rowVars PROVE ChainInv'
  BY Zenon
<1> DEFINE OnOneChain == \E k \in Branch : StandsOn(k) /\ Holds(content, rows, progress.block, k)
<1>1. TablesOK /\ TablesOK'
  BY Zenon, TablesOKStep DEF ChainInv
<1>2. part' = part
  BY Zenon DEF RowsNext, rowVars
<1> SUFFICES ASSUME part = "tables"
             PROVE  Settled(content', rows', progress'.block) /\ (mixed' = "no" => OnOneChain')
  BY Zenon, <1>1, <1>2 DEF ChainInv
<1>3. Settled(content, rows, progress.block) /\ (mixed = "no" => OnOneChain)
  BY Zenon DEF ChainInv
<1>4. TablesNext \/ UNCHANGED <<content, rows, progress, mixed>>
  <2>1. part # "backfill"
    OBVIOUS
  <2> QED
    BY Zenon, <2>1 DEF RowsNext, rowVars, tableVars
<1>5. CASE UNCHANGED <<content, rows, progress, mixed>>
  BY Zenon, <1>3, <1>5 DEF StandsOn
<1>6. CASE Reorg \/ ProvidersAgree
  BY Zenon, <1>3, <1>6 DEF StandsOn, Reorg, ProvidersAgree
<1>7. CASE IndexBatch
  <2>1. PICK h, j \in served, to \in progress.block + 1..Min({progress.block + MaxBlocksPerBatch, MaxBlock}) :
           /\ rows' = persist_indexed_log_batch(rows, RangeRows(progress.block + 1, to, j))
           /\ progress' = [block |-> to, hash |-> Hash(to, h)]
           /\ mixed' = IF StandsOn(j) /\ Hash(to, h) = Hash(to, j) THEN mixed ELSE "yes"
           /\ content' = content
    BY Zenon, <1>7 DEF IndexBatch
  <2>2. j \in Branch /\ content \in Contents /\ progress.block \in Nat
    BY <1>1 DEF TablesOK
  <2>3. progress'.block = to /\ progress'.hash = Hash(to, h)
    BY <2>1
  <2>4. Settled(content, rows', to)
    BY Zenon, <1>1, <1>3, <2>1, IndexBatchSettles
  <2>5. ASSUME mixed' = "no" PROVE OnOneChain'
    <3>1. StandsOn(j) /\ Hash(to, h) = Hash(to, j) /\ mixed = "no"
      BY <2>1, <2>5
    <3>2. PICK k \in Branch : StandsOn(k) /\ Holds(content, rows, progress.block, k)
      BY Zenon, <1>3, <3>1
    <3>3. progress.block = 0 => progress.block < Fork
      BY ForkAssumption
    <3>4. Holds(content, rows, progress.block, j)
      <4>1. CASE progress.block < Fork
        BY Zenon, <2>2, <3>2, <4>1, BothBranches
      <4>2. CASE ~(progress.block < Fork)
        <5>1. Hash(progress.block, j) = Hash(progress.block, k)
          BY Zenon, <3>1, <3>2, <3>3, <4>2 DEF StandsOn
        <5>2. Hash(progress.block, j)[2] = j /\ Hash(progress.block, k)[2] = k
          BY Zenon, <4>2, HashParts
        <5>3. j = k
          BY Zenon, <5>1, <5>2
        <5> QED
          BY Zenon, <3>2, <5>3
      <4> QED
        BY Zenon, <4>1, <4>2
    <3>5. Holds(content, rows', to, j)
      BY Zenon, <1>1, <2>1, <3>4, IndexBatchStep
    <3> QED
      BY Zenon, <2>1, <2>2, <2>3, <3>1, <3>5 DEF StandsOn
  <2> QED
    BY Zenon, <2>1, <2>3, <2>4, <2>5
<1>8. CASE Rewind(replay_from_block)
  <2> DEFINE low == replay_from_block - 1
  <2>1. PICK a \in served :
           /\ ~StandsOn(a) /\ content' = content
           /\ rows' = rewind_rows(rows, replay_from_block)
           /\ progress' = [block |-> low, hash |-> IF replay_from_block > 1 THEN Hash(low, a) ELSE NoHeader]
    BY Zenon, <1>8 DEF Rewind
  <2>2. progress'.block = low /\ progress'.hash = IF replay_from_block > 1 THEN Hash(low, a) ELSE NoHeader
    BY <2>1
  <2>3. a \in Branch
    BY Zenon, <1>1 DEF TablesOK
  <2>4. Holds(content, rows', low, a) /\ Settled(content, rows', low)
    BY Zenon, <1>1, <1>3, <2>1, <2>3, RewindStep
  <2>5. low = 0 \/ replay_from_block > 1
    <3>1. progress.block \in 0..MaxBlock
      BY <1>1 DEF TablesOK
    <3>2. replay_from_block = IF progress.block - MaxBlocksPerBatch + 1 >= 1
                              THEN progress.block - MaxBlocksPerBatch + 1 ELSE 1
      BY <3>1, BlocksAssumption, MaxOfTwo DEF replay_from_block
    <3> QED
      BY <3>1, <3>2, BlocksAssumption
  <2>6. progress'.block = 0 \/ progress'.hash = Hash(progress'.block, a)
    BY Zenon, <2>2, <2>5
  <2> QED
    BY Zenon, <2>1, <2>2, <2>3, <2>4, <2>6 DEF StandsOn
<1>9. CASE BackfillShields
  <2>1. content' = content /\ progress' = progress /\ mixed' = mixed
    BY Zenon, <1>9 DEF BackfillShields
  <2>2. \A k \in Branch : Holds(content, rows, progress.block, k) => Holds(content, rows', progress.block, k)
    BY Zenon, <1>1, <1>9, BackfillShieldsStep
  <2>3. Settled(content, rows', progress.block)
    BY Zenon, <1>1, <1>3, <1>9, BackfillShieldsSettle
  <2> QED
    BY Zenon, <1>3, <2>1, <2>2, <2>3 DEF StandsOn
<1> QED
  BY Zenon, <1>4, <1>5, <1>6, <1>7, <1>8, <1>9 DEF TablesNext

\* The rows of the blocks no reorganisation reaches are always the chain's, though a batch may be
\* put together from answers of two chains (chain_indexed.rs compares none with another), and up
\* to the progress the tables are the chain's it stands on until that happens and again after the
\* next rewind: whatever reorganisations, rewinds, second indexings (persist_indexed_log_batch,
\* rewind_chain_indexing_to_replay_block) and legacy-shield backfills came before, for a chain of
\* any length, blocks of any shape and a fork anywhere a rewind reaches.
THEOREM OneChain == RowsSpec => []TablesAreOfOneChain
<1>1. RowsSpec => []ChainInv
  BY ChainInvInit, ChainInvStep, PTL DEF RowsSpec
<1> QED
  BY <1>1, ChainInvSuffices, PTL

-----------------------------------------------------------------------------
(* Timestamps. *)

IsRow(r) ==
    r = [family |-> r.family, pos |-> r.pos, block |-> r.block, bhash |-> r.bhash, time |-> r.time,
         cipher |-> r.cipher, hash |-> r.hash]

\* A row's timestamp is its block's, or it has none.
OwnTime(r) == IsRow(r) /\ (r.time = NoTime \/ r.time = r.bhash)

Dated(r) == IsRow(r) /\ r.time = r.bhash /\ r.time # NoTime

\* A new row has the time it is given and the hash of its block.
LEMMA NewRowTime ==
    ASSUME NEW shapes, NEW family, NEW pos, NEW b, NEW k, NEW t
    PROVE  /\ IsRow(NewRow(shapes, family, pos, b, k, t))
           /\ NewRow(shapes, family, pos, b, k, t).time = t
           /\ NewRow(shapes, family, pos, b, k, t).bhash = Hash(b, k)
  BY DEF NewRow, IsRow

\* A hash, which stands for the timestamp of its block, is not a missing one.
LEMMA HashIsATime == \A b, k : Hash(b, k) # NoTime
  BY DEF Hash, NoTime

\* A row of a block has the time it was given, or its block's.
LEMMA BlockRowTime ==
    ASSUME NEW shapes, NEW b, NEW k, NEW t, NEW r \in BlockRows(shapes, b, k, t)
    PROVE  IsRow(r) /\ r.bhash = Hash(b, k) /\ (r.time = t \/ r.time = Hash(b, k))
<1> DEFINE Numbered(family, field, u) ==
        {NewRow(shapes, family, Before(shapes, b, field) + i, b, k, u) : i \in 0..shapes[b][field] - 1}
<1>1. ASSUME NEW family, NEW field, NEW u, r \in Numbered(family, field, u)
      PROVE  IsRow(r) /\ r.bhash = Hash(b, k) /\ r.time = u
  <2>1. PICK i \in 0..shapes[b][field] - 1 :
           r = NewRow(shapes, family, Before(shapes, b, field) + i, b, k, u)
    BY Zenon, <1>1
  <2> QED
    BY <2>1, NewRowTime
<1>2. r \in Numbered(shapes[b].family, "leaves", t) \/ r \in Numbered("nullifier", "nullifiers", t)
      \/ r \in Numbered("txid", "txids", Hash(b, k)) \/ r \in Numbered("source", "transactions", t)
  BY Zenon DEF BlockRows
<1> HIDE DEF Numbered
<1> QED
  BY Zenon, <1>1, <1>2

\* What the indexer inserts has its timestamps.
LEMMA RangeRowsDated ==
    ASSUME NEW from, NEW to, NEW k, NEW r \in RangeRows(from, to, k)
    PROVE  Dated(r)
<1>1. PICK b \in from..to : r \in BlockRows(Shapes(k), b, k, Hash(b, k))
  BY Zenon DEF RangeRows
<1>2. IsRow(r) /\ r.bhash = Hash(b, k) /\ r.time = Hash(b, k)
  BY <1>1, BlockRowTime
<1> QED
  BY Zenon, <1>2, HashIsATime DEF Dated

\* A source transaction moved to an earlier block keeps its time and hash.
LEMMA OtherBlock ==
    ASSUME NEW r, IsRow(r), NEW b
    PROVE  /\ IsRow([r EXCEPT !.block = b])
           /\ [r EXCEPT !.block = b].time = r.time
           /\ [r EXCEPT !.block = b].bhash = r.bhash
  BY DEF IsRow

\* ... and its key.
LEMMA OtherBlockKey ==
    ASSUME NEW r, IsRow(r), NEW b
    PROVE  /\ Key([r EXCEPT !.block = b]) = Key(r)
           /\ [r EXCEPT !.block = b].pos = r.pos
           /\ [r EXCEPT !.block = b].hash = r.hash
           /\ [r EXCEPT !.block = b].block = b
  BY DEF IsRow, Key

\* A row that gets a timestamp keeps its block and hash.
LEMMA OtherTime ==
    ASSUME NEW r, IsRow(r), NEW t
    PROVE  /\ IsRow([r EXCEPT !.time = t])
           /\ [r EXCEPT !.time = t].time = t
           /\ [r EXCEPT !.time = t].bhash = r.bhash
           /\ [r EXCEPT !.time = t].block = r.block
  BY DEF IsRow

\* An upserted row is one of the table, or has the time and the hash of one of the batch.
LEMMA UpsertedRow ==
    ASSUME NEW table, NEW batch, \A q \in batch : IsRow(q),
           NEW r \in persist_indexed_log_batch(table, batch), r \notin table
    PROVE  \E q \in batch : IsRow(r) /\ r.time = q.time /\ r.bhash = q.bhash
<1>1. PICK q \in batch : r = IF q.family = "source" THEN record_source_transaction(table, q) ELSE q
  BY Zenon DEF persist_indexed_log_batch
<1>2. CASE r = q
  BY Zenon, <1>2
<1>3. CASE r = record_source_transaction(table, q)
  <2>1. PICK b : r = [q EXCEPT !.block = b]
    BY Zenon, <1>3 DEF record_source_transaction
  <2> QED
    BY Zenon, <2>1, OtherBlock
<1> QED
  BY Zenon, <1>1, <1>2, <1>3

\* An upsert of rows with their timestamps brings no other row.
LEMMA UpsertDated ==
    ASSUME NEW table, NEW batch, \A q \in batch : Dated(q),
           NEW r \in persist_indexed_log_batch(table, batch), r \notin table
    PROVE  Dated(r)
<1>1. PICK q \in batch : IsRow(r) /\ r.time = q.time /\ r.bhash = q.bhash
  BY Zenon, UpsertedRow DEF Dated
<1> QED
  BY Zenon, <1>1 DEF Dated

\* What the indexer and the legacy-shield tool do to the rows.
LEMMA TablesRows ==
    ASSUME TablesNext, NEW r \in rows', r \notin rows
    PROVE  Dated(r)
<1>1. CASE Reorg \/ ProvidersAgree
  BY Zenon, <1>1 DEF Reorg, ProvidersAgree
<1>2. CASE IndexBatch
  <2>1. PICK from, to, k : rows' = persist_indexed_log_batch(rows, RangeRows(from, to, k))
    BY Zenon, <1>2 DEF IndexBatch
  <2>2. \A q \in RangeRows(from, to, k) : Dated(q)
    BY Zenon, RangeRowsDated
  <2> QED
    BY Zenon, <2>1, <2>2, UpsertDated
<1>3. CASE Rewind(replay_from_block)
  BY Zenon, <1>3 DEF Rewind, rewind_rows
<1>4. CASE BackfillShields
  <2>1. PICK to \in 1..Fork - 1 : \E batch \in SUBSET RangeRows(1, to, canonical) :
           rows' = persist_indexed_log_batch(rows, batch)
    BY Zenon, <1>4 DEF BackfillShields
  <2>2. PICK batch \in SUBSET RangeRows(1, to, canonical) : rows' = persist_indexed_log_batch(rows, batch)
    BY Zenon, <2>1
  <2>3. \A q \in batch : Dated(q)
    BY Zenon, RangeRowsDated
  <2> QED
    BY Zenon, <2>2, <2>3, UpsertDated
<1> QED
  BY Zenon, <1>1, <1>2, <1>3, <1>4 DEF TablesNext

\* The rows an earlier version left have their block's timestamp or none.
LEMMA OldRowsTime ==
    ASSUME NEW top, NEW orphans, NEW r \in OldRows(top, orphans)
    PROVE  OwnTime(r)
<1> DEFINE Undated(k, from) == UNION {BlockRows(Shapes(k), b, k, NoTime) : b \in from..top}
<1>1. ASSUME NEW k, NEW from, NEW q \in Undated(k, from) PROVE OwnTime(q)
  <2>1. PICK b \in from..top : q \in BlockRows(Shapes(k), b, k, NoTime)
    BY Zenon, <1>1
  <2>2. IsRow(q) /\ q.bhash = Hash(b, k) /\ (q.time = NoTime \/ q.time = Hash(b, k))
    BY <2>1, BlockRowTime
  <2> QED
    BY Zenon, <2>2 DEF OwnTime
<1>2. r \in Undated(0, 1) \/ r \in persist_indexed_log_batch(Undated(1, Fork), Undated(0, 1))
  BY Zenon DEF OldRows
<1> HIDE DEF Undated
<1>3. CASE r \in persist_indexed_log_batch(Undated(1, Fork), Undated(0, 1)) /\ r \notin Undated(1, Fork)
  <2>1. PICK q \in Undated(0, 1) : IsRow(r) /\ r.time = q.time /\ r.bhash = q.bhash
    BY Zenon, <1>1, <1>3, UpsertedRow DEF OwnTime
  <2> QED
    BY Zenon, <1>1, <2>1 DEF OwnTime
<1> QED
  BY Zenon, <1>1, <1>2, <1>3

\* Row r is q with the timestamp s.
GetsTime(q, s, r) ==
    IsMissing(q) /\ <<s[1], s[2]>> = <<q.block, q.bhash>> /\ r = [q EXCEPT !.time = s[3]]

\* A row after an update is one of the table, or one that had no timestamp with that of its block.
LEMMA BackfilledRow ==
    ASSUME NEW table, NEW updates, NEW r \in backfill_wallet_scan_block_timestamps(table, updates),
           r \notin table
    PROVE  \E q \in table, s \in updates : GetsTime(q, s, r)
<1> DEFINE Found(q) == {s \in timestamp_sources(updates) : <<s[1], s[2]>> = <<q.block, q.bhash>>}
<1>1. PICK q \in table : r = IF IsMissing(q) /\ Found(q) # {}
                             THEN [q EXCEPT !.time = (CHOOSE s \in Found(q) : TRUE)[3]] ELSE q
  BY Zenon DEF backfill_wallet_scan_block_timestamps
<1>2. IsMissing(q) /\ Found(q) # {} /\ r = [q EXCEPT !.time = (CHOOSE s \in Found(q) : TRUE)[3]]
  BY Zenon, <1>1
<1> DEFINE u == CHOOSE s \in Found(q) : TRUE
<1>3. u \in Found(q)
  BY Zenon, <1>2
<1>4. u \in updates /\ <<u[1], u[2]>> = <<q.block, q.bhash>>
  BY Zenon, <1>3 DEF timestamp_sources
<1> QED
  BY Zenon, <1>2, <1>4 DEF GetsTime

\* A timestamp for this block is the block's: the archive provider answers by hash, a Squid by
\* the number of a canonical block.
Trusted(b, h) == options.source = "rpc" \/ (reorgs = 0 /\ h = Hash(b, canonical))

TimeInv ==
    /\ reorgs \in Nat
    /\ bpc = "squid" => options.source = "squid"
    /\ \A r \in rows : IsRow(r) /\ (r.time # NoTime /\ Trusted(r.block, r.bhash) => r.time = r.bhash)
    /\ \A s \in resolved : Trusted(s[1], s[2]) => s[3] = s[2]

\* The invariant is the property, for rows and for answers in hand.
LEMMA TimeInvSuffices == TimeInv => TimestampsAreTheirBlocks
  BY Zenon DEF TimeInv, TimestampsAreTheirBlocks, Trusted

\* The rows of an earlier version have their timestamps or none, and no answer is in hand.
LEMMA TimeInvInit == RowsInit => TimeInv
<1> SUFFICES ASSUME RowsInit PROVE TimeInv
  BY Zenon
<1>1. reorgs = 0 /\ resolved = {} /\ bpc = "seed"
  BY Zenon DEF RowsInit, TablesInit, BackfillInit
<1>2. PICK top \in 0..MaxBlock, orphans \in {"yes", "no"} :
         rows = OldRows(top, orphans) \/ rows = RangeRows(1, top, 0)
  BY Zenon DEF RowsInit
<1>3. ASSUME NEW r \in rows PROVE OwnTime(r)
  <2>1. CASE r \in OldRows(top, orphans)
    BY Zenon, <2>1, OldRowsTime
  <2>2. CASE r \in RangeRows(1, top, 0)
    BY Zenon, <2>2, RangeRowsDated DEF Dated, OwnTime
  <2> QED
    BY Zenon, <1>2, <1>3, <2>1, <2>2
<1>4. reorgs \in Nat /\ bpc # "squid"
  BY <1>1
<1> QED
  BY Zenon, <1>1, <1>3, <1>4 DEF TimeInv, OwnTime

\* A reorganisation only takes trust away.
LEMMA TrustStep ==
    ASSUME reorgs \in Nat, [RowsNext]_rowVars
    PROVE  /\ options' = options
           /\ reorgs' \in Nat
           /\ \A b, h : Trusted(b, h)' => Trusted(b, h)
<1>1. options' = options
  BY Zenon DEF RowsNext, BackfillNext, rowVars, backfillVars, Seed, ListMissing,
        resolve_missing_with_squid, resolve_missing_with_rpc, ResolveFails, apply_resolved_timestamps
<1>2. Reorg \/ (reorgs' = reorgs /\ canonical' = canonical)
  BY Zenon DEF RowsNext, TablesNext, ProvidersAgree, IndexBatch, Rewind, BackfillShields, BackfillNext,
        rowVars, tableVars
<1>3. CASE Reorg
  <2>1. reorgs' # 0 /\ reorgs' \in Nat
    BY <1>3 DEF Reorg
  <2> QED
    BY Zenon, <1>1, <2>1 DEF Trusted
<1>4. CASE reorgs' = reorgs /\ canonical' = canonical
  BY Zenon, <1>1, <1>4 DEF Trusted
<1> QED
  BY Zenon, <1>2, <1>3, <1>4

\* What a step may do: move the tables, take a step of the tool, or leave both.
LEMMA StepsOfBackfill ==
    ASSUME [RowsNext]_rowVars
    PROVE  \/ TablesNext /\ UNCHANGED backfillVars
           \/ UNCHANGED <<rows, backfillVars>>
           \/ Seed \/ ListMissing \/ resolve_missing_with_squid \/ resolve_missing_with_rpc
           \/ ResolveFails \/ apply_resolved_timestamps
  BY Zenon DEF RowsNext, BackfillNext, rowVars, tableVars, backfillVars

\* The rows after an update are still right when the timestamps were.
LEMMA BackfilledRight ==
    ASSUME TimeInv, NEW updates, \A s \in updates : Trusted(s[1], s[2]) => s[3] = s[2],
           NEW r \in backfill_wallet_scan_block_timestamps(rows, updates)
    PROVE  IsRow(r) /\ (r.time # NoTime /\ Trusted(r.block, r.bhash) => r.time = r.bhash)
<1>1. CASE r \in rows
  BY Zenon, <1>1 DEF TimeInv
<1>2. CASE r \notin rows
  <2>1. PICK q \in rows, s \in updates :
           GetsTime(q, s, r)
    BY Zenon, <1>2, BackfilledRow
  <2>2. s[1] = q.block /\ s[2] = q.bhash
    <3>1. <<s[1], s[2]>> = <<q.block, q.bhash>>
      BY Zenon, <2>1 DEF GetsTime
    <3> QED
      BY <3>1
  <2>3. IsRow(q)
    BY Zenon DEF TimeInv
  <2>4. IsRow(r) /\ r.time = s[3] /\ r.bhash = q.bhash /\ r.block = q.block
    BY <2>1, <2>3, OtherTime DEF GetsTime
  <2> QED
    BY Zenon, <2>2, <2>4
<1> QED
  BY Zenon, <1>1, <1>2

\* Each step of the indexer and of the tool keeps the timestamps right.
LEMMA TimeInvStep == TimeInv /\ [RowsNext]_rowVars => TimeInv'
<1> SUFFICES ASSUME TimeInv, [RowsNext]_rowVars PROVE TimeInv'
  BY Zenon
<1> DEFINE Right(r) == IsRow(r) /\ (r.time # NoTime /\ Trusted(r.block, r.bhash) => r.time = r.bhash)
           Resolves(s) == Trusted(s[1], s[2]) => s[3] = s[2]
<1>1. /\ options' = options /\ reorgs' \in Nat
      /\ \A b, h : Trusted(b, h)' => Trusted(b, h)
  BY Zenon, TrustStep DEF TimeInv
<1>2. \A r \in rows : Right(r)
  BY Zenon DEF TimeInv
<1>3. \A s \in resolved : Resolves(s)
  BY Zenon DEF TimeInv
<1> SUFFICES /\ bpc' = "squid" => options.source = "squid"
             /\ \A r \in rows' : Right(r)
             /\ \A s \in resolved' : Resolves(s)
  BY Zenon, <1>1 DEF TimeInv
<1>4. CASE TablesNext /\ UNCHANGED backfillVars
  <2>1. ASSUME NEW r \in rows' PROVE Right(r)
    BY Zenon, <1>2, <1>4, <2>1, TablesRows DEF Dated
  <2> QED
    BY Zenon, <1>3, <1>4, <2>1 DEF TimeInv, backfillVars
<1>5. CASE UNCHANGED <<rows, backfillVars>>
  BY Zenon, <1>2, <1>3, <1>5 DEF TimeInv, backfillVars
<1>6. CASE Seed
  <2> DEFINE known == {<<r.block, r.bhash, r.time>> : r \in {r \in rows : r.time # NoTime}}
  <2>1. ASSUME NEW s \in known PROVE Resolves(s)
    <3>1. PICK r \in rows : r.time # NoTime /\ s = <<r.block, r.bhash, r.time>>
      BY Zenon, <2>1
    <3>2. s[1] = r.block /\ s[2] = r.bhash /\ s[3] = r.time
      BY <3>1
    <3> QED
      BY Zenon, <1>2, <3>1, <3>2
  <2>2. rows' = rows \/ rows' = backfill_wallet_scan_block_timestamps(rows, known)
    BY Zenon, <1>6 DEF Seed, backfill_wallet_scan_timestamps_from_local_sources
  <2> HIDE DEF known
  <2>3. ASSUME NEW r \in rows' PROVE Right(r)
    BY Zenon, <1>2, <2>1, <2>2, <2>3, BackfilledRight
  <2>4. bpc' # "squid"
    BY <1>6 DEF Seed
  <2> QED
    BY Zenon, <1>3, <1>6, <2>3, <2>4 DEF Seed
<1>7. CASE ListMissing
  BY Zenon, <1>2, <1>7 DEF ListMissing
<1>8. CASE resolve_missing_with_squid
  <2>1. options.source = "squid" /\ options.source # "rpc"
    BY <1>8 DEF resolve_missing_with_squid, TimeInv
  <2>2. ASSUME NEW s \in resolved' PROVE Resolves(s)
    <3>1. PICK m \in missing : s = <<m[1], m[2], Hash(m[1], canonical)>>
      BY Zenon, <1>8, <2>2 DEF resolve_missing_with_squid
    <3>2. s[1] = m[1] /\ s[2] = m[2] /\ s[3] = Hash(m[1], canonical)
      BY <3>1
    <3> QED
      BY Zenon, <2>1, <3>2 DEF Trusted
  <2> QED
    BY Zenon, <1>2, <1>8, <2>1, <2>2 DEF resolve_missing_with_squid
<1>9. CASE resolve_missing_with_rpc
  <2>1. ASSUME NEW s \in resolved' PROVE Resolves(s)
    <3>1. s \in resolved \/ \E m \in missing : s = <<m[1], m[2], m[2]>>
      BY Zenon, <1>9, <2>1 DEF resolve_missing_with_rpc, unresolved_missing_blocks
    <3>2. ASSUME NEW m \in missing, s = <<m[1], m[2], m[2]>> PROVE s[3] = s[2]
      BY <3>2
    <3> QED
      BY Zenon, <1>3, <3>1, <3>2
  <2>2. bpc' # "squid"
    BY <1>9 DEF resolve_missing_with_rpc
  <2> QED
    BY Zenon, <1>2, <1>9, <2>1, <2>2 DEF resolve_missing_with_rpc
<1>10. CASE ResolveFails
  <2>1. bpc' # "squid"
    BY <1>10 DEF ResolveFails
  <2> QED
    BY Zenon, <1>2, <1>3, <1>10, <2>1 DEF ResolveFails
<1>11. CASE apply_resolved_timestamps
  <2>1. rows' = rows \/ rows' = backfill_wallet_scan_block_timestamps(rows, resolved)
    BY Zenon, <1>11 DEF apply_resolved_timestamps
  <2>2. ASSUME NEW r \in rows' PROVE Right(r)
    BY Zenon, <1>2, <1>3, <2>1, <2>2, BackfilledRight
  <2>3. bpc' # "squid"
    BY <1>11 DEF apply_resolved_timestamps
  <2> QED
    BY Zenon, <1>3, <1>11, <2>2, <2>3 DEF apply_resolved_timestamps
<1> QED
  BY Zenon, <1>4, <1>5, <1>6, <1>7, <1>8, <1>9, <1>10, <1>11, StepsOfBackfill

\* The tool never gives a row the timestamp of another block, though its lists, its answers and
\* its updates are apart and the indexer rewinds and indexes in between: for any tables, any
\* number of reorganisations with the archive provider, and none with a Squid.
THEOREM TimestampsAreRight == RowsSpec => []TimestampsAreTheirBlocks
<1>1. RowsSpec => []TimeInv
  BY TimeInvInit, TimeInvStep, PTL DEF RowsSpec
<1> QED
  BY <1>1, TimeInvSuffices, PTL

-----------------------------------------------------------------------------
(* The backfill is complete. *)

\* The image of a finite set is finite.
LEMMA FiniteImage ==
    ASSUME NEW S, IsFiniteSet(S), NEW f
    PROVE  IsFiniteSet({f[x] : x \in S})
<1> DEFINE T == {f[x] : x \in S}
           g == [x \in S |-> f[x]]
<1>1. g \in [S -> T] /\ \A t \in T : \E x \in S : g[x] = t
  BY Zenon
<1>2. g \in Surjection(S, T)
  BY Zenon, <1>1 DEF Surjection
<1> HIDE DEF g, T
<1>3. IsFiniteSet(T)
  BY Zenon, <1>2, FS_Surjection
<1> QED
  BY Zenon, <1>3 DEF T

\* A block has finitely many rows.
LEMMA BlockRowsFinite ==
    ASSUME NEW shapes \in [Block -> BlockShapes], NEW b \in Block, NEW k, NEW t
    PROVE  IsFiniteSet(BlockRows(shapes, b, k, t))
<1> DEFINE N(family, field, u) ==
        {NewRow(shapes, family, Before(shapes, b, field) + i, b, k, u) : i \in 0..shapes[b][field] - 1}
<1>1. ASSUME NEW family, NEW field \in Fields, NEW u PROVE IsFiniteSet(N(family, field, u))
  <2> DEFINE I == 0..shapes[b][field] - 1
             f == [i \in I |-> NewRow(shapes, family, Before(shapes, b, field) + i, b, k, u)]
  <2>1. shapes[b][field] \in Nat
    BY Zenon, ShapeCounts
  <2>2. shapes[b][field] - 1 \in Int /\ 0 \in Int
    BY <2>1
  <2>3. IsFiniteSet(I)
    BY Zenon, <2>2, FS_Interval
  <2>4. N(family, field, u) = {f[i] : i \in I}
    BY Zenon
  <2> HIDE DEF I, f
  <2>5. IsFiniteSet({f[i] : i \in I})
    BY Zenon, <2>3, FiniteImage
  <2> QED
    BY Zenon, <2>4, <2>5
<1>2. "leaves" \in Fields /\ "nullifiers" \in Fields /\ "txids" \in Fields /\ "transactions" \in Fields
  BY DEF Fields
<1> DEFINE N1 == N(shapes[b].family, "leaves", t)
           N2 == N("nullifier", "nullifiers", t)
           N3 == N("txid", "txids", Hash(b, k))
           N4 == N("source", "transactions", t)
<1>3. BlockRows(shapes, b, k, t) = N1 \cup N2 \cup N3 \cup N4
  BY Zenon DEF BlockRows
<1> HIDE DEF N
<1>4. IsFiniteSet(N1) /\ IsFiniteSet(N2) /\ IsFiniteSet(N3) /\ IsFiniteSet(N4)
  BY Zenon, <1>1, <1>2
<1> HIDE DEF N1, N2, N3, N4
<1>5. IsFiniteSet(N1 \cup N2)
  BY Zenon, <1>4, FS_Union
<1>6. IsFiniteSet(N1 \cup N2 \cup N3)
  BY Zenon, <1>4, <1>5, FS_Union
<1>7. IsFiniteSet(N1 \cup N2 \cup N3 \cup N4)
  BY Zenon, <1>4, <1>6, FS_Union
<1> QED
  BY Zenon, <1>3, <1>7

\* The rows of a range of blocks, with the given timestamps.
TimedRows(from, to, k, time) == UNION {BlockRows(Shapes(k), b, k, time[b]) : b \in from..to}

\* The rows of a range of blocks of a chain, with any timestamps, are finitely many.
LEMMA RangeFinite ==
    ASSUME content \in Contents, NEW k \in Branch, NEW from \in Nat \ {0}, NEW to \in 0..MaxBlock,
           NEW time
    PROVE  IsFiniteSet(TimedRows(from, to, k, time))
<1> DEFINE I == from..to
           f == [b \in I |-> BlockRows(Shapes(k), b, k, time[b])]
<1>1. I \subseteq Block /\ from \in Int /\ to \in Int
  BY BlocksAssumption DEF Block
<1>2. Shapes(k) = Chain(content, k)
  BY Zenon DEF Shapes, Shape, Chain
<1>3. Shapes(k) \in [Block -> BlockShapes]
  BY Zenon, <1>2, ChainShapes
<1>4. \A b \in I : IsFiniteSet(BlockRows(Shapes(k), b, k, time[b]))
  BY Zenon, <1>1, <1>3, BlockRowsFinite
<1>5. IsFiniteSet(I)
  BY Zenon, <1>1, FS_Interval
<1>6. {BlockRows(Shapes(k), b, k, time[b]) : b \in I} = {f[b] : b \in I}
  BY Zenon
<1>7. IsFiniteSet({f[b] : b \in I})
  <2> HIDE DEF f, I
  <2> QED
    BY Zenon, <1>5, FiniteImage
<1>8. \A S \in {f[b] : b \in I} : IsFiniteSet(S)
  BY Zenon, <1>4
<1>9. IsFiniteSet(UNION {f[b] : b \in I})
  <2> HIDE DEF f, I
  <2> DEFINE F == {f[b] : b \in I}
  <2>1. IsFiniteSet(F) /\ \A S \in F : IsFiniteSet(S)
    BY Zenon, <1>7, <1>8
  <2> HIDE DEF F
  <2>2. IsFiniteSet(UNION F)
    BY Zenon, <2>1, FS_UNION
  <2> QED
    BY Zenon, <2>2 DEF F
<1> QED
  BY Zenon, <1>6, <1>9 DEF TimedRows

\* A batch is finite.
LEMMA RangeRowsFinite ==
    ASSUME content \in Contents, NEW k \in Branch, NEW from \in Nat \ {0}, NEW to \in 0..MaxBlock
    PROVE  IsFiniteSet(RangeRows(from, to, k))
<1> DEFINE t == [b \in from..to |-> Hash(b, k)]
<1>1. RangeRows(from, to, k) = TimedRows(from, to, k, t)
  BY Zenon DEF RangeRows, TimedRows
<1> HIDE DEF t
<1>2. IsFiniteSet(TimedRows(from, to, k, t))
  BY Zenon, RangeFinite
<1> QED
  BY Zenon, <1>1, <1>2

\* An upsert keeps the tables finite.
LEMMA UpsertFinite ==
    ASSUME NEW table, IsFiniteSet(table), NEW batch, IsFiniteSet(batch)
    PROVE  IsFiniteSet(persist_indexed_log_batch(table, batch))
<1> DEFINE kept == {s \in table : \A r \in batch : Key(r) # Key(s)}
           f == [r \in batch |-> IF r.family = "source" THEN record_source_transaction(table, r) ELSE r]
           new == {f[r] : r \in batch}
<1>1. persist_indexed_log_batch(table, batch) = kept \cup new
  BY Zenon DEF persist_indexed_log_batch
<1>2. kept \in SUBSET table
  BY Zenon
<1> HIDE DEF kept, f
<1>3. IsFiniteSet(kept)
  BY Zenon, <1>2, FS_Subset
<1>4. IsFiniteSet(new)
  BY Zenon, FiniteImage
<1> HIDE DEF new
<1> QED
  BY Zenon, <1>1, <1>3, <1>4, FS_Union

\* An update of timestamps keeps the tables finite.
LEMMA BackfilledFinite ==
    ASSUME NEW table, IsFiniteSet(table), NEW updates
    PROVE  IsFiniteSet(backfill_wallet_scan_block_timestamps(table, updates))
<1> DEFINE f == [r \in table |->
        LET found == {s \in timestamp_sources(updates) : <<s[1], s[2]>> = <<r.block, r.bhash>>}
        IN  IF IsMissing(r) /\ found # {} THEN [r EXCEPT !.time = (CHOOSE s \in found : TRUE)[3]] ELSE r]
<1>1. backfill_wallet_scan_block_timestamps(table, updates) = {f[r] : r \in table}
  BY Zenon DEF backfill_wallet_scan_block_timestamps
<1> HIDE DEF f
<1>2. IsFiniteSet({f[r] : r \in table})
  BY Zenon, FiniteImage
<1> QED
  BY Zenon, <1>1, <1>2

\* What an earlier version stored is finite.
LEMMA OldRowsFinite ==
    ASSUME content \in Contents, NEW top \in 0..MaxBlock, NEW orphans
    PROVE  IsFiniteSet(OldRows(top, orphans))
<1> DEFINE Undated(k, from) == UNION {BlockRows(Shapes(k), b, k, NoTime) : b \in from..top}
<1>1. ASSUME NEW k \in Branch, NEW from \in Nat \ {0} PROVE IsFiniteSet(Undated(k, from))
  <2> DEFINE t == [b \in from..top |-> NoTime]
  <2>1. Undated(k, from) = TimedRows(from, top, k, t)
    BY Zenon DEF TimedRows
  <2> HIDE DEF t, Undated
  <2>2. IsFiniteSet(TimedRows(from, top, k, t))
    BY Zenon, RangeFinite
  <2> QED
    BY Zenon, <2>1, <2>2
<1>2. OldRows(top, orphans) = persist_indexed_log_batch(Undated(1, Fork), Undated(0, 1))
      \/ OldRows(top, orphans) \in SUBSET Undated(0, 1)
  BY Zenon DEF OldRows
<1>3. 0 \in Branch /\ 1 \in Branch /\ 1 \in Nat \ {0} /\ Fork \in Nat \ {0}
  BY ForkAssumption, BlocksAssumption DEF Branch
<1> HIDE DEF Undated
<1>4. IsFiniteSet(Undated(0, 1)) /\ IsFiniteSet(Undated(1, Fork))
  BY Zenon, <1>1, <1>3
<1>5. IsFiniteSet(persist_indexed_log_batch(Undated(1, Fork), Undated(0, 1)))
  BY Zenon, <1>4, UpsertFinite
<1>6. ASSUME NEW S \in SUBSET Undated(0, 1) PROVE IsFiniteSet(S)
  BY Zenon, <1>4, FS_Subset
<1> QED
  BY Zenon, <1>2, <1>5, <1>6

\* The archive provider answers in the end.
Reliable == options.source = "rpc" \/ options.fallback = "yes"

CompleteInv ==
    /\ TablesOK
    /\ IsFiniteSet(rows)
    /\ options.source \in {"rpc", "squid"}
    /\ bpc \in {"squid", "rpc"} => missing # {}
    /\ bpc = "squid" => options.source = "squid"
    /\ bpc = "apply" /\ Reliable => resolved # {}
    /\ bpc = "done" /\ options.dry_run = "no" /\ Reliable => \A r \in rows : ~IsMissing(r)

\* A tool that has ended well left no row of a wallet scan undated.
LEMMA CompleteInvSuffices == CompleteInv => BackfillIsComplete
  BY Zenon DEF CompleteInv, BackfillIsComplete, Reliable, wallet_scan_rows, IsMissing

\* The tool starts with a list to make, on finite tables.
LEMMA CompleteInvInit == RowsInit => CompleteInv
<1> SUFFICES ASSUME RowsInit PROVE CompleteInv
  BY Zenon
<1>1. TablesOK
  BY Zenon, ChainInvInit DEF ChainInv
<1>2. bpc = "seed" /\ options \in Options
  BY Zenon DEF RowsInit, BackfillInit
<1>3. bpc \notin {"squid", "rpc", "apply", "done"} /\ options.source \in {"rpc", "squid"}
  BY <1>2 DEF Options
<1>4. PICK top \in 0..MaxBlock, orphans \in {"yes", "no"} :
         rows = OldRows(top, orphans) \/ rows = RangeRows(1, top, 0)
  BY Zenon DEF RowsInit
<1>5. content \in Contents /\ 0 \in Branch
  BY <1>1 DEF TablesOK, Branch
<1>6. 1 \in Nat \ {0}
  OBVIOUS
<1>7. IsFiniteSet(OldRows(top, orphans))
  BY Zenon, <1>5, <1>6, OldRowsFinite
<1>8. IsFiniteSet(RangeRows(1, top, 0))
  BY Zenon, <1>5, <1>6, RangeRowsFinite
<1>9. IsFiniteSet(rows)
  BY Zenon, <1>4, <1>7, <1>8
<1> QED
  BY Zenon, <1>1, <1>3, <1>9 DEF CompleteInv

\* Each step of the indexer and of the legacy-shield tool keeps the tables finite.
LEMMA TablesFinite ==
    ASSUME TablesOK, IsFiniteSet(rows), TablesNext
    PROVE  IsFiniteSet(rows')
<1>1. content \in Contents /\ canonical \in Branch /\ served \subseteq Branch /\ progress.block \in Nat
  BY DEF TablesOK
<1>2. CASE Reorg \/ ProvidersAgree
  BY Zenon, <1>2 DEF Reorg, ProvidersAgree
<1>3. CASE IndexBatch
  <2>1. PICK k \in served, to \in progress.block + 1..Min({progress.block + MaxBlocksPerBatch, MaxBlock}) :
           rows' = persist_indexed_log_batch(rows, RangeRows(progress.block + 1, to, k))
    BY Zenon, <1>3 DEF IndexBatch
  <2>2. Min({progress.block + MaxBlocksPerBatch, MaxBlock}) \in Int
        /\ Min({progress.block + MaxBlocksPerBatch, MaxBlock}) <= MaxBlock
    BY <1>1, BlocksAssumption, MinOfTwo
  <2>3. to \in 0..MaxBlock /\ progress.block + 1 \in Nat \ {0}
    BY <1>1, <2>2, BlocksAssumption
  <2>4. IsFiniteSet(RangeRows(progress.block + 1, to, k))
    BY Zenon, <1>1, <2>3, RangeRowsFinite
  <2> QED
    BY Zenon, <2>1, <2>4, UpsertFinite
<1>4. CASE Rewind(replay_from_block)
  <2>1. rows' \in SUBSET rows
    BY Zenon, <1>4 DEF Rewind, rewind_rows
  <2> QED
    BY Zenon, <2>1, FS_Subset
<1>5. CASE BackfillShields
  <2>1. PICK to \in 1..Fork - 1 : \E batch \in SUBSET RangeRows(1, to, canonical) :
           rows' = persist_indexed_log_batch(rows, batch)
    BY Zenon, <1>5 DEF BackfillShields
  <2>2. PICK batch \in SUBSET RangeRows(1, to, canonical) : rows' = persist_indexed_log_batch(rows, batch)
    BY Zenon, <2>1
  <2>3. to \in 0..MaxBlock /\ 1 \in Nat \ {0}
    BY ForkAssumption, BlocksAssumption
  <2>4. IsFiniteSet(RangeRows(1, to, canonical))
    BY Zenon, <1>1, <2>3, RangeRowsFinite
  <2>5. IsFiniteSet(batch)
    BY Zenon, <2>4, FS_Subset
  <2> QED
    BY Zenon, <2>2, <2>5, UpsertFinite
<1> QED
  BY Zenon, <1>2, <1>3, <1>4, <1>5 DEF TablesNext

\* An empty list means that no row is missing its timestamp: the limit is not zero.
LEMMA NothingListed ==
    ASSUME IsFiniteSet(rows), {} \in missing_wallet_scan_timestamp_blocks(rows)
    PROVE  \A r \in rows : ~IsMissing(r)
<1> DEFINE M == {r \in rows : IsMissing(r)}
           f == [r \in M |-> <<r.block, r.bhash>>]
           all == {f[r] : r \in M}
<1>1. Cardinality({}) = Min({Cardinality(all), BlockQueryLimit})
  <2>1. all = {<<r.block, r.bhash>> : r \in M}
    BY Zenon
  <2>2. Cardinality({}) = Min({Cardinality({<<r.block, r.bhash>> : r \in M}), BlockQueryLimit})
    BY Zenon DEF missing_wallet_scan_timestamp_blocks
  <2> QED
    BY Zenon, <2>1, <2>2
<1>2. M \in SUBSET rows
  BY Zenon
<1>3. IsFiniteSet(M)
  <2> HIDE DEF M
  <2> QED
    BY Zenon, <1>2, FS_Subset
<1>4. IsFiniteSet(all)
  <2> HIDE DEF M, f
  <2> QED
    BY Zenon, <1>3, FiniteImage
<1>5. ASSUME all = {} PROVE \A r \in rows : ~IsMissing(r)
  BY Zenon, <1>5
<1> HIDE DEF all
<1>6. Cardinality(all) \in Nat
  BY Zenon, <1>4, FS_CardinalityType
<1>7. Cardinality({}) = 0
  BY Zenon, FS_EmptySet
<1>8. Cardinality(all) = 0
  BY <1>1, <1>6, <1>7, LimitAssumption, MinOfTwo
<1>9. all = {}
  BY Zenon, <1>4, <1>8, FS_EmptySet
<1> QED
  BY Zenon, <1>5, <1>9

\* The tool's own steps: each list, answer and update keeps what the next one relies on.
ToolInv ==
    /\ IsFiniteSet(rows)
    /\ bpc \in {"squid", "rpc"} => missing # {}
    /\ bpc = "squid" => options.source = "squid"
    /\ bpc = "apply" /\ Reliable => resolved # {}
    /\ bpc = "done" /\ options.dry_run = "no" /\ Reliable => \A r \in rows : ~IsMissing(r)

\* The local sources only fill timestamps in.
LEMMA SeedStep == CompleteInv /\ Seed => ToolInv'
<1> SUFFICES ASSUME CompleteInv, Seed PROVE ToolInv'
  BY Zenon
<1>1. bpc' \notin {"squid", "rpc", "apply", "done"}
  BY DEF Seed
<1>2. rows' = rows \/ rows' = backfill_wallet_scan_block_timestamps(rows,
          {<<r.block, r.bhash, r.time>> : r \in {r \in rows : r.time # NoTime}})
  BY Zenon DEF Seed, backfill_wallet_scan_timestamps_from_local_sources
<1>3. IsFiniteSet(rows')
  BY Zenon, <1>2, BackfilledFinite DEF CompleteInv
<1> QED
  BY Zenon, <1>1, <1>3 DEF ToolInv

\* A list is empty only when nothing is missing.
LEMMA ListStep == CompleteInv /\ ListMissing => ToolInv'
<1> SUFFICES ASSUME CompleteInv, ListMissing PROVE ToolInv'
  BY Zenon
<1>1. rows' = rows /\ options' = options /\ IsFiniteSet(rows)
  BY Zenon DEF ListMissing, CompleteInv
<1>2. CASE missing' = {}
  <2>1. bpc' \notin {"squid", "rpc", "apply"}
    BY <1>2 DEF ListMissing
  <2>2. {} \in missing_wallet_scan_timestamp_blocks(rows)
    BY Zenon, <1>2 DEF ListMissing
  <2>3. \A r \in rows : ~IsMissing(r)
    BY Zenon, <1>1, <2>2, NothingListed
  <2> QED
    BY Zenon, <1>1, <2>1, <2>3 DEF ToolInv
<1>3. CASE missing' # {}
  <2>1. bpc' = options.source /\ options.source \in {"rpc", "squid"}
    BY Zenon, <1>3 DEF ListMissing, CompleteInv
  <2>2. bpc' # "apply" /\ bpc' # "done"
    BY <2>1
  <2> QED
    BY Zenon, <1>1, <1>3, <2>1, <2>2 DEF ToolInv
<1> QED
  BY Zenon, <1>2, <1>3

\* A Squid that resolves nothing is followed by the archive provider, or is not reliable.
LEMMA SquidStep == CompleteInv /\ resolve_missing_with_squid => ToolInv'
<1> SUFFICES ASSUME CompleteInv, resolve_missing_with_squid PROVE ToolInv'
  BY Zenon
<1>1. /\ rows' = rows /\ options' = options /\ missing' = missing /\ IsFiniteSet(rows)
      /\ missing # {} /\ options.source = "squid"
      /\ bpc' = IF options.fallback = "yes" THEN "rpc" ELSE "apply"
  BY Zenon DEF resolve_missing_with_squid, CompleteInv
<1>2. bpc' # "squid" /\ bpc' # "done" /\ (bpc' = "apply" => options.fallback # "yes") /\ options.source # "rpc"
  BY <1>1
<1> QED
  BY Zenon, <1>1, <1>2 DEF ToolInv, Reliable

\* After the archive provider, each listed block is resolved.
LEMMA RpcStep == CompleteInv /\ resolve_missing_with_rpc => ToolInv'
<1> SUFFICES ASSUME CompleteInv, resolve_missing_with_rpc PROVE ToolInv'
  BY Zenon
<1>1. /\ rows' = rows /\ options' = options /\ missing' = missing /\ IsFiniteSet(rows)
      /\ missing # {} /\ bpc' = "apply"
      /\ resolved' = resolved \cup {<<m[1], m[2], m[2]>> : m \in unresolved_missing_blocks}
  BY Zenon DEF resolve_missing_with_rpc, CompleteInv
<1>2. bpc' \notin {"squid", "rpc", "done"}
  BY <1>1
<1>3. PICK m : m \in missing
  BY Zenon, <1>1
<1>4. resolved # {} \/ m \in unresolved_missing_blocks
  BY Zenon, <1>3 DEF unresolved_missing_blocks
<1>5. resolved' # {}
  BY Zenon, <1>1, <1>4
<1> QED
  BY Zenon, <1>1, <1>2, <1>5 DEF ToolInv

\* With the archive provider there is an answer to apply, and another list follows.
LEMMA ApplyStep == CompleteInv /\ apply_resolved_timestamps => ToolInv'
<1> SUFFICES ASSUME CompleteInv, apply_resolved_timestamps PROVE ToolInv'
  BY Zenon
<1>1. /\ bpc = "apply" /\ options' = options
      /\ IsFiniteSet(rows) /\ (Reliable => resolved # {})
  BY Zenon DEF apply_resolved_timestamps, CompleteInv
<1>2. CASE resolved = {} \/ options.dry_run = "yes"
  <2>1. rows' = rows /\ bpc' = "done"
    BY Zenon, <1>2 DEF apply_resolved_timestamps
  <2>2. bpc' \notin {"squid", "rpc", "apply"}
    BY <2>1
  <2>3. ~(options.dry_run = "no" /\ Reliable)
    BY <1>1, <1>2
  <2> QED
    BY Zenon, <1>1, <2>1, <2>2, <2>3 DEF ToolInv, Reliable
<1>3. CASE ~(resolved = {} \/ options.dry_run = "yes")
  <2>1. rows' = backfill_wallet_scan_block_timestamps(rows, resolved) /\ bpc' = "list"
    BY Zenon, <1>3 DEF apply_resolved_timestamps
  <2>2. bpc' \notin {"squid", "rpc", "apply", "done"}
    BY <2>1
  <2>3. IsFiniteSet(rows')
    BY Zenon, <1>1, <2>1, BackfilledFinite
  <2> QED
    BY Zenon, <2>2, <2>3 DEF ToolInv
<1> QED
  BY Zenon, <1>2, <1>3

\* Each step of the indexer and of the tool keeps the tool on its way to an empty list.
LEMMA CompleteInvStep == CompleteInv /\ [RowsNext]_rowVars => CompleteInv'
<1> SUFFICES ASSUME CompleteInv, [RowsNext]_rowVars PROVE CompleteInv'
  BY Zenon
<1>1. TablesOK'
  BY Zenon, TablesOKStep DEF CompleteInv
<1>2. options' = options
  BY Zenon DEF RowsNext, BackfillNext, rowVars, backfillVars, Seed, ListMissing,
        resolve_missing_with_squid, resolve_missing_with_rpc, ResolveFails, apply_resolved_timestamps
<1> SUFFICES ToolInv'
  BY Zenon, <1>1, <1>2 DEF CompleteInv, ToolInv
<1>3. CASE TablesNext /\ UNCHANGED backfillVars
  <2>1. IsFiniteSet(rows')
    BY Zenon, <1>3, TablesFinite DEF CompleteInv
  <2>2. ASSUME NEW r \in rows', IsMissing(r) PROVE r \in rows
    BY Zenon, <1>3, <2>2, TablesRows DEF Dated, IsMissing
  <2>3. bpc' = bpc /\ missing' = missing /\ resolved' = resolved
    BY Zenon, <1>3 DEF backfillVars
  <2> QED
    BY Zenon, <1>2, <2>1, <2>2, <2>3 DEF CompleteInv, ToolInv, Reliable
<1>4. CASE UNCHANGED <<rows, backfillVars>>
  BY Zenon, <1>4 DEF CompleteInv, ToolInv, Reliable, backfillVars
<1>5. CASE ResolveFails
  <2>1. bpc' \notin {"squid", "rpc", "apply", "done"}
    BY <1>5 DEF ResolveFails
  <2>2. IsFiniteSet(rows')
    BY Zenon, <1>5 DEF ResolveFails, CompleteInv
  <2> QED
    BY Zenon, <2>1, <2>2 DEF ToolInv
<1> QED
  BY Zenon, <1>3, <1>4, <1>5, StepsOfBackfill, SeedStep, ListStep, SquidStep, RpcStep, ApplyStep

\* A tool that ended well, with the archive provider to fall back on, left no row of a wallet
\* scan without its timestamp, and none has come without one since: for any tables, any
\* --block-query-limit and any steps of the indexer in between.
THEOREM NothingIsMissing == RowsSpec => []BackfillIsComplete
<1>1. RowsSpec => []CompleteInv
  BY CompleteInvInit, CompleteInvStep, PTL DEF RowsSpec
<1> QED
  BY <1>1, CompleteInvSuffices, PTL

-----------------------------------------------------------------------------
(* The tables: every key has one row, whichever branches the rows are of. *)

Dating(r) == [r EXCEPT !.time = r.bhash]

KeyedRows(table) ==
    /\ \A r \in table : IsRow(r) /\ r.block \in Block /\ r.pos \in Nat /\ r.hash = <<r.pos, r.bhash>>
    /\ \A r, s \in table : Key(r) = Key(s) => r = s

TableInv ==
    /\ TablesOK
    /\ IsFiniteSet(rows)
    /\ KeyedRows(rows)
    /\ progress.block = 0 => progress = NoHeight
    /\ progress.block # 0 => headers[progress.block] = progress.hash
    /\ DOMAIN headers = Block

\* A row with its timestamp is otherwise the same.
LEMMA DatedRow ==
    ASSUME NEW r, IsRow(r)
    PROVE  /\ Dating(r).family = r.family /\ Dating(r).pos = r.pos /\ Dating(r).block = r.block
           /\ Dating(r).bhash = r.bhash /\ Dating(r).hash = r.hash /\ Dating(r).time = r.bhash
           /\ Dating(r).cipher = r.cipher
           /\ r.time = r.bhash => Dating(r) = r
BY DEF IsRow, Dating

\* A row of a chain has its timestamp.
LEMMA ChainRow ==
    ASSUME NEW c \in Contents, NEW k \in Branch, NEW r \in AllRows(c, k)
    PROVE  IsRow(r) /\ Dating(r) = r /\ r.block \in Block /\ r.hash = <<r.pos, r.bhash>>
           /\ r.pos \in Nat /\ r.family \in RowFamilies /\ r.bhash = Hash(r.block, k)
<1>1. r.block \in Block /\ r \in RowsAt(c, r.block, k)
  BY Zenon, BlockOfRow
<1>2. RowOf(c, r, r.block, k)
  BY Zenon, <1>1, RowFacts
<1>3. r = NewRow(Chain(c, k), r.family, r.pos, r.block, k, Hash(r.block, k))
  BY Zenon, <1>2 DEF RowOf
<1>4. r.hash = <<r.pos, Hash(r.block, k)>> /\ r.bhash = Hash(r.block, k) /\ r.time = Hash(r.block, k)
  BY <1>3 DEF NewRow
<1>5. IsRow(r)
  BY <1>3 DEF NewRow, IsRow
<1> QED
  BY Zenon, <1>1, <1>2, <1>4, <1>5, DatedRow DEF RowOf

\* An upsert of rows of a branch, over whatever is stored.
LEMMA UpsertKeyed ==
    ASSUME NEW c \in Contents, NEW k \in Branch, NEW table, KeyedRows(table),
           NEW batch \in SUBSET AllRows(c, k)
    PROVE  KeyedRows(persist_indexed_log_batch(table, batch))
<1> DEFINE kept == {s \in table : \A r \in batch : Key(r) # Key(s)}
           table2 == persist_indexed_log_batch(table, batch)
<1>1. table2 = kept \cup {Upserted(table, r) : r \in batch}
  BY Zenon DEF persist_indexed_log_batch, Upserted
<1> HIDE DEF table2
<1>2. ASSUME NEW r \in batch
      PROVE  LET new == Upserted(table, r)
             IN  /\ IsRow(new) /\ new.block \in Block /\ new.pos \in Nat /\ new.hash = <<new.pos, new.bhash>>
                 /\ Key(new) = Key(r)
  <2>1. r \in AllRows(c, k)
    BY Zenon
  <2>2. IsRow(r) /\ r.block \in Block /\ r.pos \in Nat /\ r.hash = <<r.pos, r.bhash>>
    BY Zenon, <2>1, ChainRow
  <2>3. CASE Upserted(table, r) = r
    BY Zenon, <2>2, <2>3
  <2>4. CASE Upserted(table, r) = record_source_transaction(table, r)
    <3> DEFINE blocks == {s.block : s \in {s \in table : Key(s) = Key(r)}} \cup {r.block}
    <3>1. Upserted(table, r) = [r EXCEPT !.block = Min(blocks)]
      BY Zenon, <2>4 DEF record_source_transaction
    <3>2. blocks \in SUBSET Block /\ blocks # {}
      BY Zenon, <2>2 DEF KeyedRows
    <3> HIDE DEF blocks
    <3>3. PICK m \in Block : Upserted(table, r) = [r EXCEPT !.block = m]
      BY Zenon, <3>1, <3>2, LeastBlock
    <3> DEFINE new == [r EXCEPT !.block = m]
    <3>4. IsRow(new) /\ new.bhash = r.bhash
      BY Zenon, <2>2, OtherBlock
    <3>5. Key(new) = Key(r) /\ new.pos = r.pos /\ new.hash = r.hash /\ new.block = m
      BY Zenon, <2>2, OtherBlockKey
    <3> HIDE DEF new
    <3>6. new.hash = <<new.pos, new.bhash>> /\ new.pos \in Nat /\ new.block \in Block
      BY Zenon, <2>2, <3>4, <3>5
    <3> QED
      BY Zenon, <3>3, <3>4, <3>5, <3>6 DEF new
  <2> QED
    BY Zenon, <2>3, <2>4 DEF Upserted
<1>3. \A r, s \in batch : Key(r) = Key(s) => r = s
  BY Zenon, OneRowPerKey
<1>4. ASSUME NEW x \in table2
      PROVE  IsRow(x) /\ x.block \in Block /\ x.pos \in Nat /\ x.hash = <<x.pos, x.bhash>>
  BY Zenon, <1>1, <1>2 DEF KeyedRows
<1>5. ASSUME NEW x \in table2, NEW y \in table2, Key(x) = Key(y) PROVE x = y
  <2>1. CASE x \in kept /\ y \in kept
    BY Zenon, <1>5, <2>1 DEF KeyedRows
  <2>2. CASE \E r, s \in batch : x = Upserted(table, r) /\ y = Upserted(table, s)
    BY Zenon, <1>2, <1>3, <1>5, <2>2
  <2>3. CASE \E r \in batch : (x = Upserted(table, r) /\ y \in kept) \/ (y = Upserted(table, r) /\ x \in kept)
    BY Zenon, <1>2, <1>5, <2>3
  <2> QED
    BY Zenon, <1>1, <2>1, <2>2, <2>3
<1> QED
  BY Zenon, <1>4, <1>5 DEF KeyedRows, table2

\* A batch of any branch, a rewind and the shields of a range leave one row of a key.
LEMMA TableStep == TableInv /\ TablesNext => TableInv'
<1> SUFFICES ASSUME TableInv, TablesNext PROVE TableInv'
  BY Zenon
<1>1. TablesOK /\ IsFiniteSet(rows) /\ DOMAIN headers = Block /\ KeyedRows(rows)
  BY Zenon DEF TableInv
<1>2. TablesOK'
  BY Zenon, <1>1, TablesStepOK
<1>3. IsFiniteSet(rows')
  BY Zenon, <1>1, TablesFinite
<1>4. content \in Contents /\ canonical \in Branch /\ served \subseteq Branch
      /\ progress.block \in 0..MaxBlock /\ progress.block \in Nat
  <2>1. 0..MaxBlock \subseteq Nat
    BY BlocksAssumption
  <2> QED
    BY Zenon, <1>1, <2>1 DEF TablesOK
<1>5. CASE Reorg \/ ProvidersAgree
  BY Zenon, <1>2, <1>3, <1>5 DEF TableInv, Reorg, ProvidersAgree
<1>6. CASE IndexBatch
  <2>1. PICK h, j \in served, to \in progress.block + 1..Min({progress.block + MaxBlocksPerBatch, MaxBlock}) :
           /\ rows' = persist_indexed_log_batch(rows, RangeRows(progress.block + 1, to, j))
           /\ headers' = [headers EXCEPT ![to] = Hash(to, h)]
           /\ progress' = [block |-> to, hash |-> Hash(to, h)]
    BY Zenon, <1>6 DEF IndexBatch
  <2>2. j \in Branch
    BY Zenon, <1>4
  <2>3. to \in 0..MaxBlock /\ to # 0 /\ to \in Block /\ progress.block + 1 \in Nat \ {0}
    <3>1. Min({progress.block + MaxBlocksPerBatch, MaxBlock}) \in Int
          /\ Min({progress.block + MaxBlocksPerBatch, MaxBlock}) <= MaxBlock
      BY <1>4, BlocksAssumption, MinOfTwo
    <3> QED
      BY <1>4, <3>1, BlocksAssumption DEF Block
  <2> DEFINE batch == RangeRows(progress.block + 1, to, j)
  <2>4. batch = {r \in AllRows(content, j) : r.block \in progress.block + 1..to}
    BY Zenon, <1>4, <2>2, <2>3, RangeIsPart
  <2>5. batch \in SUBSET AllRows(content, j)
    BY Zenon, <2>4
  <2>6. rows' = persist_indexed_log_batch(rows, batch)
    BY Zenon, <2>1
  <2> HIDE DEF batch
  <2>7. KeyedRows(rows')
    BY Zenon, <1>1, <1>4, <2>2, <2>5, <2>6, UpsertKeyed
  <2>8. progress'.block = to /\ progress'.hash = Hash(to, h)
    BY <2>1
  <2>9. headers'[to] = Hash(to, h) /\ DOMAIN headers' = Block
    BY <1>1, <2>1, <2>3
  <2>10. progress'.block # 0 /\ headers'[progress'.block] = progress'.hash
    BY Zenon, <2>3, <2>8, <2>9
  <2> QED
    BY Zenon, <1>2, <1>3, <2>7, <2>9, <2>10 DEF TableInv
<1>7. CASE Rewind(replay_from_block)
  <2> DEFINE replay == replay_from_block
             low == replay - 1
  <2>1. replay = IF progress.block - MaxBlocksPerBatch + 1 >= 1 THEN progress.block - MaxBlocksPerBatch + 1 ELSE 1
    BY <1>4, BlocksAssumption, MaxOfTwo DEF replay_from_block
  <2>2. PICK a \in served :
        /\ ~StandsOn(a)
        /\ rows' = {r \in rows : r.block < replay}
        /\ headers' = [b \in Block |->
              IF b >= replay THEN NoHeader
              ELSE IF b = replay - 1 THEN Hash(b, a) ELSE headers[b]]
        /\ progress' = [block |-> low, hash |-> IF replay > 1 THEN Hash(low, a) ELSE NoHeader]
    BY Zenon, <1>7 DEF Rewind, rewind_rows
  <2>3. progress.block # 0
    BY Zenon, <2>2 DEF StandsOn
  <2>4. replay \in 1..progress.block /\ low \in 0..MaxBlock
    BY <1>4, <2>1, <2>3, BlocksAssumption
  <2> HIDE DEF replay
  <2>5. progress'.block = low /\ progress'.hash = IF replay > 1 THEN Hash(low, a) ELSE NoHeader
    BY <2>2
  <2>6. KeyedRows(rows')
    BY Zenon, <1>1, <2>2 DEF KeyedRows
  <2>7. low = 0 \/ (replay > 1 /\ low # 0)
    BY <1>4, <2>4
  <2>8. low = 0 => progress' = NoHeight
    <3>1. low = 0 => ~(replay > 1)
      BY <1>4, <2>4
    <3> QED
      BY Zenon, <2>2, <3>1 DEF NoHeight
  <2>9. DOMAIN headers' = Block
    BY Zenon, <2>2
  <2>10. low # 0 => headers'[low] = Hash(low, a)
    <3> SUFFICES ASSUME low # 0 PROVE headers'[low] = Hash(low, a)
      BY Zenon
    <3>1. low \in Block /\ ~(low >= replay)
      BY <1>4, <2>4 DEF Block
    <3> QED
      BY Zenon, <2>2, <3>1
  <2>11. low # 0 => headers'[progress'.block] = progress'.hash
    BY Zenon, <2>5, <2>7, <2>10
  <2> QED
    BY Zenon, <1>2, <1>3, <2>5, <2>6, <2>8, <2>9, <2>11 DEF TableInv
<1>8. CASE BackfillShields
  <2>1. content' = content /\ progress' = progress /\ headers' = headers
    BY Zenon, <1>8 DEF BackfillShields
  <2>2. PICK batch \in SUBSET AllRows(content, canonical) : rows' = persist_indexed_log_batch(rows, batch)
    BY Zenon, <1>1, <1>8, ShieldBatch
  <2>3. KeyedRows(rows')
    BY Zenon, <1>1, <1>4, <2>2, UpsertKeyed
  <2> QED
    BY Zenon, <1>2, <1>3, <2>1, <2>3 DEF TableInv
<1> QED
  BY Zenon, <1>5, <1>6, <1>7, <1>8 DEF TablesNext

\* What an earlier version stored of a block are its rows, but for the timestamps.
LEMMA UndatedRow ==
    ASSUME NEW shapes, NEW b, NEW k, NEW t, NEW r \in BlockRows(shapes, b, k, t)
    PROVE  IsRow(r) /\ Dating(r) \in BlockRows(shapes, b, k, Hash(b, k))
<1> DEFINE N(family, field, u) ==
        {NewRow(shapes, family, Before(shapes, b, field) + i, b, k, u) : i \in 0..shapes[b][field] - 1}
<1>1. ASSUME NEW family, NEW field, NEW u, r \in N(family, field, u)
      PROVE  Dating(r) \in N(family, field, Hash(b, k))
  <2>1. PICK i \in 0..shapes[b][field] - 1 :
           r = NewRow(shapes, family, Before(shapes, b, field) + i, b, k, u)
    BY Zenon, <1>1
  <2>2. Dating(r) = NewRow(shapes, family, Before(shapes, b, field) + i, b, k, Hash(b, k))
    BY <2>1 DEF Dating, NewRow
  <2> QED
    BY Zenon, <2>2
<1>2. r \in N(shapes[b].family, "leaves", t) \/ r \in N("nullifier", "nullifiers", t)
      \/ r \in N("txid", "txids", Hash(b, k)) \/ r \in N("source", "transactions", t)
  BY Zenon DEF BlockRows
<1>3. BlockRows(shapes, b, k, Hash(b, k))
        = N(shapes[b].family, "leaves", Hash(b, k)) \cup N("nullifier", "nullifiers", Hash(b, k))
            \cup N("txid", "txids", Hash(b, k)) \cup N("source", "transactions", Hash(b, k))
  BY Zenon DEF BlockRows
<1> HIDE DEF N
<1>4. Dating(r) \in BlockRows(shapes, b, k, Hash(b, k))
  BY Zenon, <1>1, <1>2, <1>3
<1> QED
  BY Zenon, <1>4, BlockRowTime

\* Every row of a block but that of a public transaction has the time it was given.
LEMMA UndatedTime ==
    ASSUME NEW shapes, NEW b, NEW k, NEW t, NEW r \in BlockRows(shapes, b, k, t), r.family # "txid"
    PROVE  r.time = t
<1> DEFINE N(family, field, u) ==
        {NewRow(shapes, family, Before(shapes, b, field) + i, b, k, u) : i \in 0..shapes[b][field] - 1}
<1>1. ASSUME NEW family, NEW field, NEW u, r \in N(family, field, u)
      PROVE  r.time = u /\ r.family = family
  <2>1. PICK i \in 0..shapes[b][field] - 1 :
           r = NewRow(shapes, family, Before(shapes, b, field) + i, b, k, u)
    BY Zenon, <1>1
  <2> QED
    BY <2>1 DEF NewRow
<1>2. r \in N(shapes[b].family, "leaves", t) \/ r \in N("nullifier", "nullifiers", t)
      \/ r \in N("txid", "txids", Hash(b, k)) \/ r \in N("source", "transactions", t)
  BY Zenon DEF BlockRows
<1> HIDE DEF N
<1> QED
  BY Zenon, <1>1, <1>2

\* Rows that differ in no other field than the time.
LEMMA SameButTime ==
    ASSUME NEW r, NEW s, IsRow(r), IsRow(s), Dating(r) = Dating(s), r.time = s.time
    PROVE  r = s
<1>1. /\ r.family = s.family /\ r.pos = s.pos /\ r.block = s.block /\ r.bhash = s.bhash
      /\ r.hash = s.hash /\ r.cipher = s.cipher
  BY Zenon, DatedRow
<1> QED
  BY Zenon, <1>1 DEF IsRow

\* The rows of an earlier version, or of this one.
LEMMA TableInit == RowsInit /\ part = "catalogs" => TableInv
<1> SUFFICES ASSUME RowsInit, part = "catalogs" PROVE TableInv
  BY Zenon
<1>1. TablesOK /\ IsFiniteSet(rows)
  BY Zenon, CompleteInvInit DEF CompleteInv
<1>2. content \in Contents /\ 0 \in Branch /\ 1 \in Nat \ {0}
  BY <1>1 DEF TablesOK, Branch
<1>3. PICK top \in 0..MaxBlock : TablesInit(top) /\ (rows = OldRows(top, "no") \/ rows = RangeRows(1, top, 0))
  <2>1. part # "backfill"
    OBVIOUS
  <2> QED
    BY Zenon, <2>1 DEF RowsInit
<1>4. top \in Nat /\ top \in Int
  BY BlocksAssumption
<1>5. progress = [block |-> top, hash |-> IF top > 0 THEN Hash(top, 0) ELSE NoHeader]
      /\ headers = [b \in Block |-> IF b = top THEN Hash(b, 0) ELSE NoHeader]
  BY Zenon, <1>3 DEF TablesInit
<1>6. progress.block = top /\ progress.hash = IF top > 0 THEN Hash(top, 0) ELSE NoHeader
  BY <1>5
<1>7. top = 0 \/ (top > 0 /\ top \in Block /\ top # 0)
  BY <1>4, BlocksAssumption DEF Block
<1>9. top = 0 => progress = NoHeight
  <2>1. ~(0 > 0)
    OBVIOUS
  <2> QED
    BY Zenon, <1>5, <2>1 DEF NoHeight
<1>10. top # 0 => headers[progress.block] = progress.hash
  BY Zenon, <1>5, <1>6, <1>7
<1>11. DOMAIN headers = Block
  BY Zenon, <1>5
<1>12. Shapes(0) = Chain(content, 0)
  BY Zenon DEF Shapes, Shape, Chain
<1>13. ASSUME NEW r \in rows
       PROVE  IsRow(r) /\ Dating(r) \in AllRows(content, 0)
  <2>1. PICK b \in 1..top : \E t : r \in BlockRows(Shapes(0), b, 0, t)
    <3>1. CASE r \in RangeRows(1, top, 0)
      BY Zenon, <3>1 DEF RangeRows
    <3>2. CASE r \in OldRows(top, "no")
      <4>1. "no" # "yes"
        OBVIOUS
      <4> QED
        BY Zenon, <3>2, <4>1 DEF OldRows
    <3> QED
      BY Zenon, <1>3, <3>1, <3>2
  <2>2. b \in Block
    BY <1>4, BlocksAssumption DEF Block
  <2>3. IsRow(r) /\ Dating(r) \in RowsAt(content, b, 0)
    BY Zenon, <1>12, <2>1, UndatedRow DEF RowsAt
  <2> QED
    BY Zenon, <2>2, <2>3 DEF AllRows
<1>14. ASSUME NEW r \in rows, NEW s \in rows, Key(r) = Key(s) PROVE r = s
  <2>1. IsRow(r) /\ Dating(r) \in AllRows(content, 0) /\ IsRow(s) /\ Dating(s) \in AllRows(content, 0)
    BY Zenon, <1>13
  <2>2. Key(Dating(r)) = Key(r) /\ Key(Dating(s)) = Key(s)
    BY Zenon, <2>1, DatedRow DEF Key
  <2>3. Dating(r) = Dating(s)
    BY Zenon, <1>2, <1>14, <2>1, <2>2, OneRowPerKey
  <2>4. r.time = s.time
    <3>1. CASE rows = RangeRows(1, top, 0)
      <4>1. r.time = r.bhash /\ s.time = s.bhash
        BY Zenon, <3>1, RangeRowsDated DEF Dated
      <4> QED
        BY Zenon, <2>1, <2>3, <4>1, DatedRow
    <3>2. CASE rows = OldRows(top, "no")
      <4>1. ASSUME NEW q \in rows PROVE q.time = NoTime
        <5>1. "no" # "yes"
          OBVIOUS
        <5>2. q.family # "txid" /\ \E b \in 1..top : q \in BlockRows(Shapes(0), b, 0, NoTime)
          BY Zenon, <3>2, <5>1 DEF OldRows
        <5>3. PICK b \in 1..top : q \in BlockRows(Shapes(0), b, 0, NoTime)
          BY Zenon, <5>2
        <5> QED
          BY Zenon, <5>2, <5>3, UndatedTime
      <4> QED
        BY Zenon, <4>1
    <3> QED
      BY Zenon, <1>3, <3>1, <3>2
  <2> QED
    BY Zenon, <2>1, <2>3, <2>4, SameButTime
<1>15. ASSUME NEW r \in rows PROVE r.block \in Block /\ r.pos \in Nat /\ r.hash = <<r.pos, r.bhash>>
  <2> DEFINE d == Dating(r)
  <2>1. IsRow(r) /\ d \in AllRows(content, 0)
    BY Zenon, <1>13
  <2>2. d.block = r.block /\ d.pos = r.pos /\ d.hash = r.hash /\ d.bhash = r.bhash
    BY Zenon, <2>1, DatedRow
  <2> HIDE DEF d
  <2>3. d.block \in Block /\ d.pos \in Nat /\ d.hash = <<d.pos, d.bhash>>
    BY Zenon, <1>2, <2>1, ChainRow
  <2> QED
    BY Zenon, <2>2, <2>3
<1>16. KeyedRows(rows)
  BY Zenon, <1>13, <1>14, <1>15 DEF KeyedRows
<1> QED
  BY Zenon, <1>1, <1>6, <1>9, <1>10, <1>11, <1>16 DEF TableInv

-----------------------------------------------------------------------------
(* The log filters. *)

ErasOK == v2_start_block \in Nat /\ legacy_shield_block \in Nat /\ action_start_block \in Nat

\* What filters ask for of a block in their range: each event the contract may emit, once;
\* and nothing of other blocks.
Covers(filters, from, to) ==
    \A e \in Event, b \in Nat :
        /\ b \notin from..to => ~\E f \in filters : Asks(f, e, b)
        /\ b \in from..to /\ Emits(e, b) =>
              \E f \in filters : Asks(f, e, b) /\ \A g \in filters : Asks(g, e, b) => g = f

\* A filter in one place.
LEMMA FilterAsks ==
    ASSUME NEW from, NEW to, NEW events, NEW e, NEW b
    PROVE  Asks(Filter(from, to, events), e, b) <=> e \in events /\ b \in from..to
BY Zenon DEF Asks, Filter

\* What the contract may emit, event by event.
LEMMA Emitted ==
    ASSUME NEW e \in Event, NEW b, Emits(e, b)
    PROVE  /\ e \in LegacyBatches => b < v2_start_block
           /\ e \in ACTION_EVENT_SIGNATURES => b >= action_start_block
           /\ e \in {"Transact", "LegacyShield", "Shield"} => b >= v2_start_block
           /\ e = "LegacyShield" => b <= legacy_shield_block
           /\ e = "Shield" => b > legacy_shield_block
BY Zenon DEF Emits, Event, LegacyBatches, Nullifications, ACTION_EVENT_SIGNATURES

\* A range with a combined filter lies in one era, and its events are those of the era.
LEMMA OneEra ==
    ASSUME ErasOK, NEW from \in Nat, NEW to \in Nat, from <= to,
           era_event_signatures_for_range(from, to) # {}
    PROVE  LET era == era_event_signatures_for_range(from, to)
           IN  \/ to < v2_start_block /\ era = LegacyBatches \cup Nullifications
               \/ /\ from >= v2_start_block /\ to <= legacy_shield_block
                  /\ era = {"Transact", "LegacyShield"} \cup Nullifications
               \/ /\ from >= v2_start_block /\ from > legacy_shield_block
                  /\ era = {"Transact", "Shield"} \cup Nullifications
BY DEF ErasOK, era_event_signatures_for_range

\* In one era, the combined filter and the Action filter that may follow it cover the range.
LEMMA CombinedCovers ==
    ASSUME ErasOK, NEW from \in Nat, NEW to \in Nat, from <= to,
           combined_event_signatures_for_range(from, to) # {}
    PROVE  Covers(chain_index_log_filters(from, to), from, to)
<1> DEFINE filters == chain_index_log_filters(from, to)
           era == era_event_signatures_for_range(from, to)
           combined == combined_event_signatures_for_range(from, to)
           afrom == Max({from, action_start_block})
           f0 == Filter(from, to, combined)
           fa == Filter(afrom, to, ACTION_EVENT_SIGNATURES)
<1>1. /\ from >= action_start_block => combined = era \cup ACTION_EVENT_SIGNATURES
      /\ ~(from >= action_start_block) => combined = era
      /\ era # {}
  BY Zenon DEF combined_event_signatures_for_range
<1>2. afrom = IF from >= action_start_block THEN from ELSE action_start_block
  BY MaxOfTwo DEF ErasOK
<1>3. filters = {f0} \cup (IF afrom > from /\ action_start_block <= to THEN {fa} ELSE {})
  BY Zenon DEF chain_index_log_filters, OptionalFilter
<1>4. /\ \A e, b : Asks(f0, e, b) <=> e \in combined /\ b \in from..to
      /\ \A e, b : Asks(fa, e, b) <=> e \in ACTION_EVENT_SIGNATURES /\ b \in afrom..to
  BY Zenon, FilterAsks
<1>5. \/ to < v2_start_block /\ era = LegacyBatches \cup Nullifications
      \/ /\ from >= v2_start_block /\ to <= legacy_shield_block
         /\ era = {"Transact", "LegacyShield"} \cup Nullifications
      \/ /\ from >= v2_start_block /\ from > legacy_shield_block
         /\ era = {"Transact", "Shield"} \cup Nullifications
  BY Zenon, <1>1, OneEra
<1> HIDE DEF filters, era, combined, afrom, f0, fa
<1>6. era \cap ACTION_EVENT_SIGNATURES = {}
  BY <1>5 DEF LegacyBatches, Nullifications, ACTION_EVENT_SIGNATURES
<1>7. ASSUME NEW e \in Event, NEW b \in from..to, Emits(e, b), e \notin ACTION_EVENT_SIGNATURES
      PROVE  e \in era
  <2>1. /\ e \in LegacyBatches => b < v2_start_block
        /\ e \in {"Transact", "LegacyShield", "Shield"} => b >= v2_start_block
        /\ e = "LegacyShield" => b <= legacy_shield_block
        /\ e = "Shield" => b > legacy_shield_block
    BY Zenon, <1>7, Emitted
  <2>2. e \in LegacyBatches \cup Nullifications \cup {"Transact", "LegacyShield", "Shield"}
    BY Zenon, <1>7 DEF Event
  <2> QED
    BY <1>5, <2>1, <2>2 DEF ErasOK
<1>8. ASSUME NEW e \in Event, NEW b \in Nat, b \notin from..to
      PROVE  ~\E f \in filters : Asks(f, e, b)
  <2>1. b \notin afrom..to
    BY <1>2, <1>8 DEF ErasOK
  <2> QED
    BY Zenon, <1>3, <1>4, <1>8, <2>1
<1>9. ASSUME NEW e \in Event, NEW b \in Nat, b \in from..to, Emits(e, b)
      PROVE  \E f \in filters : Asks(f, e, b) /\ \A g \in filters : Asks(g, e, b) => g = f
  <2>1. CASE e \notin ACTION_EVENT_SIGNATURES
    <3>1. e \in combined
      BY Zenon, <1>1, <1>7, <1>9, <2>1
    <3>2. f0 \in filters /\ filters \subseteq {f0, fa}
      BY Zenon, <1>3
    <3>3. Asks(f0, e, b) /\ ~Asks(fa, e, b)
      BY Zenon, <1>4, <1>9, <2>1, <3>1
    <3> QED
      BY Zenon, <3>2, <3>3
  <2>2. CASE e \in ACTION_EVENT_SIGNATURES /\ from >= action_start_block
    <3>1. filters = {f0}
      BY <1>2, <1>3, <2>2
    <3> QED
      BY Zenon, <1>1, <1>4, <1>9, <2>2, <3>1
  <2>3. CASE e \in ACTION_EVENT_SIGNATURES /\ ~(from >= action_start_block)
    <3>1. b >= action_start_block
      BY Zenon, <1>9, <2>3, Emitted
    <3>2. filters = {f0, fa} /\ b \in afrom..to
      BY <1>2, <1>3, <1>9, <2>3, <3>1 DEF ErasOK
    <3>3. Asks(fa, e, b)
      BY Zenon, <1>4, <2>3, <3>2
    <3>4. ~Asks(f0, e, b)
      BY Zenon, <1>1, <1>4, <1>6, <2>3
    <3> QED
      BY Zenon, <3>2, <3>3, <3>4
  <2> QED
    BY Zenon, <2>1, <2>2, <2>3
<1> QED
  BY Zenon, <1>8, <1>9 DEF Covers, filters

\* Across a boundary, the filters per event cover the range.
LEMMA SplitCovers ==
    ASSUME ErasOK, NEW from \in Nat, NEW to \in Nat, from <= to,
           combined_event_signatures_for_range(from, to) = {}
    PROVE  Covers(chain_index_log_filters(from, to), from, to)
<1> DEFINE filters == chain_index_log_filters(from, to)
           v2 == Max({from, v2_start_block})
           afrom == Max({from, action_start_block})
           tov2 == Min({to, v2_start_block})
           tolegacy == Min({to, legacy_shield_block})
           fromshield == Max({v2, legacy_shield_block + 1})
           fl == Filter(from, tov2, LegacyBatches)
           ft == Filter(v2, to, {"Transact"})
           fo == Filter(v2, tolegacy, {"LegacyShield"})
           fs == Filter(fromshield, to, {"Shield"})
           fn == Filter(from, to, Nullifications)
           fa == Filter(afrom, to, ACTION_EVENT_SIGNATURES)
<1>1. /\ v2 = IF from >= v2_start_block THEN from ELSE v2_start_block
      /\ afrom = IF from >= action_start_block THEN from ELSE action_start_block
      /\ tov2 = IF to <= v2_start_block THEN to ELSE v2_start_block
      /\ tolegacy = IF to <= legacy_shield_block THEN to ELSE legacy_shield_block
  BY MaxOfTwo, MinOfTwo DEF ErasOK
<1>2. v2 \in Nat
  BY <1>1 DEF ErasOK
<1>3. filters = (IF from <= v2_start_block THEN {fl} ELSE {})
                \cup (IF to >= v2_start_block THEN {ft} ELSE {})
                \cup (IF to >= v2_start_block /\ v2 <= legacy_shield_block THEN {fo} ELSE {})
                \cup (IF to >= v2_start_block /\ to > legacy_shield_block THEN {fs} ELSE {})
                \cup {fn} \cup (IF action_start_block <= to THEN {fa} ELSE {})
  BY Zenon DEF chain_index_log_filters, split_filters, OptionalFilter
<1>4. /\ \A e, b : Asks(fl, e, b) <=> e \in LegacyBatches /\ b \in from..tov2
      /\ \A e, b : Asks(ft, e, b) <=> e \in {"Transact"} /\ b \in v2..to
      /\ \A e, b : Asks(fo, e, b) <=> e \in {"LegacyShield"} /\ b \in v2..tolegacy
      /\ \A e, b : Asks(fs, e, b) <=> e \in {"Shield"} /\ b \in fromshield..to
      /\ \A e, b : Asks(fn, e, b) <=> e \in Nullifications /\ b \in from..to
      /\ \A e, b : Asks(fa, e, b) <=> e \in ACTION_EVENT_SIGNATURES /\ b \in afrom..to
  BY Zenon, FilterAsks
<1> HIDE DEF v2
<1>5. fromshield = IF v2 >= legacy_shield_block + 1 THEN v2 ELSE legacy_shield_block + 1
  BY <1>2, MaxOfTwo DEF ErasOK
<1> HIDE DEF filters, afrom, tov2, tolegacy, fromshield, fl, ft, fo, fs, fn, fa
<1>6. ASSUME NEW e \in Event, NEW b \in Nat, b \notin from..to
      PROVE  ~\E f \in filters : Asks(f, e, b)
  <2>1. /\ b \notin from..tov2 /\ b \notin v2..to /\ b \notin v2..tolegacy
        /\ b \notin fromshield..to /\ b \notin afrom..to
    BY <1>1, <1>2, <1>5, <1>6 DEF ErasOK
  <2>2. filters \subseteq {fl, ft, fo, fs, fn, fa}
    BY Zenon, <1>3
  <2>3. /\ ~Asks(fl, e, b) /\ ~Asks(ft, e, b) /\ ~Asks(fo, e, b)
        /\ ~Asks(fs, e, b) /\ ~Asks(fn, e, b) /\ ~Asks(fa, e, b)
    BY Zenon, <1>4, <1>6, <2>1
  <2> QED
    BY Zenon, <2>2, <2>3
<1>7. ASSUME NEW e \in Event, NEW b \in Nat, b \in from..to, Emits(e, b)
      PROVE  \E f \in filters : Asks(f, e, b) /\ \A g \in filters : Asks(g, e, b) => g = f
  <2>1. /\ e \in LegacyBatches => b < v2_start_block
        /\ e \in ACTION_EVENT_SIGNATURES => b >= action_start_block
        /\ e \in {"Transact", "LegacyShield", "Shield"} => b >= v2_start_block
        /\ e = "LegacyShield" => b <= legacy_shield_block
        /\ e = "Shield" => b > legacy_shield_block
    BY Zenon, <1>7, Emitted
  <2>2. filters \subseteq {fl, ft, fo, fs, fn, fa}
    BY Zenon, <1>3
  <2>3. ASSUME e \in LegacyBatches
        PROVE  fl \in filters /\ Asks(fl, e, b) /\ \A g \in filters : Asks(g, e, b) => g = fl
    <3>1. from <= v2_start_block /\ b \in from..tov2
      BY <1>1, <1>7, <2>1, <2>3 DEF ErasOK
    <3>2. e \notin {"Transact"} /\ e \notin {"LegacyShield"} /\ e \notin {"Shield"}
          /\ e \notin Nullifications /\ e \notin ACTION_EVENT_SIGNATURES
      BY <2>3 DEF LegacyBatches, Nullifications, ACTION_EVENT_SIGNATURES
    <3>3. fl \in filters
      BY Zenon, <1>3, <3>1
    <3>4. Asks(fl, e, b)
      BY Zenon, <1>4, <1>7, <2>3, <3>1
    <3>5. ~Asks(ft, e, b) /\ ~Asks(fo, e, b) /\ ~Asks(fs, e, b)
          /\ ~Asks(fn, e, b) /\ ~Asks(fa, e, b)
      BY Zenon, <1>4, <3>2
    <3> QED
      BY Zenon, <2>2, <3>3, <3>4, <3>5
  <2>4. ASSUME e = "Transact"
        PROVE  ft \in filters /\ Asks(ft, e, b) /\ \A g \in filters : Asks(g, e, b) => g = ft
    <3>1. to >= v2_start_block /\ b \in v2..to /\ e \in {"Transact"}
      BY <1>1, <1>7, <2>1, <2>4 DEF ErasOK
    <3>2. e \notin LegacyBatches /\ e \notin {"LegacyShield"} /\ e \notin {"Shield"}
          /\ e \notin Nullifications /\ e \notin ACTION_EVENT_SIGNATURES
      BY <2>4 DEF LegacyBatches, Nullifications, ACTION_EVENT_SIGNATURES
    <3>3. ft \in filters
      BY Zenon, <1>3, <3>1
    <3>4. Asks(ft, e, b)
      BY Zenon, <1>4, <1>7, <2>4, <3>1
    <3>5. ~Asks(fl, e, b) /\ ~Asks(fo, e, b) /\ ~Asks(fs, e, b)
          /\ ~Asks(fn, e, b) /\ ~Asks(fa, e, b)
      BY Zenon, <1>4, <3>2
    <3> QED
      BY Zenon, <2>2, <3>3, <3>4, <3>5
  <2>5. ASSUME e = "LegacyShield"
        PROVE  fo \in filters /\ Asks(fo, e, b) /\ \A g \in filters : Asks(g, e, b) => g = fo
    <3>1. to >= v2_start_block /\ v2 <= legacy_shield_block /\ b \in v2..tolegacy
          /\ e \in {"LegacyShield"}
      BY <1>1, <1>7, <2>1, <2>5 DEF ErasOK
    <3>2. e \notin LegacyBatches /\ e \notin {"Transact"} /\ e \notin {"Shield"}
          /\ e \notin Nullifications /\ e \notin ACTION_EVENT_SIGNATURES
      BY <2>5 DEF LegacyBatches, Nullifications, ACTION_EVENT_SIGNATURES
    <3>3. fo \in filters
      BY Zenon, <1>3, <3>1
    <3>4. Asks(fo, e, b)
      BY Zenon, <1>4, <1>7, <2>5, <3>1
    <3>5. ~Asks(fl, e, b) /\ ~Asks(ft, e, b) /\ ~Asks(fs, e, b)
          /\ ~Asks(fn, e, b) /\ ~Asks(fa, e, b)
      BY Zenon, <1>4, <3>2
    <3> QED
      BY Zenon, <2>2, <3>3, <3>4, <3>5
  <2>6. ASSUME e = "Shield"
        PROVE  fs \in filters /\ Asks(fs, e, b) /\ \A g \in filters : Asks(g, e, b) => g = fs
    <3>1. to >= v2_start_block /\ to > legacy_shield_block /\ b \in fromshield..to
          /\ e \in {"Shield"}
      BY <1>1, <1>5, <1>7, <2>1, <2>6 DEF ErasOK
    <3>2. e \notin LegacyBatches /\ e \notin {"Transact"} /\ e \notin {"LegacyShield"}
          /\ e \notin Nullifications /\ e \notin ACTION_EVENT_SIGNATURES
      BY <2>6 DEF LegacyBatches, Nullifications, ACTION_EVENT_SIGNATURES
    <3>3. fs \in filters
      BY Zenon, <1>3, <3>1
    <3>4. Asks(fs, e, b)
      BY Zenon, <1>4, <1>7, <2>6, <3>1
    <3>5. ~Asks(fl, e, b) /\ ~Asks(ft, e, b) /\ ~Asks(fo, e, b)
          /\ ~Asks(fn, e, b) /\ ~Asks(fa, e, b)
      BY Zenon, <1>4, <3>2
    <3> QED
      BY Zenon, <2>2, <3>3, <3>4, <3>5
  <2>7. ASSUME e \in Nullifications
        PROVE  fn \in filters /\ Asks(fn, e, b) /\ \A g \in filters : Asks(g, e, b) => g = fn
    <3>1. e \notin LegacyBatches /\ e \notin {"Transact"} /\ e \notin {"LegacyShield"}
          /\ e \notin {"Shield"} /\ e \notin ACTION_EVENT_SIGNATURES
      BY <2>7 DEF LegacyBatches, Nullifications, ACTION_EVENT_SIGNATURES
    <3>2. fn \in filters
      BY Zenon, <1>3, <3>1
    <3>3. Asks(fn, e, b)
      BY Zenon, <1>4, <1>7, <2>7, <3>1
    <3>4. ~Asks(fl, e, b) /\ ~Asks(ft, e, b) /\ ~Asks(fo, e, b)
          /\ ~Asks(fs, e, b) /\ ~Asks(fa, e, b)
      BY Zenon, <1>4, <3>1
    <3> QED
      BY Zenon, <2>2, <3>2, <3>3, <3>4
  <2>8. ASSUME e \in ACTION_EVENT_SIGNATURES
        PROVE  fa \in filters /\ Asks(fa, e, b) /\ \A g \in filters : Asks(g, e, b) => g = fa
    <3>1. action_start_block <= to /\ b \in afrom..to
      BY <1>1, <1>7, <2>1, <2>8 DEF ErasOK
    <3>2. e \notin LegacyBatches /\ e \notin {"Transact"} /\ e \notin {"LegacyShield"}
          /\ e \notin {"Shield"} /\ e \notin Nullifications
      BY <2>8 DEF LegacyBatches, Nullifications, ACTION_EVENT_SIGNATURES
    <3>3. fa \in filters
      BY Zenon, <1>3, <3>1
    <3>4. Asks(fa, e, b)
      BY Zenon, <1>4, <1>7, <2>8, <3>1
    <3>5. ~Asks(fl, e, b) /\ ~Asks(ft, e, b) /\ ~Asks(fo, e, b)
          /\ ~Asks(fs, e, b) /\ ~Asks(fn, e, b)
      BY Zenon, <1>4, <3>2
    <3> QED
      BY Zenon, <2>2, <3>3, <3>4, <3>5
  <2> QED
    BY Zenon, <2>3, <2>4, <2>5, <2>6, <2>7, <2>8 DEF Event
<1> QED
  BY Zenon, <1>6, <1>7 DEF Covers, filters

-----------------------------------------------------------------------------
(* The walk: blocks behind the from_block were asked for once, those ahead never. *)

WalkInv ==
    /\ ErasOK
    /\ from_block \in Nat
    /\ \A e \in Event, b \in ChainBlock : b >= from_block => requested[e][b] = 0
    /\ LogsRequestedOnce

\* A batch asks once for what its range may hold, and leaves other blocks as they were.
LEMMA WalkStep ==
    ASSUME WalkInv, NEW to \in ChainBlock, fetch_chain_index_logs(to)
    PROVE  WalkInv'
<1> DEFINE filters == chain_index_log_filters(from_block, to)
           asking(e, b) == {f \in filters : Asks(f, e, b)}
<1>1. /\ ErasOK /\ from_block \in Nat /\ to \in Nat /\ from_block <= to /\ from_block' = to + 1
      /\ UNCHANGED <<v2_start_block, legacy_shield_block, action_start_block>>
      /\ ChainBlock \subseteq Nat
  BY ErasAssumption DEF WalkInv, fetch_chain_index_logs, ChainBlock
<1>2. requested' = [e \in Event |-> [b \in ChainBlock |-> requested[e][b] + Cardinality(asking(e, b))]]
  BY Zenon DEF fetch_chain_index_logs
<1>3. Covers(filters, from_block, to)
  BY Zenon, <1>1, CombinedCovers, SplitCovers
<1> HIDE DEF filters
<1>4. ASSUME NEW e \in Event, NEW b \in ChainBlock, b \notin from_block..to
      PROVE  Cardinality(asking(e, b)) = 0
  <2>1. asking(e, b) = {}
    BY Zenon, <1>1, <1>3, <1>4 DEF Covers
  <2> QED
    BY Zenon, <2>1, FS_EmptySet
<1>5. ASSUME NEW e \in Event, NEW b \in ChainBlock, b \in from_block..to, Emits(e, b)
      PROVE  Cardinality(asking(e, b)) = 1
  <2>1. PICK f \in filters : Asks(f, e, b) /\ \A g \in filters : Asks(g, e, b) => g = f
    BY Zenon, <1>1, <1>3, <1>5 DEF Covers
  <2>2. asking(e, b) = {f}
    BY Zenon, <2>1
  <2> QED
    BY Zenon, <2>2, FS_Singleton
<1>6. /\ \A e \in Event, b \in ChainBlock : b < from_block /\ Emits(e, b) => requested[e][b] = 1
      /\ \A e \in Event, b \in ChainBlock : b >= from_block => requested[e][b] = 0
  BY Zenon DEF WalkInv, LogsRequestedOnce
<1>7. \A e \in Event, b \in ChainBlock : requested'[e][b] = requested[e][b] + Cardinality(asking(e, b))
  BY Zenon, <1>2
<1> HIDE DEF asking
<1>8. ASSUME NEW e \in Event, NEW b \in ChainBlock, b >= from_block' PROVE requested'[e][b] = 0
  <2>1. b \notin from_block..to /\ b >= from_block
    BY <1>1, <1>8
  <2>2. requested[e][b] = 0 /\ Cardinality(asking(e, b)) = 0
    BY Zenon, <1>4, <1>6, <2>1
  <2> QED
    BY <1>7, <2>2
<1>9. ASSUME NEW e \in Event, NEW b \in ChainBlock, b < from_block', Emits(e, b) PROVE requested'[e][b] = 1
  <2>1. CASE b < from_block
    <3>1. b \notin from_block..to
      BY <1>1, <2>1
    <3>2. requested[e][b] = 1 /\ Cardinality(asking(e, b)) = 0
      BY Zenon, <1>4, <1>6, <1>9, <2>1, <3>1
    <3> QED
      BY <1>7, <3>2
  <2>2. CASE ~(b < from_block)
    <3>1. b \in from_block..to /\ b >= from_block
      BY <1>1, <1>9, <2>2
    <3>2. requested[e][b] = 0 /\ Cardinality(asking(e, b)) = 1
      BY Zenon, <1>5, <1>6, <1>9, <3>1
    <3> QED
      BY <1>7, <3>2
  <2> QED
    BY Zenon, <2>1, <2>2
<1>10. \A e, b : Emits(e, b)' <=> Emits(e, b)
  BY Zenon, <1>1 DEF Emits
<1>11. ErasOK' /\ from_block' \in Nat
  BY <1>1 DEF ErasOK
<1> QED
  BY Zenon, <1>8, <1>9, <1>10, <1>11 DEF WalkInv, LogsRequestedOnce

\* However the chain is cut into ranges, and wherever the era boundaries fall, a block that
\* has been passed had every event the contract may emit in it requested exactly once.
THEOREM RequestedOnce == FiltersSpec => []LogsRequestedOnce
<1>1. FiltersInit => WalkInv
  <2> SUFFICES ASSUME FiltersInit PROVE WalkInv
    OBVIOUS
  <2>1. ErasOK
    BY ErasAssumption DEF FiltersInit, ErasOK, NoBlock
  <2>2. \A b \in ChainBlock : ~(b < from_block)
    BY ErasAssumption DEF FiltersInit, ChainBlock
  <2>3. from_block \in Nat
    BY DEF FiltersInit
  <2>4. \A e \in Event, b \in ChainBlock : requested[e][b] = 0
    BY Zenon DEF FiltersInit
  <2> QED
    BY Zenon, <2>1, <2>2, <2>3, <2>4 DEF WalkInv, LogsRequestedOnce
<1>2. WalkInv /\ [FiltersNext]_filterVars => WalkInv'
  <2>1. ASSUME WalkInv, UNCHANGED filterVars PROVE WalkInv'
    BY Zenon, <2>1 DEF filterVars, WalkInv, ErasOK, LogsRequestedOnce, Emits
  <2> QED
    BY Zenon, <2>1, WalkStep DEF FiltersNext
<1>3. WalkInv => LogsRequestedOnce
  BY DEF WalkInv
<1> QED
  BY <1>1, <1>2, <1>3, PTL DEF FiltersSpec

=============================================================================
