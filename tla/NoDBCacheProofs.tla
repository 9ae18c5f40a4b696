--------------------------- MODULE NoDBCacheProofs ---------------------------
(***************************************************************************)
(* Proofs about the byte-level cache of NoDBCache.tla, for every set of    *)
(* columns, every column size, row size and number of rows.                *)
(***************************************************************************)
EXTENDS NoDBCache, FiniteSetTheorems, TLAPS

\* The node of the partition list that belongs to a column.
NodeOf(c) == [off |-> offset[c], size |-> SizeOf[c], used |-> TRUE]

\* p ends before q begins.
Before(p, q) == p.off + p.size <= q.off

\* What makes ColumnsDisjoint inductive: the nodes of the partition list lie
\* inside the row and do not overlap, and each column of the cache owns a node
\* in use, one that no other column owns.
LayoutInv ==
    /\ \A p \in list : p.off + p.size <= RowSize
    /\ \A p, q \in list : p # q => Before(p, q) \/ Before(q, p)
    /\ \A c \in Present : NodeOf(c) \in list
    /\ \A c, d \in Present : c # d => offset[c] # offset[d]

IInv == TypeOK /\ LayoutInv

Node == [off : Nat, size : Nat \ {0}, used : BOOLEAN]

----------------------------------------------------------------------------

\* What FindFirstPartitionFit returns is a free node that is large enough.
LEMMA FitIsFree ==
    ASSUME NEW size, NEW fit \in FindFirstPartitionFit(size)
    PROVE  fit \in list /\ ~fit.used /\ fit.size >= size
BY DEF FindFirstPartitionFit

\* SplitPartition replaces a node by nodes inside it that do not overlap.
LEMMA SplitStaysInside ==
    ASSUME NEW p \in Node, NEW size \in Nat \ {0}, size <= p.size
    PROVE  /\ SplitPartition(p, size) \subseteq Node
           /\ \A q \in SplitPartition(p, size) : p.off <= q.off /\ q.off + q.size <= p.off + p.size
           /\ \A q, r \in SplitPartition(p, size) : q # r => Before(q, r) \/ Before(r, q)
           /\ \A q \in SplitPartition(p, size) : q.off = p.off => q.used
           /\ [off |-> p.off, size |-> size, used |-> TRUE] \in SplitPartition(p, size)
<1> DEFINE taken == [off |-> p.off, size |-> size, used |-> TRUE]
           rest  == [off |-> p.off + size, size |-> p.size - size, used |-> FALSE]
<1>1. p.off \in Nat /\ p.size \in Nat \ {0}
  BY DEF Node
<1>2. taken \in Node
  BY <1>1 DEF Node
<1>3. CASE p.size = size
  <2>1. SplitPartition(p, size) = {taken}
    BY <1>3 DEF SplitPartition
  <2> QED
    BY <1>1, <1>2, <1>3, <2>1 DEF Before
<1>4. CASE p.size # size
  <2>1. SplitPartition(p, size) = {taken, rest}
    BY <1>4 DEF SplitPartition
  <2>2. rest \in Node
    BY <1>1, <1>4 DEF Node
  <2>3. Before(taken, rest)
    BY <1>1 DEF Before
  <2>4. \A q \in {taken, rest} : p.off <= q.off /\ q.off + q.size <= p.off + p.size
    BY <1>1
  <2>5. \A q \in {taken, rest} : q.off = p.off => q.used
    BY <1>1
  <2> HIDE DEF taken, rest
  <2> QED
    BY <1>2, <2>1, <2>2, <2>3, <2>4, <2>5 DEF taken
<1> QED
  BY <1>3, <1>4

\* The cache NoDBCacheInit makes: one free node for the whole row.
LEMMA InitIInv == NoDBCacheInit => IInv
<1> SUFFICES ASSUME NoDBCacheInit PROVE IInv
  OBVIOUS
<1> USE CacheAssumption DEF NoDBCacheInit
<1>1. Present = {}
  BY DEF Present, NoDBCacheHasColumn
<1>2. TypeOK
  <2>1. DOMAIN buf = 0 .. (nRows * RowSize - 1)
    OBVIOUS
  <2> QED
    BY <2>1 DEF TypeOK
<1>3. LayoutInv
  BY <1>1 DEF LayoutInv, Before
<1> QED
  BY <1>2, <1>3 DEF IInv

\* NoDBCacheAddColumn carves the bytes of the column out of a free node.
LEMMA AddColumnIInv ==
    ASSUME IInv, NEW col \in Cols, NoDBCacheAddColumn(col)
    PROVE  IInv'
<1> USE CacheAssumption
<1>1. PICK fit \in FindFirstPartitionFit(SizeOf[col]) :
        /\ list' = (list \ {fit}) \union SplitPartition(fit, SizeOf[col])
        /\ offset' = [offset EXCEPT ![col] = fit.off]
  BY Zenon DEF NoDBCacheAddColumn
<1> DEFINE size == SizeOf[col]
           parts == SplitPartition(fit, size)
<1>2. fit \in list /\ ~fit.used /\ fit.size >= size
  BY <1>1, FitIsFree
<1>3. list \subseteq Node /\ fit \in Node /\ size \in Nat \ {0}
  BY <1>2 DEF IInv, TypeOK, Node
<1>4. fit.size \in Nat /\ fit.off \in Nat /\ size <= fit.size
  BY <1>2, <1>3 DEF Node
<1>5. /\ parts \subseteq Node
      /\ \A q \in parts : fit.off <= q.off /\ q.off + q.size <= fit.off + fit.size
      /\ \A q, r \in parts : q # r => Before(q, r) \/ Before(r, q)
      /\ [off |-> fit.off, size |-> size, used |-> TRUE] \in parts
  BY <1>3, <1>4, SplitStaysInside
<1>6. Present' = Present \union {col} /\ col \notin Present
  <2>1. Len(cols) \in Nat
    BY DEF IInv, TypeOK
  <2> QED
    BY <2>1 DEF IInv, TypeOK, NoDBCacheAddColumn, Present, NoDBCacheHasColumn
<1>7. TypeOK'
  <2>1. list' \in SUBSET Node
    BY <1>1, <1>3, <1>5
  <2>2. rowFree' \in Int /\ cols' \in Seq(Cols) /\ map' \in [Cols -> Int] /\ offset' \in [Cols -> Int]
    BY <1>1, <1>3, <1>4 DEF IInv, TypeOK, NoDBCacheAddColumn
  <2> QED
    BY <2>1, <2>2 DEF IInv, TypeOK, NoDBCacheAddColumn, Node
<1>8. \A p \in list' : p.off + p.size <= RowSize
  BY <1>1, <1>2, <1>3, <1>4, <1>5 DEF IInv, LayoutInv, Node
<1>9. \A p, q \in list' : p # q => Before(p, q) \/ Before(q, p)
  <2>1. ASSUME NEW p \in list \ {fit}, NEW q \in parts
        PROVE  Before(p, q) \/ Before(q, p)
    <3>1. Before(p, fit) \/ Before(fit, p)
      BY <1>2, <2>1 DEF IInv, LayoutInv
    <3>2. p \in Node /\ q \in Node /\ fit.off <= q.off /\ q.off + q.size <= fit.off + fit.size
      BY <1>3, <1>5, <2>1
    <3> QED
      BY <1>3, <3>1, <3>2 DEF Before, Node
  <2> QED
    BY <1>1, <1>5, <2>1 DEF IInv, LayoutInv
<1>10. \A c \in Present' : NodeOf(c)' \in list'
  <2>1. NodeOf(col)' \in list'
    BY <1>1, <1>5 DEF IInv, TypeOK, NodeOf
  <2>2. ASSUME NEW c \in Present
        PROVE  NodeOf(c)' \in list'
    <3>1. NodeOf(c) \in list /\ NodeOf(c).used /\ c # col /\ c \in Cols
      BY <1>6, <2>2 DEF IInv, LayoutInv, NodeOf, Present
    <3>2. NodeOf(c)' = NodeOf(c)
      BY <1>1, <3>1 DEF IInv, TypeOK, NodeOf
    <3> QED
      BY <1>1, <1>2, <3>1, <3>2
  <2> QED
    BY <1>6, <2>1, <2>2
<1>11. \A c, d \in Present' : c # d => offset'[c] # offset'[d]
  <2>1. ASSUME NEW c \in Present PROVE offset[c] # fit.off
    <3>1. NodeOf(c) \in list /\ NodeOf(c) # fit /\ c \in Cols
      BY <1>2, <2>1 DEF IInv, LayoutInv, NodeOf, Present
    <3>2. Before(NodeOf(c), fit) \/ Before(fit, NodeOf(c))
      BY <1>2, <3>1 DEF IInv, LayoutInv
    <3> QED
      BY <1>3, <3>1, <3>2 DEF Before, NodeOf, Node
  <2>2. Present \subseteq Cols
    BY DEF Present
  <2> QED
    BY <1>1, <1>6, <2>1, <2>2 DEF IInv, TypeOK, LayoutInv
<1> QED
  BY <1>7, <1>8, <1>9, <1>10, <1>11 DEF IInv, LayoutInv, Before

\* A growing buffer has exactly the bytes of its rows.
LEMMA SetMaxRowsIInv ==
    ASSUME IInv, NEW maxRows \in Nat, NoDBCacheSetMaxRows(maxRows)
    PROVE  IInv'
<1>1. TypeOK'
  BY DEF IInv, TypeOK, NoDBCacheSetMaxRows, layout
<1>2. LayoutInv'
  BY DEF IInv, LayoutInv, NoDBCacheSetMaxRows, layout, Present, NoDBCacheHasColumn, NodeOf, Before
<1> QED
  BY <1>1, <1>2 DEF IInv

\* No operation of the cache breaks the layout.
LEMMA NextIInv == IInv /\ [Next]_vars => IInv'
<1> SUFFICES ASSUME IInv, [Next]_vars PROVE IInv'
  OBVIOUS
<1> USE CacheAssumption
<1>1. ASSUME NEW col \in Cols, NoDBCacheAddColumn(col) PROVE IInv'
  BY <1>1, AddColumnIInv
<1>2. ASSUME NEW row \in Rows, NoDBCacheGrow(row) PROVE IInv'
  <2>1. row - StartRow + 1 \in Nat
    BY DEF Rows
  <2> QED
    BY <1>2, <2>1, SetMaxRowsIInv DEF NoDBCacheGrow
<1>3. ASSUME NEW n \in 0 .. MaxRows, NoDBCacheSetUsedRows(n) PROVE IInv'
  BY <1>3 DEF IInv, TypeOK, LayoutInv, NoDBCacheSetUsedRows, layout, Present, NoDBCacheHasColumn, NodeOf, Before
<1>4. ASSUME NEW col \in Cols, NEW row \in Rows, NEW v, NoDBCacheSet(col, row, v) PROVE IInv'
  <2>1. DOMAIN buf' = DOMAIN buf
    BY <1>4 DEF NoDBCacheSet
  <2>2. TypeOK'
    BY <1>4, <2>1 DEF IInv, TypeOK, NoDBCacheSet, layout
  <2>3. LayoutInv'
    BY <1>4 DEF IInv, LayoutInv, NoDBCacheSet, layout, Present, NoDBCacheHasColumn, NodeOf, Before
  <2> QED
    BY <2>2, <2>3 DEF IInv
<1>5. CASE UNCHANGED vars
  BY <1>5 DEF vars, layout, IInv, TypeOK, LayoutInv, Present, NoDBCacheHasColumn, NodeOf, Before
<1> QED
  BY <1>1, <1>2, <1>3, <1>4, <1>5 DEF Next

\* The inductive invariant holds of every state of the cache.
THEOREM Invariance == Spec => []IInv
BY InitIInv, NextIInv, PTL DEF Spec

\* Every variable keeps its type and the buffer its exact size.
THEOREM TypeCorrect == Spec => []TypeOK
<1>1. IInv => TypeOK
  BY DEF IInv
<1> QED
  BY <1>1, Invariance, PTL

\* Two nodes in use that begin at different offsets are apart.
LEMMA LayoutDisjoint == IInv => ColumnsDisjoint
<1> SUFFICES ASSUME IInv PROVE ColumnsDisjoint
  OBVIOUS
<1> USE CacheAssumption
<1>1. ASSUME NEW c \in Present
      PROVE  offset[c] \in Nat /\ SizeOf[c] \in Nat /\ offset[c] + SizeOf[c] <= RowSize
  BY Zenon DEF IInv, LayoutInv, TypeOK, NodeOf, Present
<1>2. ASSUME NEW c \in Present, NEW d \in Present, c # d
      PROVE  offset[c] + SizeOf[c] <= offset[d] \/ offset[d] + SizeOf[d] <= offset[c]
  <2>1. NodeOf(c) \in list /\ NodeOf(d) \in list /\ NodeOf(c) # NodeOf(d)
    BY <1>2 DEF IInv, LayoutInv, NodeOf
  <2> QED
    BY <2>1 DEF IInv, LayoutInv, Before, NodeOf
<1> QED
  BY <1>1, <1>2 DEF ColumnsDisjoint

\* Whatever columns are added in whatever order, NoDBCacheAddColumn never
\* gives two columns a common byte, nor one past the end of the row.
THEOREM ColumnsNeverOverlap == Spec => []ColumnsDisjoint
BY LayoutDisjoint, Invariance, PTL

----------------------------------------------------------------------------
(* Cells: the bytes ComputeOffset addresses for each column and row.       *)

\* Where row r begins in the buffer (startOffset is RowSize * StartRow).
Base(r) == r * RowSize - RowSize * StartRow

\* Distinct rows are at least a row size apart.
LEMMA RowGap ==
    ASSUME NEW a \in Int, NEW b \in Int, NEW k \in Nat, a < b
    PROVE  a * k + k <= b * k
<1>1. PICK d \in Nat : b = a + 1 + d
  <2>1. b - a - 1 \in Nat /\ b = a + 1 + (b - a - 1)
    OBVIOUS
  <2> QED
    BY <2>1
<1>2. b * k = a * k + k + d * k
  BY <1>1
<1>3. d * k >= 0 /\ d * k \in Nat /\ a * k \in Int
  OBVIOUS
<1> QED
  BY <1>2, <1>3

\* The rows of the buffer lie in it, one after the other.
LEMMA BaseFacts ==
    ASSUME TypeOK, NEW r \in Rows
    PROVE  /\ Base(r) \in Nat
           /\ \A s \in Rows : r < s => Base(r) + RowSize <= Base(s)
           /\ r - StartRow < nRows => Base(r) + RowSize <= nRows * RowSize
<1> USE CacheAssumption
<1>1. r \in Int /\ StartRow <= r /\ RowSize \in Nat /\ StartRow \in Nat /\ nRows \in Nat
  BY DEF Rows, TypeOK
<1>2. r * RowSize \in Int /\ RowSize * StartRow \in Int /\ RowSize * StartRow = StartRow * RowSize
  BY <1>1
<1>3. Base(r) \in Nat
  <2>1. CASE r = StartRow
    BY <1>1, <1>2, <2>1 DEF Base
  <2>2. CASE r # StartRow
    <3>1. StartRow * RowSize + RowSize <= r * RowSize
      BY <1>1, <2>2, RowGap
    <3> QED
      BY <1>1, <1>2, <3>1 DEF Base
  <2> QED
    BY <2>1, <2>2
<1>4. ASSUME NEW s \in Rows, r < s PROVE Base(r) + RowSize <= Base(s)
  <2>1. s \in Int /\ s * RowSize \in Int
    BY <1>1, <1>4 DEF Rows
  <2>2. r * RowSize + RowSize <= s * RowSize
    BY <1>1, <1>4, <2>1, RowGap
  <2> QED
    BY <1>1, <1>2, <2>1, <2>2 DEF Base
<1>5. ASSUME r - StartRow < nRows PROVE Base(r) + RowSize <= nRows * RowSize
  <2>1. r < StartRow + nRows /\ StartRow + nRows \in Int
    BY <1>1, <1>5
  <2>2. r * RowSize + RowSize <= (StartRow + nRows) * RowSize
    BY <1>1, <2>1, RowGap
  <2>3. (StartRow + nRows) * RowSize = StartRow * RowSize + nRows * RowSize /\ nRows * RowSize \in Int
    BY <1>1
  <2> QED
    BY <1>1, <1>2, <2>2, <2>3 DEF Base
<1> QED
  BY <1>3, <1>4, <1>5

\* A cell is the bytes of its column, counted from the beginning of its row.
LEMMA CellAt ==
    ASSUME NEW c, NEW r
    PROVE  ComputeOffset(c, r) = Base(r) + offset[c]
BY DEF ComputeOffset, Base

\* Byte ranges that follow each other have no common byte.
LEMMA IntervalsApart ==
    ASSUME NEW a \in Int, NEW m \in Nat, NEW b \in Int, NEW n \in Nat, a + m <= b
    PROVE  /\ (a .. (a + m - 1)) \intersect (b .. (b + n - 1)) = {}
           /\ (b .. (b + n - 1)) \intersect (a .. (a + m - 1)) = {}
OBVIOUS

\* A byte range that ends before byte n lies in the first n bytes.
LEMMA IntervalInside ==
    ASSUME NEW a \in Nat, NEW m \in Nat, NEW n \in Nat, a + m <= n
    PROVE  a .. (a + m - 1) \subseteq 0 .. (n - 1)
OBVIOUS

\* The layout invariant keeps the cells ComputeOffset addresses apart.
LEMMA CellsApart == IInv => CellsDisjoint
<1> SUFFICES ASSUME IInv,
                    NEW c \in Present, NEW d \in Present, NEW r \in Rows, NEW s \in Rows,
                    r - StartRow < nRows, s - StartRow < nRows
             PROVE  /\ CellBytes(c, r) \subseteq DOMAIN buf
                    /\ <<c, r>> # <<d, s>> => CellBytes(c, r) \intersect CellBytes(d, s) = {}
  BY DEF CellsDisjoint
<1> USE CacheAssumption
<1>1. TypeOK /\ ColumnsDisjoint
  BY LayoutDisjoint DEF IInv
<1>2. /\ offset[c] \in Nat /\ SizeOf[c] \in Nat /\ offset[c] + SizeOf[c] <= RowSize
      /\ offset[d] \in Nat /\ SizeOf[d] \in Nat /\ offset[d] + SizeOf[d] <= RowSize
  BY <1>1 DEF ColumnsDisjoint, TypeOK, Present
<1>3. Base(r) \in Nat /\ Base(s) \in Nat /\ Base(r) + RowSize <= nRows * RowSize /\ nRows * RowSize \in Nat
  BY <1>1, BaseFacts DEF TypeOK
<1>4. /\ CellBytes(c, r) = (Base(r) + offset[c]) .. (Base(r) + offset[c] + SizeOf[c] - 1)
      /\ CellBytes(d, s) = (Base(s) + offset[d]) .. (Base(s) + offset[d] + SizeOf[d] - 1)
  BY CellAt DEF CellBytes
<1> DEFINE x == Base(r) + offset[c]
           y == Base(s) + offset[d]
<1>5. x \in Nat /\ y \in Nat /\ x + SizeOf[c] <= Base(r) + RowSize /\ y + SizeOf[d] <= Base(s) + RowSize
  BY <1>2, <1>3
<1>6. CellBytes(c, r) \subseteq DOMAIN buf
  <2>1. x + SizeOf[c] <= nRows * RowSize
    BY <1>2, <1>3, <1>5
  <2> HIDE DEF x
  <2>2. x .. (x + SizeOf[c] - 1) \subseteq 0 .. (nRows * RowSize - 1)
    BY <1>2, <1>3, <1>5, <2>1, IntervalInside
  <2> QED
    BY <1>1, <1>4, <2>2 DEF TypeOK, x
<1>7. ASSUME <<c, r>> # <<d, s>> PROVE CellBytes(c, r) \intersect CellBytes(d, s) = {}
  <2>1. x + SizeOf[c] <= y \/ y + SizeOf[d] <= x
    <3>1. CASE r < s
      <4>1. Base(r) + RowSize <= Base(s)
        BY <1>1, <3>1, BaseFacts
      <4> QED
        BY <1>2, <1>3, <4>1
    <3>2. CASE s < r
      <4>1. Base(s) + RowSize <= Base(r)
        BY <1>1, <3>2, BaseFacts
      <4> QED
        BY <1>2, <1>3, <4>1
    <3>3. CASE r = s
      <4>1. offset[c] + SizeOf[c] <= offset[d] \/ offset[d] + SizeOf[d] <= offset[c]
        BY <1>1, <1>7, <3>3 DEF ColumnsDisjoint
      <4> QED
        BY <1>2, <1>3, <3>3, <4>1
    <3>4. r \in Int /\ s \in Int
      BY DEF Rows
    <3> QED
      BY <3>1, <3>2, <3>3, <3>4
  <2>2. x \in Int /\ y \in Int /\ SizeOf[c] \in Nat /\ SizeOf[d] \in Nat
    BY <1>2, <1>5
  <2> HIDE DEF x, y
  <2>3. (x .. (x + SizeOf[c] - 1)) \intersect (y .. (y + SizeOf[d] - 1)) = {}
    BY <2>1, <2>2, IntervalsApart
  <2> QED
    BY <1>4, <2>3 DEF x, y
<1> QED
  BY <1>6, <1>7

\* The cells that ComputeOffset addresses for distinct columns or rows never
\* share a byte, and lie in the buffer as soon as it has their row.
THEOREM CellsNeverOverlap == Spec => []CellsDisjoint
BY CellsApart, Invariance, PTL

----------------------------------------------------------------------------
(* The counter of free bytes agrees with the list of partitions.          *)

BytesOf(p) == p.off .. (p.off + p.size - 1)

\* The bytes of the row that lie in a free node.
FreeBytes == {b \in 0 .. (RowSize - 1) : \E p \in list : ~p.used /\ b \in BytesOf(p)}

SpaceInv == IInv /\ rowFree = Cardinality(FreeBytes)

\* The free bytes of a row can be counted.
LEMMA FreeBytesFinite == IsFiniteSet(FreeBytes)
<1>1. IsFiniteSet(0 .. (RowSize - 1))
  BY CacheAssumption, FS_Interval
<1>2. FreeBytes \in SUBSET (0 .. (RowSize - 1))
  BY DEF FreeBytes
<1> QED
  BY <1>1, <1>2, FS_Subset, Zenon

\* NoDBCacheInit: all bytes of the row are in the one free node.
LEMMA InitSpace == NoDBCacheInit => SpaceInv
<1> SUFFICES ASSUME NoDBCacheInit PROVE rowFree = Cardinality(FreeBytes)
  BY InitIInv DEF SpaceInv
<1>1. FreeBytes = 0 .. (RowSize - 1)
  BY CacheAssumption DEF NoDBCacheInit, FreeBytes, BytesOf
<1>2. Cardinality(0 .. (RowSize - 1)) = RowSize
  BY CacheAssumption, FS_Interval
<1> QED
  BY <1>1, <1>2 DEF NoDBCacheInit

\* SplitPartition takes the first `size` bytes of a free node out of the free
\* bytes, and no others.
LEMMA SplitTakes ==
    ASSUME NEW p \in Node, ~p.used, NEW size \in Nat \ {0}, size <= p.size, NEW b \in Int
    PROVE  (\E q \in SplitPartition(p, size) : ~q.used /\ b \in BytesOf(q))
             <=> b \in BytesOf(p) /\ b \notin p.off .. (p.off + size - 1)
<1>1. p.off \in Nat /\ p.size \in Nat \ {0}
  BY DEF Node
<1>2. CASE p.size = size
  BY <1>1, <1>2 DEF SplitPartition, BytesOf
<1>3. CASE p.size # size
  <2> DEFINE taken == [off |-> p.off, size |-> size, used |-> TRUE]
             rest == [off |-> p.off + size, size |-> p.size - size, used |-> FALSE]
  <2>1. SplitPartition(p, size) = {taken, rest}
    BY <1>3 DEF SplitPartition
  <2>2. BytesOf(rest) = (p.off + size) .. (p.off + size + (p.size - size) - 1)
    BY DEF BytesOf
  <2>3. b \in BytesOf(rest) <=> b \in BytesOf(p) /\ b \notin p.off .. (p.off + size - 1)
    BY <1>1, <2>2 DEF BytesOf
  <2>4. taken.used /\ ~rest.used
    OBVIOUS
  <2> HIDE DEF taken, rest
  <2> QED
    BY <2>1, <2>3, <2>4
<1> QED
  BY <1>2, <1>3

\* NoDBCacheAddColumn subtracts from rowFree what it takes from the list.
LEMMA AddColumnSpace ==
    ASSUME SpaceInv, NEW col \in Cols, NoDBCacheAddColumn(col)
    PROVE  rowFree' = Cardinality(FreeBytes')
<1> USE CacheAssumption
<1>1. PICK fit \in FindFirstPartitionFit(SizeOf[col]) :
        list' = (list \ {fit}) \union SplitPartition(fit, SizeOf[col])
  BY DEF NoDBCacheAddColumn
<1> DEFINE size == SizeOf[col]
           taken == fit.off .. (fit.off + size - 1)
<1>2. fit \in list /\ ~fit.used /\ fit.size >= size
  BY <1>1, FitIsFree
<1>3. list \subseteq Node /\ fit \in Node /\ size \in Nat \ {0}
  BY <1>2 DEF SpaceInv, IInv, TypeOK, Node
<1>4. fit.off \in Nat /\ fit.size \in Nat /\ size <= fit.size /\ fit.off + fit.size <= RowSize
  BY <1>2, <1>3 DEF Node, SpaceInv, IInv, LayoutInv
<1>5. taken \subseteq BytesOf(fit) /\ BytesOf(fit) \subseteq 0 .. (RowSize - 1)
  BY <1>3, <1>4 DEF BytesOf
<1>6. taken \subseteq FreeBytes
  BY <1>2, <1>5 DEF FreeBytes
<1>7. ASSUME NEW p \in list, p # fit, NEW b \in BytesOf(p) PROVE b \notin taken
  <2>1. Before(p, fit) \/ Before(fit, p)
    BY <1>2, <1>7 DEF SpaceInv, IInv, LayoutInv
  <2>2. p \in Node
    BY <1>3, <1>7
  <2> QED
    BY <1>3, <1>4, <1>7, <2>1, <2>2 DEF Before, Node, BytesOf
<1>8. FreeBytes' = FreeBytes \ taken
  <2> SUFFICES ASSUME NEW b \in 0 .. (RowSize - 1)
               PROVE  (\E p \in list' : ~p.used /\ b \in BytesOf(p))
                        <=> (\E p \in list : ~p.used /\ b \in BytesOf(p)) /\ b \notin taken
    BY DEF FreeBytes, BytesOf
  <2>1. (\E q \in SplitPartition(fit, size) : ~q.used /\ b \in BytesOf(q))
          <=> b \in BytesOf(fit) /\ b \notin taken
    BY <1>2, <1>3, <1>4, SplitTakes
  <2> HIDE DEF taken, size
  <2> QED
    BY <1>1, <1>2, <1>7, <2>1 DEF size
<1>9. Cardinality(taken) = size
  <2>1. fit.off \in Int /\ fit.off + size - 1 \in Int /\ ~(fit.off > fit.off + size - 1)
    BY <1>3, <1>4
  <2>2. Cardinality(taken) = (fit.off + size - 1) - fit.off + 1
    BY <2>1, FS_Interval, Zenon
  <2> QED
    BY <1>3, <1>4, <2>2
<1>10. FreeBytes \intersect taken = taken
  BY <1>6
<1>11. Cardinality(FreeBytes \ taken) = Cardinality(FreeBytes) - size
  <2> HIDE DEF taken, size
  <2>1. Cardinality(FreeBytes \ taken) = Cardinality(FreeBytes) - Cardinality(FreeBytes \intersect taken)
    BY FreeBytesFinite, FS_Difference, Zenon
  <2> QED
    BY <1>9, <1>10, <2>1
<1>12. rowFree = Cardinality(FreeBytes) /\ rowFree' = rowFree - size
  BY DEF SpaceInv, NoDBCacheAddColumn
<1> HIDE DEF taken, size
<1> QED
  BY <1>8, <1>11, <1>12

\* No operation lets the counter and the list drift apart.
LEMMA NextSpace == SpaceInv /\ [Next]_vars => SpaceInv'
<1> SUFFICES ASSUME SpaceInv, [Next]_vars PROVE rowFree' = Cardinality(FreeBytes')
  BY NextIInv DEF SpaceInv
<1>1. ASSUME NEW col \in Cols, NoDBCacheAddColumn(col) PROVE rowFree' = Cardinality(FreeBytes')
  BY <1>1, AddColumnSpace
<1>2. ASSUME UNCHANGED layout PROVE rowFree' = Cardinality(FreeBytes')
  <2>1. FreeBytes' = FreeBytes /\ rowFree' = rowFree
    BY <1>2 DEF layout, FreeBytes, BytesOf
  <2> QED
    BY <2>1 DEF SpaceInv
<1> QED
  BY <1>1, <1>2 DEF Next, NoDBCacheGrow, NoDBCacheSetMaxRows, NoDBCacheSetUsedRows, NoDBCacheSet, vars

\* rowFree, which NoDBCacheAddColumn tests before it looks for a partition and
\* by which GetBestCacheToAddColumn ranks the caches, always is the number of
\* bytes in the free nodes of the list.
THEOREM FreeSpaceAlwaysExact == Spec => []FreeSpaceExact
<1>1. SpaceInv => FreeSpaceExact
  BY DEF SpaceInv, FreeBytes, BytesOf, FreeSpaceExact
<1> QED
  BY <1>1, InitSpace, NextSpace, PTL DEF Spec

=============================================================================
