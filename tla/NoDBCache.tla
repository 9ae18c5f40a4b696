------------------------------ MODULE NoDBCache ------------------------------
(***************************************************************************)
(* One cache of noDB/NoDBCache.c: a buffer of fixed-width rows in which    *)
(* each column owns a byte range found by first fit, and the bookkeeping   *)
(* (cols, map, offset, rowFree) that must agree with that layout.          *)
(*                                                                         *)
(* The linked list of NoDBRowPartition_t is kept as the set of its nodes,  *)
(* each with the offset FindFirstPartitionFit and FindPartition compute by *)
(* summing the sizes of the nodes before it.  buf is a function from byte  *)
(* positions; its domain is empty while the C pointer is NULL.             *)
(* NoDBCacheDeleteColumn, which has no caller, is not modelled.            *)
(***************************************************************************)
EXTENDS Integers, Sequences, FiniteSets

CONSTANTS Cols,      \* columns of the relation
          SizeOf,    \* SizeOf[c]: bytes of column c
          RowSize,   \* bytes of a cache row
          StartRow,  \* first logical row of the cache
          MaxRows,   \* bound: rows the buffer is ever grown to
          Byte,      \* byte values that are written
          Junk       \* the contents of memory malloc returned

ASSUME CacheAssumption ==
    /\ RowSize \in Nat \ {0}
    /\ StartRow \in Nat
    /\ MaxRows \in Nat
    /\ SizeOf \in [Cols -> Nat \ {0}]
    /\ Junk \notin Byte

VARIABLES list,      \* nodes of the partition list, with their offsets
          rowFree,   \* free bytes in each row
          cols,      \* columns in the order they were added
          map,       \* map[c]: position of c in cols, -1 when absent
          offset,    \* offset[c]: first byte of c in a row, -1 when absent
          usedRows,
          nRows,     \* rows the buffer holds (meaningful once buf exists)
          buf

layout == <<list, rowFree, cols, map, offset>>
vars == <<layout, usedRows, nRows, buf>>

Rows == StartRow .. (StartRow + MaxRows - 1)

NoDBCacheInit ==
    /\ list = {[off |-> 0, size |-> RowSize, used |-> FALSE]}
    /\ rowFree = RowSize
    /\ cols = <<>>
    /\ map = [c \in Cols |-> -1]
    /\ offset = [c \in Cols |-> -1]
    /\ usedRows = 0
    /\ nRows = 0
    /\ buf = <<>>

\* Mutant: a node in use is taken for free.
AnyPartitionFit(size) ==
    {p \in list : p.size >= size /\ \A q \in list : q.size >= size => p.off <= q.off}

FindFirstPartitionFit(size) ==
    {p \in list : /\ p.size >= size /\ ~p.used
                  /\ \A q \in list : q.size >= size /\ ~q.used => p.off <= q.off}

\* Mutant: the rest of the split node is lost.
SplitDropsRest(p, size) == {[off |-> p.off, size |-> size, used |-> TRUE]}

\* The nodes that replace p once `size` of its bytes are taken.
SplitPartition(p, size) ==
    {[off |-> p.off, size |-> size, used |-> TRUE]} \union
    IF p.size = size
    THEN {}
    ELSE {[off |-> p.off + size, size |-> p.size - size, used |-> FALSE]}

\* The calls that return 0 change nothing and are stuttering steps.
NoDBCacheAddColumn(col) ==
    /\ rowFree >= SizeOf[col]
    /\ map[col] = -1
    /\ \E fit \in FindFirstPartitionFit(SizeOf[col]) :
        /\ list' = (list \ {fit}) \union SplitPartition(fit, SizeOf[col])
        /\ offset' = [offset EXCEPT ![col] = fit.off]
    /\ cols' = Append(cols, col)
    /\ map' = [map EXCEPT ![col] = Len(cols) + 1]
    /\ rowFree' = rowFree - SizeOf[col]
    /\ UNCHANGED <<usedRows, nRows, buf>>

NoDBCacheHasColumn(col) == map[col] # -1

BufExists == nRows > 0

\* Mutant: the row count is raised without reallocating the buffer.
SetMaxRowsNoRealloc(maxRows) ==
    /\ ~BufExists \/ maxRows > nRows
    /\ nRows' = maxRows
    /\ UNCHANGED <<layout, usedRows, buf>>

\* Mutant: a fresh buffer instead of a realloc.
SetMaxRowsMalloc(maxRows) ==
    /\ ~BufExists \/ maxRows > nRows
    /\ nRows' = maxRows
    /\ buf' = [b \in 0 .. (maxRows * RowSize - 1) |-> Junk]
    /\ UNCHANGED <<layout, usedRows>>

NoDBCacheSetMaxRows(maxRows) ==
    /\ ~BufExists \/ maxRows > nRows
    /\ nRows' = maxRows
    /\ buf' = [b \in 0 .. (maxRows * RowSize - 1) |->
                  IF b \in DOMAIN buf THEN buf[b] ELSE Junk]
    /\ UNCHANGED <<layout, usedRows>>

NoDBCacheGrow(row) ==
    /\ row >= StartRow
    /\ NoDBCacheSetMaxRows(row - StartRow + 1)

NoDBCacheSetUsedRows(n) ==
    /\ usedRows' = n
    /\ UNCHANGED <<layout, nRows, buf>>

\* Mutant: startOffset counted in rows.
OffsetFromStartRow(col, row) == row * RowSize - StartRow + offset[col]

ComputeOffset(col, row) == row * RowSize - RowSize * StartRow + offset[col]

\* The bytes ComputeOffset addresses for a cell.
CellBytes(col, row) ==
    ComputeOffset(col, row) .. (ComputeOffset(col, row) + SizeOf[col] - 1)

\* NoDBCacheSetDatum, SetShortInt, SetPMPair, ...: one memory write of the
\* column's width.  The caller must hold a buffer that has the row.
NoDBCacheSet(col, row, v) ==
    /\ NoDBCacheHasColumn(col)
    /\ row - StartRow < nRows
    /\ buf' = [b \in DOMAIN buf |->
                  IF b \in CellBytes(col, row)
                  THEN v[b - ComputeOffset(col, row)] ELSE buf[b]]
    /\ UNCHANGED <<layout, usedRows, nRows>>

Values(col) == [0 .. (SizeOf[col] - 1) -> Byte]

Next ==
    \/ \E col \in Cols : NoDBCacheAddColumn(col)
    \/ \E row \in Rows : NoDBCacheGrow(row)
    \/ \E n \in 0 .. MaxRows : NoDBCacheSetUsedRows(n)
    \/ \E col \in Cols, row \in Rows : \E v \in Values(col) : NoDBCacheSet(col, row, v)

Spec == NoDBCacheInit /\ [][Next]_vars

----------------------------------------------------------------------------
(* Properties. *)

Present == {c \in Cols : NoDBCacheHasColumn(c)}

\* Every variable has the type its C declaration gives it, buf included:
\* it has exactly nRows * rowSize bytes.
TypeOK ==
    /\ list \in SUBSET [off : Nat, size : Nat \ {0}, used : BOOLEAN]
    /\ rowFree \in Int
    /\ cols \in Seq(Cols)
    /\ map \in [Cols -> Int]
    /\ offset \in [Cols -> Int]
    /\ usedRows \in Nat
    /\ nRows \in Nat
    /\ DOMAIN buf = 0 .. (nRows * RowSize - 1)

\* No two columns that NoDBCacheAddColumn placed share a byte of the row, and
\* none reaches past its end: first fit and SplitPartition never hand out the
\* same bytes twice.
ColumnsDisjoint ==
    /\ \A c \in Present : offset[c] >= 0 /\ offset[c] + SizeOf[c] <= RowSize
    /\ \A c, d \in Present : c # d =>
        offset[c] + SizeOf[c] <= offset[d] \/ offset[d] + SizeOf[d] <= offset[c]

\* rowFree, the counter NoDBCacheAddColumn tests and GetBestCacheToAddColumn
\* ranks caches by, is the number of bytes in the free nodes of the list.
FreeSpaceExact ==
    rowFree = Cardinality({b \in 0 .. (RowSize - 1) :
                  \E p \in list : ~p.used /\ b \in p.off .. (p.off + p.size - 1)})

\* The cells of distinct (column, row) pairs never overlap and always lie
\* inside the buffer once NoDBCacheGrow made room for the row.
CellsDisjoint ==
    \A c, d \in Present : \A r, s \in Rows : (r - StartRow < nRows /\ s - StartRow < nRows) =>
        /\ CellBytes(c, r) \subseteq DOMAIN buf
        /\ <<c, r>> # <<d, s>> => CellBytes(c, r) \intersect CellBytes(d, s) = {}

\* What a reader of the cache sees: the bytes at ComputeOffset.
Get(col, row) ==
    [i \in 0 .. (SizeOf[col] - 1) |->
        IF NoDBCacheHasColumn(col) /\ row - StartRow < nRows
        THEN buf[ComputeOffset(col, row) + i] ELSE Junk]

UnsetValue(col) == [i \in 0 .. (SizeOf[col] - 1) |-> Junk]

Store == INSTANCE CacheStore WITH
    Column  <- Cols,
    Row     <- Rows,
    Value   <- Values,
    Unset   <- UnsetValue,
    present <- Present,
    stored  <- {r \in Rows : r - StartRow < nRows},
    cell    <- [c \in Cols |-> [r \in Rows |-> Get(c, r)]]

\* The byte-level cache implements the table of cells of CacheStore: through
\* every sequence of AddColumn, Grow and Set calls a value is read back from
\* the cell it was written to, until that cell is written again.
ImplementsStore == Store!StoreSpec
=============================================================================
