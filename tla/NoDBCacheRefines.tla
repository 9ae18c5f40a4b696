-------------------------- MODULE NoDBCacheRefines --------------------------
(***************************************************************************)
(* Proof that the byte-level cache implements the table of cells of        *)
(* CacheStore.tla.                                                         *)
(***************************************************************************)
EXTENDS NoDBCacheProofs

Held(r) == r - StartRow < nRows

\* A byte that is not Junk belongs to a cell.  Without it a column added to a
\* cache that holds values could show bytes another column left behind.
FreshInv ==
    \A b \in DOMAIN buf :
        buf[b] = Junk \/ \E c \in Present, r \in Rows : Held(r) /\ b \in CellBytes(c, r)

RInv == IInv /\ FreshInv

----------------------------------------------------------------------------

\* The cells of the columns already there stay where they are.
LEMMA AddKeepsCells ==
    ASSUME IInv, NEW col \in Cols, NoDBCacheAddColumn(col)
    PROVE  /\ Present' = Present \union {col} /\ col \notin Present
           /\ \A c \in Present, r \in Rows :
                ComputeOffset(c, r)' = ComputeOffset(c, r) /\ CellBytes(c, r)' = CellBytes(c, r)
           /\ UNCHANGED <<nRows, buf>>
<1>1. Len(cols) \in Nat
  BY DEF IInv, TypeOK
<1>2. Present' = Present \union {col} /\ col \notin Present
  BY <1>1 DEF IInv, TypeOK, NoDBCacheAddColumn, Present, NoDBCacheHasColumn
<1>3. ASSUME NEW c \in Present PROVE offset'[c] = offset[c]
  BY <1>2, <1>3 DEF IInv, TypeOK, NoDBCacheAddColumn, Present
<1> QED
  BY <1>2, <1>3 DEF ComputeOffset, CellBytes, NoDBCacheAddColumn

\* The other operations move no cell.
LEMMA LayoutKeepsCells ==
    ASSUME UNCHANGED layout
    PROVE  /\ Present' = Present
           /\ \A c, r : ComputeOffset(c, r)' = ComputeOffset(c, r) /\ CellBytes(c, r)' = CellBytes(c, r)
BY DEF layout, Present, NoDBCacheHasColumn, ComputeOffset, CellBytes

\* The buffer never shrinks.
LEMMA GrowKeepsRows ==
    ASSUME IInv, NEW row \in Rows, NoDBCacheGrow(row)
    PROVE  /\ nRows' \in Nat /\ nRows <= nRows'
           /\ UNCHANGED layout
           /\ DOMAIN buf \subseteq DOMAIN buf'
           /\ \A b \in DOMAIN buf' : buf'[b] = IF b \in DOMAIN buf THEN buf[b] ELSE Junk
<1> USE CacheAssumption
<1>1. nRows' = row - StartRow + 1 /\ nRows' \in Nat /\ nRows \in Nat /\ nRows <= nRows'
  BY DEF IInv, TypeOK, NoDBCacheGrow, NoDBCacheSetMaxRows, BufExists, Rows
<1>2. nRows * RowSize <= nRows' * RowSize
  <2>1. CASE nRows = nRows'
    BY <1>1, <2>1
  <2>2. CASE nRows # nRows'
    <3>1. nRows * RowSize + RowSize <= nRows' * RowSize
      BY <1>1, <2>2, RowGap
    <3> QED
      BY <1>1, <3>1
  <2> QED
    BY <2>1, <2>2
<1>3. nRows * RowSize \in Int /\ nRows' * RowSize \in Int
  BY <1>1
<1>4. DOMAIN buf' = 0 .. (nRows' * RowSize - 1) /\ DOMAIN buf = 0 .. (nRows * RowSize - 1)
  BY <1>1 DEF IInv, TypeOK, NoDBCacheGrow, NoDBCacheSetMaxRows
<1>5. DOMAIN buf \subseteq DOMAIN buf'
  BY <1>2, <1>3, <1>4
<1>6. \A b \in DOMAIN buf' : buf'[b] = IF b \in DOMAIN buf THEN buf[b] ELSE Junk
  BY DEF NoDBCacheGrow, NoDBCacheSetMaxRows
<1> QED
  BY <1>1, <1>5, <1>6 DEF NoDBCacheGrow, NoDBCacheSetMaxRows

\* The buffer of a new cache has no bytes.
LEMMA InitRInv == NoDBCacheInit => RInv
BY InitIInv DEF RInv, FreshInv, NoDBCacheInit

\* A step writes inside a cell or leaves every byte as it was.
LEMMA NextRInv == RInv /\ [Next]_vars => RInv'
<1> SUFFICES ASSUME RInv, [Next]_vars PROVE FreshInv'
  BY NextIInv DEF RInv
<1> USE CacheAssumption
<1>0. IInv /\ FreshInv
  BY DEF RInv
<1>1. ASSUME NEW col \in Cols, NoDBCacheAddColumn(col) PROVE FreshInv'
  BY <1>0, <1>1, AddKeepsCells DEF FreshInv, Held
<1>2. ASSUME NEW row \in Rows, NoDBCacheGrow(row) PROVE FreshInv'
  <2> SUFFICES ASSUME NEW b \in DOMAIN buf', buf'[b] # Junk
               PROVE  \E c \in Present', r \in Rows : Held(r)' /\ b \in CellBytes(c, r)'
    BY DEF FreshInv
  <2>1. b \in DOMAIN buf /\ buf[b] # Junk
    BY <1>0, <1>2, GrowKeepsRows
  <2>2. PICK c \in Present, r \in Rows : Held(r) /\ b \in CellBytes(c, r)
    BY <1>0, <2>1 DEF FreshInv
  <2>3. Held(r)'
    BY <1>0, <1>2, <2>2, GrowKeepsRows DEF Held, Rows, IInv, TypeOK
  <2> QED
    BY <1>0, <1>2, <2>2, <2>3, GrowKeepsRows, LayoutKeepsCells
<1>3. ASSUME NEW n \in 0 .. MaxRows, NoDBCacheSetUsedRows(n) PROVE FreshInv'
  BY <1>0, <1>3, LayoutKeepsCells DEF FreshInv, Held, NoDBCacheSetUsedRows
<1>4. ASSUME NEW col \in Cols, NEW row \in Rows, NEW v, NoDBCacheSet(col, row, v) PROVE FreshInv'
  <2>1. /\ col \in Present /\ Held(row) /\ UNCHANGED layout /\ nRows' = nRows
        /\ DOMAIN buf' = DOMAIN buf
        /\ \A b \in DOMAIN buf : b \notin CellBytes(col, row) => buf'[b] = buf[b]
    BY <1>4 DEF NoDBCacheSet, Present, Held
  <2> QED
    BY <1>0, <2>1, LayoutKeepsCells DEF FreshInv, Held
<1>5. CASE UNCHANGED vars
  BY <1>0, <1>5, LayoutKeepsCells DEF vars, FreshInv, Held
<1> QED
  BY <1>1, <1>2, <1>3, <1>4, <1>5 DEF Next

\* The inductive invariant of the refinement holds of every state.
THEOREM RInvariance == Spec => []RInv
BY InitRInv, NextRInv, PTL DEF Spec

----------------------------------------------------------------------------
(* What is read through the refinement mapping.                            *)

\* A cell of a column and a row the cache has reads as the bytes of CellBytes;
\* any other reads as Junk.
ReadsCells ==
    \A c \in Cols, r \in Rows :
        /\ (c \notin Present \/ ~Held(r)) => Get(c, r) = UnsetValue(c)
        /\ (c \in Present /\ Held(r)) =>
            /\ Get(c, r) = [i \in 0 .. (SizeOf[c] - 1) |-> buf[ComputeOffset(c, r) + i]]
            /\ ComputeOffset(c, r) \in Int
            /\ \A i \in 0 .. (SizeOf[c] - 1) : ComputeOffset(c, r) + i \in CellBytes(c, r)

\* The reads of the cache have this form in every well-typed state.
LEMMA GetReads == TypeOK => ReadsCells
<1> SUFFICES ASSUME TypeOK, NEW c \in Cols, NEW r \in Rows
             PROVE  /\ (c \notin Present \/ ~Held(r)) => Get(c, r) = UnsetValue(c)
                    /\ (c \in Present /\ Held(r)) =>
                        /\ Get(c, r) = [i \in 0 .. (SizeOf[c] - 1) |-> buf[ComputeOffset(c, r) + i]]
                        /\ ComputeOffset(c, r) \in Int
                        /\ \A i \in 0 .. (SizeOf[c] - 1) : ComputeOffset(c, r) + i \in CellBytes(c, r)
  BY DEF ReadsCells
<1> USE CacheAssumption
<1>1. ASSUME c \notin Present \/ ~Held(r) PROVE Get(c, r) = UnsetValue(c)
  BY <1>1 DEF Get, UnsetValue, Present, Held
<1>2. ASSUME c \in Present, Held(r)
      PROVE  Get(c, r) = [i \in 0 .. (SizeOf[c] - 1) |-> buf[ComputeOffset(c, r) + i]]
  BY <1>2 DEF Get, Present, Held
<1>3. ComputeOffset(c, r) \in Int /\ SizeOf[c] \in Nat
  BY CellAt, BaseFacts DEF TypeOK
<1>4. \A i \in 0 .. (SizeOf[c] - 1) : ComputeOffset(c, r) + i \in CellBytes(c, r)
  BY <1>3 DEF CellBytes
<1> QED
  BY <1>1, <1>2, <1>3, <1>4

\* What the inductive invariant gives, in one place.
LEMMA RInvFacts == RInv => IInv /\ TypeOK /\ FreshInv /\ CellsDisjoint /\ ReadsCells
BY CellsApart, GetReads DEF RInv, IInv

\* Bytes that are Junk read as an unset cell.
LEMMA JunkReadsUnset ==
    ASSUME ReadsCells, NEW c \in Cols, NEW r \in Rows, c \in Present, Held(r),
           \A b \in CellBytes(c, r) : buf[b] = Junk
    PROVE  Get(c, r) = UnsetValue(c)
BY DEF ReadsCells, UnsetValue

\* A byte outside every cell is Junk.
LEMMA OutsideIsJunk ==
    ASSUME FreshInv, NEW b \in DOMAIN buf,
           \A c \in Present, r \in Rows : Held(r) => b \notin CellBytes(c, r)
    PROVE  buf[b] = Junk
BY DEF FreshInv

----------------------------------------------------------------------------
(* The steps.                                                              *)

\* The empty cache is the empty table.
LEMMA InitRefines == NoDBCacheInit => Store!EmptyStore
<1> SUFFICES ASSUME NoDBCacheInit PROVE Store!EmptyStore
  OBVIOUS
<1>1. Present = {}
  BY DEF NoDBCacheInit, Present, NoDBCacheHasColumn
<1>2. {r \in Rows : r - StartRow < nRows} = {}
  BY CacheAssumption DEF NoDBCacheInit, Rows
<1>3. \A c \in Cols, r \in Rows : Get(c, r) = UnsetValue(c)
  BY <1>1 DEF Get, UnsetValue, Present
<1> QED
  BY <1>1, <1>2, <1>3 DEF Store!EmptyStore

\* A column that is added shows nothing another column left behind.
LEMMA AddRefines ==
    ASSUME RInv, RInv', NEW col \in Cols, NoDBCacheAddColumn(col)
    PROVE  Store!Add(col)
<1> USE CacheAssumption
<1>1. IInv /\ FreshInv /\ ReadsCells
  BY RInvFacts
<1>2. CellsDisjoint' /\ ReadsCells'
  BY RInvFacts, PTL
<1>3. /\ Present' = Present \union {col} /\ col \notin Present
      /\ \A c \in Present, r \in Rows :
            ComputeOffset(c, r)' = ComputeOffset(c, r) /\ CellBytes(c, r)' = CellBytes(c, r)
      /\ nRows' = nRows /\ buf' = buf
  BY <1>1, AddKeepsCells
<1>4. ASSUME NEW c \in Cols, NEW r \in Rows PROVE Get(c, r)' = Get(c, r)
  <2>0. UnsetValue(c)' = UnsetValue(c) /\ Held(r)' = Held(r)
    BY <1>3 DEF UnsetValue, Held
  <2>1. CASE ~Held(r) \/ c \notin Present'
    <3>1. Get(c, r) = UnsetValue(c)
      BY <1>1, <1>3, <2>1 DEF ReadsCells
    <3>2. Get(c, r)' = UnsetValue(c)'
      BY <1>2, <2>0, <2>1 DEF ReadsCells
    <3> QED
      BY <2>0, <3>1, <3>2
  <2>2. CASE Held(r) /\ c \in Present
    BY <1>3, <2>2 DEF Get, Held, Present
  <2>3. CASE Held(r) /\ c = col
    <3>1. ASSUME NEW b \in CellBytes(col, r)' PROVE buf'[b] = Junk
      <4>1. b \in DOMAIN buf
        BY <1>2, <1>3, <2>0, <2>3, <3>1 DEF CellsDisjoint, Held
      <4>2. ASSUME NEW d \in Present, NEW s \in Rows, Held(s) PROVE b \notin CellBytes(d, s)
        <5>1. d # col /\ d \in Present' /\ s - StartRow < nRows' /\ r - StartRow < nRows'
          BY <1>3, <2>3, <4>2 DEF Held
        <5>2. CellBytes(col, r)' \intersect CellBytes(d, s)' = {}
          BY <1>2, <1>3, <5>1 DEF CellsDisjoint
        <5> QED
          BY <1>3, <3>1, <4>2, <5>2
      <4> QED
        BY <1>1, <1>3, <4>1, <4>2, OutsideIsJunk
    <3>2. Get(col, r)' = [i \in 0 .. (SizeOf[col] - 1) |-> buf'[ComputeOffset(col, r)' + i]]
      BY <1>2, <1>3, <2>0, <2>3, ZenonT(30) DEF ReadsCells
    <3>3. \A i \in 0 .. (SizeOf[col] - 1) : ComputeOffset(col, r)' + i \in CellBytes(col, r)'
      BY <1>2, <1>3, <2>0, <2>3, ZenonT(30) DEF ReadsCells
    <3>4. Get(col, r)' = [i \in 0 .. (SizeOf[col] - 1) |-> Junk]
      BY <3>1, <3>2, <3>3
    <3>5. Get(col, r) = UnsetValue(col)
      BY <1>1, <1>3 DEF ReadsCells
    <3> QED
      BY <2>3, <3>4, <3>5 DEF UnsetValue
  <2> QED
    BY <1>3, <2>1, <2>2, <2>3
<1> QED
  BY <1>3, <1>4 DEF Store!Add

\* A row the buffer does not hold begins after its last byte.
LEMMA RowOutside ==
    ASSUME TypeOK, NEW r \in Rows, ~Held(r)
    PROVE  Base(r) >= nRows * RowSize
<1> USE CacheAssumption
<1>1. r \in Int /\ RowSize \in Nat /\ StartRow \in Nat /\ nRows \in Nat /\ StartRow + nRows < r + 1
  BY DEF Rows, TypeOK, Held
<1>2. (StartRow + nRows) * RowSize + RowSize <= (r + 1) * RowSize
  BY <1>1, RowGap
<1>3. /\ (StartRow + nRows) * RowSize = StartRow * RowSize + nRows * RowSize
      /\ (r + 1) * RowSize = r * RowSize + RowSize
      /\ RowSize * StartRow = StartRow * RowSize
  BY <1>1
<1>4. StartRow * RowSize \in Int /\ nRows * RowSize \in Int /\ r * RowSize \in Int
  BY <1>1
<1> QED
  BY <1>1, <1>2, <1>3, <1>4 DEF Base

\* realloc keeps the cells, and the rows it adds are unset.
LEMMA GrowRefines ==
    ASSUME RInv, RInv', NEW row \in Rows, NoDBCacheGrow(row)
    PROVE  \E rows \in SUBSET Rows : Store!Enlarge(rows)
<1> USE CacheAssumption
<1>1. IInv /\ TypeOK /\ CellsDisjoint /\ ReadsCells
  BY RInvFacts
<1>2. CellsDisjoint' /\ ReadsCells'
  BY RInvFacts, PTL
<1>3. /\ nRows' \in Nat /\ nRows <= nRows' /\ UNCHANGED layout
      /\ DOMAIN buf \subseteq DOMAIN buf'
      /\ \A b \in DOMAIN buf' : buf'[b] = IF b \in DOMAIN buf THEN buf[b] ELSE Junk
  BY <1>1, GrowKeepsRows
<1>4. /\ Present' = Present
      /\ \A c, r : ComputeOffset(c, r)' = ComputeOffset(c, r) /\ CellBytes(c, r)' = CellBytes(c, r)
  BY <1>3, LayoutKeepsCells
<1>5. \A r \in Rows : Held(r) => Held(r)'
  BY <1>1, <1>3 DEF Held, Rows, TypeOK
<1>6. ASSUME NEW c \in Cols, NEW r \in Rows PROVE Get(c, r)' = Get(c, r)
  <2>1. CASE c \notin Present \/ ~Held(r)'
    <3>1. Get(c, r) = UnsetValue(c)
      BY <1>1, <1>5, <2>1 DEF ReadsCells
    <3>2. Get(c, r)' = UnsetValue(c)'
      BY <1>2, <1>4, <2>1 DEF ReadsCells
    <3> QED
      BY <3>1, <3>2 DEF UnsetValue
  <2>2. CASE c \in Present /\ Held(r)'
    <3>1. /\ Get(c, r)' = [i \in 0 .. (SizeOf[c] - 1) |-> buf'[ComputeOffset(c, r) + i]]
          /\ \A i \in 0 .. (SizeOf[c] - 1) : ComputeOffset(c, r) + i \in CellBytes(c, r)
          /\ CellBytes(c, r) \subseteq DOMAIN buf'
      BY <1>2, <1>4, <2>2 DEF ReadsCells, CellsDisjoint, Held
    <3>2. CASE Held(r)
      <4>1. /\ Get(c, r) = [i \in 0 .. (SizeOf[c] - 1) |-> buf[ComputeOffset(c, r) + i]]
            /\ CellBytes(c, r) \subseteq DOMAIN buf
        BY <1>1, <2>2, <3>2 DEF ReadsCells, CellsDisjoint, Held
      <4>2. \A i \in 0 .. (SizeOf[c] - 1) : buf'[ComputeOffset(c, r) + i] = buf[ComputeOffset(c, r) + i]
        BY <1>3, <3>1, <4>1
      <4> QED
        BY <3>1, <4>1, <4>2
    <3>3. CASE ~Held(r)
      <4>1. ASSUME NEW b \in CellBytes(c, r) PROVE b \notin DOMAIN buf
        <5>1. /\ Base(r) >= nRows * RowSize /\ Base(r) \in Nat /\ nRows * RowSize \in Nat
              /\ DOMAIN buf = 0 .. (nRows * RowSize - 1)
          BY <1>1, <3>3, RowOutside, BaseFacts DEF TypeOK
        <5>2. offset[c] \in Nat /\ SizeOf[c] \in Nat
          BY <1>1, <2>2, LayoutDisjoint DEF ColumnsDisjoint, TypeOK
        <5>3. b \in (Base(r) + offset[c]) .. (Base(r) + offset[c] + SizeOf[c] - 1)
          BY <4>1, CellAt DEF CellBytes
        <5> QED
          BY <5>1, <5>2, <5>3
      <4>2. Get(c, r)' = [i \in 0 .. (SizeOf[c] - 1) |-> Junk]
        BY <1>3, <3>1, <4>1
      <4>3. Get(c, r) = UnsetValue(c)
        BY <1>1, <3>3 DEF ReadsCells
      <4> QED
        BY <4>2, <4>3 DEF UnsetValue
    <3> QED
      BY <3>2, <3>3
  <2> QED
    BY <2>1, <2>2
<1> DEFINE rows == {r \in Rows : r - StartRow < nRows'}
<1>7. Store!Enlarge(rows)
  <2>1. {r \in Rows : r - StartRow < nRows} \subseteq rows
    BY <1>5 DEF Held
  <2> QED
    BY <1>4, <1>6, <2>1 DEF Store!Enlarge
<1>8. rows \in SUBSET Rows
  OBVIOUS
<1> QED
  BY <1>7, <1>8, ZenonT(30) DEF Store!Enlarge

\* A write changes the cell it addresses and no other.
LEMMA SetRefines ==
    ASSUME RInv, RInv', NEW col \in Cols, NEW row \in Rows, NEW v \in Values(col),
           NoDBCacheSet(col, row, v)
    PROVE  Store!Put(col, row, v)
<1> USE CacheAssumption
<1>1. TypeOK /\ CellsDisjoint /\ ReadsCells
  BY RInvFacts
<1>2. ReadsCells'
  BY RInvFacts, PTL
<1>3. /\ col \in Present /\ Held(row) /\ UNCHANGED layout /\ nRows' = nRows
      /\ buf' = [b \in DOMAIN buf |-> IF b \in CellBytes(col, row)
                                     THEN v[b - ComputeOffset(col, row)] ELSE buf[b]]
  BY DEF NoDBCacheSet, Present, Held
<1>4. /\ Present' = Present
      /\ \A c, r : ComputeOffset(c, r)' = ComputeOffset(c, r) /\ CellBytes(c, r)' = CellBytes(c, r)
  BY <1>3, LayoutKeepsCells
<1>5. \A r \in Rows : Held(r)' = Held(r)
  BY <1>3 DEF Held
<1>6. Get(col, row)' = v
  <2>1. /\ Get(col, row)' = [i \in 0 .. (SizeOf[col] - 1) |-> buf'[ComputeOffset(col, row) + i]]
        /\ ComputeOffset(col, row) \in Int
        /\ \A i \in 0 .. (SizeOf[col] - 1) : ComputeOffset(col, row) + i \in CellBytes(col, row)
    <3>1. col \in Present' /\ Held(row)'
      BY <1>3, <1>4, <1>5
    <3>2. /\ Get(col, row)' = [i \in 0 .. (SizeOf[col] - 1) |-> buf'[ComputeOffset(col, row)' + i]]
          /\ ComputeOffset(col, row)' \in Int
          /\ \A i \in 0 .. (SizeOf[col] - 1) : ComputeOffset(col, row)' + i \in CellBytes(col, row)'
      BY <1>2, <3>1 DEF ReadsCells
    <3> QED
      BY <1>4, <3>2
  <2>2. ASSUME NEW i \in 0 .. (SizeOf[col] - 1) PROVE buf'[ComputeOffset(col, row) + i] = v[i]
    <3>1. (ComputeOffset(col, row) + i) - ComputeOffset(col, row) = i
      BY <2>1, <2>2
    <3>2. CellBytes(col, row) \subseteq DOMAIN buf
      BY <1>1, <1>3 DEF CellsDisjoint, Held
    <3> QED
      BY <1>3, <2>1, <2>2, <3>1, <3>2
  <2>3. v = [i \in 0 .. (SizeOf[col] - 1) |-> v[i]]
    BY DEF Values
  <2> QED
    BY <2>1, <2>2, <2>3
<1>7. ASSUME NEW c \in Cols, NEW r \in Rows, <<c, r>> # <<col, row>> PROVE Get(c, r)' = Get(c, r)
  <2>1. CASE c \notin Present \/ ~Held(r)
    <3>1. Get(c, r) = UnsetValue(c)
      BY <1>1, <2>1 DEF ReadsCells
    <3>2. Get(c, r)' = UnsetValue(c)'
      BY <1>2, <1>4, <1>5, <2>1 DEF ReadsCells
    <3> QED
      BY <3>1, <3>2 DEF UnsetValue
  <2>2. CASE c \in Present /\ Held(r)
    <3>1. /\ CellBytes(c, r) \subseteq DOMAIN buf
          /\ CellBytes(c, r) \intersect CellBytes(col, row) = {}
      BY <1>1, <1>3, <1>7, <2>2 DEF CellsDisjoint, Held
    <3>2. \A b \in CellBytes(c, r) : buf'[b] = buf[b]
      BY <1>3, <3>1
    <3>3. /\ Get(c, r) = [i \in 0 .. (SizeOf[c] - 1) |-> buf[ComputeOffset(c, r) + i]]
          /\ \A i \in 0 .. (SizeOf[c] - 1) : ComputeOffset(c, r) + i \in CellBytes(c, r)
      BY <1>1, <2>2 DEF ReadsCells
    <3>4. Get(c, r)' = [i \in 0 .. (SizeOf[c] - 1) |-> buf'[ComputeOffset(c, r) + i]]
      BY <1>2, <1>4, <1>5, <2>2 DEF ReadsCells
    <3> QED
      BY <3>2, <3>3, <3>4
  <2> QED
    BY <2>1, <2>2
<1> DEFINE cell == [c \in Cols |-> [r \in Rows |-> Get(c, r)]]
           next == [c \in Cols |-> [r \in Rows |-> Get(c, r)']]
<1>8. next = [cell EXCEPT ![col][row] = v]
  <2>1. \A c \in Cols, r \in Rows : Get(c, r)' = [cell EXCEPT ![col][row] = v][c][r]
    BY <1>6, <1>7
  <2> QED
    BY <2>1, ZenonT(30)
<1>9. /\ row \in {r \in Rows : r - StartRow < nRows}
      /\ {r \in Rows : r - StartRow < nRows'} = {r \in Rows : r - StartRow < nRows}
  BY <1>3 DEF Held
<1> QED
  BY <1>3, <1>4, <1>8, <1>9 DEF Store!Put

\* Every step of the cache is a step of the table of cells or leaves it alone.
LEMMA NextRefines == RInv /\ RInv' /\ [Next]_vars => [Store!StoreNext]_(Store!storeVars)
<1> SUFFICES ASSUME RInv, RInv', [Next]_vars PROVE [Store!StoreNext]_(Store!storeVars)
  OBVIOUS
<1>1. ASSUME NEW col \in Cols, NoDBCacheAddColumn(col) PROVE Store!StoreNext
  BY <1>1, AddRefines DEF Store!StoreNext
<1>2. ASSUME NEW row \in Rows, NoDBCacheGrow(row) PROVE Store!StoreNext
  BY <1>2, GrowRefines DEF Store!StoreNext
<1>3. ASSUME UNCHANGED <<layout, nRows, buf>> PROVE UNCHANGED Store!storeVars
  BY <1>3 DEF Store!storeVars, layout, Present, NoDBCacheHasColumn, Get, ComputeOffset
<1>4. ASSUME NEW n \in 0 .. MaxRows, NoDBCacheSetUsedRows(n) PROVE UNCHANGED Store!storeVars
  BY <1>3, <1>4 DEF NoDBCacheSetUsedRows
<1>5. ASSUME NEW col \in Cols, NEW row \in Rows, NEW v \in Values(col), NoDBCacheSet(col, row, v)
      PROVE  Store!StoreNext
  BY <1>5, SetRefines DEF Store!StoreNext
<1>6. CASE UNCHANGED vars
  BY <1>3, <1>6 DEF vars
<1> QED
  BY <1>1, <1>2, <1>4, <1>5, <1>6 DEF Next

\* The byte-level cache implements the table of cells: whatever calls of
\* NoDBCacheAddColumn, Grow and Set are made in whatever order, a value is
\* read back from the cell it was written to until that cell is written again.
THEOREM CacheImplementsStore == Spec => ImplementsStore
BY InitRefines, NextRefines, RInvariance, PTL DEF Spec, ImplementsStore, Store!StoreSpec

=============================================================================
