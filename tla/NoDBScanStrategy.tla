--------------------------- MODULE NoDBScanStrategy ---------------------------
(***************************************************************************)
(* noDB/NoDBScanStrategy.c: how a scan decides, for every segment of rows, *)
(* which columns it reads from a data cache, which it locates through a    *)
(* positional map, which it parses from the file, and which caches it      *)
(* fills on the way.                                                       *)
(*                                                                         *)
(* The caches of a relation are a sequence w in the order of creation; the *)
(* C list NoDBCaches holds them newest first, and the lists the Get...     *)
(* functions prepend to come out oldest first.  A cache is a record: type, *)
(* begin, used, max (0 while buf is NULL), cols in the order they were     *)
(* added, and cell[c][r], the row of the file whose value (or position) is *)
(* stored there.  All columns have one size, so free space is counted in   *)
(* columns.  An optional cache is a set with at most one element.          *)
(***************************************************************************)
EXTENDS Integers, Sequences, FiniteSets, SequencesExt

CONSTANTS Cols,       \* columns of the relation: a set of numbers
          Rows,       \* row numbers that occur
          Width,      \* columns that fit in a cache row
          ChunkRows,  \* NODB_CACHE_DEFAULT_ROWS
          Junk        \* what an uninitialised or misread cell holds

Types == {"data", "pm"}

----------------------------------------------------------------------------
(* The cache operations the strategy uses, and their effect.               *)

NewCache(type, row) ==
    [type |-> type, begin |-> row, used |-> 0, max |-> 0, cols |-> <<>>,
     cell |-> [c \in Cols |-> [r \in Rows |-> Junk]]]

HasColumn(k, col) == \E i \in DOMAIN k.cols : k.cols[i] = col

\* Mutant: the row after the last one used counts as present.
HasRowOneMore(k, row) == k.begin <= row /\ row <= k.begin + k.used

HasRow(k, row) == k.begin <= row /\ row < k.begin + k.used

FreeSize(k) == Width - Len(k.cols)

AddColumn(k, col) ==
    IF FreeSize(k) = 0 \/ HasColumn(k, col) THEN k ELSE [k EXCEPT !.cols = Append(@, col)]

Grow(k, row) == [k EXCEPT !.max = IF row - k.begin + 1 > @ THEN row - k.begin + 1 ELSE @]

----------------------------------------------------------------------------
(* Choice of caches.                                                       *)

\* The member of S with the highest positive score, the oldest on a tie.
Best(S, score) ==
    {i \in S : score[i] > 0 /\ \A j \in S : score[j] < score[i] \/ (score[j] = score[i] /\ i <= j)}

Having(k, cols) == {c \in cols : HasColumn(k, c)}

GetCachesWithRow(w, type, row) == {i \in DOMAIN w : w[i].type = type /\ HasRow(w[i], row)}

GetBestCacheHit(w, S, hitCol, readCols) ==
    Best({i \in S : HasColumn(w[i], hitCol)},
         [i \in S |-> 1 + Cardinality(Having(w[i], readCols))])

CacheContainsSubset(k, cols) == \A i \in DOMAIN k.cols : k.cols[i] \in cols

CacheStartsBelow(w, type, cols, row) ==
    \E i \in DOMAIN w : w[i].type = type /\ w[i].begin >= row /\ Having(w[i], cols) # {}

GetCachesCanGrow(w, type, col, row, cols) ==
    {i \in DOMAIN w :
        /\ row # 0
        /\ w[i].type = type
        /\ w[i].begin <= row
        /\ HasColumn(w[i], col)
        /\ CacheContainsSubset(w[i], cols)
        /\ ~CacheStartsBelow(w, type, cols, w[i].begin + w[i].used)}

GetBestCacheToGrow(w, S, cols) == Best(S, [i \in S |-> Cardinality(Having(w[i], cols))])

GetCachesFreeColumns(w, type, limit, row) ==
    {i \in DOMAIN w :
        /\ w[i].type = type
        /\ w[i].begin = row
        /\ FreeSize(w[i]) >= 1
        /\ limit = 0 \/ w[i].begin + w[i].used <= limit}

GetBestCacheToAddColumn(w, S) == Best(S, [i \in S |-> FreeSize(w[i])])

----------------------------------------------------------------------------
(* BuildMatrix.  A query q has the columns it filters on and the rest it   *)
(* reads, the columns it may write to data caches and to positional maps,  *)
(* and its LIMIT (0: none).  rows is the sequence of segment boundaries.   *)
(* The matrix is kept with the caches it changes in one record m: m.data   *)
(* and m.pm give each (segment, column) its Node_t hit and cache, m.near   *)
(* the closest column of a positional map.                                 *)

Read(q) == q.filter \union q.rest
WriteSet(q, type) == IF type = "data" THEN q.writeData ELSE q.writePositions
QueryCols(q) == Read(q) \union q.writeData \union q.writePositions
ColOrder(q) == SetToSortSeq(QueryCols(q), <)
Segments(rows) == 1 .. (Len(rows) - 1)

Unknown == [hit |-> "UNKNOWN", cache |-> 0]
Nowhere == [cache |-> 0, col |-> 0]

EmptyMatrix(w, rows) ==
    [w    |-> w,
     data |-> [i \in Segments(rows) |-> [c \in Cols |-> Unknown]],
     pm   |-> [i \in Segments(rows) |-> [c \in Cols |-> Unknown]],
     near |-> [i \in Segments(rows) |-> [c \in Cols |-> Nowhere]]]

Mark(m, type, segs, cols, hit, k) ==
    [m EXCEPT ![type] = [i \in DOMAIN @ |-> [c \in Cols |->
        IF i \in segs /\ c \in cols THEN [hit |-> hit, cache |-> k] ELSE @[i][c]]]]

\* A position is only wanted when the data is not, or when it may be written.
Undecided(m, q, type, i, col) ==
    /\ m[type][i][col].hit = "UNKNOWN"
    /\ type = "pm" => m.data[i][col].hit # "HIT" \/ col \in q.writePositions

MarkHit(m, q, type, i, row, col) ==
    LET best == GetBestCacheHit(m.w, GetCachesWithRow(m.w, type, row), col, Read(q))
    IN  IF ~Undecided(m, q, type, i, col) \/ best = {} THEN m
        ELSE LET k    == CHOOSE b \in best : TRUE
                 hits == {col} \union Having(m.w[k], Read(q))
                 m1   == Mark(m, type, {i}, hits, "HIT", k)
             IN  IF type = "data" THEN m1
                 ELSE [m1 EXCEPT !.near[i] = [c \in Cols |->
                          IF c \in hits THEN [cache |-> k, col |-> c] ELSE @[c]]]

\* The segments that follow i without a gap inside cache k.
Following(k, rows, i) ==
    {j \in Segments(rows) : j >= i /\ \A n \in (i + 1) .. j : HasRow(k, rows[n])}

\* A column to be written that no cache has: grow a cache down to the row,
\* else add the column to a cache that begins there, else make a new one.
PlaceMiss(m, q, type, i, rows, col, candidates) ==
    LET row  == rows[i]
        grow == GetBestCacheToGrow(m.w, GetCachesCanGrow(m.w, type, col, row, candidates), candidates)
        free == GetBestCacheToAddColumn(m.w, GetCachesFreeColumns(m.w, type, q.limit, row))
        new  == Len(m.w) + 1
    IN  IF grow # {} THEN
            LET k == CHOOSE g \in grow : TRUE
            IN  Mark([m EXCEPT !.w[k] = Grow(@, row)],
                     type, {i}, Having(m.w[k], candidates), "ADD", k)
        ELSE IF free # {} THEN
            LET k == CHOOSE f \in free : TRUE
            IN  Mark([m EXCEPT !.w[k] = AddColumn(@, col)],
                     type, Following(m.w[k], rows, i), {col}, "ADD", k)
        ELSE Mark([m EXCEPT !.w = Append(@, AddColumn(NewCache(type, row), col))],
                  type, {i}, {col}, "ADD", new)

MarkMiss(m, q, type, i, rows, col, candidates) ==
    IF ~Undecided(m, q, type, i, col) THEN m
    ELSE IF col \in WriteSet(q, type) THEN PlaceMiss(m, q, type, i, rows, col, candidates)
    ELSE Mark(m, type, {i}, {col}, "MISS", 0)

\* Nothing is left to decide in a segment.
Decided(m, q, i) == \A c \in QueryCols(q), type \in Types : ~Undecided(m, q, type, i, c)

HitSegment(m, q, rows, i) ==
    IF Decided(m, q, i) THEN m
    ELSE FoldLeft(LAMBDA a, col : MarkHit(MarkHit(a, q, "data", i, rows[i], col), q, "pm", i, rows[i], col),
                  m, ColOrder(q))

\* "Mark cache hits in the matrix."
HitPhase(m, q, rows) ==
    FoldLeft(LAMBDA a, i : HitSegment(a, q, rows, i), m, [i \in Segments(rows) |-> i])

\* The columns of a segment that may be written: those that were no hit.
Candidates(m, q, type, i) == {c \in WriteSet(q, type) : m[type][i][c].hit # "HIT"}

MissColumns(m, q, rows, i, dataCand, pmCand) ==
    FoldLeft(LAMBDA a, col :
                 MarkMiss(MarkMiss(a, q, "data", i, rows, col, dataCand), q, "pm", i, rows, col, pmCand),
             m, ColOrder(q))

MissSegment(m, q, rows, i) ==
    IF Decided(m, q, i) THEN m
    ELSE MissColumns(m, q, rows, i, Candidates(m, q, "data", i), Candidates(m, q, "pm", i))

\* "Handle cache misses in the matrix."
MissPhase(m, q, rows) ==
    FoldLeft(LAMBDA a, i : MissSegment(a, q, rows, i), m, [i \in Segments(rows) |-> i])

Abs(n) == IF n < 0 THEN -n ELSE n

\* "Find closest position for every column that was not a CACHE_HIT in any
\* positional map."  Newest cache first, then the order of its columns.
ClosestColumn(m, q, i, row, col) ==
    LET excluded == {c \in QueryCols(q) : m.pm[i][c].hit = "ADD"}
        places   == {p \in GetCachesWithRow(m.w, "pm", row) \X (1 .. Width) :
                        /\ p[2] <= Len(m.w[p[1]].cols)
                        /\ m.w[p[1]].cols[p[2]] \notin excluded}
        dist(p)  == Abs(col - m.w[p[1]].cols[p[2]])
        first    == {p \in places : \A o \in places :
                        \/ dist(p) < dist(o)
                        \/ dist(p) = dist(o) /\ (p[1] > o[1] \/ (p[1] = o[1] /\ p[2] <= o[2]))}
    IN  IF m.pm[i][col].hit = "HIT" \/ first = {} THEN m.near[i][col]
        ELSE LET p == CHOOSE f \in first : TRUE
             IN  [cache |-> p[1], col |-> m.w[p[1]].cols[p[2]]]

ClosestPhase(m, q, rows) ==
    [m EXCEPT !.near = [i \in Segments(rows) |-> [c \in Cols |->
        IF c \in QueryCols(q) THEN ClosestColumn(m, q, i, rows[i], c) ELSE Nowhere]]]

\* Mutant: the last row of the segment is left out.
GrowOneShort(m, rows) ==
    LET last    == Len(rows) - 1
        written == {n.cache : n \in {m[type][last][c] : type \in Types, c \in Cols}
                                       \intersect [hit : {"ADD"}, cache : DOMAIN m.w]}
    IN  [m EXCEPT !.w = [k \in DOMAIN @ |->
            IF k \in written THEN Grow(@[k], rows[last + 1] - 2) ELSE @[k]]]

\* "Make sure that all caches being written to are big enough."
GrowToLastRow(m, rows) ==
    LET last    == Len(rows) - 1
        written == {n.cache : n \in {m[type][last][c] : type \in Types, c \in Cols}
                                       \intersect [hit : {"ADD"}, cache : DOMAIN m.w]}
    IN  [m EXCEPT !.w = [k \in DOMAIN @ |->
            IF k \in written THEN Grow(@[k], rows[last + 1] - 1) ELSE @[k]]]

BuildMatrix(w, q, rows) ==
    GrowToLastRow(ClosestPhase(MissPhase(HitPhase(EmptyMatrix(w, rows), q, rows), q, rows), q, rows), rows)

----------------------------------------------------------------------------
(* FillRow and BuildStrategy: what is done for each row of a segment.      *)

\* The positional map and column from which column col is found: of the
\* columns that share a closest column, the one furthest back (else furthest
\* forward) determines the cache.
NearestCache(m, i, collect, col) ==
    LET k      == m.near[i][col].col
        same   == {c \in collect : m.near[i][c].col = k}
        before == {c \in same : c < k}
        far    == IF before # {} THEN CHOOSE c \in before : \A d \in before : c <= d
                                 ELSE CHOOSE c \in same : \A d \in same : d <= c
    IN  [cache |-> m.near[i][far].cache, col |-> k]

FillRow(m, q, i, read, writeData, writePositions) ==
    LET pmAvailable == \E c \in QueryCols(q) : m.near[i][c].cache # 0
        hits    == {c \in read : m.data[i][c].hit = "HIT"}
        addData == {c \in writeData : m.data[i][c].hit = "ADD"}
        addPM   == {c \in writePositions : m.pm[i][c].hit = "ADD"}
        convert == (read \ hits) \union addData
        collect == convert \union addPM
    IN  [withCache |-> [c \in hits |-> m.data[i][c].cache],
         convert   |-> convert,
         withFile  |-> IF pmAvailable THEN {} ELSE collect,
         withPM    |-> [c \in (IF pmAvailable THEN collect ELSE {}) |-> NearestCache(m, i, collect, c)],
         writeData |-> [c \in addData |-> m.data[i][c].cache],
         writePM   |-> [c \in addPM |-> m.pm[i][c].cache]]

Strategy(m, q, rows, i) ==
    LET pre  == FillRow(m, q, i, q.filter, q.writeData, q.writePositions)
        all  == FillRow(m, q, i, q.rest, q.writeData, q.writePositions)
        left == (q.rest \ q.filter) \ pre.convert
        none == FillRow(m, q, i, {}, {}, {})
    IN  [start |-> rows[i], nrows |-> rows[i + 1] - rows[i],
         pre   |-> IF q.filter = {} THEN none ELSE pre,
         post  |-> IF q.filter = {} THEN all ELSE FillRow(m, q, i, left, {}, {}),
         write |-> [data |-> IF q.filter = {} THEN all.writeData ELSE pre.writeData,
                    pm   |-> IF q.filter = {} THEN all.writePM ELSE pre.writePM]]

Strategies(m, q, rows) ==
    [w |-> m.w, segs |-> [i \in Segments(rows) |-> Strategy(m, q, rows, i)], cur |-> 1]

\* The caches as BuildMatrix leaves them, the strategies, and the current one.
BuildStrategy(w, q, rows) == Strategies(BuildMatrix(w, q, rows), q, rows)

----------------------------------------------------------------------------
(* The iterator.                                                           *)

GetInterestingRows(w) ==
    LET inUse == {i \in DOMAIN w : w[i].used > 0}
    IN  IF inUse = {} THEN <<>>
        ELSE SetToSortSeq({0} \union {w[i].begin : i \in inUse}
                              \union {w[i].begin + w[i].used : i \in inUse}, <)

\* NoDBScanStrategyIteratorGet: the next strategy or, past the last, one for
\* a chunk of rows of the unknown part of the file.
GetStrategy(w, q, segs, cur) ==
    LET row == IF segs = <<>> THEN 0 ELSE segs[cur - 1].start + segs[cur - 1].nrows
    IN  IF cur <= Len(segs) THEN [w |-> w, segs |-> segs, cur |-> cur]
        ELSE BuildStrategy(w, q, <<row, row + ChunkRows>>)

StrategyFor(w, q, rows) ==
    IF rows = <<>> THEN GetStrategy(w, q, <<>>, 1) ELSE BuildStrategy(w, q, rows)

\* NoDBScanStrategyIterator followed by the first IteratorGet.
FirstStrategy(w, q) == StrategyFor(w, q, GetInterestingRows(w))

\* A strategy that needs nothing from the file (NoDBReadFromCacheOnly).
CacheOnly(seg) ==
    /\ DOMAIN seg.pre.withPM = {} /\ DOMAIN seg.post.withPM = {}
    /\ seg.pre.withFile = {} /\ seg.post.withFile = {}
    /\ DOMAIN seg.pre.withCache # {} \/ DOMAIN seg.post.withCache # {}
=============================================================================
