------------------------------- MODULE NoDBScan -------------------------------
(***************************************************************************)
(* The in-situ scan: noDB/NoDBScan.c and noDB/NoDBExecutor.c, with the EOL *)
(* cache (noDB/NoDBEOLCacheWorld.c), the per-relation execution info and   *)
(* its locks (noDB/NoDBExecInfo.c), and the statement loop of              *)
(* executor/execMain.c that drives them.                                   *)
(*                                                                         *)
(* One backend, one relation.  Scans are the scan nodes of a statement (a  *)
(* self-join has several) and every interleaving of their calls is         *)
(* explored.  The file is its layout: row r occupies LineLen[r] bytes from *)
(* Start(r), after a header of HeaderLen bytes.  Reading bytes that are    *)
(* exactly row r yields r; any other byte range yields Junk.               *)
(***************************************************************************)
EXTENDS NoDBScanStrategy

CONSTANTS Scans,      \* scan nodes of a statement, as numbers in list order
          N,          \* rows of the file
          LineLen,    \* LineLen[r]: bytes of row r with its line end
          HeaderLen,  \* bytes of the header line; 0: HEADER FALSE
          RawBuf,     \* RAW_BUF_SIZE
          ShortMod,   \* 2^16: a length is stored as a short int
          Queries,    \* what scans find in the query descriptor: all columns
                      \* wanted, those of the filter, the LIMIT (0: none)
          Features,   \* which of the executor's optional moves are taken
          NoTuple

ASSUME ScanAssumption ==
    /\ N \in Nat /\ 0 .. N \subseteq Rows
    /\ \A r \in 0 .. (N - 1) : LineLen[r] \in 1 .. RawBuf /\ 2 * LineLen[r] < ShortMod
    /\ HeaderLen \in 0 .. RawBuf
    /\ Features \subseteq {"early", "abort", "fetch", "rescan", "midrescan"}

VARIABLES caches,     \* NoDBCaches, in the order of creation
          eol,        \* the EOL cache: used, max, len and the header size
          cacheLock,  \* columns whose CacheLock is 1
          pmLock,     \* columns whose PMLock is 1
          relRows,    \* relStats.rows
          overrun,    \* a cache or EOL row was written outside its buffer
          scan,       \* scan[s]: the NoDBScanState_t and plan state of s
          stmt        \* "idle", "run", or "held" between two fetches

shared == <<caches, eol, cacheLock, pmLock, relRows, overrun>>
vars == <<shared, scan, stmt>>

----------------------------------------------------------------------------
(* The file.                                                               *)

Start(r) == HeaderLen + MapThenSumSet(LAMBDA i : LineLen[i], 0 .. (r - 1))
FileLen == Start(N)
Boundaries == {Start(r) : r \in 0 .. N}
NextBoundary(p) == CHOOSE b \in Boundaries : b > p /\ \A c \in Boundaries : c > p => b <= c

\* The row whose line occupies exactly the bytes p .. p + len - 1.
LineAt(p, len) ==
    LET rows == {r \in 0 .. (N - 1) : Start(r) = p /\ LineLen[r] = len}
    IN  IF rows = {} THEN Junk ELSE CHOOSE r \in rows : TRUE

Least(a, b) == IF a < b THEN a ELSE b
Most(a, b) == IF a > b THEN a ELSE b
BytesAt(p, want) == Most(0, Least(want, FileLen - p))

\* Mutant: the length is recorded without its line end.
LengthWithoutLineEnd(n) ==
    LET m == (n - 1) % ShortMod IN IF m < ShortMod \div 2 THEN m ELSE m - ShortMod

ShortInt(n) == LET m == n % ShortMod IN IF m < ShortMod \div 2 THEN m ELSE m - ShortMod

----------------------------------------------------------------------------
(* Most functions below work on the shared state together with one scan's  *)
(* state: a record x with the shared variables and s, the scan.            *)

View(s) == [caches |-> caches, eol |-> eol, cacheLock |-> cacheLock, pmLock |-> pmLock,
            relRows |-> relRows, overrun |-> overrun, s |-> scan[s]]

Seg(x) == x.s.segs[x.s.cur]

\* Mutant: the header is looked for at every load.
HeaderEveryLoad(x) ==
    LET size == NextBoundary(x.s.fpos) - x.s.fpos
        from == IF HeaderLen > 0 THEN size ELSE x.s.fpos
    IN  IF BytesAt(x.s.fpos, RawBuf) = 0 THEN [x EXCEPT !.s.left = 0]
        ELSE [x EXCEPT !.s.fpos = from + BytesAt(from, RawBuf), !.s.left = BytesAt(from, RawBuf),
                       !.s.readHeader = TRUE, !.eol.header = IF HeaderLen > 0 THEN size ELSE @]

\* NoDBCopyLoadRawBuf on an empty buffer.  While the header is unread,
\* NoDBCopyGetData looks for the first line end in what it read and seeks to
\* that distance from the beginning of the file.
NoDBCopyLoadRawBuf(x) ==
    LET skip == HeaderLen > 0 /\ ~x.s.readHeader
        size == NextBoundary(x.s.fpos) - x.s.fpos
        from == IF skip THEN size ELSE x.s.fpos
    IN  IF BytesAt(x.s.fpos, RawBuf) = 0 THEN [x EXCEPT !.s.left = 0]
        ELSE [x EXCEPT !.s.fpos = from + BytesAt(from, RawBuf),
                       !.s.left = BytesAt(from, RawBuf),
                       !.s.readHeader = @ \/ skip,
                       !.eol.header = IF skip THEN size ELSE @]

Filled(x) == IF x.s.left > 0 THEN x ELSE NoDBCopyLoadRawBuf(x)

\* The line from p to the line end e, which is recorded in the EOL cache as
\* the length of row `processed`.
NoDBCopyReadLine(x, p, e) ==
    LET loads == (e - x.s.fpos + RawBuf - 1) \div RawBuf
        fpos  == IF x.s.fpos >= e THEN x.s.fpos ELSE Least(FileLen, x.s.fpos + loads * RawBuf)
        row   == x.s.processed
    IN  [x |-> [x EXCEPT !.s.fpos = fpos, !.s.left = fpos - e,
                         !.s.tupleRead = @ + 1,
                         !.eol.len = IF row \in Rows THEN [@ EXCEPT ![row] = ShortInt(e - p)] ELSE @,
                         !.eol.used = row + 1,
                         !.overrun = @ \/ row >= x.eol.max],
         eof |-> FALSE, line |-> LineAt(p, e - p)]

NextLine(x) ==
    IF x.s.left = 0 THEN [x |-> x, eof |-> TRUE, line |-> Junk]
    ELSE NoDBCopyReadLine(x, x.s.fpos - x.s.left, NextBoundary(x.s.fpos - x.s.left))

\* The next line by looking for its end.
NoDBGetNextTupleFromFile(x) == NextLine(Filled(x))

EolBytes(len, first, last) == MapThenSumSet(LAMBDA i : len[i], first .. (last - 1))

\* NoDBComputeBytesToRead: how many whole lines fit in the raw buffer.
TuplesToStore(x) ==
    CHOOSE n \in 0 .. Most(0, x.eol.used - x.s.processed) :
        /\ EolBytes(x.eol.len, x.s.processed, x.s.processed + n) <= RawBuf
        /\ \/ x.s.processed + n >= x.eol.used
           \/ EolBytes(x.eol.len, x.s.processed, x.s.processed + n + 1) > RawBuf

SkipHeader(x) ==
    IF HeaderLen > 0 /\ ~x.s.readHeader
    THEN [x EXCEPT !.s.fpos = @ + BytesAt(@, x.eol.header), !.s.readHeader = TRUE] ELSE x

\* The next of the lines in the raw buffer, by its recorded length.
TakeStored(x) ==
    LET len == x.eol.len[x.s.processed]
    IN  [x |-> [x EXCEPT !.s.left = @ - len, !.s.tupleStored = @ - 1, !.s.tupleRead = @ + 1],
         eof |-> FALSE, line |-> LineAt(x.s.fpos - x.s.left, len)]

\* As many whole lines as fit are loaded into the raw buffer.
LoadLines(x, stored) ==
    LET bytes == EolBytes(x.eol.len, x.s.processed, x.s.processed + stored)
        got   == BytesAt(x.s.fpos, bytes)
    IN  IF bytes = 0 THEN [x |-> x, eof |-> TRUE, line |-> Junk]
        ELSE TakeStored([x EXCEPT !.s.fpos = @ + got, !.s.left = got, !.s.tupleStored = stored])

\* NoDBGetNextTupleFromFileWithEOL: the next line by its recorded length.
NoDBGetNextTupleFromFileWithEOL(x) ==
    IF x.s.tupleStored # 0 THEN TakeStored(x) ELSE LoadLines(SkipHeader(x), TuplesToStore(x))

NoDBReadFile(x) ==
    IF x.s.readFile = "eol" THEN NoDBGetNextTupleFromFileWithEOL(x) ELSE NoDBGetNextTupleFromFile(x)

----------------------------------------------------------------------------
(* Strategy changes.                                                       *)

\* Mutant: the row being processed is counted too.
FinalizeCountsNextRow(x) ==
    LET w       == Seg(x).write
        written == {w.data[c] : c \in DOMAIN w.data} \union {w.pm[c] : c \in DOMAIN w.pm}
    IN  [x EXCEPT !.caches = [k \in DOMAIN @ |->
                      IF k \in written THEN [@[k] EXCEPT !.used = x.s.processed + 1 - x.caches[k].begin]
                      ELSE @[k]],
                  !.relRows = x.eol.used]

\* Mutant: the operands of the subtraction are swapped.
FinalizeSwapped(x) ==
    LET w       == Seg(x).write
        written == {w.data[c] : c \in DOMAIN w.data} \union {w.pm[c] : c \in DOMAIN w.pm}
    IN  [x EXCEPT !.caches = [k \in DOMAIN @ |->
                      IF k \in written THEN [@[k] EXCEPT !.used = x.caches[k].begin - x.s.processed]
                      ELSE @[k]],
                  !.relRows = x.eol.used]

\* NoDBFinalizeStrategy: the caches of the current strategy now hold all the
\* rows processed so far.
NoDBFinalizeStrategy(x) ==
    LET w       == Seg(x).write
        written == {w.data[c] : c \in DOMAIN w.data} \union {w.pm[c] : c \in DOMAIN w.pm}
    IN  [x EXCEPT !.caches = [k \in DOMAIN @ |->
                      IF k \in written THEN [@[k] EXCEPT !.used = x.s.processed - x.caches[k].begin]
                      ELSE @[k]],
                  !.relRows = x.eol.used]

\* NoDBUpdateStrategy and NoDBScanStateReInit: after rows that came from the
\* caches only, move the file pointer to the row reached.
SeekToProcessed(x) ==
    LET header == IF HeaderLen > 0 /\ (x.s.readHeader \/ x.eol.header > 0) THEN x.eol.header ELSE 0
        bytes  == EolBytes(x.eol.len, x.s.tupleRead, x.s.processed) + header
    IN  IF x.s.tupleRead = x.s.processed \/ x.eol.used < x.s.processed THEN x
        ELSE [x EXCEPT !.s.fpos = @ + bytes, !.s.left = 0, !.s.tupleStored = 0,
                       !.s.tupleRead = x.s.processed]

\* Mutant: the EOL cache keeps the rows it was made with.
EOLNotExtended(x) == x

\* NoDBCacheSetMaxRows on the EOL cache, for the rows of the strategy.
ExtendEOL(x) ==
    IF x.eol.max - x.eol.used < Seg(x).nrows
    THEN [x EXCEPT !.eol.max = Most(@, x.s.processed + Seg(x).nrows)] ELSE x

\* Mutant: the known line ends do not bound the rows ahead.
RowsAheadOfStrategy(x) == Seg(x).nrows

\* nMin: the rows for which neither the strategy nor the way of reading
\* lines changes.
RowsAhead(x) ==
    IF ~CacheOnly(Seg(x)) /\ x.s.nEOL > 0 THEN Least(x.s.nEOL, Seg(x).nrows) ELSE Seg(x).nrows

NoDBGetReadFile(x) == IF x.s.nEOL > 0 THEN "eol" ELSE "text"

\* NoDBGetExecPlan: the four executor functions.
NoDBGetExecPlan(x) == [cacheOnly |-> CacheOnly(Seg(x)), filters |-> x.s.q.filter # {}]

\* The counters for a strategy just taken from the iterator.
Enter(x) ==
    LET n == RowsAhead(x)
    IN  [x EXCEPT !.s.nRows = Seg(x).nrows, !.s.nMin = n, !.s.toRead = n, !.s.mode = NoDBGetExecPlan(x)]

Take(x, it) == [x EXCEPT !.caches = it.w, !.s.segs = it.segs, !.s.cur = it.cur]

NextStrategy(x) ==
    Enter(ExtendEOL(Take(x, GetStrategy(x.caches, x.s.q, x.s.segs, x.s.cur + 1))))

\* All known lines have been read.
PastEOL(x) == x.s.tupleRead >= x.eol.used

\* "Before asking for a new strategy examine if there are more tuples in the
\* file" (NoDBTryReFillRawBuf).
LookAhead(x) == IF PastEOL(x) THEN Filled(x) ELSE x

CountRows(x) ==
    [x EXCEPT !.s.nEOL = IF @ > 0 THEN @ - x.s.toRead ELSE @,
              !.s.nRows = IF @ > 0 THEN @ - x.s.toRead ELSE @]

\* The known line ends are used up before the strategy is.
SameStrategy(x) == [x EXCEPT !.s.nMin = x.s.nRows, !.s.toRead = x.s.nRows]

NewStrategy(x) ==
    IF PastEOL(x) /\ x.s.left <= 0
    THEN [x EXCEPT !.s.mode = [cacheOnly |-> FALSE, filters |-> FALSE],
                   !.s.readFile = NoDBGetReadFile(x)]
    ELSE NextStrategy(x)

Continue(x) ==
    IF x.s.nRows # 0 THEN SameStrategy(x)
    ELSE NewStrategy(LookAhead(SeekToProcessed(NoDBFinalizeStrategy(x))))

ChooseRead(x) == [x EXCEPT !.s.readFile = IF x.s.nEOL = 0 THEN NoDBGetReadFile(x) ELSE @]

NoDBUpdateStrategy(x) == Continue(ChooseRead(CountRows(x)))

----------------------------------------------------------------------------
(* One call of execNoDBPlan.                                               *)

Cell(x, k, c) ==
    IF k \in DOMAIN x.caches /\ x.s.processed \in Rows
    THEN x.caches[k].cell[c][x.s.processed] ELSE Junk

\* NoDBCopyReadAttributesCSV (or Text): the line is parsed from its beginning.
Parsed(part, c) == c \in part.withFile

\* parseLineForward and parseLineBackward look for delimiters from a stored
\* position, which must be one of this very line.  What they find inside it is
\* the subject of Fields.
FromPosition(x, part, line, c) ==
    /\ c \in DOMAIN part.withPM
    /\ Cell(x, part.withPM[c].cache, part.withPM[c].col) = line

\* The row in which column c was located.
Located(x, part, line, c) ==
    IF Parsed(part, c) \/ FromPosition(x, part, line, c) THEN line ELSE Junk

ValueOf(x, part, line, c) ==
    IF c \in DOMAIN part.withCache THEN Cell(x, part.withCache[c], c) ELSE Located(x, part, line, c)

\* NoDBCacheSetDatumVector, NoDBCacheSetDatumRefVector and
\* NoDBCacheSetPMPairVector for row `processed`.
WriteCells(x, to, value) ==
    LET row == x.s.processed
        put(k, cache) == [c \in Cols |->
            IF c \in DOMAIN to /\ row \in Rows
            THEN IF to[c] = k THEN [cache.cell[c] EXCEPT ![row] = value[c]] ELSE cache.cell[c]
            ELSE cache.cell[c]]
    IN  [x EXCEPT !.caches = [k \in DOMAIN @ |-> [@[k] EXCEPT !.cell = put(k, x.caches[k])]],
                  !.overrun = @ \/ \E c \in DOMAIN to : row - x.caches[to[c]].begin >= x.caches[to[c]].max]

CountTuple(x, tuple) ==
    [x EXCEPT !.s.processed = @ + 1, !.s.nMin = @ - 1,
              !.s.pos = Least(@ + 1, N + 1), !.s.tuple = tuple,
              !.s.passed = IF tuple = NoTuple THEN @ ELSE Least(@ + 1, x.s.q.limit)]

\* At the end of a strategy take the next.
Advance(x) == IF x.s.nMin = 0 THEN NoDBUpdateStrategy(x) ELSE x

\* The part of the strategy whose columns are written.
WritePart(x) == IF x.s.mode.filters THEN Seg(x).pre ELSE Seg(x).post

\* The tuple delivered: values of filter columns are those the filter saw.
Delivered(x, line) ==
    LET pre == Seg(x).pre
        seen == IF x.s.mode.filters THEN DOMAIN pre.withCache \union pre.convert ELSE {}
    IN  [c \in Read(x.s.q) |-> ValueOf(x, IF c \in seen THEN pre ELSE Seg(x).post, line, c)]

WriteData(x, line) ==
    WriteCells(x, Seg(x).write.data,
               [c \in DOMAIN Seg(x).write.data |-> ValueOf(x, WritePart(x), line, c)])
WritePositions(x, line) ==
    WriteCells(x, Seg(x).write.pm,
               [c \in DOMAIN Seg(x).write.pm |-> Located(x, WritePart(x), line, c)])

\* What is done with a line: its values and positions are written, the tuple
\* is delivered if it passes, and the row is counted.
Deliver(read, pass) ==
    LET x == read.x
        y == WritePositions(WriteData(x, read.line), read.line)
    IN  IF read.eof THEN [x EXCEPT !.s.phase = "eof", !.s.tuple = NoTuple]
        ELSE Advance(CountTuple(IF x.s.mode.cacheOnly THEN x ELSE y,
                                IF pass THEN Delivered(x, read.line) ELSE NoTuple))

\* NoDBExecPlan, NoDBExecPlanWithFilters and their CacheOnly forms; `pass` is
\* the outcome of the qualification (TRUE without filter columns).
ExecNoDBPlan(x, pass) ==
    Deliver(IF x.s.mode.cacheOnly THEN [x |-> x, eof |-> FALSE, line |-> Junk] ELSE NoDBReadFile(x),
            pass)

----------------------------------------------------------------------------
(* Opening, rescanning and closing a scan.                                 *)

\* NoDBAggressiveCachePolicy and NoDBAggressivePMPolicy: the columns of the
\* query no other scan is writing are locked and written.
LockColumns(x) ==
    [x EXCEPT !.s.q.writeData = x.s.all \ x.cacheLock, !.s.q.writePositions = x.s.all \ x.pmLock,
              !.cacheLock = @ \union x.s.all, !.pmLock = @ \union x.s.all]

\* Mutant: only the data-cache locks are released.
ReleaseCacheLocksOnly(x) == [x EXCEPT !.cacheLock = @ \ x.s.all]

\* NoDBExecReleaseCacheLocks and NoDBExecReleasePMLocks.
ReleaseLocks(x) == [x EXCEPT !.cacheLock = @ \ x.s.all, !.pmLock = @ \ x.s.all]

\* Mutant: the number of known line ends is not refreshed.
PlanStateStaleEOL(x) ==
    [x EXCEPT !.eol.max = IF @ = 0 THEN Seg(x).nrows ELSE @, !.s.readFile = NoDBGetReadFile(x)]

\* The EOL cache is made with the first strategy (NoDBInitEOLCache); lines it
\* knows are read by their length (NoDBPlanStateInit).
PlanState(x) ==
    [x EXCEPT !.eol.max = IF @ = 0 THEN Seg(x).nrows ELSE @, !.s.nEOL = x.eol.used,
              !.s.readFile = IF x.eol.used > 0 THEN "eol" ELSE "text"]

\* The iterator is made, the plan state set up.
OpenPlan(x) == Enter(PlanState(Take(x, FirstStrategy(x.caches, x.s.q))))

ClosedScan ==
    [phase |-> "off", all |-> {}, q |-> <<>>, segs |-> <<>>, cur |-> 0, mode |-> <<>>,
     readFile |-> "text", nEOL |-> 0, nRows |-> 0, nMin |-> 0, toRead |-> 0,
     processed |-> 0, tupleRead |-> 0, tupleStored |-> 0, fpos |-> 0, left |-> 0,
     readHeader |-> FALSE, pos |-> 0, passed |-> 0, tuple |-> NoTuple]

\* A new scan state at the beginning of the file.  pos and passed are those
\* of the statement, which a fetch resumes.
NoDBScanOperatorInit(x, all, filter, limit) ==
    [x EXCEPT !.s = [ClosedScan EXCEPT
        !.phase = "run", !.all = all,
        !.q = [filter |-> filter, rest |-> all \ filter, writeData |-> {},
               writePositions |-> {}, limit |-> limit],
        !.pos = x.s.pos, !.passed = x.s.passed]]

NoDBScanStateInit(x, all, filter, limit) ==
    OpenPlan(LockColumns(NoDBScanOperatorInit(x, all, filter, limit)))

\* "Restart file pointer".
Rewind(x) ==
    [x EXCEPT !.s.fpos = 0, !.s.left = 0, !.s.readHeader = FALSE,
              !.s.processed = 0, !.s.tupleRead = 0, !.s.tupleStored = 0]

\* Mutant: the locks are released and no new writing set is asked for.
ReleaseOnRescan(x) == [x EXCEPT !.cacheLock = @ \ x.s.all, !.pmLock = @ \ x.s.all]

\* The locks are released and, if any column of the query was locked, asked for
\* again: then all columns of the query are locked and written.
RelockColumns(x) ==
    LET held(locks) == x.s.all \intersect locks # {}
    IN  [x EXCEPT !.cacheLock = IF held(@) THEN @ \union x.s.all ELSE @,
                  !.pmLock = IF held(@) THEN @ \union x.s.all ELSE @,
                  !.s.q.writeData = IF held(x.cacheLock) THEN x.s.all ELSE @,
                  !.s.q.writePositions = IF held(x.pmLock) THEN x.s.all ELSE @]

\* With lines left that nobody has read yet the scan goes on where it is.
StartOver(x) ==
    IF PastEOL(x) /\ x.s.left > 0
    THEN [x EXCEPT !.s.mode = NoDBGetExecPlan(x), !.s.readFile = NoDBGetReadFile(x)]
    ELSE OpenPlan(ExtendEOL(RelockColumns(Rewind(x))))

NoDBScanStateReInit(x) == StartOver(LookAhead(SeekToProcessed(NoDBFinalizeStrategy(x))))

----------------------------------------------------------------------------
(* The statement loop (ExecutePlan2).                                      *)

Init ==
    /\ caches = <<>>
    /\ eol = [used |-> 0, max |-> 0, len |-> [r \in Rows |-> 0], header |-> 0]
    /\ cacheLock = {} /\ pmLock = {}
    /\ relRows = 0
    /\ overrun = FALSE
    /\ scan = [s \in Scans |-> ClosedScan]
    /\ stmt = "idle"

SetShared(x) ==
    /\ caches' = x.caches /\ eol' = x.eol
    /\ cacheLock' = x.cacheLock /\ pmLock' = x.pmLock
    /\ relRows' = x.relRows /\ overrun' = x.overrun

SetScan(s, x) == SetShared(x) /\ scan' = [scan EXCEPT ![s] = x.s]

SetBoth(acc) == SetShared(acc.x) /\ scan' = acc.scan

Put(acc, s, x) == [x |-> x, scan |-> [acc.scan EXCEPT ![s] = x.s]]

\* op applied to the scans of the plan one after the other.
SetAll(op(_, _)) ==
    SetBoth(FoldLeft(LAMBDA acc, s : Put(acc, s, op([acc.x EXCEPT !.s = acc.scan[s]], s)),
                     [x |-> View(CHOOSE s \in Scans : TRUE), scan |-> scan],
                     SetToSortSeq(Scans, <)))

\* Every scan node is initialised before the first tuple is asked for.  All
\* are of one relation and find the same in the query descriptor, the filter
\* columns only if they have a qualification.
StartStatement ==
    /\ stmt = "idle"
    /\ \E q \in Queries, filtering \in SUBSET Scans :
        SetAll(LAMBDA x, s :
            NoDBScanStateInit(x, q.all, IF s \in filtering THEN q.filter ELSE {}, q.limit))
    /\ stmt' = "run"

\* ExecScan asks for the next row.
ExecScan(s) ==
    /\ scan[s].phase = "run"
    /\ \E pass \in BOOLEAN :
        /\ pass \/ scan[s].mode.filters
        /\ SetScan(s, ExecNoDBPlan(View(s), pass))
    /\ UNCHANGED stmt

\* ExecScanReScan: the next pass starts over.
ExecScanReScan(s) ==
    /\ SetScan(s, [NoDBScanStateReInit(View(s)) EXCEPT
           !.s.phase = "run", !.s.pos = 0, !.s.passed = 0, !.s.tuple = NoTuple])
    /\ UNCHANGED stmt

Rescan(s) ==
    /\ \/ "rescan" \in Features /\ scan[s].phase = "eof"
       \/ "midrescan" \in Features /\ scan[s].phase = "run"
    /\ ExecScanReScan(s)

CloseScan(x) == [ReleaseLocks(NoDBFinalizeStrategy(x)) EXCEPT !.s = ClosedScan]

\* Mutant: the end of the plan is taken for the end of a pass.
NullSlotStartsOver ==
    /\ stmt = "run"
    /\ SetAll(LAMBDA x, s : [NoDBScanStateReInit(x) EXCEPT !.s.phase = "run", !.s.pos = 0])
    /\ UNCHANGED stmt

\* The plan returned no tuple.
NullSlot ==
    /\ stmt = "run"
    /\ SetAll(LAMBDA x, s : CloseScan(x))
    /\ stmt' = "idle"

\* Every scan is at its end, or the Limit above the scan is satisfied, or
\* some other node stopped asking.
EndStatement ==
    /\ stmt = "run"
    /\ \/ \A s \in Scans : scan[s].phase = "eof"
       \/ \E s \in Scans : scan[s].q.limit > 0 /\ scan[s].passed >= scan[s].q.limit
       \/ "early" \in Features
    /\ NullSlot

\* An error or a cancel: no NoDB function runs.  It may strike between calls
\* or when a value just read cannot be converted.
Abort ==
    /\ "abort" \in Features /\ stmt = "run"
    /\ \/ UNCHANGED shared
       \/ \E s \in Scans :
            /\ scan[s].phase = "run" /\ ~scan[s].mode.cacheOnly
            /\ \E read \in {NoDBReadFile(View(s))} : ~read.eof /\ SetShared(read.x)
    /\ scan' = [s \in Scans |-> ClosedScan]
    /\ stmt' = "idle"

\* The executor has returned as many tuples as the FETCH asked for.
Suspend ==
    /\ "fetch" \in Features /\ stmt = "run"
    /\ \E s \in Scans : scan[s].tuple # NoTuple
    /\ scan' = [s \in Scans |-> [scan[s] EXCEPT !.phase = "off", !.tuple = NoTuple]]
    /\ stmt' = "held"
    /\ UNCHANGED shared

\* The next FETCH: ExecutePlan2 initialises the scans again.
ResumeStatement ==
    /\ stmt = "held"
    /\ SetAll(LAMBDA x, s : NoDBScanStateInit(x, x.s.all, x.s.q.filter, x.s.q.limit))
    /\ stmt' = "run"

\* The portal is closed; no NoDB function runs.
CloseStatement ==
    /\ stmt = "held"
    /\ scan' = [s \in Scans |-> ClosedScan]
    /\ stmt' = "idle"
    /\ UNCHANGED shared

Next ==
    \/ StartStatement
    \/ \E s \in Scans : ExecScan(s)
    \/ \E s \in Scans : Rescan(s)
    \/ EndStatement
    \/ Abort
    \/ Suspend
    \/ ResumeStatement
    \/ CloseStatement

Spec == Init /\ [][Next]_vars

\* The executor keeps asking every scan until it is at its end, then ends the
\* statement: weak fairness, with the enabling conditions written out.
Fairness ==
    /\ \A s \in Scans : []<>(scan[s].phase # "run") \/ []<><<ExecScan(s)>>_vars
    /\ []<>~(stmt = "run" /\ \A s \in Scans : scan[s].phase = "eof") \/ []<><<EndStatement>>_vars

FairSpec == Spec /\ Fairness

----------------------------------------------------------------------------
(* Properties.                                                             *)

\* The types of the shared structures.
TypeOK ==
    /\ \A k \in DOMAIN caches :
        /\ caches[k].type \in Types
        /\ caches[k].begin \in Nat /\ caches[k].used \in Nat /\ caches[k].max \in Nat
        /\ caches[k].cell \in [Cols -> [Rows -> Rows \union {Junk}]]
        /\ \A i, j \in DOMAIN caches[k].cols : i # j => caches[k].cols[i] # caches[k].cols[j]
    /\ eol.used \in Nat /\ eol.max \in Nat
    /\ cacheLock \subseteq Cols /\ pmLock \subseteq Cols

\* "Row/Column present in a cache." (CACHE_HIT): between statements, every
\* row a cache counts as used holds, in every column of the cache, the value
\* (or position) of that row, and no cache claims rows the file has not.
CacheSound ==
    stmt = "idle" => \A k \in DOMAIN caches :
        /\ caches[k].begin + caches[k].used <= N \/ caches[k].used = 0
        /\ \A i \in DOMAIN caches[k].cols :
            \A r \in caches[k].begin .. (caches[k].begin + caches[k].used - 1) :
                caches[k].cell[caches[k].cols[i]][r] = r

\* The EOL cache, from which later scans compute what to read and how far to
\* seek, has the length of every line it claims to know.
EOLFaithful == eol.used <= N /\ \A r \in 0 .. (eol.used - 1) : eol.len[r] = LineLen[r]

\* "Make sure that all caches being written to are big enough."
\* (GrowToLastRow): no row is written outside the buffer of its cache.
WritesFit == ~overrun

\* Between statements no column is locked, so the next scan can cache it.
LocksReleased == stmt = "idle" => cacheLock = {} /\ pmLock = {}

\* What a scan writes stays locked until the end of the statement, although a
\* rescan of another scan releases the same columns (NoDBScanStateReInit) and
\* from then on both write them.
WritesLocked ==
    \A s \in Scans : scan[s].phase # "off" =>
        scan[s].q.writeData \subseteq cacheLock /\ scan[s].q.writePositions \subseteq pmLock

\* 'the "cursor" maintained by the AMI is positioned at the tuple returned
\* previously' (ExecScan): the row a scan reads next is the one after the
\* last it returned in this pass.
PositionKept == \A s \in Scans : scan[s].phase = "run" => scan[s].processed = scan[s].pos

\* A tuple is delivered with the values of one row of the file, the row the
\* scan has just counted, wherever each of them came from.
TuplesTrue ==
    \A s \in Scans : scan[s].tuple # NoTuple =>
        \A c \in DOMAIN scan[s].tuple : scan[s].tuple[c] = scan[s].processed - 1

\* The header "is later used to ignore the first line of the file"
\* (NoDBScanOperatorInit): the size recorded for it is that of the first line.
HeaderIsFirstLine == eol.header \in {0, HeaderLen}

Abstract == INSTANCE RawScan WITH
    Scan <- Scans, Column <- Cols,
    phase <- [s \in Scans |-> scan[s].phase],
    pos   <- [s \in Scans |-> scan[s].pos],
    tuple <- [s \in Scans |-> scan[s].tuple]

\* Whatever was cached by earlier statements, a scan delivers every row of
\* the file once, in order, with the file's values, and then its end.
ImplementsRawScan == Abstract!RawSpec

\* The same for statements that are interrupted in every way the executor
\* has, up to where an interruption makes a scan lose its position.
RawStepsWhileKept == [][PositionKept /\ PositionKept' => Abstract!RawNext]_(Abstract!rawVars)

\* A statement that is not interrupted comes to its end.
StatementEnds == stmt = "run" ~> stmt = "idle"
=============================================================================
