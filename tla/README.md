# PostgresRAW (NoDB) in TLA+

PostgresRAW extends PostgreSQL 9.6.5 so that it queries CSV files in place. A
scan of a raw file parses only the columns a statement needs, and remembers
what it learned: values go to data caches, positions of fields to positional
maps, lengths of lines to an "EOL cache". Later scans read from these
structures as far as they reach and from the file beyond. All of this is
per-backend state that outlives the statements which fill it, so the question
that matters is whether a long sequence of legal statements (with LIMITs,
rescans, joins, functions, kept plans, cursors and errors) can make a scan
return anything but the contents of the file.

These modules model that machinery at four levels: the byte layout of one cache;
the fields of one line; a scan with its strategies, caches and file position;
and the statements of a backend, which tell the scans what to read.

## The parts of the system

All paths are under `src/postgresql-9.6.5/src/backend/`.

| Part | Source | Module | Covered |
|---|---|---|---|
| Cache: rows of fixed width, columns placed by first fit | `noDB/NoDBCache.c` | `NoDBCache`, abstract: `CacheStore` | all operations that have a caller |
| Scan strategy: which cache, map or file serves which rows | `noDB/NoDBScanStrategy.c` | `NoDBScanStrategy` | whole file |
| Scan state, plan state, strategy changes | `noDB/NoDBScan.c` | `NoDBScan`, abstract: `RawScan` | without option parsing |
| Tuple executor: raw buffer, lines, cache writes | `noDB/NoDBExecutor.c` | `NoDBScan` | CSV mode |
| Tuple executor: fields of a line and their values | `noDB/NoDBExecutor.c` | `Fields` | CSV mode, without input functions and encodings |
| EOL cache registry | `noDB/NoDBEOLCacheWorld.c` | `NoDBScan` | one relation |
| Execution info, column locks | `noDB/NoDBExecInfo.c` | `NoDBScan` (one relation), `Session` (registry) | locks and registry, without block counts |
| Statement loop | `executor/execMain.c` (`ExecutePlan2`), `executor/execScan.c` | `NoDBScan`, `Session` | the NoDB path |
| Nested loop | `executor/nodeNestloop.c` | `NestLoop` | control flow |
| Query descriptor | `snooping/queryDescriptor.c` | `QueryDescriptor` | all but the LIMIT |
| Collection of columns | `parser/parse_expr.c`, `parser/parse_clause.c`, `parser/parse_target.c`, `parser/analyze.c`, `rewrite/rewriteHandler.c`, `utils/adt/ruleutils.c`, `noDB/NoDBScan.c` (`traversePlanTree`) | `Session` | the calls added for NoDB |
| Configuration, timed executor, statistics, containers, rest of `snooping/` | see `PROJECT.json` | none | not modelled |

How they interact. Parse analysis and rewriting enter aliases and columns in the
query descriptor, one global record. `ExecutePlan2` walks over the plan, which
adds the columns of the filters, then initialises every raw scan
(`NoDBScanStateInit`): the columns to read and to filter on come from the
descriptor, the columns to write from the locks. It then pulls tuples. `ExecScan`
calls the scan's `execNoDBPlan` for each row, which takes values from caches,
finds fields from stored positions or parses the line. After `nMin` rows
`NoDBUpdateStrategy` records the rows written (`NoDBFinalizeStrategy`), corrects
the file position and asks the iterator for the next strategy. The iterator calls
`BuildMatrix`, which may add columns to caches, grow them or create new ones. When
the plan returns an empty slot the scans are finalised, their column locks
released and the descriptor emptied. The list of caches, the EOL cache, the locks
and the descriptor are shared by all scans of the backend.

Which columns a statement reads is worth a remark, since much depends on it.
`transformColumnRef` enters the columns that the text names. `QueryRewrite` then
enters every column of every range table entry as a "whole row" without a table,
so a query that has a FROM clause and is parsed for its execution reads *all*
columns. A scan reads a subset in three cases:

* the query has no FROM of its own and the scan is in a sublink, which
  `AddQueryCorrectColumns` does not visit: it reads the columns the text names;
* the plan is executed later than it was parsed (PREPARE, the extended protocol,
  cached plans of functions, cursors) and the descriptor has been emptied or
  refilled in between;
* a function runs statements between parsing and the initialisation of the scans,
  and their end empties the descriptor: one that the planner evaluates, or one in
  a LIMIT right above a scan, which the walk over the plan evaluates.

In the modules of the scan a query is any subset of columns; the definitions
named `Whole...` in `MCNoDBScan` are the queries that read all columns.

`src/postgresql-9.0.0` is an older copy of the same work and is not modelled.

## Modules

**`NoDBCache`** is one cache at the level of bytes. `list` is the set of nodes of
the C partition list, each with the offset the C code obtains by summing sizes;
`offset`, `map`, `cols`, `rowFree` are the fields of `NoDBCache_t`; `buf` is a
function on byte positions. One action per operation: `NoDBCacheAddColumn`,
`NoDBCacheGrow` (with `NoDBCacheSetMaxRows`), `NoDBCacheSetUsedRows` and
`NoDBCacheSet`, which stands for all typed setters. Calls that return 0 without
effect are stuttering. `NoDBCacheDeleteColumn` has no caller and is left out.

**`CacheStore`** is the promise of a cache: a table of cells in which a write
changes one cell and nothing else ever does.

**`NoDBScanStrategy`** contains no state: it is the pure part of the strategy as
operators on the sequence of caches. `BuildMatrix` is the composition of
`HitPhase`, `MissPhase`, `ClosestPhase` and `GrowToLastRow`, in the order of the C
function; each phase is a fold over segments and columns because each decision
sees the caches as the earlier ones left them. `FillRow`/`Strategy` turn a row of
the matrix into what is read, converted and written.

**`NoDBScan`** has the shared state (`caches`, `eol`, `cacheLock`, `pmLock`,
`relRows`) and a record per scan (`processed`, `tupleRead`, `tupleStored`,
`nEOL`, `nRows`, `nMin`, `toRead`, file position `fpos`, bytes `left` in the raw
buffer, `readHeader`, the strategies, the tuple last delivered). The file is its
layout: row `r` occupies `LineLen[r]` bytes from `Start(r)`. Reading a byte range
that is exactly row `r` yields `r`; any other range yields `Junk`. A cell holds
the row number whose value it stores, so "the right value" is "the right row
number". Actions are `StartStatement`, `ExecScan`, `Rescan`, `EndStatement`,
`Abort`, `Suspend`, `ResumeStatement` and `CloseStatement`. `pos`, `passed` and
`overrun` are observers with no counterpart in the code: rows passed in this
pass, tuples counted against the LIMIT, and whether a row was written outside its
buffer. The optional moves of the executor are switched by `Features`, so that
each run can say which of them it allows.

**`RawScan`** is the promise of a scan: the rows of the file in order, once per
pass, with the file's values, then the end.

**`NestLoop`** composes two scans the way `ExecNestLoop` does: the inner one is
rescanned for every outer tuple, and left at a match for semi- and anti-joins.

**`EditedFile`** adds to `NoDBScan` somebody who changes a row of the file between
two statements, in the mildest way, with every line keeping its length.

**`Fields`** is what happens inside one line, a character at a time. `line` is the
row in the file, `pm` the positions stored for it, `text` the line buffer (which
the conversion of fields overwrites), `attr` the array `attributes[]`, `value` the
values. A statement says which columns it reads, filters on, finds in data caches
and whether it may write. `PartWithFile` begins `NoDBCopyReadAttributesCSV`
(`PlainChar` to `EndField`), `PartWithPM` begins the searches from stored positions
(`ViaPM`, then `parseLineForward` as `Forward...` and `parseLineBackward` as
`Backward...`). `NoDBGetValues` and `NoDBGetValuesWithPM` convert; then the filter
decides whether the second part is read, and `StorePositions` writes the map. The
row is read by any number of statements one after another; in between, the arrays
have been used for other rows, and what they hold then is `Elsewhere`. The pointer
of the first field is different: it is set to 0 once for each scan, and whatever a
row leaves there the next one finds. `odd` says whether the file has lines that are
not plain; if it has, one of them may have left anything there (`FirstPointers`). A
value is
the set of positions of its characters. The reference, `Separators` and `FieldOf`,
is independent of the loops: a delimiter separates fields if the number of quotes
before it is even.

**`QueryDescriptor`** has the operations of the query descriptor as operators on a
record: alias pairs, and the two lists of columns that are ever read.

**`Session`** is the statements of a backend. `stack` holds those under way, since
the queries of a function run inside the statement that calls it. A statement
goes through `Parse`, `TransformFromItem` for each relation, `TransformColumns`,
`QueryRewrite`, `TraversePlanTree` for each scan, `InitScan` or `SkipScan` for each
scan, `Rescan` any number of times, and `EndStatement`. A statement record has the
scans of the plan, the columns its text names, whether the query has a range table
(`from`), whether the planner evaluates a function of it that runs statements
(`folds`), and for each scan whether a LIMIT above it calls one (`limitCalls`). At any
step a statement may fail (`Abort`, `ColumnNotFound`), or its plan may be kept and
executed later (`KeepPlan`, `ExecuteKept`). The actions change the descriptor, the
locks and the registry of relations as the code does, including that the end of any
statement empties the descriptor and frees every lock on the columns it read, its
own or not. `orphan` is an observer: columns left locked by statements that are
gone. `Features` has `abort`, `keep` and `nest` (statements that a running one calls).

The proofs are in **`NoDBCacheProofs`** and **`NoDBCacheRefines`**;
**`SessionProofs`**, **`SessionScans`** and **`SessionReads`**, each of which extends
the one before; and in the same way **`FieldsProofs`**, **`FieldsParsed`** (lemmas
only) and **`FieldsFound`**. The longer ones are split because the prover slows down
with the length of a module. Modules named `MC...` give TLC its constants.
Definitions marked "Mutant" are faulty variants of the definition that follows
them; they are used to show that each property can fail.

## Runs

Passing runs:

| Run | Question | Distinct states |
|---|---|---|
| `NoDBCache` | Does the layout stay disjoint, is `rowFree` exact, does the byte buffer implement the table of cells? | 7,032 |
| `FullScans` | Complete scans and rescans, any of three columns and any filters, with a header: are the caches sound and the rows returned exactly the file's? | 5,130 |
| `Interrupted` | One column with LIMITs, early ends, errors, fetches and rescans in mid-file: do the caches stay true even when a position is lost, is every tuple a row of the file, and does a scan that keeps its position return the file in order? | 52,214 |
| `TwoScans` | Two scans of the same two columns in every interleaving: right rows, sound caches, and an end | 2,600 |
| `NestLoop` | A nested loop over the same columns: right rows, and is a column locked whenever a scan writes it, though each rescan releases the locks of both? | 623 |
| `Session` | A self-join, a query with sublinks only and one that calls functions early, one after and inside another, with rescans, errors and kept plans: does a statement parsed for its execution read what it needs and keep its filters, do locks have owners, do pointers into the registry stay good? | 890,337 |
| `Fields` | Any sequence of seven kinds of statements on the same line, in a file of plain lines or not: are stored positions and values those of the fields, and do the loops end? | 317,908 |

Runs in which the code does not do what its own comments or documentation say:
the quotation, then what happens:

| Run | Disagreement |
|---|---|
| `SemiJoin` | "Reset a plan node so that its output can be re-scanned." (`execAmi.c:67`). A rescan past the known line ends, with bytes left to read, returns before it rewinds. |
| `HeaderSeek` | "ignore the first line of the file" (`NoDBScan.c:184`). After rows from caches only, the seek skips the header without noting it, and the next load takes another line for the header. |
| `FilterLost` | "FIX for filtering on the correct table for NoDB" (`queryDescriptor.c:211`). A table scanned twice without aliases: the plan is printed with the name `t1_1` for the second scan, its filter columns go to no table, and a scan without filter columns does not evaluate its qualification. |
| `FileEdited` | "PostgresRAW will invalidate its caches as required" (`src/README.md:44`). No code looks whether the file changed; a cached value outlives it. |
| `EmptyField` | "'' (empty string) as NULL value" (`NoDBScan.c:195`). True of a field parsed from the line; one found from a stored position is NULL when it is `\N`, and an empty one becomes an empty string. It takes two statements that read different columns. A build with assertions stops at `NoDBExecutor.c:2047` instead, which expects no empty field there. |

### Known disagreements without a run of their own

These are variations of the runs above; each is reproduced by the change named.

* *A second FETCH starts at row 0*: `ExecutePlan2` initialises the scans each time
  it is entered (`execMain.c:1737`). `Interrupted.cfg` with the invariant
  `PositionKept` and only the feature `fetch`.
* *A column counts as cached that was never written*: a LIMIT that ends as a chunk
  begins leaves a cache with a column and no rows; a later scan of another column
  raises its used rows. `FullScans.cfg` with `Cols = {0, 1}`, `HeaderLen = 0`,
  `Queries <- AnyLimit`, invariant `CacheSound`. It needs statements that read
  different columns: kept plans, or queries that scan in sublinks only.
* *A cache is written without a buffer*: `GrowToLastRow` looks only at the last
  segment. The same with three columns and the invariant `WritesFit`; it needs
  different columns too.
* *The second scan of a self-join takes a column for a hit that the first has just
  added*: `TwoScans.cfg` with `Queries <- NoLimit`, property `ImplementsRawScan`; it
  needs two scans that read different columns, such as two sublinks.
* *Kept plans lose columns*: `ReadsEnough` and `FilterKept` speak of statements that
  were parsed for their execution (`fresh`). Without that condition both fail in
  `Session`: executed after the descriptor was emptied, a plan without aliases
  reads only the columns of its filters, and one with aliases loses the filters
  as well, since the alias map is empty.
* *Functions called early*: a query inside a function that the planner evaluates, or
  that a LIMIT right above a scan calls, empties the descriptor after the outer
  statement was parsed and before its scans are initialised. `ReadsEnough` and
  `FilterKept` without the condition `~CallsEarly` fail in `Session`.
* *Sublinks over a view or USING*: a query without FROM reads only the columns its
  text names, and `SELECT (SELECT count(*) FROM t1 JOIN t2 USING (x))` names none.
  `Session.cfg` with `Statements <- SublinkUsing` and `ReadsEnough` without the
  condition `Covered`.
* *The pointer of the first field*: a search to the left on a row such as
  `"a,b",c,d` takes the delimiter in the quotes for the beginning of the first
  field and leaves its position in `attributes[0].pointer`, which no later row of
  the scan resets; the CSV loop then computes the width of the first field from it.
  `PositionsTrue` fails without `(c = 0 /\ odd)` in `At`.
* *Quotes and backslashes*: `NoDBCopyReadAttributesCSV` knows quotes, the searches
  know backslashes and no quotes. `PositionsTrue` without the condition `Plain`
  fails on the first line of `OddLines`.
* *Fields cut out of the line*: `NoDBGetValuesWithPM` overwrites the delimiter after
  a field. A scan that may not write positions searches the same line again after
  its filter and counts one delimiter too few. `ValuesTrue` with
  `SearchesOnce == TRUE` fails. Because of `EmptyField`, `ValuesTrue` speaks of
  lines with an empty field only while no position is stored; because of
  the pointer of the first field it speaks of that field in an odd file only while
  its position is not stored.
* *Short lines*: on a line with too few fields the arrays keep the entries of the
  row before, which are delivered and stored. The properties exclude such lines
  (`Complete`); one is in the instance so that `TypeOK` and `RowFinishes` cover it.
* *Locks freed by others*: a rescan frees the locks of other scans of the same
  columns and takes them for itself, so that two scans write a column (they write
  the same values); the end of a statement inside another leaves the columns of
  the outer one unlocked while it goes on. That one scan writes a column at a time
  is therefore claimed nowhere. What is claimed is that a column is locked while a
  scan writes it (`WritesLocked`, where no statement runs inside another) and that a
  lock has an owner (`LocksOwned`).

The passing runs are restricted accordingly: `FullScans` has no LIMIT,
`Interrupted` has one column, `TwoScans` has queries that read all columns, and
`ImplementsRawScan` is not claimed where a position may be lost; there
`RawStepsWhileKept` says how far it goes. A header is used in `FullScans`, with the
length of one of the lines but not of the other; with a header `NestLoop` violates
`ImplementsRawScan` for the reason that `HeaderSeek` shows.

### Bounds

* `NoDBCache`: columns of 1, 2 and 2 bytes in rows of 4, so that the third column
  may be refused, fit exactly or leave a remainder; start row 2, so that the
  start offset matters; two rows, so that the buffer is reallocated with values
  in it.
* `ChunkRows` (`NODB_CACHE_DEFAULT_ROWS`) is 2 (4 in `TwoScans`) and files have 3
  to 5 rows: a file spans several chunks and its end falls inside one or on its
  boundary.
* `Width = 2` columns fit in a cache row: with three columns a second cache is
  needed, with fewer there is free space to add a column to.
* `RawBuf = 5` with lines of 2 and 3 bytes: the buffer ends inside a line and at
  line ends. `ShortMod = 8` stands for the 2^16 of a line length; lines are less
  than half of it, which is an assumption of the module, and 3 is the largest
  length that is. `HeaderSeek` has a header of 4 bytes and `ShortMod = 16`.
* `Rows` reaches one chunk beyond the file, since strategies do. `pos` is
  capped at `N + 1` and `passed` at the LIMIT.
* `Session`: `AliasSlots = 3` (`NUMBER_OF_RELATIONS`) is exactly the number of
  aliases, `InfoSlots = 1` (`NELLEM_ALLOC`) less than the number of raw tables, so
  that the registry is extended and moves; a third table is not raw. `MaxDepth = 2`
  statements inside one another, and `MaxDrops = 2` statements that do not reach
  their end. Two columns tell a filter column from another.
* `Fields`: three columns, so that there is a field with neighbours on both sides;
  all lines of two delimiters and up to `MaxLen = 5` characters, every placement of
  empty fields included; eight lines with quotes and backslashes; each of them in a
  file of plain lines and in one with others (`odd`); `Elsewhere = 99`, a position
  beyond every line.

States are finite without further bounds: caches and maps fill up and then only
get read. Symmetry is not used: columns and rows are numbers the code compares,
and the names of `Session` play different parts. No state constraint is used.

### Fairness

`Fields` has `WF_vars(RowStep)`: the executor goes on with a row it has begun. The
loops wait for nobody, so the code justifies it; that a next statement comes is
not assumed. `RowFinishes` needs it.

`TwoScans` uses `FairSpec`. `Fairness` says that each running scan is called again
and again until its end, and that a statement whose scans are all at their end is
ended. `ExecutePlan2` is a loop that does just this; nothing else can hold it up,
and `Features` is empty there, so no client decides. It is weak fairness with the
enabling conditions written out, because TLC evaluates `ENABLED` of an action built
from folds too slowly. Rescans and new statements are not fair.

## Proofs

### The cache

For every set of columns, all sizes, start rows, numbers of rows and byte
values, under `CacheAssumption` (row size and column sizes positive, `Junk` not a
byte that is written):

* `TypeCorrect`, `ColumnsNeverOverlap`, `CellsNeverOverlap` (`NoDBCacheProofs`).
  `ColumnsDisjoint` is not inductive, since it says nothing of free nodes, from
  which the next column is taken. The inductive invariant `IInv` adds that the
  nodes of the list lie in the row and are pairwise apart, that each column owns
  a node in use, and that no two columns begin at the same byte. The only step
  with content is `NoDBCacheAddColumn`: `FitIsFree` says that the node chosen is
  free, `SplitStaysInside` that its parts are inside it and apart. Cells are then
  separated by row (`BaseFacts`, which rests on `RowGap`) or by column.
* `FreeSpaceAlwaysExact` (`NoDBCacheProofs`): the set of free bytes loses exactly
  the bytes taken (`SplitTakes`), and cardinalities follow.
* `CacheImplementsStore` (`NoDBCacheRefines`). It needs one more invariant,
  `FreshInv`: a byte that is not `Junk` belongs to a cell. Without it a column
  added to a cache in use could show bytes left by another. `AddRefines`,
  `GrowRefines` and `SetRefines` map the three kinds of step to `Add`, `Enlarge`
  and `Put`; `NoDBCacheSetUsedRows` stutters.

Together these are all the properties of the run `NoDBCache`.

### The session

For every set of statements, tables, names and columns, any depth of statements
inside one another and any number of failures, under `DescriptorAssumption` and
`SessionAssumption`. All six properties of the run `Session` (`Typed` in
`SessionProofs`, `ReadsEnough` and `FilterKept` in `SessionReads`, the others in
`SessionScans`):

* Everything rests on `Shape`: the types, that a statement has initialised at most
  the scans it has, each for its own relation (`ScansFit`), and that every
  statement but the innermost has initialised all of its own, unless it is one
  that calls functions early (`Outer`). `Typed` is its first part. `StepKinds` sorts the
  actions by what they do to the stack, so that each later proof has a case per
  kind and not per action.
* `FilterColumnsRead` needs `Linked`: a column in the filter list stands in the
  list of all attributes under a name that the alias map leads to the same table.
  The two lists hold it under different names, which is why it is not immediate.
* `LocksHaveOwners` is inductive with `Shape`. The case with content is
  `EndStatement`, which frees the locks of others: it frees them, it never sets
  one, and what it frees is no orphan any more.
* `PointersStayLive` needs `Registry`: the vector has room for the relations it
  holds, and has not moved while they are no more than `InfoSlots`.
* `RangeTableReadsAll` says what `AddQueryCorrectColumns` is for: a statement with a
  FROM clause that was parsed for its execution and calls no function early reads
  every column. Nothing is assumed of names and aliases. A statement is `Pending`
  from its parse until its scans are initialised; nothing can start inside it in
  that time, so the descriptor is its own, and `RefsEntered` says what is in it:
  the columns of the text once it is analysed, the whole row once it is rewritten.
* `FreshStatementsReadEnough` covers the queries without FROM as well, whose text
  names what they need. There the columns stand under names that must lead to the
  table, which needs that the aliases of the pending statement are registered as
  far as it got (`AliasesEntered`), and that none of them finds the map full: the
  theorem assumes `AliasesFit`, room for all aliases in use. Without it a
  column stands under an alias that was dropped, and belongs to no table.
* `FiltersAreKept` needs besides that the filters are entered as far as the walk
  over the plan got (`FiltersEntered`). It assumes `NamesFit`: room in the alias map,
  no name stands for two relations, the plan is printed with the names of the
  text, and a qualification mentions a column. `FilterLost` shows what happens
  without the third; each of the others is as necessary. `PlainStatements` of the
  run `Session` satisfies all of them, with no alias slot to spare.

### The fields of a line

For every number of columns, every set of lines and statements, under
`FieldsAssumption` and `StatementsAssumption`:

* `CountersInRange` (`FieldsProofs`): on any line, odd ones included, columns and counters stay in
  range. `Counted` adds to the types what the strategy guarantees (positions are
  known for the columns searched from) and how `id` and `howMany` go together: in a
  search forward `id + howMany` is one more than the last column wanted, in a search
  backward `id - howMany` is one less.
* `StoredPositionsAreTrue` and `BeginningIsFirstAttribute` (`FieldsFound`): on a line without quotes
  and backslashes that has all its fields. The invariant is `Found`, nine
  conjuncts: `Counted`; `Intact` (until something is converted the buffer is the
  line); `CutText` (what is left in the buffer is of the line); `Returned` (a search
  to the left begins at a field, and passes no more delimiters than there are
  fields before it); `FirstPointer` (where all lines are plain, the pointer of the
  first field is 0); `Parsed` (the CSV loop stands in field `id`, and the fields
  before it are found); `Searched` (a search stands in the field it is to find, and
  those between it and its beginning are found); `Ready` (when the row is about to
  be stored the columns to be stored are found); and `PositionsTrue` itself, from
  which the next search begins. `FirstPointer` is about rows to come, so it must
  hold of searches in a line whose fields are being cut out, of which `Searched`
  says nothing: `CutText` and `Returned` are there for that. Such a search may miss a
  delimiter, but finds none too many, and never one when it is in the first field.
  Where the file has other lines, `FirstPointer` says nothing, and of the first
  field only the end is found: the CSV loop computes the width from the pointer it
  finds, so that their sum is right whatever the pointer was. The argument about
  one step is that crossing a separator changes the number of the field by one
  (`AroundSeparator`, `FieldEnded`, `ForwardFinds`, `BackwardFinds`), and that the
  position and width computed from two neighbouring beginnings are those of the
  field (`WidthsFound`). `Found` was checked with TLC on the instance of `Fields`
  before it was proved.

### What is only model-checked

Liveness (`StatementEnds`, `RowFinishes`), which is out of the prover's reach;
`ValuesTrue`, `HeaderIsFirstLine`, and all properties of `NoDBScan` and `NestLoop`,
where the strategy is a fold over segments and columns, about which nothing can be
proved without induction over data.

## What is not modelled

* Conversion to data types and encodings; an error there is `Abort`. Text mode,
  which is not selected: the COPY options are always `FORMAT csv`. Octal and
  hexadecimal escapes in a search: the digits are passed over one by one, which
  comes to the same, as none of them is a delimiter.
* Memory outside the line buffer: `Fields` takes it to hold no delimiter.
* The status that says which list a column goes to (`PSStatus`): parse analysis
  sets it for each clause. An error while a filter is printed leaves it at
  `PS_filterList` until the next SELECT has got past its FROM clause, so that
  columns of a join condition would be taken for filter columns. An error there
  is not modelled.
* `NoDBExecutorWithTimer.c`, a copy with timers that is not selected;
  `NoDBStatistics.c` and the files of `snooping/` other than the query descriptor and
  the configuration, whose functions are all commented out; the containers under
  `noDB/auxiliary/`, which appear as sets and sequences; reading `snoop.conf`.
* Several relations in `NoDBScan`: each has caches, EOL cache and locks of its own.
  What relations do share, the descriptor and the registry, is in `Session`.
* Lines of 2^15 bytes and more, whose length does not fit the EOL cache. They
  include all lines that do not fit the raw buffer (65536 bytes).
* The planner and the rest of PostgreSQL: where statements start, fail and are kept
  is a free choice, at the points where the code allows it.

## What could come next

1. Strategy against a reference definition: for all small sets of caches, what
   `BuildMatrix` promises of hits, and that `FillRow` serves every column that is
   read exactly once.
2. `EOLFaithful` and the file position as a module of their own, without the
   strategy, so that they can be proved for every file layout.
3. The executor's rows with NULLs and short lines, once the code decides what a
   short line means.
