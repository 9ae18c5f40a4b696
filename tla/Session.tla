------------------------------- MODULE Session -------------------------------
(***************************************************************************)
(* The statements of one backend, from parse analysis to the end of        *)
(* ExecutePlan2 (executor/execMain.c): what they leave in the query        *)
(* descriptor, what their scans take from it (NoDBScanStateInit), and the  *)
(* registry of relations with its column locks (noDB/NoDBExecInfo.c).      *)
(*                                                                         *)
(* A statement may run inside another one, as the queries of a function    *)
(* do: stack holds the statements under way, the innermost last.  A plan   *)
(* may be kept and executed later, by PREPARE, the extended protocol, a    *)
(* function's cached plan or a cursor.  Rows are not modelled: NoDBScan    *)
(* models what a scan does between its initialisation and its end.         *)
(***************************************************************************)
EXTENDS QueryDescriptor, Sequences

CONSTANTS RawTables,   \* the relations snoop.conf names
          Statements,  \* what a client may send; see StatementRecords
          InfoSlots,   \* NELLEM_ALLOC
          MaxDepth,    \* bound: statements inside one another
          MaxDrops,    \* bound: times that statements stop before their end
          Features     \* which of "abort", "keep", "nest" happen

\* For every scan of a statement, in the order of the walk over its plan: the
\* relation, its alias in the text, the name under which the plan is printed,
\* the conjuncts of its qualification as the sets of their columns, the other
\* columns it needs, and whether it is right below a LIMIT whose expression
\* calls a function that runs statements.
ScanRecords == [rel : Tables, alias : Names \union {NoName}, ref : Names,
                qual : SUBSET SUBSET Columns, target : SUBSET Columns, limitCalls : BOOLEAN]

\* A statement is its scans, the columns its text names, each with the name in
\* front of it, whether the query itself has a range table (a query without
\* FROM may still scan in its sublinks), and whether the planner evaluates a
\* function of it that runs statements.  The text need not name every column
\* it needs: it may use a view, or join with USING.
StatementRecords == [scans : Seq(ScanRecords), refs : SUBSET Entries, from : BOOLEAN, folds : BOOLEAN]

ASSUME SessionAssumption ==
    /\ RawTables \subseteq Tables
    /\ \A st \in Statements : st \in StatementRecords
    /\ InfoSlots \in Nat /\ MaxDepth \in Nat /\ MaxDrops \in Nat
    /\ Features \subseteq {"abort", "keep", "nest"}

VARIABLES desc,     \* NoDBQueryDesc
          stack,    \* the statements under way
          plans,    \* statements planned before that may be executed again
          known,    \* relations in ExecInfo->vector
          size,     \* ExecInfo->size
          moved,    \* how often realloc has moved the vector
          locks,    \* locks[t]: columns whose CacheLock and PMLock are 1
          orphan,   \* history: columns left locked by a statement now gone
          drops     \* how often statements have stopped before their end

registry == <<known, size, moved>>
vars == <<desc, stack, plans, registry, locks, orphan, drops>>

Top == stack[Len(stack)]
SetTop(f) == stack' = [stack EXCEPT ![Len(stack)] = f]
TopAt(pc) == stack # <<>> /\ Top.pc = pc

\* A statement under way: the step it is at, whether it was parsed for this
\* very execution, the FROM items seen or, once it is planned, the scans seen
\* in the walk over the plan, and the scans initialised so far.
Frame(st, pc, fresh) == [st |-> st, pc |-> pc, fresh |-> fresh, seen |-> 0, scans |-> <<>>]

Initialised(f) == f.pc = "exec" /\ Len(f.scans) = Len(f.st.scans)
Running == stack # <<>> /\ Initialised(Top)

\* The columns of t that the scans of f read, and those they write.
ReadBy(f, t) == {c \in Columns : \E i \in DOMAIN f.scans : f.scans[i].rel = t /\ c \in f.scans[i].all}
WrittenBy(f, t) == {c \in Columns : \E i \in DOMAIN f.scans : f.scans[i].rel = t /\ c \in f.scans[i].write}

Init ==
    /\ desc = EmptyDescriptor
    /\ stack = <<>>
    /\ plans = {}
    /\ known = {} /\ size = InfoSlots /\ moved = 0
    /\ locks = [t \in Tables |-> {}]
    /\ orphan = [t \in Tables |-> {}]
    /\ drops = 0

----------------------------------------------------------------------------
(* Parse analysis and rewriting.                                           *)

\* Mutant: a statement starts before the scans of the last are initialised.
StartsDuringPlanning == stack = <<>> \/ (stack # <<>> /\ Top.pc \in {"planned", "exec"})

\* Statements come one after the other, or from a function: one that the
\* running statement calls, one that the planner evaluates, or one in a LIMIT
\* right above a scan, which the walk over the plan evaluates when it gets
\* there (recompute_limits).
MayStart ==
    \/ stack = <<>>
    \/ "nest" \in Features /\ Running
    \/ TopAt("planned") /\ Top.st.folds /\ Top.seen = 0
    \/ /\ TopAt("planned") /\ Top.seen < Len(Top.st.scans)
       /\ Top.st.scans[Top.seen + 1].limitCalls

Parse(st) ==
    /\ MayStart /\ Len(stack) < MaxDepth
    /\ stack' = Append(stack, Frame(st, "parse", TRUE))
    /\ UNCHANGED <<desc, plans, registry, locks, orphan, drops>>

\* transformFromClauseItem registers the alias of a relation that has one.
TransformFromItem ==
    /\ TopAt("parse") /\ Top.seen < Len(Top.st.scans)
    /\ \E s \in {Top.st.scans[Top.seen + 1]} :
        desc' = IF s.alias = NoName THEN desc ELSE addTableAliasInformation(desc, s.rel, s.alias)
    /\ SetTop([Top EXCEPT !.seen = @ + 1])
    /\ UNCHANGED <<plans, registry, locks, orphan, drops>>

FromDone == TopAt("parse") /\ Top.seen = Len(Top.st.scans)

\* transformColumnRef enters the columns that the text names, each with the
\* name in front of it; it and transformTargetList enter a star as a whole row.
TransformColumns ==
    /\ FromDone
    /\ desc' = addColumns(desc, Top.st.refs)
    /\ SetTop([Top EXCEPT !.pc = "analyzed"])
    /\ UNCHANGED <<plans, registry, locks, orphan, drops>>

\* QueryRewrite: AddQueryCorrectColumns enters the columns of every entry of
\* the query's range table as a whole row without a table.
QueryRewrite ==
    /\ TopAt("analyzed")
    /\ desc' = IF Top.st.from THEN addColumns(desc, {[name |-> NoName, col |-> Whole]}) ELSE desc
    /\ SetTop([Top EXCEPT !.pc = "planned", !.seen = 0])
    /\ UNCHANGED <<plans, registry, locks, orphan, drops>>

----------------------------------------------------------------------------
(* Execution.                                                              *)

\* get_variable (ruleutils.c) enters the columns it prints.
FilterRefs(s) == {e \in Entries : e.name = s.ref /\ e.col \in UNION s.qual}

\* traversePlanTree prints the qualifications of the scans one after the other.
TraversePlanTree ==
    /\ TopAt("planned")
    /\ \/ /\ Top.seen < Len(Top.st.scans)
          /\ desc' = addFilterColumns(desc, FilterRefs(Top.st.scans[Top.seen + 1]))
          /\ SetTop([Top EXCEPT !.seen = @ + 1])
       \/ /\ Top.seen = Len(Top.st.scans)
          /\ SetTop([Top EXCEPT !.pc = "exec"])
          /\ UNCHANGED desc
    /\ UNCHANGED <<plans, registry, locks, orphan, drops>>

\* Mutant: a full vector is extended before the relation is looked up.
ExtendsFirst(t) ==
    /\ known' = known \union {t}
    /\ \/ Cardinality(known) # size /\ UNCHANGED <<size, moved>>
       \/ Cardinality(known) = size /\ size' = size + InfoSlots /\ moved' \in {moved, moved + 1}

\* NoDBGetExecInfo, and NoDBExecInfoInit for a relation not seen before.  A
\* full vector is extended, and the extension may move it.
NoDBExecInfoInit(t) ==
    /\ known' = known \union {t}
    /\ \/ /\ t \in known \/ Cardinality(known) # size
          /\ UNCHANGED <<size, moved>>
       \/ /\ t \notin known /\ Cardinality(known) = size
          /\ size' = size + InfoSlots
          /\ moved' \in {moved, moved + 1}

\* NoDBAggressiveCachePolicy and NoDBAggressivePMPolicy: a scan writes the
\* columns it reads that are not locked, and locks them.
NoDBAggressivePolicy(t, all) == all \ locks[t]

\* NoDBScanStateInit: the columns come from the descriptor; the columns of
\* the filter only for a scan that has a qualification.
NoDBScanStateInit(s) ==
    [rel |-> s.rel,
     all |-> getQueryAttributes(desc, s.rel),
     filter |-> IF s.qual = {} THEN {} ELSE getQueryFilterAttributes(desc, s.rel),
     write |-> NoDBAggressivePolicy(s.rel, getQueryAttributes(desc, s.rel)),
     at |-> moved']

InitScan ==
    /\ TopAt("exec") /\ ~Running
    /\ \E s \in {Top.st.scans[Len(Top.scans) + 1]} :
        /\ s.rel \in RawTables
        /\ NoDBExecInfoInit(s.rel)
        /\ SetTop([Top EXCEPT !.scans = Append(@, NoDBScanStateInit(s))])
        /\ locks' = [locks EXCEPT ![s.rel] = @ \union getQueryAttributes(desc, s.rel)]
    /\ UNCHANGED <<desc, plans, orphan, drops>>

\* Mutant: such a relation is registered all the same.
SkipScanRegisters ==
    /\ TopAt("exec") /\ ~Running
    /\ \E s \in {Top.st.scans[Len(Top.scans) + 1]} :
        /\ s.rel \notin RawTables
        /\ NoDBExecInfoInit(s.rel)
        /\ SetTop([Top EXCEPT !.scans =
               Append(@, [rel |-> s.rel, all |-> {}, filter |-> {}, write |-> {}, at |-> moved'])])
    /\ UNCHANGED <<desc, plans, locks, orphan, drops>>

\* The scan of a relation that is not in snoop.conf is PostgreSQL's own.
SkipScan ==
    /\ TopAt("exec") /\ ~Running
    /\ \E s \in {Top.st.scans[Len(Top.scans) + 1]} :
        /\ s.rel \notin RawTables
        /\ SetTop([Top EXCEPT !.scans =
               Append(@, [rel |-> s.rel, all |-> {}, filter |-> {}, write |-> {}, at |-> moved])])
    /\ UNCHANGED <<desc, plans, registry, locks, orphan, drops>>

\* NoDBScanStateReInit, for a scan that starts over: it releases the columns
\* it reads, and if one of them was locked asks for all of them again.  What
\* other scans of the relation write it then writes, too.
Rescan ==
    /\ Running
    /\ \E i \in DOMAIN Top.scans : \E s \in {Top.scans[i]} :
        /\ s.all \intersect locks[s.rel] # {}
        /\ SetTop([Top EXCEPT !.scans[i].write = s.all])
        /\ locks' = [locks EXCEPT ![s.rel] = @ \union s.all]
    /\ UNCHANGED <<desc, plans, registry, orphan, drops>>

\* Mutant: a scan releases what it wrote, not what it read.
ReleaseWritten(f, t) == locks[t] \ WrittenBy(f, t)

\* NoDBExecReleaseCacheLocks and NoDBExecReleasePMLocks.
ReleaseLocks(f, t) == locks[t] \ ReadBy(f, t)

\* The plan has returned no tuple: the end of ExecutePlan2.
EndStatement ==
    /\ Running
    /\ locks' = [t \in Tables |-> ReleaseLocks(Top, t)]
    /\ orphan' = [t \in Tables |-> orphan[t] \ ReadBy(Top, t)]
    /\ desc' = resetQueryDescriptor(desc)
    /\ stack' = SubSeq(stack, 1, Len(stack) - 1)
    /\ UNCHANGED <<plans, registry, drops>>

----------------------------------------------------------------------------
(* Statements that do not reach their end.                                 *)

\* The statements above level k are gone; nothing released their locks.
Drop(k) ==
    /\ drops < MaxDrops /\ drops' = drops + 1
    /\ stack' = SubSeq(stack, 1, k)
    /\ orphan' = [t \in Tables |->
           orphan[t] \union UNION {WrittenBy(stack[i], t) : i \in (k + 1) .. Len(stack)}]
    /\ UNCHANGED <<registry, locks>>

\* An error, up to the level that catches it.  One in the middle of parse
\* analysis is taken to come before all column references or after them.
Abort ==
    /\ "abort" \in Features
    /\ \E k \in 0 .. (Len(stack) - 1) : Drop(k)
    /\ UNCHANGED <<desc, plans>>

\* "Failed to parse the query ==> reset Query Descriptor".
ColumnNotFound ==
    /\ "abort" \in Features /\ FromDone
    /\ \E k \in 0 .. (Len(stack) - 1) : Drop(k)
    /\ desc' = resetQueryDescriptor(desc)
    /\ UNCHANGED plans

\* The plan is kept before it was executed, or after as many tuples as were
\* asked for (the second end of ExecutePlan2's loop).
KeepPlan ==
    /\ "keep" \in Features
    /\ (TopAt("planned") /\ Top.seen = 0) \/ Running
    /\ plans' = plans \union {Top.st}
    /\ Drop(Len(stack) - 1)
    /\ UNCHANGED desc

ExecuteKept(st) ==
    /\ MayStart /\ Len(stack) < MaxDepth
    /\ stack' = Append(stack, Frame(st, "planned", FALSE))
    /\ UNCHANGED <<desc, plans, registry, locks, orphan, drops>>

Next ==
    \/ \E st \in Statements : Parse(st)
    \/ TransformFromItem
    \/ TransformColumns
    \/ QueryRewrite
    \/ TraversePlanTree
    \/ InitScan
    \/ SkipScan
    \/ Rescan
    \/ EndStatement
    \/ Abort
    \/ ColumnNotFound
    \/ KeepPlan
    \/ \E st \in plans : ExecuteKept(st)

Spec == Init /\ [][Next]_vars

----------------------------------------------------------------------------
(* Properties.                                                             *)

Scanned(f, i) == i \in DOMAIN f.scans /\ f.scans[i].rel \in RawTables

ScanStates == [rel : Tables, all : SUBSET Columns, filter : SUBSET Columns,
               write : SUBSET Columns, at : Nat]
Frames == [st : Statements, pc : {"parse", "analyzed", "planned", "exec"}, fresh : BOOLEAN,
           seen : Nat, scans : Seq(ScanStates)]

\* The types of the descriptor, of the statements under way and of the locks.
TypeOK ==
    /\ desc \in Descriptors
    /\ stack \in Seq(Frames)
    /\ plans \subseteq Statements
    /\ known \subseteq RawTables /\ size \in Nat /\ moved \in Nat
    /\ locks \in [Tables -> SUBSET Columns] /\ orphan \in [Tables -> SUBSET Columns]
    /\ drops \in Nat

\* A function that runs statements is called between the parse analysis of a
\* statement and the initialisation of its scans: the end of such a statement
\* resets the descriptor.
CallsEarly(st) == st.folds \/ \E i \in DOMAIN st.scans : st.scans[i].limitCalls

\* The query has a range table, or its text names every column it needs.
Covered(st) ==
    \/ st.from
    \/ \A i \in DOMAIN st.scans : \A col \in st.scans[i].target \union UNION st.scans[i].qual :
          \E e \in st.refs : /\ e.name \in {NoName, st.scans[i].rel, st.scans[i].alias}
                            /\ e.col \in {col, Whole}

\* A statement that was parsed for this execution reads every column it needs:
\* what other statements did to the descriptor before, between or inside its
\* own steps takes nothing away (getQueryAttributes).  Not so if it calls a
\* function too early, or if the query has no FROM and leaves columns to a
\* view or a USING clause.
ReadsEnough ==
    \A k \in DOMAIN stack : stack[k].fresh /\ ~CallsEarly(stack[k].st) /\ Covered(stack[k].st) =>
        \A i \in DOMAIN stack[k].scans : Scanned(stack[k], i) =>
            stack[k].st.scans[i].target \union UNION stack[k].st.scans[i].qual \subseteq stack[k].scans[i].all

\* "FIX for filtering on the correct table for NoDB" (addColumnInformation):
\* in a statement parsed for this execution that calls no function too early,
\* a scan with a qualification reads the columns of it before the filter, and
\* at least one, without which NoDBGetExecPlan chooses a plan that does not
\* evaluate the qualification.
FilterKept ==
    \A k \in DOMAIN stack : stack[k].fresh /\ ~CallsEarly(stack[k].st) => \A i \in DOMAIN stack[k].scans :
        Scanned(stack[k], i) /\ stack[k].st.scans[i].qual # {} =>
            /\ stack[k].scans[i].filter # {}
            /\ UNION stack[k].st.scans[i].qual \subseteq stack[k].scans[i].filter

\* getQueryRestAttributes makes a vector of the number of columns read minus
\* the number of filter columns: every filter column is one of those read,
\* whoever left it in the descriptor.
FilterRead ==
    \A k \in DOMAIN stack : \A i \in DOMAIN stack[k].scans :
        stack[k].scans[i].filter \subseteq stack[k].scans[i].all

\* A scan under way keeps a pointer into ExecInfo->vector (cstate->execInfo).
\* While no more relations have been scanned than the vector was made for, it
\* is still where it was.
PointersLive ==
    Cardinality(known) <= InfoSlots => \A k \in DOMAIN stack : \A i \in DOMAIN stack[k].scans :
        Scanned(stack[k], i) => stack[k].scans[i].at = moved

\* A column is locked only while a scan that writes it is under way, or since
\* a statement that did not reach its end; any statement that reads it and
\* reaches its end frees it (NoDBExecReleaseCacheLocks).
LocksOwned ==
    \A t \in Tables : \A c \in locks[t] :
        c \in orphan[t] \/ \E k \in DOMAIN stack : c \in WrittenBy(stack[k], t)
=============================================================================
