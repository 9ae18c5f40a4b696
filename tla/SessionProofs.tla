--------------------------- MODULE SessionProofs ---------------------------
(***************************************************************************)
(* Proofs about the statements of a backend, for every set of tables,      *)
(* names, columns and statements, any depth of nesting and any size of the *)
(* alias map and of the registry of relations.                             *)
(***************************************************************************)
EXTENDS Session, SequenceTheorems, FiniteSetTheorems, TLAPS

----------------------------------------------------------------------------
(* What the three ways of changing the stack do to it.                     *)

\* A statement begins on top of the others (Parse, ExecuteKept).
LEMMA PushShape ==
    ASSUME stack \in Seq(Frames), NEW f \in Frames, stack' = Append(stack, f)
    PROVE  /\ stack' \in Seq(Frames) /\ stack' # <<>>
           /\ Len(stack') = Len(stack) + 1
           /\ \A k \in 1 .. Len(stack) : stack'[k] = stack[k]
           /\ stack'[Len(stack) + 1] = f /\ Top' = f
BY DEF Top

\* The innermost statement takes a step.
LEMMA TopShape ==
    ASSUME stack \in Seq(Frames), stack # <<>>, NEW f \in Frames, SetTop(f)
    PROVE  /\ stack' \in Seq(Frames) /\ stack' # <<>>
           /\ Len(stack') = Len(stack)
           /\ \A k \in 1 .. (Len(stack) - 1) : stack'[k] = stack[k]
           /\ stack'[Len(stack)] = f /\ Top' = f
<1>1. Len(stack) \in 1 .. Len(stack) /\ Len(stack) \in Nat
  OBVIOUS
<1>2. /\ stack' \in Seq(Frames) /\ Len(stack') = Len(stack)
      /\ \A k \in 1 .. Len(stack) : stack'[k] = IF k = Len(stack) THEN f ELSE stack[k]
  BY <1>1, ExceptSeq DEF SetTop
<1> QED
  BY <1>1, <1>2 DEF Top

\* Statements end, all those above level n at once.
LEMMA CutShape ==
    ASSUME stack \in Seq(Frames), NEW n \in 0 .. (Len(stack) - 1), stack' = SubSeq(stack, 1, n)
    PROVE  /\ stack' \in Seq(Frames)
           /\ Len(stack') = n
           /\ \A k \in 1 .. n : stack'[k] = stack[k]
<1>1. Len(stack) \in Nat /\ \A i \in 1 .. n : stack[i] \in Frames
  OBVIOUS
<1>2. /\ SubSeq(stack, 1, n) \in Seq(Frames)
      /\ Len(SubSeq(stack, 1, n)) = IF 1 <= n THEN n - 1 + 1 ELSE 0
      /\ \A i \in 1 .. n - 1 + 1 : SubSeq(stack, 1, n)[i] = stack[1 + i - 1]
  BY <1>1, SubSeqProperties
<1> QED
  BY <1>1, <1>2

\* The innermost statement is one of those under way.
LEMMA TopIsFrame ==
    ASSUME stack \in Seq(Frames), stack # <<>>
    PROVE  Top \in Frames /\ Len(stack) \in Nat \ {0} /\ Top = stack[Len(stack)]
BY DEF Top

----------------------------------------------------------------------------
(* Types.                                                                  *)

\* Statements have the scans their text and plan give them.
LEMMA StatementShape ==
    ASSUME NEW f \in Frames
    PROVE  /\ f.st \in Statements /\ f.st.scans \in Seq(ScanRecords) /\ f.st.refs \subseteq Entries
           /\ Len(f.st.scans) \in Nat /\ f.scans \in Seq(ScanStates) /\ Len(f.scans) \in Nat
           /\ f.seen \in Nat /\ f.fresh \in BOOLEAN
BY SessionAssumption DEF Frames, StatementRecords

\* The scans of a statement under way are the first of those it has, and they
\* are initialised only in its execution.
ScansFit(f) ==
    /\ Len(f.scans) <= Len(f.st.scans)
    /\ f.pc # "exec" => f.scans = <<>>
    /\ \A i \in DOMAIN f.scans :
          f.scans[i].rel = f.st.scans[i].rel /\ f.scans[i].write \subseteq f.scans[i].all

\* A statement inside which another one runs has initialised its scans, or
\* calls functions before it does.
Outer(f) == Initialised(f) \/ (f.pc = "planned" /\ CallsEarly(f.st))

\* The invariant that the others rest on.
Shape ==
    /\ TypeOK
    /\ \A k \in DOMAIN stack : ScansFit(stack[k])
    /\ \A k \in 1 .. (Len(stack) - 1) : Outer(stack[k])

\* The operations on the descriptor yield descriptors.
LEMMA DescriptorTypes ==
    ASSUME desc \in Descriptors
    PROVE  /\ EmptyDescriptor \in Descriptors /\ resetQueryDescriptor(desc) \in Descriptors
           /\ \A t \in Tables, n \in Names : addTableAliasInformation(desc, t, n) \in Descriptors
           /\ \A E \in SUBSET Entries : addColumns(desc, E) \in Descriptors
           /\ \A E \in SUBSET [name : Names, col : Columns \union {Whole}] :
                 addFilterColumns(desc, E) \in Descriptors
<1> USE DescriptorAssumption DEF Descriptors, Entries, Pairs
<1>1. EmptyDescriptor \in Descriptors /\ resetQueryDescriptor(desc) \in Descriptors
  BY DEF EmptyDescriptor, resetQueryDescriptor
<1>2. ASSUME NEW t \in Tables, NEW n \in Names
      PROVE  addTableAliasInformation(desc, t, n) \in Descriptors
  <2> DEFINE pair == [name |-> n, table |-> t]
             new  == [desc.first EXCEPT ![n] = IF desc.first[n] = NoName THEN t ELSE desc.first[n]]
  <2>1. pair \in Pairs /\ new \in [Names -> Tables \union {NoName}]
    OBVIOUS
  <2>2. [desc EXCEPT !.pairs = @ \union {pair}, !.first = new] \in Descriptors
    BY <2>1, Zenon
  <2>3. addTableAliasInformation(desc, t, n) \in
            {desc, [desc EXCEPT !.pairs = @ \union {pair}, !.first = new]}
    BY DEF addTableAliasInformation
  <2> QED
    BY <2>2, <2>3, Zenon
<1>3. ASSUME NEW E \in SUBSET Entries PROVE addColumns(desc, E) \in Descriptors
  BY DEF addColumns
<1>4. ASSUME NEW E \in SUBSET [name : Names, col : Columns \union {Whole}]
      PROVE  addFilterColumns(desc, E) \in Descriptors
  <2>1. \A e \in E : getTableNameFromAlias(desc, e.name) \in Names
    BY DEF getTableNameFromAlias
  <2>2. {[name |-> getTableNameFromAlias(desc, e.name), col |-> e.col] : e \in E} \subseteq Entries
    BY <2>1
  <2> QED
    BY <2>2, ZenonT(30) DEF addFilterColumns
<1> QED
  BY <1>1, <1>2, <1>3, <1>4

\* The columns a scan takes from the descriptor.
LEMMA ScanStateType ==
    ASSUME TypeOK, NEW s \in ScanRecords, moved' \in Nat
    PROVE  /\ NoDBScanStateInit(s) \in ScanStates
           /\ getQueryAttributes(desc, s.rel) \subseteq Columns
           /\ s.rel \in Tables
BY DEF TypeOK, ScanRecords, ScanStates, NoDBScanStateInit, NoDBAggressivePolicy,
       getQueryAttributes, getQueryFilterAttributes

\* The registry of relations.
LEMMA RegistryType ==
    ASSUME TypeOK, NEW t \in RawTables, NoDBExecInfoInit(t)
    PROVE  known' \subseteq RawTables /\ size' \in Nat /\ moved' \in Nat /\ moved' >= moved
BY SessionAssumption DEF TypeOK, NoDBExecInfoInit

\* A set of columns of a statement's scans is a set of columns.
LEMMA ScanColumns ==
    ASSUME NEW f, NEW t
    PROVE  ReadBy(f, t) \subseteq Columns /\ WrittenBy(f, t) \subseteq Columns
BY DEF ReadBy, WrittenBy

\* The scan that is initialised next is one of the statement's.
LEMMA NextScan ==
    ASSUME Shape, ~Running, TopAt("exec")
    PROVE  /\ Top \in Frames /\ stack # <<>>
           /\ Len(Top.scans) + 1 \in 1 .. Len(Top.st.scans)
           /\ Top.st.scans[Len(Top.scans) + 1] \in ScanRecords
<1>1. Top \in Frames /\ stack # <<>> /\ ScansFit(Top)
  BY TopIsFrame DEF TopAt, Shape, TypeOK
<1>2. Len(Top.scans) + 1 \in 1 .. Len(Top.st.scans)
  BY <1>1, StatementShape DEF Running, Initialised, TopAt, ScansFit
<1> QED
  BY <1>1, <1>2, StatementShape, ElementOfSeq

\* The columns that are printed for a scan have its name in front of them.
LEMMA ScanFilterRefs ==
    ASSUME NEW s \in ScanRecords
    PROVE  FilterRefs(s) \subseteq [name : Names, col : Columns \union {Whole}]
BY DEF FilterRefs, Entries, ScanRecords

\* What a rescan makes of the state of the innermost statement.
LEMMA RescanFrame ==
    ASSUME TypeOK, Running, NEW i \in DOMAIN Top.scans,
           NEW g, g = [Top EXCEPT !.scans[i].write = Top.scans[i].all]
    PROVE  /\ Top \in Frames /\ stack # <<>> /\ g \in Frames /\ Top.scans[i] \in ScanStates
           /\ g.st = Top.st /\ g.fresh = Top.fresh /\ g.pc = Top.pc /\ g.seen = Top.seen
           /\ DOMAIN g.scans = DOMAIN Top.scans /\ Len(g.scans) = Len(Top.scans)
           /\ \A j \in DOMAIN Top.scans :
                 /\ g.scans[j].rel = Top.scans[j].rel /\ g.scans[j].all = Top.scans[j].all
                 /\ g.scans[j].filter = Top.scans[j].filter /\ g.scans[j].at = Top.scans[j].at
                 /\ g.scans[j].write = IF j = i THEN Top.scans[i].all ELSE Top.scans[j].write
<1> DEFINE new == [Top.scans[i] EXCEPT !.write = Top.scans[i].all]
<1>1. Top \in Frames /\ stack # <<>>
  BY TopIsFrame DEF TypeOK, Running
<1>2. Top.scans \in Seq(ScanStates) /\ Top.scans[i] \in ScanStates /\ i \in 1 .. Len(Top.scans)
  BY <1>1, StatementShape, ElementOfSeq
<1>3. /\ new \in ScanStates /\ new.rel = Top.scans[i].rel /\ new.all = Top.scans[i].all
      /\ new.filter = Top.scans[i].filter /\ new.at = Top.scans[i].at /\ new.write = Top.scans[i].all
  BY <1>2 DEF ScanStates
<1>4. g = [Top EXCEPT !.scans = [@ EXCEPT ![i] = new]]
  OBVIOUS
<1> HIDE DEF new
<1>5. /\ [Top.scans EXCEPT ![i] = new] \in Seq(ScanStates)
      /\ Len([Top.scans EXCEPT ![i] = new]) = Len(Top.scans)
      /\ \A j \in 1 .. Len(Top.scans) :
            [Top.scans EXCEPT ![i] = new][j] = IF j = i THEN new ELSE Top.scans[j]
  BY <1>2, <1>3, ExceptSeq
<1>6. /\ g \in Frames /\ g.scans = [Top.scans EXCEPT ![i] = new]
      /\ g.st = Top.st /\ g.fresh = Top.fresh /\ g.pc = Top.pc /\ g.seen = Top.seen
  BY <1>1, <1>4, <1>5 DEF Frames
<1>7. DOMAIN g.scans = DOMAIN Top.scans /\ Len(g.scans) = Len(Top.scans)
  BY <1>2, <1>5, <1>6
<1>8. \A j \in DOMAIN Top.scans : g.scans[j] = IF j = i THEN new ELSE Top.scans[j]
  BY <1>2, <1>5, <1>6
<1> QED
  BY <1>1, <1>2, <1>3, <1>6, <1>7, <1>8

\* The types hold at first.
LEMMA InitTypeOK == Init => TypeOK
<1> SUFFICES ASSUME Init PROVE TypeOK
  OBVIOUS
<1>1. EmptyDescriptor \in Descriptors
  BY DescriptorAssumption DEF EmptyDescriptor, Descriptors
<1>2. <<>> \in Seq(Frames)
  OBVIOUS
<1> QED
  BY <1>1, <1>2, SessionAssumption DEF Init, TypeOK

\* Every step keeps the types.
LEMMA NextTypeOK == Shape /\ [Next]_vars => TypeOK'
<1> SUFFICES ASSUME Shape, [Next]_vars PROVE TypeOK'
  OBVIOUS
<1>0. TypeOK
  BY DEF Shape
<1> USE SessionAssumption, <1>0
<1>1. ASSUME NEW st \in Statements, Parse(st) PROVE TypeOK'
  <2>1. Frame(st, "parse", TRUE) \in Frames
    BY DEF Frame, Frames
  <2> QED
    BY <1>1, <2>1, PushShape, Zenon DEF Parse, TypeOK, registry
<1>2. CASE TransformFromItem
  <2>1. Top \in Frames /\ stack # <<>> /\ Top.seen + 1 \in 1 .. Len(Top.st.scans)
    BY <1>2, TopIsFrame, StatementShape, SMTT(30) DEF TransformFromItem, TopAt, TypeOK
  <2>2. [Top EXCEPT !.seen = @ + 1] \in Frames
    BY <2>1, Top.seen + 1 \in Nat DEF Frames
  <2>3. stack' \in Seq(Frames)
    BY <1>2, <2>1, <2>2, TopShape DEF TransformFromItem, TypeOK
  <2>4. desc' \in Descriptors
    <3>1. Top.st.scans[Top.seen + 1] \in ScanRecords
      BY <2>1, StatementShape, ElementOfSeq
    <3> QED
      BY <1>2, <3>1, DescriptorTypes, SMTT(30) DEF TransformFromItem, TypeOK, ScanRecords
  <2> QED
    BY <1>2, <2>3, <2>4 DEF TransformFromItem, TypeOK, registry
<1>3. CASE TransformColumns
  <2>1. [Top EXCEPT !.pc = "analyzed"] \in Frames /\ stack # <<>>
    BY <1>3, TopIsFrame, Zenon DEF TransformColumns, FromDone, TopAt, TypeOK, Frames
  <2>2. stack' \in Seq(Frames)
    BY <1>3, <2>1, TopShape DEF TransformColumns, TypeOK
  <2>3. Top.st.refs \subseteq Entries
    BY <2>1, TopIsFrame, StatementShape DEF TypeOK
  <2>4. desc' \in Descriptors
    BY <1>3, <2>3, DescriptorTypes DEF TransformColumns, TypeOK
  <2> QED
    BY <1>3, <2>2, <2>4 DEF TransformColumns, TypeOK, registry
<1>4. CASE QueryRewrite
  <2>1. [Top EXCEPT !.pc = "planned", !.seen = 0] \in Frames /\ stack # <<>>
    BY <1>4, TopIsFrame DEF QueryRewrite, TopAt, TypeOK, Frames
  <2>2. stack' \in Seq(Frames)
    BY <1>4, <2>1, TopShape DEF QueryRewrite, TypeOK
  <2>3. {[name |-> NoName, col |-> Whole]} \subseteq Entries
    BY DEF Entries
  <2>4. desc' \in Descriptors
    BY <1>4, <2>3, DescriptorTypes DEF QueryRewrite, TypeOK
  <2> QED
    BY <1>4, <2>2, <2>4 DEF QueryRewrite, TypeOK, registry
<1>5. CASE TraversePlanTree
  <2>1. Top \in Frames /\ stack # <<>> /\ Top.seen \in Nat
    BY <1>5, TopIsFrame, StatementShape DEF TraversePlanTree, TopAt, TypeOK
  <2>2. [Top EXCEPT !.seen = @ + 1] \in Frames /\ [Top EXCEPT !.pc = "exec"] \in Frames
    BY <2>1, Top.seen + 1 \in Nat DEF Frames
  <2>3. stack' \in Seq(Frames)
    BY <1>5, <2>1, <2>2, TopShape DEF TraversePlanTree, TypeOK
  <2>4. desc' \in Descriptors
    <3>1. CASE Top.seen < Len(Top.st.scans) /\ desc' = addFilterColumns(desc, FilterRefs(Top.st.scans[Top.seen + 1]))
      <4>1. Top.st.scans[Top.seen + 1] \in ScanRecords
        BY <2>1, <3>1, StatementShape, ElementOfSeq
      <4>2. FilterRefs(Top.st.scans[Top.seen + 1]) \subseteq [name : Names, col : Columns \union {Whole}]
        BY <4>1, ScanFilterRefs
      <4> QED
        BY <3>1, <4>2, DescriptorTypes DEF TypeOK
    <3>2. CASE desc' = desc
      BY <3>2 DEF TypeOK
    <3> QED
      BY <1>5, <3>1, <3>2 DEF TraversePlanTree
  <2> QED
    BY <1>5, <2>3, <2>4 DEF TraversePlanTree, TypeOK, registry
<1>6. CASE InitScan
  <2>1. PICK s \in {Top.st.scans[Len(Top.scans) + 1]} :
            /\ s.rel \in RawTables
            /\ NoDBExecInfoInit(s.rel)
            /\ SetTop([Top EXCEPT !.scans = Append(@, NoDBScanStateInit(s))])
            /\ locks' = [locks EXCEPT ![s.rel] = @ \union getQueryAttributes(desc, s.rel)]
    BY <1>6, Zenon DEF InitScan
  <2>2. Top \in Frames /\ stack # <<>> /\ s \in ScanRecords
    BY <1>6, <2>1, NextScan DEF InitScan, TypeOK
  <2>3. known' \subseteq RawTables /\ size' \in Nat /\ moved' \in Nat
    BY <2>1, RegistryType
  <2>4. NoDBScanStateInit(s) \in ScanStates /\ getQueryAttributes(desc, s.rel) \subseteq Columns
    BY <2>2, <2>3, ScanStateType
  <2>5. Append(Top.scans, NoDBScanStateInit(s)) \in Seq(ScanStates)
    BY <2>2, <2>4, StatementShape
  <2>6. [Top EXCEPT !.scans = Append(@, NoDBScanStateInit(s))] \in Frames
    BY <2>2, <2>5, Zenon DEF Frames
  <2>7. stack' \in Seq(Frames)
    BY <2>1, <2>2, <2>6, TopShape DEF TypeOK
  <2>8. locks' \in [Tables -> SUBSET Columns]
    BY <2>1, <2>4 DEF TypeOK
  <2> QED
    BY <1>6, <2>3, <2>7, <2>8 DEF InitScan, TypeOK
<1>7. CASE SkipScan
  <2>1. PICK s \in {Top.st.scans[Len(Top.scans) + 1]} :
            SetTop([Top EXCEPT !.scans =
               Append(@, [rel |-> s.rel, all |-> {}, filter |-> {}, write |-> {}, at |-> moved])])
    BY <1>7, Zenon DEF SkipScan
  <2>2. Top \in Frames /\ stack # <<>> /\ s \in ScanRecords
    BY <1>7, <2>1, NextScan DEF SkipScan, TypeOK
  <2>3. [rel |-> s.rel, all |-> {}, filter |-> {}, write |-> {}, at |-> moved] \in ScanStates
    BY <2>2 DEF ScanRecords, ScanStates, TypeOK
  <2> DEFINE new == [rel |-> s.rel, all |-> {}, filter |-> {}, write |-> {}, at |-> moved]
  <2> HIDE DEF new
  <2>4. Append(Top.scans, new) \in Seq(ScanStates)
    BY <2>2, <2>3, StatementShape DEF new
  <2>5. [Top EXCEPT !.scans = Append(@, new)] \in Frames
    BY <2>2, <2>4, Zenon DEF Frames
  <2>6. stack' \in Seq(Frames)
    BY <2>1, <2>2, <2>5, TopShape DEF TypeOK, new
  <2> QED
    BY <1>7, <2>6 DEF SkipScan, TypeOK, registry
<1>8. CASE EndStatement
  <2>1. Len(stack) - 1 \in 0 .. (Len(stack) - 1)
    BY <1>8, TopIsFrame DEF EndStatement, Running, TypeOK
  <2>2. stack' \in Seq(Frames)
    BY <1>8, <2>1, CutShape DEF EndStatement, TypeOK
  <2>3. desc' \in Descriptors
    BY <1>8, DescriptorTypes DEF EndStatement, TypeOK
  <2>4. locks' \in [Tables -> SUBSET Columns] /\ orphan' \in [Tables -> SUBSET Columns]
    BY <1>8 DEF EndStatement, TypeOK, ReleaseLocks
  <2> QED
    BY <1>8, <2>2, <2>3, <2>4 DEF EndStatement, TypeOK, registry
<1>9. ASSUME NEW k \in 0 .. (Len(stack) - 1), Drop(k), desc' \in Descriptors, plans' \subseteq Statements
      PROVE  TypeOK'
  <2>1. stack' \in Seq(Frames)
    BY <1>9, CutShape DEF Drop, TypeOK
  <2>2. orphan' \in [Tables -> SUBSET Columns]
    BY <1>9, ScanColumns DEF Drop, TypeOK
  <2>3. drops' \in Nat
    BY <1>9 DEF Drop, TypeOK
  <2> QED
    BY <1>9, <2>1, <2>2, <2>3 DEF Drop, TypeOK, registry
<1>10. CASE Abort
  BY <1>10, <1>9 DEF Abort, TypeOK
<1>11. CASE ColumnNotFound
  BY <1>11, <1>9, DescriptorTypes DEF ColumnNotFound, TypeOK
<1>12. CASE KeepPlan
  <2>1. stack # <<>>
    BY <1>12 DEF KeepPlan, TopAt, Running
  <2>2. Len(stack) - 1 \in 0 .. (Len(stack) - 1) /\ Top \in Frames
    BY <2>1, TopIsFrame DEF TypeOK
  <2>3. plans' \subseteq Statements
    BY <1>12, <2>2 DEF KeepPlan, TypeOK, Frames
  <2> QED
    BY <1>12, <2>2, <2>3, <1>9 DEF KeepPlan, TypeOK
<1>13. ASSUME NEW st \in plans, ExecuteKept(st) PROVE TypeOK'
  <2>1. Frame(st, "planned", FALSE) \in Frames
    BY DEF Frame, Frames, TypeOK
  <2> QED
    BY <1>13, <2>1, PushShape, Zenon DEF ExecuteKept, TypeOK, registry
<1>14. CASE Rescan
  <2>1. PICK i \in DOMAIN Top.scans :
            /\ SetTop([Top EXCEPT !.scans[i].write = Top.scans[i].all])
            /\ locks' = [locks EXCEPT ![Top.scans[i].rel] = @ \union Top.scans[i].all]
    BY <1>14, Zenon DEF Rescan
  <2> DEFINE g == [Top EXCEPT !.scans[i].write = Top.scans[i].all]
  <2>2. g \in Frames /\ stack # <<>> /\ Top.scans[i] \in ScanStates
    BY <1>14, RescanFrame DEF Rescan
  <2>3. stack' \in Seq(Frames)
    BY <2>1, <2>2, TopShape, Zenon DEF TypeOK
  <2>4. locks' \in [Tables -> SUBSET Columns]
    BY <2>1, <2>2 DEF TypeOK, ScanStates
  <2> QED
    BY <1>14, <2>3, <2>4 DEF Rescan, TypeOK, registry
<1>15. CASE UNCHANGED vars
  BY <1>15 DEF vars, registry, TypeOK
<1> QED
  BY <1>1, <1>2, <1>3, <1>4, <1>5, <1>6, <1>7, <1>8, <1>10, <1>11, <1>12, <1>13, <1>14, <1>15 DEF Next

----------------------------------------------------------------------------
(* The kinds of steps.                                                     *)

\* A statement begins.
Begins(f) ==
    /\ f \in Frames /\ f.scans = <<>> /\ f.seen = 0
    /\ f.pc = IF f.fresh THEN "parse" ELSE "planned"
    /\ MayStart
    /\ stack' = Append(stack, f)
    /\ UNCHANGED <<desc, registry, locks, orphan>>

\* The innermost statement goes on before it initialises its scans.
Advances(f) ==
    /\ stack # <<>> /\ Top.pc # "exec"
    /\ f \in Frames /\ f.st = Top.st /\ f.fresh = Top.fresh /\ f.scans = Top.scans
    /\ SetTop(f)
    /\ UNCHANGED <<registry, locks, orphan>>

\* It initialises a scan: s is the next it has, and new the state of it.
Initialises(s, new) ==
    /\ TopAt("exec") /\ ~Running
    /\ Len(Top.scans) + 1 \in 1 .. Len(Top.st.scans)
    /\ s = Top.st.scans[Len(Top.scans) + 1] /\ s \in ScanRecords
    /\ new \in ScanStates
    /\ \/ /\ s.rel \in RawTables /\ new = NoDBScanStateInit(s)
          /\ NoDBExecInfoInit(s.rel)
          /\ locks' = [locks EXCEPT ![s.rel] = @ \union getQueryAttributes(desc, s.rel)]
       \/ /\ s.rel \notin RawTables
          /\ new = [rel |-> s.rel, all |-> {}, filter |-> {}, write |-> {}, at |-> moved]
          /\ UNCHANGED <<registry, locks>>
    /\ [Top EXCEPT !.scans = Append(@, new)] \in Frames
    /\ SetTop([Top EXCEPT !.scans = Append(@, new)])
    /\ UNCHANGED <<desc, orphan>>

\* It rescans its i-th scan.
Rescans(i) ==
    /\ Running /\ i \in DOMAIN Top.scans
    /\ SetTop([Top EXCEPT !.scans[i].write = Top.scans[i].all])
    /\ locks' = [locks EXCEPT ![Top.scans[i].rel] = @ \union Top.scans[i].all]
    /\ UNCHANGED <<desc, registry, orphan>>

\* Every step is of one of these kinds.
LEMMA StepKinds ==
    ASSUME Shape, [Next]_vars
    PROVE  \/ \E f \in Frames : Begins(f)
           \/ \E f \in Frames : Advances(f)
           \/ \E s \in ScanRecords, new \in ScanStates : Initialises(s, new)
           \/ \E i \in DOMAIN Top.scans : Rescans(i)
           \/ EndStatement
           \/ \E k \in 0 .. (Len(stack) - 1) : Drop(k) /\ desc' \in {desc, resetQueryDescriptor(desc)}
           \/ UNCHANGED vars
<1>0. TypeOK
  BY DEF Shape
<1>1. ASSUME NEW st \in Statements, Parse(st) PROVE \E f \in Frames : Begins(f)
  <2>1. Begins(Frame(st, "parse", TRUE)) /\ Frame(st, "parse", TRUE) \in Frames
    BY <1>1 DEF Parse, Begins, Frame, Frames, registry
  <2> QED
    BY <2>1, Zenon
<1>2. ASSUME NEW st \in plans, ExecuteKept(st) PROVE \E f \in Frames : Begins(f)
  <2>1. Begins(Frame(st, "planned", FALSE)) /\ Frame(st, "planned", FALSE) \in Frames
    BY <1>0, <1>2 DEF ExecuteKept, Begins, Frame, Frames, registry, TypeOK
  <2> QED
    BY <2>1, Zenon
<1>3. CASE TransformFromItem \/ TransformColumns \/ QueryRewrite \/ TraversePlanTree
  <2>1. Top \in Frames /\ stack # <<>> /\ Top.pc # "exec"
    BY <1>0, <1>3, TopIsFrame
    DEF TransformFromItem, TransformColumns, QueryRewrite, TraversePlanTree, FromDone, TopAt, TypeOK
  <2>2. UNCHANGED <<registry, locks, orphan>>
    BY <1>3 DEF TransformFromItem, TransformColumns, QueryRewrite, TraversePlanTree
  <2>3. PICK f \in {[Top EXCEPT !.seen = @ + 1], [Top EXCEPT !.pc = "analyzed"],
                    [Top EXCEPT !.pc = "planned", !.seen = 0], [Top EXCEPT !.pc = "exec"]} : SetTop(f)
    BY <1>3 DEF TransformFromItem, TransformColumns, QueryRewrite, TraversePlanTree
  <2>4. f \in Frames /\ f.st = Top.st /\ f.fresh = Top.fresh /\ f.scans = Top.scans
    <3>1. Top.seen + 1 \in Nat /\ 0 \in Nat
      BY <2>1, StatementShape
    <3>2. CASE f = [Top EXCEPT !.seen = @ + 1]
      BY <2>1, <3>1, <3>2 DEF Frames
    <3>3. CASE f = [Top EXCEPT !.pc = "planned", !.seen = 0]
      BY <2>1, <3>1, <3>3 DEF Frames
    <3>4. CASE f \in {[Top EXCEPT !.pc = "analyzed"], [Top EXCEPT !.pc = "exec"]}
      BY <2>1, <3>4 DEF Frames
    <3> QED
      BY <2>3, <3>2, <3>3, <3>4
  <2>5. Advances(f)
    BY <2>1, <2>2, <2>3, <2>4 DEF Advances
  <2> QED
    BY <2>4, <2>5
<1>4. ASSUME TopAt("exec"), ~Running,
             NEW s, s = Top.st.scans[Len(Top.scans) + 1],
             NEW new \in ScanStates, SetTop([Top EXCEPT !.scans = Append(@, new)])
      PROVE  /\ Len(Top.scans) + 1 \in 1 .. Len(Top.st.scans) /\ s \in ScanRecords
             /\ [Top EXCEPT !.scans = Append(@, new)] \in Frames
  <2>1. Top \in Frames /\ Len(Top.scans) + 1 \in 1 .. Len(Top.st.scans) /\ s \in ScanRecords
    BY <1>4, NextScan
  <2>2. Append(Top.scans, new) \in Seq(ScanStates)
    BY <2>1, StatementShape
  <2>3. [Top EXCEPT !.scans = Append(@, new)] \in Frames
    BY <2>1, <2>2, SMTT(30) DEF Frames
  <2> QED
    BY <2>1, <2>3
<1>5. CASE InitScan
  <2>1. PICK s \in {Top.st.scans[Len(Top.scans) + 1]} :
            /\ s.rel \in RawTables
            /\ NoDBExecInfoInit(s.rel)
            /\ SetTop([Top EXCEPT !.scans = Append(@, NoDBScanStateInit(s))])
            /\ locks' = [locks EXCEPT ![s.rel] = @ \union getQueryAttributes(desc, s.rel)]
    BY <1>5, Zenon DEF InitScan
  <2>2. s \in ScanRecords
    BY <1>5, <2>1, NextScan DEF InitScan
  <2>3. NoDBScanStateInit(s) \in ScanStates
    BY <1>0, <2>1, <2>2, RegistryType, ScanStateType
  <2>4. /\ Len(Top.scans) + 1 \in 1 .. Len(Top.st.scans)
        /\ [Top EXCEPT !.scans = Append(@, NoDBScanStateInit(s))] \in Frames
    BY <1>4, <1>5, <2>1, <2>3 DEF InitScan
  <2>5. Initialises(s, NoDBScanStateInit(s))
    BY <1>5, <2>1, <2>2, <2>3, <2>4, Zenon DEF Initialises, InitScan
  <2> QED
    BY <2>2, <2>3, <2>5
<1>6. CASE SkipScan
  <2>1. PICK s \in {Top.st.scans[Len(Top.scans) + 1]} :
            /\ s.rel \notin RawTables
            /\ SetTop([Top EXCEPT !.scans =
                  Append(@, [rel |-> s.rel, all |-> {}, filter |-> {}, write |-> {}, at |-> moved])])
    BY <1>6, Zenon DEF SkipScan
  <2> DEFINE new == [rel |-> s.rel, all |-> {}, filter |-> {}, write |-> {}, at |-> moved]
  <2>2. s \in ScanRecords
    BY <1>6, <2>1, NextScan DEF SkipScan
  <2>3. new \in ScanStates
    BY <1>0, <2>2 DEF ScanRecords, ScanStates, TypeOK
  <2>4. new = [rel |-> s.rel, all |-> {}, filter |-> {}, write |-> {}, at |-> moved]
    OBVIOUS
  <2>5. SetTop([Top EXCEPT !.scans = Append(@, new)])
    BY <2>1
  <2> HIDE DEF new
  <2>6. /\ Len(Top.scans) + 1 \in 1 .. Len(Top.st.scans)
        /\ [Top EXCEPT !.scans = Append(@, new)] \in Frames
    BY <1>4, <1>6, <2>1, <2>3, <2>5 DEF SkipScan
  <2>7. Initialises(s, new)
    BY <1>6, <2>1, <2>2, <2>3, <2>4, <2>5, <2>6 DEF Initialises, SkipScan
  <2> QED
    BY <2>2, <2>3, <2>7
<1>7. CASE Abort \/ ColumnNotFound
  BY <1>7 DEF Abort, ColumnNotFound
<1>8. CASE KeepPlan
  <2>1. stack # <<>>
    BY <1>8 DEF KeepPlan, TopAt, Running
  <2>2. Len(stack) - 1 \in 0 .. (Len(stack) - 1)
    BY <1>0, <2>1, TopIsFrame DEF TypeOK
  <2> QED
    BY <1>8, <2>2 DEF KeepPlan
<1>9. CASE Rescan
  BY <1>9, Zenon DEF Rescan, Rescans
<1> QED
  BY <1>1, <1>2, <1>3, <1>5, <1>6, <1>7, <1>8, <1>9 DEF Next

\* What a new state of the innermost statement's scans looks like.
LEMMA NewScan ==
    ASSUME Shape, NEW s \in ScanRecords, NEW new \in ScanStates, Initialises(s, new)
    PROVE  /\ stack' \in Seq(Frames) /\ stack # <<>> /\ Len(stack') = Len(stack) /\ Top \in Frames
           /\ \A k \in 1 .. (Len(stack) - 1) : stack'[k] = stack[k]
           /\ Top' = stack'[Len(stack)] /\ Top = stack[Len(stack)]
           /\ Top'.st = Top.st /\ Top'.fresh = Top.fresh /\ Top'.pc = "exec" /\ Top.pc = "exec"
           /\ Len(Top.scans) \in Nat /\ Len(Top'.scans) = Len(Top.scans) + 1
           /\ DOMAIN Top'.scans = 1 .. Len(Top.scans) + 1 /\ DOMAIN Top.scans = 1 .. Len(Top.scans)
           /\ \A i \in 1 .. Len(Top.scans) : Top'.scans[i] = Top.scans[i]
           /\ Top'.scans[Len(Top.scans) + 1] = new
<1> DEFINE f == [Top EXCEPT !.scans = Append(@, new)]
<1>1. Top \in Frames /\ stack # <<>> /\ Top = stack[Len(stack)] /\ Top.pc = "exec"
  BY TopIsFrame, ZenonT(30) DEF Initialises, TopAt, Shape, TypeOK
<1>2. /\ stack' \in Seq(Frames) /\ Len(stack') = Len(stack) /\ Top' = f /\ stack'[Len(stack)] = f
      /\ \A k \in 1 .. (Len(stack) - 1) : stack'[k] = stack[k]
  BY <1>1, TopShape, Zenon DEF Initialises, Shape, TypeOK
<1>3. f.st = Top.st /\ f.fresh = Top.fresh /\ f.pc = Top.pc /\ f.scans = Append(Top.scans, new)
  BY <1>1 DEF Frames
<1>4. Top.scans \in Seq(ScanStates) /\ Len(Top.scans) \in Nat
  BY <1>1, StatementShape
<1> HIDE DEF f
<1> QED
  BY <1>1, <1>2, <1>3, <1>4, SMTT(30)

\* And what a rescan makes of them: only what one of them writes is changed.
LEMMA RescanShape ==
    ASSUME Shape, NEW i \in DOMAIN Top.scans, Rescans(i)
    PROVE  /\ stack' \in Seq(Frames) /\ stack # <<>> /\ Len(stack') = Len(stack) /\ Top \in Frames
           /\ \A k \in 1 .. (Len(stack) - 1) : stack'[k] = stack[k]
           /\ Top' = stack'[Len(stack)] /\ Top = stack[Len(stack)] /\ Top' \in Frames
           /\ Top'.st = Top.st /\ Top'.fresh = Top.fresh /\ Top'.pc = "exec" /\ Top.pc = "exec"
           /\ DOMAIN Top'.scans = DOMAIN Top.scans /\ Len(Top'.scans) = Len(Top.scans)
           /\ \A j \in DOMAIN Top.scans :
                 /\ Top'.scans[j].rel = Top.scans[j].rel /\ Top'.scans[j].all = Top.scans[j].all
                 /\ Top'.scans[j].filter = Top.scans[j].filter /\ Top'.scans[j].at = Top.scans[j].at
                 /\ Top'.scans[j].write = IF j = i THEN Top.scans[i].all ELSE Top.scans[j].write
<1> DEFINE g == [Top EXCEPT !.scans[i].write = Top.scans[i].all]
<1>1. stack \in Seq(Frames) /\ TypeOK /\ Running /\ Top.pc = "exec" /\ SetTop(g)
  BY DEF Shape, TypeOK, Rescans, Running, Initialised
<1>2. g = [Top EXCEPT !.scans[i].write = Top.scans[i].all]
  OBVIOUS
<1> HIDE DEF g
<1>3. /\ Top \in Frames /\ stack # <<>> /\ g \in Frames
      /\ g.st = Top.st /\ g.fresh = Top.fresh /\ g.pc = Top.pc
      /\ DOMAIN g.scans = DOMAIN Top.scans /\ Len(g.scans) = Len(Top.scans)
      /\ \A j \in DOMAIN Top.scans :
            /\ g.scans[j].rel = Top.scans[j].rel /\ g.scans[j].all = Top.scans[j].all
            /\ g.scans[j].filter = Top.scans[j].filter /\ g.scans[j].at = Top.scans[j].at
            /\ g.scans[j].write = IF j = i THEN Top.scans[i].all ELSE Top.scans[j].write
  BY <1>1, <1>2, RescanFrame
<1>4. /\ stack' \in Seq(Frames) /\ Len(stack') = Len(stack) /\ Top' = g /\ stack'[Len(stack)] = g
      /\ \A k \in 1 .. (Len(stack) - 1) : stack'[k] = stack[k]
  BY <1>1, <1>3, TopShape
<1>5. Top = stack[Len(stack)]
  BY DEF Top
<1> QED
  BY <1>1, <1>3, <1>4, <1>5

\* The shape of the stack holds at first.
LEMMA InitShape == Init => Shape
BY InitTypeOK DEF Init, Shape

\* Every step keeps it.
LEMMA NextShape == Shape /\ [Next]_vars => Shape'
<1> SUFFICES ASSUME Shape, [Next]_vars PROVE Shape'
  OBVIOUS
<1>0. TypeOK /\ stack \in Seq(Frames) /\ TypeOK' /\ stack' \in Seq(Frames)
  BY NextTypeOK DEF Shape, TypeOK
<1>1. ASSUME NEW f \in Frames, Begins(f) PROVE Shape'
  <2>1. /\ Len(stack') = Len(stack) + 1 /\ stack'[Len(stack) + 1] = f
        /\ \A k \in 1 .. Len(stack) : stack'[k] = stack[k]
    BY <1>0, <1>1, PushShape DEF Begins
  <2>2. ScansFit(f)
    BY <1>1, StatementShape DEF Begins, ScansFit
  <2>3. stack # <<>> => Outer(stack[Len(stack)])
    <3>1. ASSUME stack # <<>>, Top.seen < Len(Top.st.scans) PROVE Top.seen + 1 \in DOMAIN Top.st.scans
      BY <1>0, <3>1, TopIsFrame, StatementShape
    <3> QED
      BY <1>1, <3>1 DEF Begins, MayStart, Running, TopAt, Top, Outer, CallsEarly
  <2>4. \A k \in 1 .. Len(stack) : Outer(stack[k])
    BY <1>0, <2>3 DEF Shape
  <2>5. \A k \in 1 .. Len(stack) : ScansFit(stack[k])
    BY <1>0 DEF Shape
  <2>6. \A k \in 1 .. Len(stack) + 1 : ScansFit(stack'[k])
    BY <1>0, <2>1, <2>2, <2>5
  <2>7. \A k \in 1 .. Len(stack) : Outer(stack'[k])
    BY <2>1, <2>4
  <2> QED
    BY <1>0, <2>1, <2>6, <2>7, SMTT(30) DEF Shape, ScansFit, Outer, Initialised, CallsEarly
<1>2. ASSUME NEW f \in Frames, ScansFit(f), stack # <<>>, SetTop(f) PROVE Shape'
  <2>1. /\ Len(stack') = Len(stack) /\ stack'[Len(stack)] = f
        /\ \A k \in 1 .. (Len(stack) - 1) : stack'[k] = stack[k]
    BY <1>0, <1>2, TopShape
  <2>2. \A k \in 1 .. Len(stack) : ScansFit(stack'[k])
    BY <1>0, <1>2, <2>1 DEF Shape
  <2>3. \A k \in 1 .. (Len(stack) - 1) : Outer(stack'[k])
    BY <1>0, <2>1 DEF Shape
  <2> QED
    BY <1>0, <2>1, <2>2, <2>3 DEF Shape, ScansFit, Outer, Initialised, CallsEarly
<1>3. ASSUME NEW f \in Frames, Advances(f) PROVE Shape'
  <2>1. ScansFit(Top) /\ Top \in Frames
    BY <1>0, <1>3, TopIsFrame DEF Shape, Advances
  <2>2. f.scans = <<>>
    BY <1>3, <2>1 DEF ScansFit, Advances
  <2>3. ScansFit(f)
    BY <2>2, StatementShape DEF ScansFit
  <2> QED
    BY <1>2, <1>3, <2>3 DEF Advances
<1>4. ASSUME NEW s \in ScanRecords, NEW new \in ScanStates, Initialises(s, new) PROVE Shape'
  <2> DEFINE f == [Top EXCEPT !.scans = Append(@, new)]
  <2>1. f = Top' /\ stack # <<>> /\ f \in Frames /\ SetTop(f)
    BY <1>0, <1>4, TopIsFrame, TopShape, Zenon DEF Initialises, TopAt
  <2>2. ScansFit(Top)
    BY <1>0, <2>1, TopIsFrame DEF Shape
  <2>3. new.rel = s.rel /\ new.write \subseteq new.all
    <3>1. \/ new = NoDBScanStateInit(s)
          \/ new = [rel |-> s.rel, all |-> {}, filter |-> {}, write |-> {}, at |-> moved]
      BY <1>4, Zenon DEF Initialises
    <3> QED
      BY <3>1 DEF NoDBScanStateInit, NoDBAggressivePolicy
  <2>4. /\ f.st = Top.st /\ f.pc = "exec" /\ Len(f.scans) = Len(Top.scans) + 1 /\ Len(Top.scans) \in Nat
        /\ DOMAIN f.scans = 1 .. Len(Top.scans) + 1 /\ DOMAIN Top.scans = 1 .. Len(Top.scans)
        /\ \A i \in 1 .. Len(Top.scans) : f.scans[i] = Top.scans[i]
        /\ f.scans[Len(Top.scans) + 1] = new
    BY <1>4, <2>1, NewScan
  <2> HIDE DEF f
  <2>5. Len(f.scans) <= Len(f.st.scans) /\ s = f.st.scans[Len(Top.scans) + 1]
    <3>1. Len(Top.scans) + 1 \in 1 .. Len(Top.st.scans) /\ s = Top.st.scans[Len(Top.scans) + 1]
      BY <1>4, Zenon DEF Initialises
    <3> QED
      BY <2>4, <3>1
  <2>6. ScansFit(f)
    BY <2>2, <2>3, <2>4, <2>5, SMTT(30) DEF ScansFit
  <2> QED
    BY <1>2, <2>1, <2>6
<1>5. ASSUME NEW n \in 0 .. (Len(stack) - 1), stack' = SubSeq(stack, 1, n) PROVE Shape'
  <2>1. Len(stack') = n /\ \A k \in 1 .. n : stack'[k] = stack[k]
    BY <1>0, <1>5, CutShape
  <2>2. \A k \in 1 .. n : ScansFit(stack'[k])
    BY <1>0, <2>1 DEF Shape
  <2>3. \A k \in 1 .. (n - 1) : Outer(stack'[k])
    BY <1>0, <2>1 DEF Shape
  <2> QED
    BY <1>0, <2>1, <2>2, <2>3 DEF Shape, ScansFit, Outer, Initialised, CallsEarly
<1>6. CASE EndStatement
  <2>1. Len(stack) - 1 \in 0 .. (Len(stack) - 1)
    BY <1>0, <1>6, TopIsFrame DEF EndStatement, Running
  <2> QED
    BY <1>5, <1>6, <2>1, Zenon DEF EndStatement
<1>7. ASSUME NEW k \in 0 .. (Len(stack) - 1), Drop(k) PROVE Shape'
  BY <1>5, <1>7 DEF Drop
<1>8. ASSUME NEW i \in DOMAIN Top.scans, Rescans(i) PROVE Shape'
  <2>1. ScansFit(Top)
    BY <1>0, <1>8, RescanShape, TopIsFrame DEF Shape
  <2>2. ScansFit(Top')
    <3>1. /\ Top'.st = Top.st /\ Top'.pc = "exec" /\ Len(Top'.scans) = Len(Top.scans)
          /\ DOMAIN Top'.scans = DOMAIN Top.scans
      BY <1>8, RescanShape, Zenon
    <3>2. ASSUME NEW j \in DOMAIN Top.scans
          PROVE  /\ Top'.scans[j].rel = Top.scans[j].rel /\ Top'.scans[j].all = Top.scans[j].all
                 /\ Top'.scans[j].write \in {Top.scans[j].all, Top.scans[j].write}
      <4>1. /\ Top'.scans[j].rel = Top.scans[j].rel /\ Top'.scans[j].all = Top.scans[j].all
            /\ Top'.scans[j].write = IF j = i THEN Top.scans[i].all ELSE Top.scans[j].write
        BY <1>8, RescanShape, Zenon
      <4> QED
        BY <4>1
    <3> QED
      BY <2>1, <3>1, <3>2 DEF ScansFit
  <2>3. stack # <<>> /\ Top' \in Frames /\ SetTop(Top')
    <3> DEFINE g == [Top EXCEPT !.scans[i].write = Top.scans[i].all]
    <3>1. stack # <<>> /\ g \in Frames /\ SetTop(g)
      BY <1>0, <1>8, RescanFrame DEF Rescans
    <3> HIDE DEF g
    <3>2. Top' = g
      BY <1>0, <3>1, TopShape
    <3> QED
      BY <3>1, <3>2
  <2> QED
    BY <1>2, <2>2, <2>3
<1>9. CASE UNCHANGED vars
  BY <1>0, <1>9 DEF vars, Shape, ScansFit, Outer, Initialised, CallsEarly
<1> QED
  BY <1>1, <1>3, <1>4, <1>6, <1>7, <1>8, <1>9, StepKinds

\* The descriptor, the statements under way and the locks keep their types.
THEOREM Typed == Spec => []TypeOK
<1>1. Spec => []Shape
  BY InitShape, NextShape, PTL DEF Spec
<1>2. Shape => TypeOK
  BY DEF Shape
<1> QED
  BY <1>1, <1>2, PTL

=============================================================================
