---------------------------- MODULE SessionScans ----------------------------
(***************************************************************************)
(* Proofs about every scan under way: that its filter columns are among    *)
(* the columns it reads, that its locks are freed with its statement, and  *)
(* that its pointers into the registry of relations are good.              *)
(***************************************************************************)
EXTENDS SessionProofs

----------------------------------------------------------------------------
(* Properties of every scan under way.                                     *)

\* A scan under way was under way before, and all but what it writes is what
\* it was, or it is initialised by this step.
Kept(k, i) ==
    /\ k \in DOMAIN stack /\ i \in DOMAIN stack[k].scans
    /\ stack'[k].scans[i].rel = stack[k].scans[i].rel /\ stack'[k].scans[i].all = stack[k].scans[i].all
    /\ stack'[k].scans[i].filter = stack[k].scans[i].filter /\ stack'[k].scans[i].at = stack[k].scans[i].at
    /\ stack'[k].st = stack[k].st /\ stack'[k].fresh = stack[k].fresh

Started(k, i) ==
    \E s \in ScanRecords, new \in ScanStates :
        /\ Initialises(s, new)
        /\ stack'[k].scans[i] = new /\ stack'[k].st.scans[i] = s
        /\ stack'[k].st = Top.st /\ stack'[k].fresh = Top.fresh

\* There are no other scans.
LEMMA ScanOrigins ==
    ASSUME Shape, [Next]_vars, NEW k \in DOMAIN stack', NEW i \in DOMAIN stack'[k].scans
    PROVE  Kept(k, i) \/ Started(k, i)
<1>0. stack \in Seq(Frames) /\ stack' \in Seq(Frames) /\ Len(stack) \in Nat /\ DOMAIN stack = 1 .. Len(stack)
  BY NextTypeOK DEF Shape, TypeOK
<1>1. ASSUME NEW f \in Frames, Begins(f) PROVE Kept(k, i)
  <2>1. /\ Len(stack') = Len(stack) + 1 /\ stack'[Len(stack) + 1] = f
        /\ \A j \in 1 .. Len(stack) : stack'[j] = stack[j]
    BY <1>0, <1>1, PushShape DEF Begins
  <2>2. k # Len(stack) + 1
    BY <1>1, <2>1 DEF Begins
  <2> QED
    BY <1>0, <2>1, <2>2 DEF Kept
<1>2. ASSUME NEW f \in Frames, Advances(f) PROVE Kept(k, i)
  <2>1. /\ Len(stack') = Len(stack) /\ stack'[Len(stack)] = f
        /\ \A j \in 1 .. (Len(stack) - 1) : stack'[j] = stack[j]
        /\ f.st = stack[Len(stack)].st /\ f.fresh = stack[Len(stack)].fresh
        /\ f.scans = stack[Len(stack)].scans
    BY <1>0, <1>2, TopShape, SMTT(30) DEF Advances, Top
  <2> QED
    BY <1>0, <2>1 DEF Kept
<1>3. ASSUME NEW s \in ScanRecords, NEW new \in ScanStates, Initialises(s, new)
      PROVE  Kept(k, i) \/ Started(k, i)
  <2>1. /\ Len(stack') = Len(stack) /\ Top' = stack'[Len(stack)] /\ Top = stack[Len(stack)]
        /\ \A j \in 1 .. (Len(stack) - 1) : stack'[j] = stack[j]
        /\ Top'.st = Top.st /\ Top'.fresh = Top.fresh
        /\ Len(Top.scans) \in Nat
        /\ DOMAIN Top'.scans = 1 .. Len(Top.scans) + 1 /\ DOMAIN Top.scans = 1 .. Len(Top.scans)
        /\ \A j \in 1 .. Len(Top.scans) : Top'.scans[j] = Top.scans[j]
        /\ Top'.scans[Len(Top.scans) + 1] = new
    BY <1>3, NewScan
  <2>2. CASE k # Len(stack)
    BY <1>0, <2>1, <2>2 DEF Kept
  <2>3. CASE k = Len(stack) /\ i \in 1 .. Len(Top.scans)
    BY <1>0, <2>1, <2>3, SMTT(30) DEF Kept
  <2>4. CASE k = Len(stack) /\ i = Len(Top.scans) + 1
    <3>1. s = Top.st.scans[Len(Top.scans) + 1]
      BY <1>3, Zenon DEF Initialises
    <3> QED
      BY <1>3, <2>1, <2>4, <3>1 DEF Started
  <2> QED
    BY <2>1, <2>2, <2>3, <2>4
<1>4. ASSUME NEW n \in 0 .. (Len(stack) - 1), stack' = SubSeq(stack, 1, n) PROVE Kept(k, i)
  <2>1. Len(stack') = n /\ \A j \in 1 .. n : stack'[j] = stack[j]
    BY <1>0, <1>4, CutShape
  <2> QED
    BY <1>0, <2>1 DEF Kept
<1>5. CASE EndStatement
  <2>1. Len(stack) - 1 \in 0 .. (Len(stack) - 1)
    BY <1>0, <1>5, TopIsFrame DEF EndStatement, Running
  <2> QED
    BY <1>4, <1>5, <2>1, Zenon DEF EndStatement
<1>6. ASSUME NEW n \in 0 .. (Len(stack) - 1), Drop(n) PROVE Kept(k, i)
  BY <1>4, <1>6 DEF Drop
<1>7. ASSUME NEW n \in DOMAIN Top.scans, Rescans(n) PROVE Kept(k, i)
  <2>1. /\ Len(stack') = Len(stack) /\ Top' = stack'[Len(stack)] /\ Top = stack[Len(stack)]
        /\ \A j \in 1 .. (Len(stack) - 1) : stack'[j] = stack[j]
        /\ Top'.st = Top.st /\ Top'.fresh = Top.fresh /\ DOMAIN Top'.scans = DOMAIN Top.scans
    BY <1>7, RescanShape, Zenon
  <2>2. \A j \in DOMAIN Top.scans :
           /\ Top'.scans[j].rel = Top.scans[j].rel /\ Top'.scans[j].all = Top.scans[j].all
           /\ Top'.scans[j].filter = Top.scans[j].filter /\ Top'.scans[j].at = Top.scans[j].at
    BY <1>7, RescanShape, Zenon
  <2>3. CASE k # Len(stack)
    BY <1>0, <2>1, <2>3 DEF Kept
  <2>4. CASE k = Len(stack)
    BY <1>0, <2>1, <2>2, <2>4 DEF Kept
  <2> QED
    BY <2>3, <2>4
<1>8. CASE UNCHANGED vars
  BY <1>8 DEF vars, Kept
<1> QED
  BY <1>1, <1>2, <1>3, <1>5, <1>6, <1>7, <1>8, StepKinds

\* A scan that a step initialises: what it takes from the descriptor.
LEMMA NewState ==
    ASSUME NEW s \in ScanRecords, NEW new \in ScanStates, Initialises(s, new)
    PROVE  /\ new.rel = s.rel
           /\ \/ /\ s.rel \in RawTables /\ NoDBExecInfoInit(s.rel)
                 /\ new.all = getQueryAttributes(desc, s.rel)
                 /\ new.filter = IF s.qual = {} THEN {} ELSE getQueryFilterAttributes(desc, s.rel)
                 /\ new.write = new.all \ locks[s.rel]
                 /\ new.at = moved'
                 /\ locks' = [locks EXCEPT ![s.rel] = @ \union new.all]
              \/ /\ s.rel \notin RawTables
                 /\ new.all = {} /\ new.filter = {} /\ new.write = {} /\ new.at = moved
                 /\ UNCHANGED <<known, size, moved, locks>>
<1>1. \/ /\ s.rel \in RawTables /\ new = NoDBScanStateInit(s) /\ NoDBExecInfoInit(s.rel)
         /\ locks' = [locks EXCEPT ![s.rel] = @ \union getQueryAttributes(desc, s.rel)]
      \/ /\ s.rel \notin RawTables
         /\ new = [rel |-> s.rel, all |-> {}, filter |-> {}, write |-> {}, at |-> moved]
         /\ UNCHANGED <<known, size, moved, locks>>
  BY Zenon DEF Initialises, registry
<1> QED
  BY <1>1 DEF NoDBScanStateInit, NoDBAggressivePolicy

----------------------------------------------------------------------------
(* Filter columns are among the columns read.                              *)

\* What is in the descriptor is linked up: the table that a name was first
\* registered for is one it is registered for, and a filter column is among
\* all attributes, under the name of its table or under an alias of it.
Linked ==
    /\ \A n \in Names : desc.first[n] # NoName => [name |-> n, table |-> desc.first[n]] \in desc.pairs
    /\ \A f \in desc.filterList : \E e \in desc.allAttributes :
          e.col = f.col /\ (e.name = f.name \/ [name |-> e.name, table |-> f.name] \in desc.pairs)

\* A step changes the descriptor by at most one of its operations.
LEMMA DescriptorSteps ==
    ASSUME Shape, [Next]_vars
    PROVE  \/ desc' = desc
           \/ desc' = EmptyDescriptor
           \/ \E t \in Tables, n \in Names : desc' = addTableAliasInformation(desc, t, n)
           \/ \E E \in SUBSET Entries : desc' = addColumns(desc, E)
           \/ \E E \in SUBSET [name : Names, col : Columns \union {Whole}] : desc' = addFilterColumns(desc, E)
<1>0. TypeOK
  BY DEF Shape
<1>1. CASE TransformFromItem
  <2>1. Top \in Frames /\ stack # <<>> /\ Top.seen + 1 \in 1 .. Len(Top.st.scans)
    BY <1>0, <1>1, TopIsFrame, StatementShape DEF TransformFromItem, TopAt, TypeOK
  <2>2. Top.st.scans[Top.seen + 1] \in ScanRecords
    BY <2>1, StatementShape, ElementOfSeq
  <2> QED
    BY <1>1, <2>2 DEF TransformFromItem, ScanRecords
<1>2. CASE TransformColumns
  <2>1. Top.st.refs \subseteq Entries
    BY <1>0, <1>2, TopIsFrame, StatementShape DEF TransformColumns, FromDone, TopAt, TypeOK
  <2> QED
    BY <1>2, <2>1, Zenon DEF TransformColumns
<1>3. CASE QueryRewrite
  BY <1>3 DEF QueryRewrite, Entries
<1>4. CASE TraversePlanTree
  <2>1. Top \in Frames
    BY <1>0, <1>4, TopIsFrame DEF TraversePlanTree, TopAt, TypeOK
  <2>2. CASE Top.seen < Len(Top.st.scans) /\ desc' = addFilterColumns(desc, FilterRefs(Top.st.scans[Top.seen + 1]))
    <3>1. Top.st.scans[Top.seen + 1] \in ScanRecords
      BY <2>1, <2>2, StatementShape, ElementOfSeq
    <3>2. FilterRefs(Top.st.scans[Top.seen + 1]) \subseteq [name : Names, col : Columns \union {Whole}]
      BY <3>1, ScanFilterRefs
    <3> QED
      BY <2>2, <3>2
  <2> QED
    BY <1>4, <2>2 DEF TraversePlanTree
<1>5. CASE ~(TransformFromItem \/ TransformColumns \/ QueryRewrite \/ TraversePlanTree)
  BY <1>5, ZenonT(30) DEF Next, vars, Parse, ExecuteKept, InitScan, SkipScan, Rescan, EndStatement,
              Abort, ColumnNotFound, KeepPlan, resetQueryDescriptor
<1> QED
  BY <1>1, <1>2, <1>3, <1>4, <1>5

\* The fields of the descriptor after each of its operations.
LEMMA DescriptorFields ==
    ASSUME desc \in Descriptors
    PROVE  /\ EmptyDescriptor.pairs = {} /\ EmptyDescriptor.filterList = {}
           /\ EmptyDescriptor.allAttributes = {} /\ EmptyDescriptor.first = [n \in Names |-> NoName]
           /\ \A t \in Tables, n \in Names :
                 LET d == addTableAliasInformation(desc, t, n) IN
                 /\ d.allAttributes = desc.allAttributes /\ d.filterList = desc.filterList
                 /\ desc.pairs \subseteq d.pairs
                 /\ d.pairs \subseteq desc.pairs \union {[name |-> n, table |-> t]}
                 /\ \A m \in Names : d.first[m] # desc.first[m] => m = n /\ d.first[n] = t
                 /\ d.first # desc.first => [name |-> n, table |-> t] \in d.pairs
                 /\ d = desc \/ d.first[n] # NoName
                 /\ IsFiniteSet(desc.pairs) /\ Cardinality(desc.pairs) < AliasSlots => [name |-> n, table |-> t] \in d.pairs
           /\ \A E : /\ addColumns(desc, E).pairs = desc.pairs
                     /\ addColumns(desc, E).first = desc.first
                     /\ addColumns(desc, E).filterList = desc.filterList
                     /\ addColumns(desc, E).allAttributes = desc.allAttributes \union E
           /\ \A E : /\ addFilterColumns(desc, E).pairs = desc.pairs
                     /\ addFilterColumns(desc, E).first = desc.first
                     /\ addFilterColumns(desc, E).allAttributes = desc.allAttributes \union E
                     /\ addFilterColumns(desc, E).filterList = desc.filterList \union
                           {[name |-> getTableNameFromAlias(desc, e.name), col |-> e.col] : e \in E}
<1>1. /\ EmptyDescriptor.pairs = {} /\ EmptyDescriptor.filterList = {}
      /\ EmptyDescriptor.allAttributes = {} /\ EmptyDescriptor.first = [n \in Names |-> NoName]
  BY DEF EmptyDescriptor
<1>2. ASSUME NEW t \in Tables, NEW n \in Names, NEW d, d = addTableAliasInformation(desc, t, n)
      PROVE  /\ d.allAttributes = desc.allAttributes /\ d.filterList = desc.filterList
             /\ desc.pairs \subseteq d.pairs
             /\ d.pairs \subseteq desc.pairs \union {[name |-> n, table |-> t]}
             /\ \A m \in Names : d.first[m] # desc.first[m] => m = n /\ d.first[n] = t
             /\ d.first # desc.first => [name |-> n, table |-> t] \in d.pairs
             /\ d = desc \/ d.first[n] # NoName
             /\ IsFiniteSet(desc.pairs) /\ Cardinality(desc.pairs) < AliasSlots => [name |-> n, table |-> t] \in d.pairs
  <2> DEFINE pair == [name |-> n, table |-> t]
             new  == [desc.first EXCEPT ![n] = IF @ = NoName THEN t ELSE @]
             added == [desc EXCEPT !.pairs = @ \union {pair}, !.first = new]
  <2>1. t # NoName
    BY DescriptorAssumption
  <2>2. new[n] # NoName /\ \A m \in Names : new[m] # desc.first[m] => m = n /\ new[n] = t
    BY <2>1 DEF Descriptors
  <2>3. /\ added.pairs = desc.pairs \union {pair} /\ added.first = new
        /\ added.allAttributes = desc.allAttributes /\ added.filterList = desc.filterList
    BY DEF Descriptors
  <2>4. \/ d = added
        \/ d = desc /\ (pair \in desc.pairs \/ Cardinality(desc.pairs) >= AliasSlots)
    BY <1>2 DEF addTableAliasInformation, hasTableAlias
  <2> HIDE DEF pair, new, added
  <2>5. CASE d = added
    BY <2>2, <2>3, <2>5 DEF pair
  <2>6. CASE d = desc /\ pair \in desc.pairs
    BY <2>6 DEF pair
  <2>7. CASE d = desc /\ Cardinality(desc.pairs) >= AliasSlots
    <3>1. IsFiniteSet(desc.pairs) => ~(Cardinality(desc.pairs) < AliasSlots)
      BY <2>7, DescriptorAssumption, FS_CardinalityType
    <3> QED
      BY <2>7, <3>1
  <2> QED
    BY <2>4, <2>5, <2>6, <2>7, Zenon
<1>3. ASSUME NEW E
      PROVE  /\ addColumns(desc, E).pairs = desc.pairs
             /\ addColumns(desc, E).first = desc.first
             /\ addColumns(desc, E).filterList = desc.filterList
             /\ addColumns(desc, E).allAttributes = desc.allAttributes \union E
  BY DEF addColumns, Descriptors
<1>4. ASSUME NEW E
      PROVE  /\ addFilterColumns(desc, E).pairs = desc.pairs
             /\ addFilterColumns(desc, E).first = desc.first
             /\ addFilterColumns(desc, E).allAttributes = desc.allAttributes \union E
             /\ addFilterColumns(desc, E).filterList = desc.filterList \union
                   {[name |-> getTableNameFromAlias(desc, e.name), col |-> e.col] : e \in E}
  BY SMTT(30) DEF addFilterColumns, Descriptors
<1> QED
  BY <1>1, <1>2, <1>3, <1>4

\* The empty descriptor is linked up.
LEMMA InitLinked == Init => Linked
BY DescriptorFields, SMTT(30) DEF Init, Linked, EmptyDescriptor

\* Every step keeps it so.
LEMMA NextLinked == Shape /\ Linked /\ [Next]_vars => Linked'
<1> SUFFICES ASSUME Shape, Linked, [Next]_vars PROVE Linked'
  OBVIOUS
<1>0. desc \in Descriptors
  BY DEF Shape, TypeOK
<1>1. CASE desc' = desc
  BY <1>1 DEF Linked
<1>2. CASE desc' = EmptyDescriptor
  BY <1>2, <1>0, DescriptorFields DEF Linked
<1>3. ASSUME NEW t \in Tables, NEW n \in Names, desc' = addTableAliasInformation(desc, t, n)
      PROVE  Linked'
  <2>1. /\ desc'.allAttributes = desc.allAttributes /\ desc'.filterList = desc.filterList
        /\ desc.pairs \subseteq desc'.pairs
        /\ \A m \in Names : desc'.first[m] # desc.first[m] => m = n /\ desc'.first[n] = t
        /\ desc'.first # desc.first => [name |-> n, table |-> t] \in desc'.pairs
    BY <1>0, <1>3, DescriptorFields, SMTT(30)
  <2>2. \A m \in Names : desc'.first[m] # NoName => [name |-> m, table |-> desc'.first[m]] \in desc'.pairs
    BY <2>1 DEF Linked
  <2> QED
    BY <2>1, <2>2, SMTT(30) DEF Linked
<1>4. ASSUME NEW E \in SUBSET Entries, desc' = addColumns(desc, E) PROVE Linked'
  <2>1. /\ desc'.pairs = desc.pairs /\ desc'.first = desc.first /\ desc'.filterList = desc.filterList
        /\ desc'.allAttributes = desc.allAttributes \union E
    BY <1>0, <1>4, DescriptorFields
  <2> QED
    BY <2>1, SMTT(30) DEF Linked
<1>5. ASSUME NEW E \in SUBSET [name : Names, col : Columns \union {Whole}], desc' = addFilterColumns(desc, E)
      PROVE  Linked'
  <2>1. /\ desc'.pairs = desc.pairs /\ desc'.first = desc.first
        /\ desc'.allAttributes = desc.allAttributes \union E
        /\ desc'.filterList = desc.filterList \union
              {[name |-> getTableNameFromAlias(desc, e.name), col |-> e.col] : e \in E}
    BY <1>0, <1>5, DescriptorFields
  <2>2. ASSUME NEW e \in E
        PROVE  \/ e.name = getTableNameFromAlias(desc, e.name)
               \/ [name |-> e.name, table |-> getTableNameFromAlias(desc, e.name)] \in desc.pairs
    BY SMTT(30) DEF getTableNameFromAlias, Linked
  <2>3. ASSUME NEW f \in desc'.filterList
        PROVE  \E e \in desc'.allAttributes :
                 e.col = f.col /\ (e.name = f.name \/ [name |-> e.name, table |-> f.name] \in desc'.pairs)
    <3>1. CASE f \in desc.filterList
      BY <2>1, <3>1 DEF Linked
    <3>2. ASSUME NEW e \in E, f = [name |-> getTableNameFromAlias(desc, e.name), col |-> e.col]
          PROVE  e \in desc'.allAttributes /\ e.col = f.col
                 /\ (e.name = f.name \/ [name |-> e.name, table |-> f.name] \in desc'.pairs)
      BY <2>1, <2>2, <3>2
    <3> QED
      BY <2>1, <3>1, <3>2
  <2> QED
    BY <2>1, <2>3, SMTT(30) DEF Linked
<1> QED
  BY <1>1, <1>2, <1>3, <1>4, <1>5, DescriptorSteps

\* In such a descriptor the filter columns of a table are among those read.
LEMMA LinkedReads ==
    ASSUME desc \in Descriptors, Linked, NEW t \in Tables
    PROVE  getQueryFilterAttributes(desc, t) \subseteq getQueryAttributes(desc, t)
<1> SUFFICES ASSUME NEW c \in Columns, NEW f \in desc.filterList, f.name \in {NoName, t}, f.col = c
             PROVE  \E e \in desc.allAttributes : Concerns(desc, e, t) /\ e.col \in {c, Whole}
  BY DEF getQueryFilterAttributes, getQueryAttributes
<1>1. PICK e \in desc.allAttributes :
          e.col = f.col /\ (e.name = f.name \/ [name |-> e.name, table |-> f.name] \in desc.pairs)
  BY DEF Linked
<1>2. [name |-> e.name, table |-> f.name] \in desc.pairs => f.name \in Tables
  BY DEF Descriptors, Pairs
<1>3. f.name = NoName => e.name = NoName
  BY <1>1, <1>2, DescriptorAssumption
<1>4. Concerns(desc, e, t)
  BY <1>1, <1>3 DEF Concerns, hasTableAlias
<1> QED
  BY <1>1, <1>4

\* Of every scan under way the filter columns are among those it reads
\* (getQueryRestAttributes), whatever statements have run before and inside.
THEOREM FilterColumnsRead == Spec => []FilterRead
<1> DEFINE Inv == Shape /\ Linked /\ FilterRead
<1>1. Init => Inv
  BY InitShape, InitLinked DEF Init, FilterRead
<1>2. Inv /\ [Next]_vars => Inv'
  <2> SUFFICES ASSUME Inv, [Next]_vars PROVE FilterRead'
    BY NextShape, NextLinked
  <2> SUFFICES ASSUME NEW k \in DOMAIN stack', NEW i \in DOMAIN stack'[k].scans
               PROVE  stack'[k].scans[i].filter \subseteq stack'[k].scans[i].all
    BY DEF FilterRead
  <2>1. CASE Kept(k, i)
    BY <2>1, SMTT(30) DEF Kept, FilterRead
  <2>2. CASE Started(k, i)
    <3>1. PICK s \in ScanRecords, new \in ScanStates : Initialises(s, new) /\ stack'[k].scans[i] = new
      BY <2>2 DEF Started
    <3>2. getQueryFilterAttributes(desc, s.rel) \subseteq getQueryAttributes(desc, s.rel)
      BY LinkedReads DEF Shape, TypeOK, ScanRecords
    <3> QED
      BY <3>1, <3>2, NewState
  <2> QED
    BY <2>1, <2>2, ScanOrigins
<1>3. Inv => FilterRead
  OBVIOUS
<1> QED
  BY <1>1, <1>2, <1>3, PTL DEF Spec

----------------------------------------------------------------------------
(* Locks.                                                                  *)

\* What the scans of a statement write, they read, so its end frees it.
LEMMA WritesAreReads ==
    ASSUME Shape, NEW k \in DOMAIN stack, NEW t \in Tables
    PROVE  WrittenBy(stack[k], t) \subseteq ReadBy(stack[k], t)
<1>1. ScansFit(stack[k])
  BY DEF Shape
<1> QED
  BY <1>1 DEF ScansFit, WrittenBy, ReadBy

\* A column is locked only while a scan that writes it is under way or since
\* a statement that did not reach its end, and any statement that reads the
\* column and reaches its end frees it.
THEOREM LocksHaveOwners == Spec => []LocksOwned
<1> DEFINE Inv == Shape /\ LocksOwned
<1>1. Init => Inv
  BY InitShape DEF Init, LocksOwned
<1>2. Inv /\ [Next]_vars => Inv'
  <2> SUFFICES ASSUME Shape, LocksOwned, [Next]_vars PROVE LocksOwned'
    BY NextShape
  <2>0. /\ stack \in Seq(Frames) /\ stack' \in Seq(Frames) /\ Len(stack) \in Nat
        /\ locks \in [Tables -> SUBSET Columns] /\ orphan \in [Tables -> SUBSET Columns]
    BY NextTypeOK DEF Shape, TypeOK
  <2>1. ASSUME NEW n \in Nat, Len(stack) <= n, Len(stack') = n,
               \A k \in 1 .. Len(stack) : stack'[k].scans = stack[k].scans,
               UNCHANGED <<locks, orphan>>
        PROVE  LocksOwned'
    <3> SUFFICES ASSUME NEW t \in Tables, NEW c \in locks[t], c \notin orphan[t]
                 PROVE  \E k \in DOMAIN stack' : c \in WrittenBy(stack'[k], t)
      BY <2>1 DEF LocksOwned, WrittenBy
    <3>1. PICK k \in DOMAIN stack : c \in WrittenBy(stack[k], t)
      BY DEF LocksOwned
    <3>2. k \in DOMAIN stack' /\ WrittenBy(stack'[k], t) = WrittenBy(stack[k], t)
      BY <2>0, <2>1 DEF WrittenBy
    <3> QED
      BY <3>1, <3>2
  <2>2. ASSUME NEW f \in Frames, Begins(f) PROVE LocksOwned'
    <3>1. Len(stack') = Len(stack) + 1 /\ \A k \in 1 .. Len(stack) : stack'[k] = stack[k]
      BY <2>0, <2>2, PushShape DEF Begins
    <3> QED
      BY <2>0, <2>1, <2>2, <3>1 DEF Begins
  <2>3. ASSUME NEW f \in Frames, Advances(f) PROVE LocksOwned'
    <3>1. /\ Len(stack') = Len(stack) /\ stack'[Len(stack)] = f /\ f.scans = stack[Len(stack)].scans
          /\ \A k \in 1 .. (Len(stack) - 1) : stack'[k] = stack[k]
      BY <2>0, <2>3, TopShape DEF Advances, Top
    <3>2. \A k \in 1 .. Len(stack) : stack'[k].scans = stack[k].scans
      BY <2>0, <3>1
    <3> QED
      BY <2>0, <2>1, <2>3, <3>1, <3>2 DEF Advances
  <2>4. ASSUME NEW s \in ScanRecords, NEW new \in ScanStates, Initialises(s, new) PROVE LocksOwned'
    <3> SUFFICES ASSUME NEW t \in Tables, NEW c \in locks'[t], c \notin orphan'[t]
                 PROVE  \E k \in DOMAIN stack' : c \in WrittenBy(stack'[k], t)
      BY DEF LocksOwned, WrittenBy
    <3>0. Len(stack) \in DOMAIN stack'
      <4>1. stack # <<>> /\ Len(stack') = Len(stack)
        BY <2>4, NewScan, SMTT(30)
      <4> QED
        BY <2>0, <4>1, SMTT(30)
    <3>1. /\ Len(stack') = Len(stack)
          /\ Top' = stack'[Len(stack)] /\ Top = stack[Len(stack)]
          /\ \A k \in 1 .. (Len(stack) - 1) : stack'[k] = stack[k]
          /\ Len(Top.scans) \in Nat
          /\ DOMAIN Top'.scans = 1 .. Len(Top.scans) + 1 /\ DOMAIN Top.scans = 1 .. Len(Top.scans)
          /\ \A i \in 1 .. Len(Top.scans) : Top'.scans[i] = Top.scans[i]
          /\ Top'.scans[Len(Top.scans) + 1] = new
      BY <2>4, NewScan
    <3>2. orphan' = orphan
      BY <2>4, Zenon DEF Initialises
    <3>3. CASE c \in locks[t]
      <4>1. PICK k \in DOMAIN stack : c \in WrittenBy(stack[k], t)
        BY <3>2, <3>3, SMTT(30) DEF LocksOwned
      <4>2. CASE k = Len(stack)
        <5>1. WrittenBy(Top, t) \subseteq WrittenBy(Top', t)
          BY <3>1, SMTT(30) DEF WrittenBy
        <5> QED
          BY <3>0, <3>1, <4>1, <4>2, <5>1, SMTT(30)
      <4>3. CASE k # Len(stack)
        <5>1. k \in DOMAIN stack' /\ stack'[k] = stack[k]
          BY <2>0, <3>1, <4>3, SMTT(30)
        <5> QED
          BY <4>1, <5>1
      <4> QED
        BY <4>2, <4>3
    <3>4. CASE c \notin locks[t]
      <4>1. t = s.rel /\ new.rel = s.rel /\ c \in new.write
        BY <2>0, <2>4, <3>4, NewState
      <4>2. c \in Columns
        BY <4>1, SMTT(30) DEF ScanStates
      <4>3. c \in WrittenBy(Top', t)
        BY <3>1, <4>1, <4>2, SMTT(30) DEF WrittenBy
      <4> QED
        BY <3>0, <3>1, <4>3, SMTT(30)
    <3> QED
      BY <3>3, <3>4, SMTT(30)
  <2>5. CASE EndStatement
    <3>1. stack # <<>> /\ Top = stack[Len(stack)] /\ Len(stack) \in DOMAIN stack
          /\ Len(stack) - 1 \in 0 .. (Len(stack) - 1)
      BY <2>0, <2>5, TopIsFrame DEF EndStatement, Running
    <3>2. Len(stack') = Len(stack) - 1 /\ \A k \in 1 .. (Len(stack) - 1) : stack'[k] = stack[k]
      BY <2>0, <2>5, <3>1, CutShape, Zenon DEF EndStatement
    <3> SUFFICES ASSUME NEW t \in Tables, NEW c \in locks'[t], c \notin orphan'[t]
                 PROVE  \E k \in DOMAIN stack' : c \in WrittenBy(stack'[k], t)
      BY DEF LocksOwned, WrittenBy
    <3>3. c \in locks[t] /\ c \notin ReadBy(Top, t) /\ c \notin orphan[t]
      BY <2>5 DEF EndStatement, ReleaseLocks
    <3>4. PICK k \in DOMAIN stack : c \in WrittenBy(stack[k], t)
      BY <3>3 DEF LocksOwned
    <3>5. k # Len(stack)
      BY <3>1, <3>3, <3>4, WritesAreReads, SMTT(30)
    <3>6. k \in DOMAIN stack' /\ stack'[k] = stack[k]
      BY <2>0, <3>2, <3>5
    <3> QED
      BY <3>4, <3>6
  <2>6. ASSUME NEW n \in 0 .. (Len(stack) - 1), Drop(n) PROVE LocksOwned'
    <3>1. Len(stack') = n /\ \A k \in 1 .. n : stack'[k] = stack[k]
      BY <2>0, <2>6, CutShape, SMTT(30) DEF Drop
    <3> SUFFICES ASSUME NEW t \in Tables, NEW c \in locks'[t], c \notin orphan'[t]
                 PROVE  \E k \in DOMAIN stack' : c \in WrittenBy(stack'[k], t)
      BY DEF LocksOwned, WrittenBy
    <3>2. /\ c \in locks[t] /\ c \notin orphan[t]
          /\ \A k \in (n + 1) .. Len(stack) : c \notin WrittenBy(stack[k], t)
      <4>1. /\ locks' = locks
            /\ orphan'[t] = orphan[t] \union UNION {WrittenBy(stack[k], t) : k \in (n + 1) .. Len(stack)}
        BY <2>6 DEF Drop
      <4> QED
        BY <4>1
    <3>3. PICK k \in DOMAIN stack : c \in WrittenBy(stack[k], t)
      BY <3>2 DEF LocksOwned
    <3>4. k \in 1 .. n
      BY <2>0, <3>2, <3>3, SMTT(30)
    <3>5. k \in DOMAIN stack' /\ stack'[k] = stack[k]
      BY <2>0, <3>1, <3>4, SMTT(30)
    <3> QED
      BY <3>3, <3>5
  <2>7. ASSUME NEW i \in DOMAIN Top.scans, Rescans(i) PROVE LocksOwned'
    <3>1. /\ stack # <<>> /\ Len(stack') = Len(stack) /\ Top' = stack'[Len(stack)] /\ Top = stack[Len(stack)]
          /\ \A k \in 1 .. (Len(stack) - 1) : stack'[k] = stack[k]
          /\ DOMAIN Top'.scans = DOMAIN Top.scans /\ Top \in Frames
      BY <2>7, RescanShape, Zenon
    <3>2. \A j \in DOMAIN Top.scans :
             /\ Top'.scans[j].rel = Top.scans[j].rel
             /\ Top'.scans[j].write = IF j = i THEN Top.scans[i].all ELSE Top.scans[j].write
      BY <2>7, RescanShape, Zenon
    <3>3. Top.scans[i].all \subseteq Columns /\ Top.scans[i].write \subseteq Top.scans[i].all
      <4>1. Top.scans[i] \in ScanStates
        BY <3>1, StatementShape, ElementOfSeq
      <4>2. ScansFit(Top)
        BY <2>0, <3>1 DEF Shape
      <4> QED
        BY <4>1, <4>2 DEF ScansFit, ScanStates
    <3>4. \A t \in Tables : WrittenBy(Top, t) \subseteq WrittenBy(Top', t)
      BY <3>1, <3>2, <3>3 DEF WrittenBy
    <3>5. Top.scans[i].all \subseteq WrittenBy(Top', Top.scans[i].rel)
      BY <3>1, <3>2, <3>3 DEF WrittenBy
    <3>6. /\ Len(stack) \in DOMAIN stack' /\ orphan' = orphan
          /\ locks' = [locks EXCEPT ![Top.scans[i].rel] = @ \union Top.scans[i].all]
      BY <2>0, <2>7, <3>1 DEF Rescans
    <3> SUFFICES ASSUME NEW t \in Tables, NEW c \in locks'[t], c \notin orphan'[t]
                 PROVE  \E k \in DOMAIN stack' : c \in WrittenBy(stack'[k], t)
      BY DEF LocksOwned, WrittenBy
    <3>7. CASE c \in locks[t]
      <4>1. PICK k \in DOMAIN stack : c \in WrittenBy(stack[k], t)
        BY <3>6, <3>7 DEF LocksOwned
      <4>2. CASE k = Len(stack)
        BY <3>1, <3>4, <3>6, <4>1, <4>2
      <4>3. CASE k # Len(stack)
        BY <2>0, <3>1, <4>1, <4>3
      <4> QED
        BY <4>2, <4>3
    <3>8. CASE c \notin locks[t]
      <4>1. t = Top.scans[i].rel /\ c \in Top.scans[i].all
        BY <2>0, <3>6, <3>8
      <4> QED
        BY <3>1, <3>5, <3>6, <4>1
    <3> QED
      BY <3>7, <3>8
  <2>8. CASE UNCHANGED vars
    BY <2>8 DEF vars, LocksOwned, WrittenBy
  <2> QED
    BY <2>2, <2>3, <2>4, <2>5, <2>6, <2>7, <2>8, StepKinds, SMTT(30)
<1>3. Inv => LocksOwned
  OBVIOUS
<1> QED
  BY <1>1, <1>2, <1>3, PTL DEF Spec

----------------------------------------------------------------------------
(* Pointers into the registry.                                             *)

\* The vector has not moved while it had room, and no scan is ahead of it.
Registry ==
    /\ IsFiniteSet(known) /\ size >= InfoSlots
    /\ Cardinality(known) <= InfoSlots => moved = 0
    /\ \A k \in DOMAIN stack : \A i \in DOMAIN stack[k].scans : stack[k].scans[i].at <= moved

\* A step registers at most one relation.
LEMMA RegistrySteps ==
    ASSUME Shape, [Next]_vars
    PROVE  UNCHANGED <<known, size, moved>> \/ \E t \in RawTables : NoDBExecInfoInit(t)
BY Zenon DEF Next, vars, registry, Parse, TransformFromItem, TransformColumns, QueryRewrite, TraversePlanTree,
       InitScan, SkipScan, Rescan, EndStatement, Abort, ColumnNotFound, KeepPlan, ExecuteKept, Drop

\* While no more relations have been scanned than the vector was made for,
\* the pointers that scans under way keep into it are good.
THEOREM PointersStayLive == Spec => []PointersLive
<1> DEFINE Inv == Shape /\ Registry
<1> USE SessionAssumption
<1>1. Init => Inv
  BY InitShape, FS_EmptySet DEF Init, Registry
<1>2. Inv /\ [Next]_vars => Inv'
  <2> SUFFICES ASSUME Shape, Registry, [Next]_vars PROVE Registry'
    BY NextShape
  <2>0. known \subseteq RawTables /\ size \in Nat /\ moved \in Nat /\ moved' \in Nat /\ TypeOK /\ Shape'
    BY NextShape DEF Shape, TypeOK
  <2>1. /\ IsFiniteSet(known') /\ size' >= InfoSlots /\ moved <= moved'
        /\ Cardinality(known') <= InfoSlots => moved' = 0
    <3>1. CASE UNCHANGED <<known, size, moved>>
      BY <2>0, <3>1 DEF Registry
    <3>2. ASSUME NEW t \in RawTables, NoDBExecInfoInit(t)
          PROVE  /\ IsFiniteSet(known') /\ size' >= InfoSlots /\ moved <= moved'
                 /\ Cardinality(known') <= InfoSlots => moved' = 0
      <4>1. /\ IsFiniteSet(known \union {t}) /\ Cardinality(known) \in Nat
            /\ Cardinality(known \union {t}) = IF t \in known THEN Cardinality(known) ELSE Cardinality(known) + 1
        BY FS_AddElement, FS_CardinalityType DEF Registry
      <4> QED
        BY <2>0, <3>2, <4>1 DEF NoDBExecInfoInit, Registry
    <3> QED
      BY <3>1, <3>2, RegistrySteps
  <2>2. ASSUME NEW k \in DOMAIN stack', NEW i \in DOMAIN stack'[k].scans
        PROVE  stack'[k].scans[i].at <= moved'
    <3>1. CASE Kept(k, i)
      <4>1. stack[k] \in Frames
        BY <2>0, <3>1 DEF Kept, TypeOK
      <4>2. stack[k].scans[i] \in ScanStates
        BY <3>1, <4>1, StatementShape DEF Kept
      <4>3. stack[k].scans[i].at \in Nat
        BY <4>2 DEF ScanStates
      <4>4. stack[k].scans[i].at <= moved /\ stack'[k].scans[i].at = stack[k].scans[i].at
        BY <3>1 DEF Kept, Registry
      <4> QED
        BY <2>0, <2>1, <4>3, <4>4
    <3>2. CASE Started(k, i)
      <4>1. PICK s \in ScanRecords, new \in ScanStates : Initialises(s, new) /\ stack'[k].scans[i] = new
        BY <3>2, SMTT(30) DEF Started
      <4>2. new.at \in {moved, moved'}
        BY <4>1, NewState
      <4> QED
        BY <2>0, <2>1, <4>1, <4>2, SMTT(30)
    <3> QED
      BY <3>1, <3>2, ScanOrigins
  <2> QED
    BY <2>1, <2>2 DEF Registry
<1>3. Inv => PointersLive
  <2> SUFFICES ASSUME Shape, Registry, Cardinality(known) <= InfoSlots,
                      NEW k \in DOMAIN stack, NEW i \in DOMAIN stack[k].scans
               PROVE  stack[k].scans[i].at = moved
    BY DEF PointersLive
  <2>1. stack[k] \in Frames
    BY DEF Shape, TypeOK
  <2>2. stack[k].scans[i] \in ScanStates
    BY <2>1, StatementShape
  <2>3. stack[k].scans[i].at \in Nat
    BY <2>2 DEF ScanStates
  <2> QED
    BY <2>3 DEF Registry
<1> QED
  BY <1>1, <1>2, <1>3, PTL DEF Spec

=============================================================================
