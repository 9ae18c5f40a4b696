---------------------------- MODULE SessionReads ----------------------------
(***************************************************************************)
(* Proofs that a statement parsed for this execution reads and filters the *)
(* columns it should, unless it calls functions too early.                 *)
(***************************************************************************)
EXTENDS SessionScans

----------------------------------------------------------------------------
(* The steps of the innermost statement up to the initialisation of its    *)
(* last scan.                                                              *)

\* When the innermost statement is gone, the one below it has initialised its
\* scans or calls functions before it does.
LEMMA OuterIsSettled ==
    ASSUME Shape, NEW n \in 0 .. (Len(stack) - 1), stack' = SubSeq(stack, 1, n), stack' # <<>>
    PROVE  Top' = stack[n] /\ Outer(Top')
<1>1. stack \in Seq(Frames) /\ Len(stack) \in Nat
  BY DEF Shape, TypeOK
<1>2. Len(stack') = n /\ stack' \in Seq(Frames) /\ \A k \in 1 .. n : stack'[k] = stack[k]
  BY <1>1, CutShape
<1>3. n \in 1 .. (Len(stack) - 1)
  BY <1>1, <1>2
<1>4. Top' = stack[n]
  BY <1>2, <1>3 DEF Top
<1>5. Outer(stack[n])
  BY <1>3 DEF Shape
<1> QED
  BY <1>4, <1>5

\* The steps that advance the innermost statement, one by one.
LEMMA AdvanceKinds ==
    ASSUME Shape, [Next]_vars, NEW f \in Frames, Advances(f)
    PROVE  TransformFromItem \/ TransformColumns \/ QueryRewrite \/ TraversePlanTree \/ UNCHANGED vars
<1>0. stack \in Seq(Frames) /\ stack # <<>> /\ Len(stack) \in Nat
  BY DEF Shape, TypeOK, Advances
<1>1. Len(stack') = Len(stack) /\ Top.pc # "exec"
  BY <1>0, TopShape DEF Advances
<1>2. ASSUME NEW st \in Statements, Parse(st) PROVE FALSE
  <2>1. Frame(st, "parse", TRUE) \in Frames
    BY DEF Frame, Frames
  <2> QED
    BY <1>0, <1>1, <1>2, <2>1, PushShape DEF Parse
<1>3. ASSUME NEW st \in plans, ExecuteKept(st) PROVE FALSE
  <2>1. Frame(st, "planned", FALSE) \in Frames
    BY SMTT(30) DEF Frame, Frames, Shape, TypeOK
  <2> QED
    BY <1>0, <1>1, <1>3, <2>1, PushShape DEF ExecuteKept
<1>4. ~InitScan /\ ~SkipScan /\ ~Rescan
  BY <1>1 DEF InitScan, SkipScan, Rescan, Running, Initialised, TopAt
<1>5. ASSUME NEW n \in 0 .. (Len(stack) - 1), stack' = SubSeq(stack, 1, n) PROVE FALSE
  BY <1>0, <1>1, <1>5, CutShape
<1>6. Len(stack) - 1 \in 0 .. (Len(stack) - 1)
  BY <1>0, TopIsFrame
<1>7. ~EndStatement /\ ~Abort /\ ~ColumnNotFound /\ ~KeepPlan
  BY <1>5, <1>6 DEF EndStatement, Abort, ColumnNotFound, KeepPlan, Drop
<1> QED
  BY <1>2, <1>3, <1>4, <1>7 DEF Next

\* The innermost statement was parsed for this execution, calls no function
\* too early and has not initialised all its scans.
Pending == stack # <<>> /\ Top.fresh /\ ~CallsEarly(Top.st) /\ ~Initialised(Top)

\* What its steps do to it and to the descriptor.
SeesItem ==
    /\ Top.pc = "parse" /\ Top'.pc = "parse" /\ Top'.seen = Top.seen + 1
    /\ Top.seen + 1 \in DOMAIN Top.st.scans
    /\ desc' = IF Top.st.scans[Top.seen + 1].alias = NoName THEN desc
               ELSE addTableAliasInformation(desc, Top.st.scans[Top.seen + 1].rel, Top.st.scans[Top.seen + 1].alias)
EntersRefs ==
    /\ Top.pc = "parse" /\ Top'.pc = "analyzed" /\ Top.seen = Len(Top.st.scans)
    /\ desc' = addColumns(desc, Top.st.refs)
Rewrites ==
    /\ Top.pc = "analyzed" /\ Top'.pc = "planned" /\ Top'.seen = 0
    /\ desc' = IF Top.st.from THEN addColumns(desc, {[name |-> NoName, col |-> Whole]}) ELSE desc
VisitsScan ==
    /\ Top.pc = "planned" /\ Top'.pc = "planned" /\ Top'.seen = Top.seen + 1
    /\ Top.seen + 1 \in DOMAIN Top.st.scans
    /\ desc' = addFilterColumns(desc, FilterRefs(Top.st.scans[Top.seen + 1]))
Walked ==
    /\ Top.pc = "planned" /\ Top'.pc = "exec" /\ Top.seen = Len(Top.st.scans)
    /\ desc' = desc
Waits ==
    /\ Top'.pc = Top.pc /\ (Top.pc = "exec" \/ Top'.seen = Top.seen)
    /\ desc' = desc

\* These are the steps that advance it.
LEMMA AdvanceSteps ==
    ASSUME Shape, [Next]_vars, NEW f \in Frames, Advances(f)
    PROVE  SeesItem \/ EntersRefs \/ Rewrites \/ VisitsScan \/ Walked \/ Waits
<1>0. /\ stack \in Seq(Frames) /\ stack # <<>> /\ Top \in Frames /\ Top.seen \in Nat /\ Len(Top.st.scans) \in Nat
      /\ DOMAIN Top.st.scans = 1 .. Len(Top.st.scans)
  BY TopIsFrame, StatementShape DEF Shape, TypeOK, Advances
<1>1. [Top EXCEPT !.seen = @ + 1] \in Frames
  BY <1>0, Top.seen + 1 \in Nat DEF Frames
<1>2. CASE TransformFromItem
  <2>1. Top' = [Top EXCEPT !.seen = @ + 1] /\ Top.pc = "parse" /\ Top.seen < Len(Top.st.scans)
    BY <1>0, <1>1, <1>2, TopShape, Zenon DEF TransformFromItem, TopAt
  <2>2. Top'.pc = "parse" /\ Top'.seen = Top.seen + 1
    BY <1>0, <2>1 DEF Frames
  <2> QED
    BY <1>0, <1>2, <2>1, <2>2 DEF SeesItem, TransformFromItem
<1>3. CASE TransformColumns
  <2>1. [Top EXCEPT !.pc = "analyzed"] \in Frames /\ [Top EXCEPT !.pc = "analyzed"].pc = "analyzed"
    BY <1>0 DEF Frames
  <2>2. Top'.pc = "analyzed"
    BY <1>0, <1>3, <2>1, TopShape, Zenon DEF TransformColumns
  <2> QED
    BY <1>3, <2>2 DEF EntersRefs, TransformColumns, FromDone, TopAt
<1>4. CASE QueryRewrite
  <2> DEFINE g == [Top EXCEPT !.pc = "planned", !.seen = 0]
  <2>1. g \in Frames /\ g.pc = "planned" /\ g.seen = 0
    BY <1>0 DEF Frames
  <2>2. Top'.pc = "planned" /\ Top'.seen = 0
    BY <1>0, <1>4, <2>1, TopShape, Zenon DEF QueryRewrite
  <2> QED
    BY <1>4, <2>2 DEF Rewrites, QueryRewrite, TopAt
<1>5. CASE TraversePlanTree
  <2>1. Top.pc = "planned"
    BY <1>5 DEF TraversePlanTree, TopAt
  <2>2. CASE /\ Top.seen < Len(Top.st.scans) /\ SetTop([Top EXCEPT !.seen = @ + 1])
             /\ desc' = addFilterColumns(desc, FilterRefs(Top.st.scans[Top.seen + 1]))
    <3>1. Top' = [Top EXCEPT !.seen = @ + 1]
      BY <1>0, <1>1, <2>2, TopShape, Zenon
    <3>2. Top'.pc = "planned" /\ Top'.seen = Top.seen + 1
      BY <1>0, <2>1, <3>1 DEF Frames
    <3> QED
      BY <1>0, <2>1, <2>2, <3>2 DEF VisitsScan
  <2>3. CASE Top.seen = Len(Top.st.scans) /\ SetTop([Top EXCEPT !.pc = "exec"]) /\ desc' = desc
    <3>1. [Top EXCEPT !.pc = "exec"] \in Frames /\ [Top EXCEPT !.pc = "exec"].pc = "exec"
      BY <1>0 DEF Frames
    <3>2. Top'.pc = "exec"
      BY <1>0, <2>3, <3>1, TopShape, Zenon
    <3> QED
      BY <2>1, <2>3, <3>2 DEF Walked
  <2> QED
    BY <1>5, <2>2, <2>3, Zenon DEF TraversePlanTree
<1>6. CASE UNCHANGED vars
  BY <1>6 DEF vars, Waits, Top
<1> QED
  BY <1>2, <1>3, <1>4, <1>5, <1>6, AdvanceKinds

\* A pending statement has just begun, or it was pending before: no other
\* statement ends right above it.
LEMMA PendingSteps ==
    ASSUME Shape, [Next]_vars, Pending'
    PROVE  \/ Top'.pc = "parse" /\ Top'.seen = 0
           \/ /\ Pending /\ Top \in Frames /\ Top'.st = Top.st
              /\ SeesItem \/ EntersRefs \/ Rewrites \/ VisitsScan \/ Walked \/ Waits
<1>0. stack \in Seq(Frames) /\ Top'.fresh /\ ~CallsEarly(Top'.st) /\ ~Initialised(Top') /\ stack' # <<>>
  BY DEF Shape, TypeOK, Pending, Top, Initialised, CallsEarly
<1>1. ASSUME NEW f \in Frames, Begins(f) PROVE Top'.pc = "parse" /\ Top'.seen = 0
  BY <1>0, <1>1, PushShape DEF Begins
<1>2. ASSUME NEW f \in Frames, Advances(f)
      PROVE  /\ Pending /\ Top \in Frames /\ Top'.st = Top.st
             /\ SeesItem \/ EntersRefs \/ Rewrites \/ VisitsScan \/ Walked \/ Waits
  <2>1. stack # <<>> /\ Top \in Frames /\ Top'.st = Top.st /\ Top'.fresh = Top.fresh /\ Top.pc # "exec"
    BY <1>0, <1>2, TopShape, TopIsFrame DEF Advances
  <2>2. Pending
    BY <1>0, <2>1 DEF Pending, Initialised
  <2> QED
    BY <1>2, <2>1, <2>2, AdvanceSteps
<1>3. ASSUME NEW s \in ScanRecords, NEW new \in ScanStates, Initialises(s, new)
      PROVE  Pending /\ Top \in Frames /\ Top'.st = Top.st /\ Waits
  <2>1. desc' = desc /\ ~Running /\ stack # <<>>
    BY <1>3, Zenon DEF Initialises, TopAt
  <2>2. Top \in Frames /\ Top'.st = Top.st /\ Top'.fresh = Top.fresh /\ Top'.pc = "exec" /\ Top.pc = "exec"
    BY <1>3, NewScan, Zenon
  <2> QED
    BY <1>0, <2>1, <2>2 DEF Pending, Waits, Running
<1>4. ASSUME NEW n \in 0 .. (Len(stack) - 1), stack' = SubSeq(stack, 1, n) PROVE FALSE
  BY <1>0, <1>4, OuterIsSettled DEF Outer
<1>5. CASE EndStatement
  <2>1. Len(stack) - 1 \in 0 .. (Len(stack) - 1)
    BY <1>0, <1>5, TopIsFrame DEF EndStatement, Running
  <2> QED
    BY <1>4, <1>5, <2>1, ZenonT(30) DEF EndStatement
<1>6. ASSUME NEW n \in 0 .. (Len(stack) - 1), Drop(n) PROVE FALSE
  BY <1>4, <1>6 DEF Drop
<1>7. ASSUME NEW i \in DOMAIN Top.scans, Rescans(i) PROVE FALSE
  <2>1. Initialised(Top)
    BY <1>7 DEF Rescans, Running
  <2>2. Top'.st = Top.st /\ Top'.pc = "exec" /\ Len(Top'.scans) = Len(Top.scans)
    BY <1>7, RescanShape, Zenon
  <2> QED
    BY <1>0, <2>1, <2>2 DEF Initialised
<1>8. CASE UNCHANGED vars
  <2>1. stack' = stack /\ desc' = desc
    BY <1>8 DEF vars
  <2>2. Top' = Top /\ Top \in Frames /\ Pending
    BY <1>0, <2>1, TopIsFrame DEF Top, Pending
  <2> QED
    BY <2>1, <2>2 DEF Waits
<1> QED
  BY <1>1, <1>2, <1>3, <1>5, <1>6, <1>7, <1>8, StepKinds, ZenonT(30)

----------------------------------------------------------------------------
(* The columns that a statement parsed for this execution reads.           *)

\* A pending statement has entered what its text names once it is analysed,
\* and every column once its range table is rewritten.
RefsEntered ==
    Pending =>
        /\ Top.pc # "parse" => Top.st.refs \subseteq desc.allAttributes
        /\ Top.pc \in {"planned", "exec"} /\ Top.st.from => [name |-> NoName, col |-> Whole] \in desc.allAttributes

\* Every step keeps this.
LEMMA NextRefsEntered ==
    ASSUME Shape, RefsEntered, [Next]_vars
    PROVE  RefsEntered'
<1> DEFINE e == [name |-> NoName, col |-> Whole]
<1> SUFFICES ASSUME Pending'
             PROVE  /\ Top'.pc # "parse" => Top'.st.refs \subseteq desc'.allAttributes
                    /\ Top'.pc \in {"planned", "exec"} /\ Top'.st.from => e \in desc'.allAttributes
  BY DEF RefsEntered, Top
<1>0. desc \in Descriptors
  BY DEF Shape, TypeOK
<1>1. CASE Top'.pc = "parse"
  BY <1>1
<1>2. CASE /\ Pending /\ Top \in Frames /\ Top'.st = Top.st
           /\ SeesItem \/ EntersRefs \/ Rewrites \/ VisitsScan \/ Walked \/ Waits
  <2>0. Top.st.refs \subseteq Entries
    BY <1>2, StatementShape
  <2>1. CASE SeesItem
    BY <1>1, <2>1 DEF SeesItem
  <2>2. CASE EntersRefs
    <3>1. Top.st.refs \subseteq desc'.allAttributes
      BY <1>0, <2>0, <2>2, DescriptorFields DEF EntersRefs
    <3> QED
      BY <1>2, <2>2, <3>1 DEF EntersRefs
  <2>3. CASE Rewrites
    <3>1. desc.allAttributes \subseteq desc'.allAttributes /\ (Top.st.from => e \in desc'.allAttributes)
      BY <1>0, <2>3, DescriptorFields DEF Rewrites
    <3> QED
      BY <1>2, <2>3, <3>1 DEF Rewrites, RefsEntered
  <2>4. CASE VisitsScan
    <3>1. desc.allAttributes \subseteq desc'.allAttributes
      BY <1>0, <2>4, DescriptorFields DEF VisitsScan
    <3> QED
      BY <1>2, <2>4, <3>1 DEF VisitsScan, RefsEntered
  <2>5. CASE Walked \/ Waits
    BY <1>2, <2>5, Zenon DEF Walked, Waits, RefsEntered
  <2> QED
    BY <1>2, <2>1, <2>2, <2>3, <2>4, <2>5
<1> QED
  BY <1>1, <1>2, PendingSteps

\* What a scan finds that a step starts.
LEMMA StartedScan ==
    ASSUME Shape, [Next]_vars, NEW k \in DOMAIN stack', NEW i \in DOMAIN stack'[k].scans, Started(k, i),
           stack'[k].fresh, ~CallsEarly(stack'[k].st)
    PROVE  /\ Pending /\ Top.pc = "exec" /\ stack'[k].st = Top.st
           /\ \E j \in DOMAIN Top.st.scans :
                 /\ stack'[k].st.scans[i] = Top.st.scans[j] /\ Top.st.scans[j] \in ScanRecords
                 /\ Top.st \in Statements
                 /\ stack'[k].scans[i].rel \in RawTables =>
                       /\ stack'[k].scans[i].all = getQueryAttributes(desc, Top.st.scans[j].rel)
                       /\ Top.st.scans[j].qual # {} =>
                             stack'[k].scans[i].filter = getQueryFilterAttributes(desc, Top.st.scans[j].rel)
<1>1. PICK s \in ScanRecords, new \in ScanStates :
          /\ Initialises(s, new)
          /\ stack'[k].scans[i] = new /\ stack'[k].st.scans[i] = s
          /\ stack'[k].st = Top.st /\ stack'[k].fresh = Top.fresh
  BY Zenon DEF Started
<1>2. /\ ~Running /\ stack # <<>> /\ Top.pc = "exec" /\ Len(Top.scans) + 1 \in 1 .. Len(Top.st.scans)
      /\ s = Top.st.scans[Len(Top.scans) + 1]
  BY <1>1, Zenon DEF Initialises, TopAt
<1>3. Top \in Frames /\ Top.st \in Statements /\ Len(Top.scans) + 1 \in DOMAIN Top.st.scans
  BY <1>2, TopIsFrame, StatementShape DEF Shape, TypeOK
<1>4. Pending
  BY <1>1, <1>2 DEF Pending, Running
<1>5. new.rel \in RawTables =>
          /\ new.all = getQueryAttributes(desc, s.rel)
          /\ s.qual # {} => new.filter = getQueryFilterAttributes(desc, s.rel)
  BY <1>1, NewState
<1> QED
  BY <1>1, <1>2, <1>3, <1>4, <1>5, ZenonT(30)

\* A statement that was parsed for this execution, has a range table and
\* calls no function too early reads every column of its raw relations
\* (AddQueryCorrectColumns), whatever else happened to the descriptor.
ReadsAll ==
    \A k \in DOMAIN stack : stack[k].fresh /\ ~CallsEarly(stack[k].st) /\ stack[k].st.from =>
        \A i \in DOMAIN stack[k].scans : Scanned(stack[k], i) => stack[k].scans[i].all = Columns

\* AddQueryCorrectColumns does what it is there for, for any number of
\* statements, kept plans, nested calls and errors, and for an alias map of
\* any size.
THEOREM RangeTableReadsAll == Spec => []ReadsAll
<1> DEFINE Inv == Shape /\ RefsEntered /\ ReadsAll
<1>1. Init => Inv
  BY InitShape DEF Init, RefsEntered, Pending, ReadsAll
<1>2. Inv /\ [Next]_vars => Inv'
  <2> SUFFICES ASSUME Inv, [Next]_vars PROVE ReadsAll'
    BY NextShape, NextRefsEntered
  <2> SUFFICES ASSUME NEW k \in DOMAIN stack', stack'[k].fresh, ~CallsEarly(stack'[k].st), stack'[k].st.from,
                      NEW i \in DOMAIN stack'[k].scans, stack'[k].scans[i].rel \in RawTables
               PROVE  stack'[k].scans[i].all = Columns
    BY DEF ReadsAll, Scanned, CallsEarly
  <2>1. CASE Kept(k, i)
    BY <2>1 DEF Kept, ReadsAll, Scanned
  <2>2. CASE Started(k, i)
    <3>1. PICK t : stack'[k].scans[i].all = getQueryAttributes(desc, t)
      BY <2>2, StartedScan, Zenon
    <3>2. [name |-> NoName, col |-> Whole] \in desc.allAttributes
      BY <2>2, StartedScan DEF RefsEntered
    <3> QED
      BY <3>1, <3>2 DEF getQueryAttributes, Concerns
  <2> QED
    BY <2>1, <2>2, ScanOrigins
<1>3. Inv => ReadsAll
  OBVIOUS
<1> QED
  BY <1>1, <1>2, <1>3, PTL DEF Spec

----------------------------------------------------------------------------
(* The alias map.                                                          *)

\* The aliases that statements give to relations.
UsedPairs ==
    {p \in Pairs : \E st \in Statements : \E i \in DOMAIN st.scans :
        st.scans[i].alias = p.name /\ st.scans[i].rel = p.table}

\* The alias map has room for them.
AliasesFit == IsFiniteSet(UsedPairs) /\ Cardinality(UsedPairs) <= AliasSlots

\* The alias map holds aliases that statements use, and none of them is lost.
Paired == desc.pairs \subseteq UsedPairs /\ \A p \in desc.pairs : desc.first[p.name] # NoName

\* A relation's alias is in the map.
Registered(d, s) == s.alias # NoName => [name |-> s.alias, table |-> s.rel] \in d.pairs

\* A pending statement has registered the aliases it has got to.
AliasesEntered ==
    Pending =>
        /\ Top.pc = "parse" => \A i \in 1 .. Top.seen : Registered(desc, Top.st.scans[i])
        /\ Top.pc # "parse" => \A i \in DOMAIN Top.st.scans : Registered(desc, Top.st.scans[i])

\* The alias map has a slot for every alias.
LEMMA AliasRoom ==
    ASSUME AliasesFit, desc \in Descriptors, Paired, NEW t \in Tables, NEW n \in Names,
           [name |-> n, table |-> t] \in UsedPairs
    PROVE  [name |-> n, table |-> t] \in addTableAliasInformation(desc, t, n).pairs
<1> DEFINE pair == [name |-> n, table |-> t]
<1>1. CASE pair \in desc.pairs
  BY <1>1, DescriptorFields, SMTT(30)
<1>2. CASE pair \notin desc.pairs
  <2>1. /\ IsFiniteSet(desc.pairs) /\ Cardinality(desc.pairs) \in Nat /\ Cardinality(UsedPairs) \in Nat
        /\ Cardinality(desc.pairs) <= Cardinality(UsedPairs)
    BY FS_Subset, FS_CardinalityType, SMTT(30) DEF AliasesFit, Paired
  <2>2. Cardinality(desc.pairs) # Cardinality(UsedPairs)
    BY <1>2, FS_Subset DEF AliasesFit, Paired
  <2>3. Cardinality(desc.pairs) < AliasSlots
    BY <2>1, <2>2, DescriptorAssumption, SMTT(30) DEF AliasesFit
  <2> QED
    BY <2>1, <2>3, DescriptorFields, SMTT(30)
<1> QED
  BY <1>1, <1>2, SMTT(30)

\* Every step keeps the alias map so.
LEMMA NextPaired == Shape /\ Paired /\ [Next]_vars => Paired'
<1> SUFFICES ASSUME Shape, Paired, [Next]_vars PROVE Paired'
  OBVIOUS
<1>0. TypeOK /\ desc \in Descriptors /\ stack \in Seq(Frames)
  BY DEF Shape, TypeOK
<1>1. CASE desc'.pairs = desc.pairs /\ desc'.first = desc.first
  BY <1>1, SMTT(30) DEF Paired
<1>2. CASE desc' = EmptyDescriptor
  BY <1>0, <1>2, DescriptorFields DEF Paired
<1>3. CASE TransformFromItem
  <2>1. Top \in Frames /\ stack # <<>> /\ Top.seen + 1 \in 1 .. Len(Top.st.scans)
    BY <1>0, <1>3, TopIsFrame, StatementShape DEF TransformFromItem, TopAt
  <2>2. Top.st.scans[Top.seen + 1] \in ScanRecords /\ Top.st \in Statements /\ Top.st.scans \in Seq(ScanRecords)
    BY <2>1, StatementShape, ElementOfSeq, Zenon
  <2> DEFINE s == Top.st.scans[Top.seen + 1]
  <2>3. desc' = IF s.alias = NoName THEN desc ELSE addTableAliasInformation(desc, s.rel, s.alias)
    BY <1>3 DEF TransformFromItem
  <2>4. CASE s.alias # NoName
    <3>1. s.alias \in Names /\ s.rel \in Tables
      BY <2>2, <2>4, SMTT(30) DEF ScanRecords
    <3>2. [name |-> s.alias, table |-> s.rel] \in UsedPairs
      BY <2>1, <2>2, <3>1 DEF UsedPairs, Pairs
    <3>3. /\ desc'.pairs \subseteq desc.pairs \union {[name |-> s.alias, table |-> s.rel]}
          /\ \A m \in Names : desc'.first[m] # desc.first[m] => m = s.alias /\ desc'.first[m] = s.rel
          /\ desc' = desc \/ desc'.first[s.alias] # NoName
      <4> DEFINE d == addTableAliasInformation(desc, s.rel, s.alias)
      <4>1. /\ d.pairs \subseteq desc.pairs \union {[name |-> s.alias, table |-> s.rel]}
            /\ \A m \in Names : d.first[m] # desc.first[m] => m = s.alias /\ d.first[s.alias] = s.rel
            /\ d = desc \/ d.first[s.alias] # NoName
        BY <1>0, <3>1, DescriptorFields, ZenonT(30)
      <4>2. desc' = d
        BY <2>3, <2>4
      <4> HIDE DEF d, s
      <4> QED
        BY <4>1, <4>2, SMTT(30)
    <3>4. s.rel # NoName
      BY <3>1, DescriptorAssumption
    <3>5. \A p \in desc.pairs : p.name \in Names
      BY <1>0 DEF Descriptors, Pairs
    <3> HIDE DEF s
    <3>6. ASSUME NEW p \in desc'.pairs PROVE desc'.first[p.name] # NoName
      <4>1. CASE p \in desc.pairs
        BY <3>3, <3>4, <3>5, <4>1, SMTT(30) DEF Paired
      <4>2. CASE p = [name |-> s.alias, table |-> s.rel] /\ p \notin desc.pairs
        <5>1. p.name = s.alias /\ desc' # desc
          BY <4>2
        <5> QED
          BY <3>3, <5>1
      <4> QED
        BY <3>3, <4>1, <4>2
    <3> QED
      BY <3>2, <3>3, <3>6, SMTT(30) DEF Paired
  <2> QED
    BY <1>1, <2>3, <2>4, Zenon
<1>4. CASE ~TransformFromItem
  <2>1. TransformColumns \/ QueryRewrite \/ TraversePlanTree => desc'.pairs = desc.pairs /\ desc'.first = desc.first
    BY <1>0, DescriptorFields DEF TransformColumns, QueryRewrite, TraversePlanTree
  <2>2. CASE ~(TransformColumns \/ QueryRewrite \/ TraversePlanTree)
    BY <1>1, <1>2, <1>4, <2>2, ZenonT(30)
    DEF Next, vars, Parse, ExecuteKept, InitScan, SkipScan, Rescan, EndStatement, Abort,
        ColumnNotFound, KeepPlan, resetQueryDescriptor
  <2> QED
    BY <1>1, <2>1, <2>2
<1> QED
  BY <1>3, <1>4

\* Every step keeps the aliases of a pending statement.
LEMMA NextAliasesEntered ==
    ASSUME AliasesFit, Shape, Paired, AliasesEntered, [Next]_vars
    PROVE  AliasesEntered'
<1> SUFFICES ASSUME Pending'
             PROVE  /\ Top'.pc = "parse" => \A i \in 1 .. Top'.seen : Registered(desc', Top'.st.scans[i])
                    /\ Top'.pc # "parse" => \A i \in DOMAIN Top'.st.scans : Registered(desc', Top'.st.scans[i])
  BY DEF AliasesEntered, Top
<1>0. desc \in Descriptors
  BY DEF Shape, TypeOK
<1>1. CASE Top'.pc = "parse" /\ Top'.seen = 0
  BY <1>1
<1>2. CASE /\ Pending /\ Top \in Frames /\ Top'.st = Top.st
           /\ SeesItem \/ EntersRefs \/ Rewrites \/ VisitsScan \/ Walked \/ Waits
  <2>0. /\ Top.st \in Statements /\ Len(Top.st.scans) \in Nat /\ Top.seen \in Nat
        /\ DOMAIN Top.st.scans = 1 .. Len(Top.st.scans) /\ Top.st.refs \subseteq Entries
        /\ \A i \in DOMAIN Top.st.scans : Top.st.scans[i] \in ScanRecords
    BY <1>2, StatementShape, ElementOfSeq
  <2>1. ASSUME NEW s, desc.pairs \subseteq desc'.pairs, Registered(desc, s)
        PROVE  Registered(desc', s)
    BY <2>1 DEF Registered
  <2>2. CASE SeesItem
    <3> DEFINE s == Top.st.scans[Top.seen + 1]
    <3>1. s \in ScanRecords /\ desc' = IF s.alias = NoName THEN desc ELSE addTableAliasInformation(desc, s.rel, s.alias)
      BY <2>0, <2>2 DEF SeesItem
    <3>2. desc.pairs \subseteq desc'.pairs /\ Registered(desc', s)
      <4>1. CASE s.alias = NoName
        BY <3>1, <4>1 DEF Registered
      <4>2. CASE s.alias # NoName
        <5>1. s.alias \in Names /\ s.rel \in Tables
          BY <3>1, <4>2, SMTT(30) DEF ScanRecords
        <5>2. [name |-> s.alias, table |-> s.rel] \in UsedPairs
          BY <2>0, <2>2, <5>1, SMTT(30) DEF UsedPairs, Pairs, SeesItem
        <5>3. [name |-> s.alias, table |-> s.rel] \in addTableAliasInformation(desc, s.rel, s.alias).pairs
          BY <1>0, <5>1, <5>2, AliasRoom, SMTT(30)
        <5>4. desc.pairs \subseteq addTableAliasInformation(desc, s.rel, s.alias).pairs
          BY <1>0, <5>1, DescriptorFields, ZenonT(30)
        <5> QED
          BY <3>1, <4>2, <5>3, <5>4, ZenonT(30) DEF Registered
      <4> QED
        BY <4>1, <4>2
    <3>3. ASSUME NEW i \in 1 .. Top.seen + 1
          PROVE  Registered(desc', Top.st.scans[i])
      <4>1. CASE i \in 1 .. Top.seen
        BY <1>2, <2>1, <2>2, <3>2, <4>1 DEF AliasesEntered, SeesItem
      <4>2. CASE i = Top.seen + 1
        BY <3>2, <4>2, Zenon
      <4> QED
        BY <2>0, <4>1, <4>2, SMTT(30)
    <3>4. Top'.pc = "parse" /\ Top'.seen = Top.seen + 1
      BY <2>2 DEF SeesItem
    <3> HIDE DEF s
    <3> QED
      BY <1>2, <3>3, <3>4, Zenon
  <2>3. CASE EntersRefs \/ Rewrites \/ VisitsScan \/ Walked
    <3>1. desc'.pairs = desc.pairs
      BY <1>0, <2>0, <2>3, DescriptorFields DEF EntersRefs, Rewrites, VisitsScan, Walked
    <3>2. Top'.pc # "parse" /\ (Top.pc = "parse" => Top.seen = Len(Top.st.scans))
      BY <2>3 DEF EntersRefs, Rewrites, VisitsScan, Walked
    <3>3. \A i \in DOMAIN Top.st.scans : Registered(desc, Top.st.scans[i])
      BY <1>2, <2>0, <3>2, Zenon DEF AliasesEntered
    <3> QED
      BY <1>2, <2>1, <3>1, <3>2, <3>3
  <2>4. CASE Waits
    BY <1>2, <2>4, Zenon DEF Waits, AliasesEntered
  <2> QED
    BY <1>2, <2>2, <2>3, <2>4
<1> QED
  BY <1>1, <1>2, PendingSteps

\* What the text of the innermost statement has put into the descriptor.
TextEntered == Paired /\ RefsEntered /\ AliasesEntered

\* There is no statement at the start.
LEMMA InitTextEntered == Init => TextEntered
  BY DEF Init, TextEntered, Paired, RefsEntered, AliasesEntered, Pending, EmptyDescriptor

\* Every step keeps what it has entered.
LEMMA NextTextEntered == ASSUME AliasesFit, Shape, TextEntered, [Next]_vars PROVE TextEntered'
  BY NextPaired, NextRefsEntered, NextAliasesEntered DEF TextEntered

\* If the alias map has room, a statement that was parsed for this execution
\* and calls no function too early reads every column that it needs and that
\* its range table or its text names, whatever kept plans, nested statements,
\* rescans and errors did to the descriptor before and in between.
THEOREM FreshStatementsReadEnough ==
    ASSUME AliasesFit
    PROVE  Spec => []ReadsEnough
<1> DEFINE Inv == Shape /\ TextEntered /\ ReadsEnough
<1>1. Init => Inv
  BY InitShape, InitTextEntered DEF Init, ReadsEnough
<1>2. Inv /\ [Next]_vars => Inv'
  <2> SUFFICES ASSUME Inv, [Next]_vars PROVE ReadsEnough'
    BY NextShape, NextTextEntered
  <2> SUFFICES ASSUME NEW k \in DOMAIN stack', stack'[k].fresh, ~CallsEarly(stack'[k].st), Covered(stack'[k].st),
                      NEW i \in DOMAIN stack'[k].scans, stack'[k].scans[i].rel \in RawTables
               PROVE  stack'[k].st.scans[i].target \union UNION stack'[k].st.scans[i].qual
                          \subseteq stack'[k].scans[i].all
    BY DEF ReadsEnough, Scanned, CallsEarly, Covered
  <2>1. CASE Kept(k, i)
    BY <2>1 DEF Kept, ReadsEnough, Scanned
  <2>2. CASE Started(k, i)
    <3>1. Pending /\ Top.pc = "exec" /\ stack'[k].st = Top.st
      BY <2>2, StartedScan, Zenon
    <3>2. PICK j \in DOMAIN Top.st.scans :
              /\ stack'[k].st.scans[i] = Top.st.scans[j] /\ Top.st.scans[j] \in ScanRecords
              /\ stack'[k].scans[i].all = getQueryAttributes(desc, Top.st.scans[j].rel)
      BY <2>2, StartedScan, Zenon
    <3> DEFINE s == Top.st.scans[j]
    <3> SUFFICES ASSUME NEW c \in s.target \union UNION s.qual
                 PROVE  c \in getQueryAttributes(desc, s.rel)
      BY <3>2
    <3>3. c \in Columns
      BY <3>2 DEF ScanRecords
    <3>4. CASE Top.st.from
      BY <3>1, <3>3, <3>4 DEF TextEntered, RefsEntered, getQueryAttributes, Concerns
    <3>5. CASE ~Top.st.from
      <4>1. PICK e \in Top.st.refs : e.name \in {NoName, s.rel, s.alias} /\ e.col \in {c, Whole}
        BY <3>1, <3>2, <3>5 DEF Covered
      <4>2. e \in desc.allAttributes
        BY <3>1, <4>1 DEF TextEntered, RefsEntered
      <4>3. Registered(desc, s)
        BY <3>1, <3>2 DEF TextEntered, AliasesEntered
      <4>4. Concerns(desc, e, s.rel)
        BY <4>1, <4>3 DEF Concerns, Registered, hasTableAlias
      <4> QED
        BY <3>3, <4>1, <4>2, <4>4 DEF getQueryAttributes
    <3> QED
      BY <3>4, <3>5
  <2> QED
    BY <2>1, <2>2, ScanOrigins
<1>3. Inv => ReadsEnough
  OBVIOUS
<1> QED
  BY <1>1, <1>2, <1>3, PTL DEF Spec

----------------------------------------------------------------------------
(* The filter of a statement parsed for this execution.                    *)

\* What statements must be like for their filters to be found: the alias map
\* has room for their aliases, the plan is printed with the alias of the text
\* or else with the name of the relation, no name stands for two relations,
\* and a qualification mentions a column.
NamesFit ==
    /\ AliasesFit
    /\ \A st \in Statements : \A i \in DOMAIN st.scans :
          /\ st.scans[i].ref = IF st.scans[i].alias = NoName THEN st.scans[i].rel ELSE st.scans[i].alias
          /\ \A p \in UsedPairs : p.name = st.scans[i].ref => p.table = st.scans[i].rel
          /\ st.scans[i].qual # {} => UNION st.scans[i].qual # {}

\* A scan's name in the plan leads to its relation.
LEMMA RightTable ==
    ASSUME NamesFit, desc \in Descriptors, Linked, Paired, NEW st \in Statements, NEW i \in DOMAIN st.scans,
           st.scans[i] \in ScanRecords,
           Registered(desc, st.scans[i])
    PROVE  getTableNameFromAlias(desc, st.scans[i].ref) = st.scans[i].rel
<1> DEFINE n == st.scans[i].ref
<1>1. n \in Names /\ st.scans[i].rel \in Tables
  BY DEF ScanRecords
<1>2. n = IF st.scans[i].alias = NoName THEN st.scans[i].rel ELSE st.scans[i].alias
  BY DEF NamesFit
<1>3. desc.first[n] # NoName => desc.first[n] = st.scans[i].rel
  <2> SUFFICES ASSUME desc.first[n] # NoName PROVE desc.first[n] = st.scans[i].rel
    OBVIOUS
  <2>1. [name |-> n, table |-> desc.first[n]] \in UsedPairs
    BY <1>1 DEF Linked, Paired
  <2>2. [name |-> n, table |-> desc.first[n]].table = st.scans[i].rel
    BY <2>1 DEF NamesFit
  <2> QED
    BY <2>2
<1>4. st.scans[i].alias # NoName => desc.first[n] # NoName
  BY <1>2 DEF Paired, Registered
<1> QED
  BY <1>2, <1>3, <1>4, ZenonT(30) DEF getTableNameFromAlias

\* The columns of a scan's filter are in the descriptor, under its relation.
Filtered(d, s) == \A c \in UNION s.qual : [name |-> s.rel, col |-> c] \in d.filterList

\* A pending statement has entered the filters that the walk over its plan
\* has got to.
FiltersEntered ==
    Pending =>
        /\ Top.pc = "planned" => \A i \in 1 .. Top.seen : Filtered(desc, Top.st.scans[i])
        /\ Top.pc = "exec" => \A i \in DOMAIN Top.st.scans : Filtered(desc, Top.st.scans[i])

\* The step that visits a scan enters its filter under the right relation.
LEMMA VisitFilters ==
    ASSUME NamesFit, Shape, Linked, TextEntered, Pending, VisitsScan
    PROVE  Filtered(desc', Top.st.scans[Top.seen + 1])
<1> DEFINE s == Top.st.scans[Top.seen + 1]
<1>0. desc \in Descriptors /\ Top \in Frames /\ Top.pc = "planned" /\ Top.seen + 1 \in DOMAIN Top.st.scans
  BY TopIsFrame DEF Shape, TypeOK, Pending, VisitsScan
<1>1. Top.st \in Statements /\ s \in ScanRecords
  BY <1>0, StatementShape, ElementOfSeq
<1>2. Registered(desc, s)
  BY <1>0 DEF TextEntered, AliasesEntered
<1>3. getTableNameFromAlias(desc, s.ref) = s.rel
  BY <1>0, <1>1, <1>2, RightTable DEF TextEntered
<1>4. desc'.filterList = desc.filterList \union
          {[name |-> getTableNameFromAlias(desc, e.name), col |-> e.col] : e \in FilterRefs(s)}
  BY <1>0, DescriptorFields, ZenonT(30) DEF VisitsScan
<1>5. ASSUME NEW c \in UNION s.qual PROVE [name |-> s.rel, col |-> c] \in desc'.filterList
  <2>1. s.ref \in Names /\ c \in Columns
    BY <1>1 DEF ScanRecords
  <2>2. [name |-> s.ref, col |-> c] \in FilterRefs(s)
    BY <2>1 DEF FilterRefs, Entries
  <2> QED
    BY <1>3, <1>4, <2>2
<1> QED
  BY <1>5 DEF Filtered

\* Every step keeps the filters of a pending statement.
LEMMA NextFiltersEntered ==
    ASSUME NamesFit, Shape, Linked, TextEntered, FiltersEntered, [Next]_vars
    PROVE  FiltersEntered'
<1> SUFFICES ASSUME Pending'
             PROVE  /\ Top'.pc = "planned" => \A i \in 1 .. Top'.seen : Filtered(desc', Top'.st.scans[i])
                    /\ Top'.pc = "exec" => \A i \in DOMAIN Top'.st.scans : Filtered(desc', Top'.st.scans[i])
  BY DEF FiltersEntered, Top
<1>0. desc \in Descriptors
  BY DEF Shape, TypeOK
<1>1. CASE Top'.pc = "parse"
  BY <1>1
<1>2. CASE /\ Pending /\ Top \in Frames /\ Top'.st = Top.st
           /\ SeesItem \/ EntersRefs \/ Rewrites \/ VisitsScan \/ Walked \/ Waits
  <2>0. Top.seen \in Nat /\ DOMAIN Top.st.scans = 1 .. Len(Top.st.scans)
    BY <1>2, StatementShape
  <2>1. CASE SeesItem \/ EntersRefs
    BY <2>1 DEF SeesItem, EntersRefs
  <2>2. CASE Rewrites
    <3>1. Top'.pc = "planned" /\ Top'.seen = 0
      BY <2>2 DEF Rewrites
    <3> QED
      BY <3>1
  <2>3. CASE VisitsScan
    <3>1. Top'.pc = "planned" /\ Top'.seen = Top.seen + 1 /\ Top.pc = "planned"
      BY <2>3 DEF VisitsScan
    <3>2. desc.filterList \subseteq desc'.filterList
      BY <1>0, <2>3, DescriptorFields DEF VisitsScan
    <3>3. ASSUME NEW i \in 1 .. Top.seen + 1 PROVE Filtered(desc', Top.st.scans[i])
      <4>1. CASE i \in 1 .. Top.seen
        <5>1. Filtered(desc, Top.st.scans[i])
          BY <1>2, <3>1, <4>1, Zenon DEF FiltersEntered
        <5> QED
          BY <3>2, <5>1, Zenon DEF Filtered
      <4>2. CASE i = Top.seen + 1
        BY <1>2, <2>3, <4>2, VisitFilters
      <4> QED
        BY <2>0, <4>1, <4>2
    <3> QED
      BY <1>2, <3>1, <3>3
  <2>4. CASE Walked
    BY <1>2, <2>0, <2>4, Zenon DEF Walked, FiltersEntered
  <2>5. CASE Waits
    BY <1>2, <2>5, Zenon DEF Waits, FiltersEntered
  <2> QED
    BY <1>2, <2>1, <2>2, <2>3, <2>4, <2>5
<1> QED
  BY <1>1, <1>2, PendingSteps

\* "FIX for filtering on the correct table for NoDB": where no name stands for
\* two relations and the alias map has room, a statement parsed for this
\* execution that calls no function too early reads the columns of each
\* qualification before the filter, and at least one.
THEOREM FiltersAreKept ==
    ASSUME NamesFit
    PROVE  Spec => []FilterKept
<1> DEFINE Inv == Shape /\ Linked /\ TextEntered /\ FiltersEntered /\ FilterKept
<1>0. AliasesFit
  BY DEF NamesFit
<1>1. Init => Inv
  BY InitShape, InitLinked, InitTextEntered DEF Init, FiltersEntered, Pending, FilterKept
<1>2. Inv /\ [Next]_vars => Inv'
  <2> SUFFICES ASSUME Inv, [Next]_vars PROVE FilterKept'
    BY <1>0, NextShape, NextLinked, NextTextEntered, NextFiltersEntered
  <2> SUFFICES ASSUME NEW k \in DOMAIN stack', stack'[k].fresh, ~CallsEarly(stack'[k].st),
                      NEW i \in DOMAIN stack'[k].scans,
                      stack'[k].scans[i].rel \in RawTables, stack'[k].st.scans[i].qual # {}
               PROVE  /\ stack'[k].scans[i].filter # {}
                      /\ UNION stack'[k].st.scans[i].qual \subseteq stack'[k].scans[i].filter
    BY DEF FilterKept, Scanned, CallsEarly
  <2>1. CASE Kept(k, i)
    BY <2>1 DEF Kept, FilterKept, Scanned
  <2>2. CASE Started(k, i)
    <3>1. Pending /\ Top.pc = "exec"
      BY <2>2, StartedScan, Zenon
    <3>2. PICK j \in DOMAIN Top.st.scans :
              /\ stack'[k].st.scans[i] = Top.st.scans[j] /\ Top.st.scans[j] \in ScanRecords
              /\ Top.st \in Statements
              /\ Top.st.scans[j].qual # {} =>
                    stack'[k].scans[i].filter = getQueryFilterAttributes(desc, Top.st.scans[j].rel)
      BY <2>2, StartedScan, Zenon
    <3> DEFINE s == Top.st.scans[j]
    <3>3. Filtered(desc, s)
      BY <3>1, <3>2, Zenon DEF FiltersEntered
    <3>4. UNION s.qual \subseteq getQueryFilterAttributes(desc, s.rel)
      BY <3>2, <3>3 DEF Filtered, getQueryFilterAttributes, ScanRecords
    <3>5. UNION s.qual # {}
      BY <3>2, Zenon DEF NamesFit
    <3> QED
      BY <3>2, <3>4, <3>5
  <2> QED
    BY <2>1, <2>2, ScanOrigins
<1>3. Inv => FilterKept
  OBVIOUS
<1> QED
  BY <1>1, <1>2, <1>3, PTL DEF Spec

=============================================================================
