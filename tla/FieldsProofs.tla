---------------------------- MODULE FieldsProofs ----------------------------
(***************************************************************************)
(* Proofs about the fields of a line, for every number of columns, every   *)
(* line and every set of statements: on any line the executor's columns    *)
(* and counters stay in bounds.                                            *)
(***************************************************************************)
EXTENDS Fields, FiniteSetTheorems, WellFoundedInduction, TLAPS

----------------------------------------------------------------------------
(* The first and the last of a set of columns.                             *)

\* A set of natural numbers that is not empty has a least element.
LEMMA LeastNat ==
    ASSUME NEW T \in SUBSET Nat, T # {}
    PROVE  \E x \in T : \A y \in T : x <= y
<1> DEFINE R == {ss \in Nat \X Nat : ss[1] < ss[2]}
<1>1. IsWellFoundedOn(R, Nat)
  BY NatLessThanWellFounded DEF OpToRel
<1>2. PICK x \in T : \A y \in T : ~ (<<y, x>> \in R)
  BY <1>1, WFMin, Zenon
<1>3. ASSUME NEW y \in T PROVE x <= y
  <2>1. x \in Nat /\ y \in Nat
    OBVIOUS
  <2>2. y < x => <<y, x>> \in R
    BY <2>1
  <2> QED
    BY <1>2, <2>1, <2>2
<1> QED
  BY <1>3

\* So has a set of columns, and a last one too.
LEMMA FirstAndLast ==
    ASSUME NEW S \in SUBSET Cols, S # {}
    PROVE  /\ \E c \in S : \A d \in S : d >= c
           /\ \E c \in S : \A d \in S : d <= c
<1>0. NCols \in Nat /\ \A c \in S : c \in Nat /\ c <= NCols - 1 /\ NCols - 1 - c \in Nat
  BY FieldsAssumption DEF Cols
<1>1. \E c \in S : \A d \in S : d >= c
  <2>1. PICK c \in S : \A d \in S : c <= d
    BY <1>0, LeastNat
  <2> QED
    BY <1>0, <2>1
<1>2. \E c \in S : \A d \in S : d <= c
  <2> DEFINE T == {NCols - 1 - c : c \in S}
  <2>1. T \in SUBSET Nat /\ T # {}
    BY <1>0
  <2>2. PICK x \in T : \A y \in T : x <= y
    BY <2>1, LeastNat, Zenon
  <2>3. PICK c \in S : x = NCols - 1 - c
    BY <2>2
  <2>4. ASSUME NEW d \in S PROVE d <= c
    <3>1. NCols - 1 - d \in T
      OBVIOUS
    <3>2. NCols - 1 - c <= NCols - 1 - d
      BY <2>2, <2>3, <3>1
    <3> QED
      BY <1>0, <3>2
  <2> QED
    BY <2>4
<1> QED
  BY <1>1, <1>2

\* The ends of a search are columns it is for.
LEMMA SearchEnds ==
    ASSUME NEW k, Collect \subseteq Cols
    PROVE  /\ Forward(k) # {} => LastForward(k) \in Forward(k) /\ \A d \in Forward(k) : d <= LastForward(k)
           /\ Backward(k) # {} => LastBackward(k) \in Backward(k) /\ \A d \in Backward(k) : d >= LastBackward(k)
<1>1. Forward(k) \in SUBSET Cols /\ Backward(k) \in SUBSET Cols
  BY DEF Forward, Backward, From
<1>2. ASSUME Forward(k) # {}
      PROVE  LastForward(k) \in Forward(k) /\ \A d \in Forward(k) : d <= LastForward(k)
  <2>1. \E c \in Forward(k) : \A d \in Forward(k) : d <= c
    BY <1>1, <1>2, FirstAndLast
  <2> QED
    BY <2>1, Zenon DEF LastForward
<1>3. ASSUME Backward(k) # {}
      PROVE  LastBackward(k) \in Backward(k) /\ \A d \in Backward(k) : d >= LastBackward(k)
  <2>1. \E c \in Backward(k) : \A d \in Backward(k) : d >= c
    BY <1>1, <1>3, FirstAndLast
  <2> QED
    BY <2>1, Zenon DEF LastBackward
<1> QED
  BY <1>2, <1>3

\* The last column that a statement reads.
LEMMA LastFieldRead ==
    ASSUME q \in Statements
    PROVE  LastField \in q.all /\ LastField \in Cols /\ \A c \in q.all : c <= LastField
<1>1. q.all \in SUBSET Cols /\ q.all # {}
  BY StatementsAssumption
<1>2. \E c \in q.all : \A d \in q.all : d <= c
  BY <1>1, FirstAndLast
<1>3. LastField \in q.all /\ \A c \in q.all : c <= LastField
  BY <1>2, Zenon DEF LastField
<1> QED
  BY <1>1, <1>3

----------------------------------------------------------------------------
(* Types and counters, on any line.                                        *)

Positions == [pointer : Int, width : Int]

Typed ==
    /\ line \in Lines /\ odd \in BOOLEAN
    /\ Known \subseteq Cols /\ pm \in [Known -> Positions]
    /\ q \in Statements
    /\ near \in [Cols -> Cols \union {NCols}]
    /\ part \in {"pre", "post"}
    /\ pc \in {"idle", "part", "field", "quoted", "values", "via", "forward", "back", "backward",
               "convert", "done", "store"}
    /\ attr \in [0 .. NCols -> Positions]
    /\ todo \subseteq Cols
    /\ from \in Cols /\ howMany \in Int /\ id \in 0 .. NCols /\ cur \in Int

\* While a row is read, the positions searched from are stored ones, and as
\* close as there are.
Strategic ==
    pc # "idle" =>
        /\ \A c \in Cols : IF Known = {} THEN near[c] = NCols ELSE Closest(c, near[c])
        /\ part = "pre" => q.filter # {}

\* How far a search has got.
Counting ==
    /\ pc \in {"field", "quoted"} => id <= LastField
    /\ pc \in {"via", "forward", "back", "backward"} => todo \subseteq Sources /\ Sources \subseteq Known
    /\ pc \in {"forward", "back", "backward"} => from \in Sources
    /\ pc = "forward" =>
          Forward(from) # {} /\ howMany >= 1 /\ id + howMany = LastForward(from) + 1 /\ id >= from + 1
    /\ pc = "backward" =>
          Backward(from) # {} /\ howMany >= 1 /\ id = LastBackward(from) + howMany - 1 /\ id <= from - 1

Counted == Typed /\ Strategic /\ Counting

\* The columns to be found are columns.
LEMMA CollectCols ==
    ASSUME Typed
    PROVE  /\ Collect \subseteq q.all /\ Collect \subseteq Cols /\ AddPM \subseteq q.all /\ Convert \subseteq Cols
           /\ q.all \subseteq Cols /\ Cols \subseteq 0 .. NCols /\ NCols \in Nat /\ Cols \subseteq Int
<1>1. q.all \subseteq Cols /\ q.filter \subseteq q.all
  BY StatementsAssumption DEF Typed
<1>2. ConvertFirst \subseteq q.all
  BY <1>1 DEF ConvertFirst
<1>3. Convert \subseteq q.all /\ AddPM \subseteq q.all
  BY <1>2 DEF Convert, AddPM
<1>4. Collect \subseteq q.all
  BY <1>3 DEF Collect
<1>5. NCols \in Nat /\ Cols \subseteq 0 .. NCols /\ Cols \subseteq Int
  BY FieldsAssumption DEF Cols
<1> QED
  BY <1>1, <1>3, <1>4, <1>5

\* Searches begin at stored positions.
LEMMA SourcesKnown ==
    ASSUME Typed, Strategic, pc # "idle", Known # {} \/ Collect = {}
    PROVE  Sources \subseteq Known
<1>1. ASSUME NEW c \in Collect PROVE near[c] \in Known
  <2>1. c \in Cols /\ Known # {}
    BY CollectCols
  <2> QED
    BY <2>1 DEF Strategic, Closest
<1> QED
  BY <1>1 DEF Sources

\* A changed pointer or width leaves positions what they are.
LEMMA PositionTypes ==
    ASSUME NEW a \in [0 .. NCols -> Positions], NCols \in Nat
    PROVE  /\ \A c \in 0 .. NCols, p \in Int : [a EXCEPT ![c].pointer = p] \in [0 .. NCols -> Positions]
           /\ \A cols \in SUBSET Cols : Widths(a, cols) \in [0 .. NCols -> Positions]
<1>1. ASSUME NEW c \in 0 .. NCols, NEW p \in Int PROVE [a EXCEPT ![c].pointer = p] \in [0 .. NCols -> Positions]
  BY DEF Positions
<1>2. ASSUME NEW cols \in SUBSET Cols PROVE Widths(a, cols) \in [0 .. NCols -> Positions]
  <2>1. ASSUME NEW c \in 0 .. NCols
        PROVE  (IF c \in cols THEN [a[c] EXCEPT !.width = a[c + 1].pointer - a[c].pointer - 1] ELSE a[c]) \in Positions
    <3>1. CASE c \in cols
      <4>1. c + 1 \in 0 .. NCols
        BY <3>1 DEF Cols
      <4>2. a[c + 1].pointer - a[c].pointer - 1 \in Int /\ a[c] \in Positions
        BY <4>1 DEF Positions
      <4> QED
        BY <3>1, <4>2 DEF Positions
    <3> QED
      BY <3>1
  <2> QED
    BY <2>1 DEF Widths
<1> QED
  BY <1>1, <1>2

\* The strategy stays the same while the row, its statement and its part do.
LEMMA SameStrategy ==
    ASSUME UNCHANGED <<row, part>>
    PROVE  /\ Known' = Known /\ Collect' = Collect /\ Sources' = Sources /\ LastField' = LastField
           /\ Convert' = Convert /\ FirstPart' = FirstPart /\ AddPM' = AddPM
           /\ \A k : From(k)' = From(k) /\ Forward(k)' = Forward(k) /\ Backward(k)' = Backward(k)
           /\ \A k : LastForward(k)' = LastForward(k) /\ LastBackward(k)' = LastBackward(k)
<1>1. q' = q /\ pm' = pm /\ near' = near /\ part' = part
  BY DEF row
<1>2. Known' = Known /\ FirstPart' = FirstPart
  BY <1>1 DEF Known, FirstPart
<1>3. ConvertFirst' = ConvertFirst /\ AddPM' = AddPM
  BY <1>1, <1>2 DEF ConvertFirst, AddPM
<1>4. Convert' = Convert
  BY <1>1, <1>2, <1>3 DEF Convert
<1>5. Collect' = Collect
  BY <1>1, <1>2, <1>3, <1>4 DEF Collect
<1>6. LastField' = LastField
  BY <1>1 DEF LastField
<1>7. Sources' = Sources
  BY <1>1, <1>5 DEF Sources
<1>8. ASSUME NEW k
      PROVE  /\ From(k)' = From(k) /\ Forward(k)' = Forward(k) /\ Backward(k)' = Backward(k)
             /\ LastForward(k)' = LastForward(k) /\ LastBackward(k)' = LastBackward(k)
  <2>1. From(k)' = From(k)
    BY <1>1, <1>5 DEF From
  <2>2. Forward(k)' = Forward(k) /\ Backward(k)' = Backward(k)
    BY <2>1 DEF Forward, Backward
  <2>3. LastForward(k)' = LastForward(k)
    BY <2>2, Zenon DEF LastForward
  <2>4. LastBackward(k)' = LastBackward(k)
    BY <2>2, Zenon DEF LastBackward
  <2> QED
    BY <2>1, <2>2, <2>3, <2>4
<1> QED
  BY <1>2, <1>3, <1>4, <1>5, <1>6, <1>7, <1>8

\* The counters are in bounds at first.
LEMMA InitCounted == Init => Counted
<1> SUFFICES ASSUME Init PROVE Counted
  OBVIOUS
<1>1. NCols \in Nat \ {0} /\ Elsewhere \in Int
  BY FieldsAssumption
<1>2. pm \in [Known -> Positions] /\ Known \subseteq Cols
  BY DEF Init, Known
<1>3. attr \in [0 .. NCols -> Positions]
  BY <1>1 DEF Init, FreshAttributes, Positions
<1>4. near \in [Cols -> Cols \union {NCols}]
  BY DEF Init
<1>5. 0 \in Cols /\ 0 \in 0 .. NCols
  BY <1>1 DEF Cols
<1>6. q \in Statements
  BY StatementsAssumption DEF Init
<1> QED
  BY <1>2, <1>3, <1>4, <1>5, <1>6 DEF Init, Counted, Typed, Strategic, Counting

\* Every step keeps them so.
LEMMA NextCounted == Counted /\ [Next]_vars => Counted'
<1> SUFFICES ASSUME Counted, [Next]_vars PROVE Counted'
  OBVIOUS
<1>0. Typed /\ Strategic /\ Counting
  BY DEF Counted
<1> USE <1>0
<1>a. /\ Collect \subseteq Cols /\ Convert \subseteq Cols /\ NCols \in Nat /\ Cols \subseteq Int /\ Cols \subseteq 0 .. NCols
      /\ \A k \in Cols : k + 1 \in 0 .. NCols
  BY CollectCols DEF Cols
<1>1. ASSUME NEW st \in Statements, StartRow(st) PROVE Counted'
  <2>1. Elsewhere \in Int /\ 0 \in Int
    BY FieldsAssumption
  <2>2. attr' \in [0 .. NCols -> Positions]
    <3>1. PICK first \in FirstPointers : attr' = FreshAttributes(first)
      BY <1>1 DEF StartRow
    <3>2. attr[0].pointer \in Int
      BY <1>a DEF Typed, Positions
    <3>3. first \in Int
      BY <2>1, <3>2 DEF FirstPointers
    <3> QED
      BY <2>1, <3>1, <3>3 DEF FreshAttributes, Positions
  <2>3. near' \in [Cols -> Cols \union {NCols}]
    BY <1>1 DEF StartRow, Typed
  <2>4. Known' = Known /\ pm' = pm
    BY <1>1 DEF StartRow, Known
  <2>5. Typed'
    BY <1>1, <2>2, <2>3, <2>4 DEF StartRow, Typed, search
  <2>6. Strategic'
    BY <1>1, <2>4 DEF StartRow, Strategic, Closest
  <2>7. Counting'
    BY <1>1 DEF StartRow, Counting
  <2> QED
    BY <2>5, <2>6, <2>7 DEF Counted
<1>3. ASSUME UNCHANGED <<row, part>>
      PROVE  /\ Known' = Known /\ Collect' = Collect /\ Sources' = Sources /\ LastField' = LastField
             /\ \A k : Forward(k)' = Forward(k) /\ Backward(k)' = Backward(k)
             /\ \A k : LastForward(k)' = LastForward(k) /\ LastBackward(k)' = LastBackward(k)
  BY <1>3, SameStrategy
<1>2. CASE UNCHANGED vars
  BY <1>2, <1>3 DEF vars, search, Counted, Typed, Strategic, Counting, Closest, row
<1>4. CASE PartWithFile
  <2>1. LastField \in Cols /\ 0 <= LastField
    BY LastFieldRead DEF Typed, Cols
  <2>2. UNCHANGED <<row, part, attr, todo, from, howMany>> /\ pc' = "field" /\ pc = "part" /\ id' = 0 /\ cur' = 0
    BY <1>4 DEF PartWithFile
  <2>3. Typed'
    <3>1. 0 \in 0 .. NCols /\ 0 \in Int
      BY <1>a
    <3> QED
      BY <1>3, <2>2, <3>1 DEF row, Typed
  <2> QED
    BY <1>3, <2>1, <2>2, <2>3 DEF row, Counted, Strategic, Counting, Closest
<1>5. CASE PartWithPM
  <2>1. Sources \subseteq Known
    BY <1>5, SourcesKnown DEF PartWithPM
  <2>2. Sources \subseteq Cols
    BY <2>1 DEF Typed
  <2>3. attr' \in [0 .. NCols -> Positions]
    BY <1>5, <2>1, SMTT(30) DEF PartWithPM, Typed
  <2> QED
    BY <1>3, <1>5, <2>1, <2>2, <2>3 DEF PartWithPM, row, search, Counted, Typed, Strategic, Counting, Closest
<1>6. CASE PlainChar \/ OpenQuote \/ QuotedChar
  <2>1. UNCHANGED <<row, part, attr, todo, from, howMany, id>> /\ pc' \in {"field", "quoted"} /\ pc \in {"field", "quoted"}
    BY <1>6 DEF PlainChar, OpenQuote, QuotedChar
  <2>2. cur' \in Int
    BY <1>6, SMTT(30) DEF PlainChar, OpenQuote, QuotedChar, Typed
  <2> QED
    BY <1>3, <2>1, <2>2 DEF row, Counted, Typed, Strategic, Counting, Closest
<1>7. CASE UnterminatedField
  BY <1>3, <1>7 DEF UnterminatedField, row, search, Counted, Typed, Strategic, Counting
<1>8. CASE EndField
  <2>1. id <= LastField /\ id \in Int /\ LastField \in Cols
    BY <1>8, LastFieldRead DEF EndField, Counting, Typed
  <2>2. id \in Cols /\ id + 1 \in 0 .. NCols /\ id \in 0 .. NCols
    BY <1>a, <2>1 DEF Cols, Typed
  <2>3. attr' \in [0 .. NCols -> Positions]
    <3>1. attr[id].pointer \in Int /\ attr[id] \in Positions /\ attr[id + 1] \in Positions /\ cur \in Int
      BY <2>2 DEF Typed, Positions
    <3>2. cur + 1 \in Int /\ cur - attr[id].pointer \in Int
      BY <3>1
    <3>3. attr' = [attr EXCEPT ![id + 1].pointer = cur + 1, ![id].width = cur - attr[id].pointer]
      BY <1>8 DEF EndField
    <3> QED
      BY <2>2, <3>1, <3>2, <3>3, Zenon DEF Typed, Positions
  <2>4. id' \in 0 .. NCols /\ cur' \in Int /\ pc' \in {"field", "values"} /\ (pc' = "field" => id' <= LastField)
    <3>1. CASE id = LastField \/ cur >= line.len
      BY <1>8, <2>2, <3>1 DEF EndField, Typed
    <3>2. CASE ~(id = LastField \/ cur >= line.len)
      BY <1>8, <1>a, <2>1, <2>2, <3>2, SMTT(30) DEF EndField, Typed
    <3> QED
      BY <3>1, <3>2
  <2> QED
    BY <1>3, <1>8, <2>3, <2>4 DEF EndField, row, Counted, Typed, Strategic, Counting, Closest
<1>9. CASE NoDBGetValues \/ ConvertDone \/ PartsDone
  BY <1>3, <1>9 DEF NoDBGetValues, ConvertDone, PartsDone, row, search, Counted, Typed, Strategic, Counting, Closest
<1>10. ASSUME NEW k \in Cols, ViaPM(k) PROVE Counted'
  <2>1. k \in Sources /\ Sources \subseteq Known /\ todo \subseteq Sources
    BY <1>10 DEF ViaPM, Counting
  <2>2. UNCHANGED <<row, part>> /\ from' = k /\ todo' = todo \ {k}
    BY <1>10 DEF ViaPM
  <2>3. CASE Forward(k) = {}
    BY <1>3, <1>10, <2>1, <2>2, <2>3 DEF ViaPM, row, Counted, Typed, Strategic, Counting, Closest
  <2>4. CASE Forward(k) # {}
    <3>1. LastForward(k) \in Forward(k)
      BY <1>a, <2>4, SearchEnds
    <3>2. LastForward(k) > k /\ LastForward(k) \in Cols
      BY <1>a, <3>1, Zenon DEF Forward, From
    <3>3. /\ pc' = "forward" /\ id' = k + 1 /\ howMany' = LastForward(k) - k
          /\ cur' = attr[k].pointer + attr[k].width + 1
          /\ attr' = [attr EXCEPT ![k + 1].pointer = cur']
      BY <1>10, <2>4 DEF ViaPM
    <3>4. cur' \in Int
      <4>1. attr[k].pointer \in Int /\ attr[k].width \in Int
        BY <1>a DEF Typed, Positions
      <4> QED
        BY <3>3, <4>1
    <3>5. attr' \in [0 .. NCols -> Positions]
      BY <1>a, <3>3, <3>4, PositionTypes, Zenon DEF Typed
    <3>6. Typed'
      BY <1>a, <1>3, <2>2, <3>2, <3>3, <3>4, <3>5, SMTT(30) DEF row, Typed
    <3>7. /\ Forward(from)' = Forward(k) /\ LastForward(from)' = LastForward(k) /\ Sources' = Sources
          /\ Known' = Known
      BY <1>3, <2>2 DEF row
    <3>8. howMany' >= 1 /\ id' + howMany' = LastForward(k) + 1 /\ id' >= k + 1
      BY <1>a, <3>2, <3>3
    <3>9. Counting'
      BY <2>1, <2>2, <2>4, <3>3, <3>7, <3>8 DEF Counting
    <3>10. Strategic'
      BY <1>3, <1>10, <2>2, SMTT(30) DEF row, Strategic, Closest, ViaPM
    <3> QED
      BY <3>6, <3>9, <3>10 DEF Counted
  <2> QED
    BY <2>3, <2>4
<1>11. CASE ForwardChar \/ BackwardChar
  <2>1. UNCHANGED <<row, part, pc, attr, todo, from, howMany, id>> /\ cur' \in Int
    BY <1>11 DEF ForwardChar, BackwardChar, Typed
  <2> QED
    BY <1>3, <2>1 DEF row, Counted, Typed, Strategic, Counting, Closest
<1>12. CASE ForwardDelim \/ ForwardEOL
  <2>1. /\ UNCHANGED <<row, part, todo, from>> /\ pc = "forward" /\ pc' \in {"forward", "back"}
        /\ pc' = "forward" => howMany # 1 /\ id' = id + 1 /\ howMany' = howMany - 1
        /\ id' \in {id, id + 1} /\ howMany' \in Int /\ cur' \in Int
    <3>1. CASE ForwardDelim
      BY <3>1 DEF ForwardDelim, Typed
    <3>2. CASE ForwardEOL
      BY <3>2 DEF ForwardEOL, search, Typed
    <3> QED
      BY <1>12, <3>1, <3>2
  <2>2. /\ Forward(from) # {} /\ howMany >= 1 /\ id + howMany = LastForward(from) + 1 /\ id >= from + 1
        /\ from \in Sources /\ from \in Cols
    BY <2>1 DEF Counting, Typed
  <2>3. LastForward(from) \in Cols /\ (from + 1) .. LastForward(from) \in SUBSET Cols
    <3>1. LastForward(from) \in Forward(from)
      BY <1>a, <2>2, SearchEnds
    <3>2. LastForward(from) \in Cols
      BY <1>a, <3>1, Zenon DEF Forward, From
    <3> QED
      BY <1>a, <2>2, <3>2 DEF Cols
  <2>4. id \in Cols /\ id + 1 \in 0 .. NCols /\ line.len \in Int
    <3>1. id <= LastForward(from) /\ id >= 0
      BY <2>2, <2>3 DEF Typed, Cols
    <3>2. line.len \in Int
      BY FieldsAssumption DEF Typed
    <3> QED
      BY <1>a, <2>3, <3>1, <3>2 DEF Typed, Cols
  <2>5. attr' \in [0 .. NCols -> Positions]
    <3>1. PICK p \in Int : attr' \in {[attr EXCEPT ![id + 1].pointer = p],
                                     WidthsForward([attr EXCEPT ![id + 1].pointer = p])}
      <4>1. CASE ForwardDelim
        BY <4>1, cur + 1 \in Int, Zenon DEF ForwardDelim, Typed
      <4>2. CASE ForwardEOL
        BY <2>4, <4>2, line.len + 1 \in Int DEF ForwardEOL
      <4> QED
        BY <1>12, <4>1, <4>2, Zenon
    <3>2. [attr EXCEPT ![id + 1].pointer = p] \in [0 .. NCols -> Positions]
      BY <1>a, <2>4, PositionTypes, Zenon DEF Typed
    <3>3. WidthsForward([attr EXCEPT ![id + 1].pointer = p]) \in [0 .. NCols -> Positions]
      BY <1>a, <2>3, <3>2, PositionTypes, Zenon DEF WidthsForward
    <3> QED
      BY <3>1, <3>2, <3>3, Zenon
  <2>6. id' \in 0 .. NCols
    BY <2>1, <2>4 DEF Typed
  <2>7. Typed'
    BY <1>3, <2>1, <2>5, <2>6 DEF row, Typed
  <2>8. Forward(from)' = Forward(from) /\ LastForward(from)' = LastForward(from)
    BY <1>3, <2>1 DEF row
  <2>9. pc' = "forward" => howMany' >= 1 /\ id' + howMany' = LastForward(from) + 1 /\ id' >= from + 1
    BY <2>1, <2>2, <2>3 DEF Typed, Cols
  <2>10. Counting'
    BY <1>3, <2>1, <2>2, <2>8, <2>9 DEF Counting
  <2>11. Strategic'
    BY <1>3, <2>1, Zenon DEF row, Strategic, Closest
  <2> QED
    BY <2>7, <2>10, <2>11 DEF Counted
<1>13. CASE ViaPMBackward
  <2>1. /\ UNCHANGED <<row, part, attr, todo, from>> /\ pc = "back"
        /\ from \in Sources /\ from \in Cols
    BY <1>13, SMTT(30) DEF ViaPMBackward, Counting, Typed
  <2>2. CASE Backward(from) = {}
    <3>1. pc' = "via" /\ UNCHANGED <<howMany, id, cur>>
      BY <1>13, <2>2 DEF ViaPMBackward
    <3> QED
      BY <1>3, <2>1, <3>1, SMTT(30) DEF row, Counted, Typed, Strategic, Counting, Closest
  <2>3. CASE Backward(from) # {}
    <3>1. /\ pc' = "backward" /\ cur' = attr[from].pointer - 2
          /\ id' = from - 1 /\ howMany' = from - LastBackward(from)
      BY <1>13, <2>3 DEF ViaPMBackward
    <3>2. LastBackward(from) \in Backward(from)
      BY <1>a, <2>3, SearchEnds
    <3>3. LastBackward(from) < from /\ LastBackward(from) \in Cols
      BY <1>a, <3>2, Zenon DEF Backward, From
    <3>4. attr[from].pointer \in Int
      BY <1>a, <2>1 DEF Typed, Positions
    <3>5. id' \in 0 .. NCols /\ howMany' \in Int /\ cur' \in Int /\ howMany' >= 1
          /\ id' = LastBackward(from) + howMany' - 1 /\ id' <= from - 1
      BY <1>a, <2>1, <3>1, <3>3, <3>4 DEF Cols
    <3>6. Typed'
      BY <1>3, <2>1, <3>1, <3>5 DEF row, Typed
    <3>7. Backward(from)' = Backward(from) /\ LastBackward(from)' = LastBackward(from)
      BY <1>3, <2>1 DEF row
    <3>8. Counting'
      BY <1>3, <2>1, <2>3, <3>1, <3>5, <3>7, SMTT(30) DEF Counting
    <3>9. Strategic'
      BY <1>3, <2>1, <3>1, ZenonT(30) DEF row, Strategic, Closest
    <3> QED
      BY <3>6, <3>8, <3>9 DEF Counted
  <2> QED
    BY <2>2, <2>3
<1>14. CASE BackwardDelim \/ BackwardBOL
  <2>1. /\ UNCHANGED <<row, part, todo, from>> /\ pc = "backward" /\ pc' \in {"backward", "via"}
        /\ pc' = "backward" => howMany # 1 /\ id' = id - 1 /\ howMany' = howMany - 1
        /\ pc' = "via" => id' = id
        /\ howMany' \in Int /\ cur' \in Int
    <3>1. CASE BackwardDelim
      BY <3>1 DEF BackwardDelim, Typed
    <3>2. CASE BackwardBOL
      BY <3>2 DEF BackwardBOL, search, Typed
    <3> QED
      BY <1>14, <3>1, <3>2
  <2>2. /\ Backward(from) # {} /\ howMany >= 1 /\ id = LastBackward(from) + howMany - 1 /\ id <= from - 1
        /\ from \in Sources /\ from \in Cols
    BY <2>1 DEF Counting, Typed
  <2>3. LastBackward(from) \in Cols /\ LastBackward(from) .. (from - 1) \in SUBSET Cols
    <3>1. LastBackward(from) \in Backward(from)
      BY <1>a, <2>2, SearchEnds
    <3>2. LastBackward(from) \in Cols
      BY <1>a, <3>1, Zenon DEF Backward, From
    <3> QED
      BY <1>a, <2>2, <3>2 DEF Cols
  <2>4. attr' \in [0 .. NCols -> Positions]
    <3>1. PICK p \in Int : attr' \in {[attr EXCEPT ![id].pointer = p],
                                     WidthsBackward([attr EXCEPT ![id].pointer = p])}
      <4>1. CASE BackwardDelim
        BY <4>1, cur + 1 \in Int, Zenon DEF BackwardDelim, Typed
      <4>2. CASE BackwardBOL
        BY <4>2 DEF BackwardBOL
      <4> QED
        BY <1>14, <4>1, <4>2, Zenon
    <3>2. [attr EXCEPT ![id].pointer = p] \in [0 .. NCols -> Positions]
      BY <1>a, PositionTypes, Zenon DEF Typed
    <3>3. WidthsBackward([attr EXCEPT ![id].pointer = p]) \in [0 .. NCols -> Positions]
      BY <1>a, <2>3, <3>2, PositionTypes, Zenon DEF WidthsBackward
    <3> QED
      BY <3>1, <3>2, <3>3, Zenon
  <2>5. id' \in 0 .. NCols
    BY <1>a, <2>1, <2>2, <2>3, SMTT(30) DEF Typed, Cols
  <2>6. Typed'
    BY <1>3, <2>1, <2>4, <2>5 DEF row, Typed
  <2>7. Backward(from)' = Backward(from) /\ LastBackward(from)' = LastBackward(from)
    BY <1>3, <2>1 DEF row
  <2>8. pc' = "backward" => howMany' >= 1 /\ id' = LastBackward(from) + howMany' - 1 /\ id' <= from - 1
    BY <2>1, <2>2, <2>3 DEF Typed, Cols
  <2>9. Counting'
    BY <1>3, <2>1, <2>2, <2>7, <2>8 DEF Counting
  <2>10. Strategic'
    BY <1>3, <2>1, Zenon DEF row, Strategic, Closest
  <2> QED
    BY <2>6, <2>9, <2>10 DEF Counted
<1>15. CASE ViaPMDone
  BY <1>3, <1>15, <1>a, ZenonT(30) DEF ViaPMDone, row, search, Counted, Typed, Strategic, Counting, Closest
<1>16. ASSUME NEW c \in Cols, NoDBGetValuesWithPM(c) PROVE Counted'
  BY <1>3, <1>16, ZenonT(30) DEF NoDBGetValuesWithPM, row, search, Counted, Typed, Strategic, Counting, Closest
<1>17. ASSUME NEW pass \in BOOLEAN, Filter(pass) PROVE Counted'
  <2>1. /\ UNCHANGED <<line, odd, pm, q, near, attr, todo, from, howMany, id, cur>> /\ Known' = Known
        /\ pc = "done" /\ pc' \in {"part", "store"} /\ part = "pre" /\ part' \in {"pre", "post"}
    BY <1>17, SMTT(30) DEF Filter, row, search, Known
  <2> QED
    BY <2>1 DEF Counted, Typed, Strategic, Counting, Closest
<1>18. CASE StorePositions
  <2>1. UNCHANGED <<line, odd, q, near, part, attr, todo, from, howMany, id, cur>> /\ pc' = "idle"
    BY <1>18 DEF StorePositions, search
  <2>2. AddPM \subseteq Cols
    BY CollectCols
  <2>3. Known' = Known \union AddPM /\ pm' \in [Known' -> Positions]
    BY <1>18, <1>a, <2>2 DEF StorePositions, Known, Typed
  <2>4. Typed'
    BY <2>1, <2>2, <2>3 DEF Typed
  <2> QED
    BY <2>1, <2>4 DEF Counted, Strategic, Counting
<1> QED
  BY <1>1, <1>2, <1>4, <1>5, <1>6, <1>7, <1>8, <1>9, <1>10, <1>11, <1>12, <1>13, <1>14, <1>15, <1>16, <1>17, <1>18
  DEF Next, RowStep, CSVStep, ViaStep, ConvertStep

\* On any line, whatever quotes and backslashes it has, the columns and
\* counters of the executor's loops stay in their ranges.
THEOREM CountersInRange == Spec => []TypeOK
<1>1. Counted => TypeOK
  BY DEF Counted, Typed, TypeOK
<1> QED
  BY <1>1, InitCounted, NextCounted, PTL DEF Spec
=============================================================================
