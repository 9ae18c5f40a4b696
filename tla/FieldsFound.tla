---------------------------- MODULE FieldsFound -----------------------------
(***************************************************************************)
(* The fields of a line without quotes and backslashes: what is found by   *)
(* searches from stored positions.  All positions that are stored of such  *)
(* a line are those of its fields, as far as the lines before it allow.    *)
(***************************************************************************)
EXTENDS FieldsParsed

----------------------------------------------------------------------------
(* Searches.                                                               *)

\* A step that adds to what a search has found.
Keeps == \A c \in Cols : At(attr[c], c) => At(attr'[c], c)

\* parseLineForward goes from field to field and finds the columns it is for.
LEMMA ForwardFinds ==
    ASSUME Found, Plain, SearchesOnce, ForwardChar \/ ForwardDelim \/ ForwardEOL
    PROVE  /\ Keeps
           /\ pc' = "forward" => /\ cur' \in 0 .. line.len /\ Number(cur') = id'
                                /\ \A c \in (from + 1) .. id' : Begins(attr'[c].pointer, c)
           /\ pc' = "back" => \A c \in Forward(from) : At(attr'[c], c)
<1>0. Counted /\ Typed /\ Counting /\ Intact /\ Searched /\ line \in Lines /\ pc = "forward" /\ attr \in [0 .. NCols -> Positions]
  BY DEF Found, Counted, Typed, ForwardChar, ForwardDelim, ForwardEOL
<1>1. /\ cur \in 0 .. line.len /\ Number(cur) = id /\ line.len \in Nat /\ cur \in Int
      /\ \A c \in (from + 1) .. id : Begins(attr[c].pointer, c)
  BY <1>0, Numbers DEF Searched
<1>2. /\ Forward(from) # {} /\ howMany >= 1 /\ id + howMany = LastForward(from) + 1 /\ id >= from + 1
      /\ from \in Int /\ from >= 0 /\ id \in Int /\ howMany \in Int /\ NCols \in Nat
  BY <1>0, FieldsAssumption DEF Counting, Typed, Cols
<1>3. /\ LastForward(from) \in Cols /\ \A d \in Forward(from) : d <= LastForward(from) /\ d > from /\ d \in Int
  BY <1>0, <1>2, SearchEnds, CollectCols, Zenon DEF Forward, From
<1>4. /\ (from + 1) .. LastForward(from) \in SUBSET Cols /\ id \in Cols /\ id + 1 \in 0 .. NCols
      /\ Cols \subseteq 0 .. NCols /\ LastForward(from) \in Int /\ LastForward(from) <= NCols - 1
  BY <1>2, <1>3 DEF Cols
<1>5. text = Buffer(line)
  BY <1>0, SearchIntact
<1>6. ASSUME cur < line.len PROVE (cur \in Separators <=> CharAt(cur) = Delim) /\ CharAt(cur) # Back
  <2>1. cur \in 0 .. (line.len - 1)
    BY <1>1, <1>6
  <2> QED
    BY <1>0, <1>5, <2>1, PlainBuffer
<1>7. CASE ForwardChar
  <2>1. UNCHANGED <<attr, id, pc>> /\ cur' = cur + 1 /\ cur < line.len /\ cur \notin Separators
    BY <1>6, <1>7 DEF ForwardChar
  <2>2. cur + 1 \in 0 .. line.len /\ Number(cur + 1) = id
    BY <1>0, <1>1, <2>1, Numbers
  <2>3. cur' \in 0 .. line.len /\ Number(cur') = id'
    BY <2>1, <2>2
  <2> QED
    BY <1>0, <1>1, <2>1, <2>3 DEF Keeps
<1>8. CASE ForwardDelim
  <2> DEFINE b == [attr EXCEPT ![id + 1].pointer = cur + 1]
  <2>1. id' = id + 1 /\ cur' = cur + 1 /\ cur \in Separators
    BY <1>6, <1>8 DEF ForwardDelim
  <2>2. cur + 1 \in 0 .. line.len /\ Number(cur + 1) = id + 1 /\ Begins(cur + 1, id + 1)
    BY <1>0, <1>1, <2>1, AroundSeparator
  <2>3. /\ b \in [0 .. NCols -> Positions] /\ Begins(b[id + 1].pointer, id + 1)
        /\ \A c \in 0 .. NCols : At(attr[c], c) => At(b[c], c)
        /\ \A c \in 0 .. NCols : Begins(attr[c].pointer, c) => Begins(b[c].pointer, c)
    <3>1. b = Written(attr, id + 1, cur + 1)
      BY DEF Written
    <3>2. id + 1 > 0
      BY <1>2
    <3> HIDE DEF b
    <3> QED
      BY <1>0, <1>4, <2>2, <3>1, <3>2, PointerWritten, Zenon
  <2>4. IF howMany = 1 THEN attr' = WidthsForward(b) /\ pc' = "back" ELSE attr' = b /\ pc' = "forward"
    BY <1>0, <1>8 DEF ForwardDelim
  <2> HIDE DEF b
  <2>5. \A c \in (from + 1) .. (id + 1) : Begins(b[c].pointer, c)
    <3> SUFFICES ASSUME NEW c \in (from + 1) .. (id + 1) PROVE Begins(b[c].pointer, c)
      OBVIOUS
    <3>1. c = id + 1 \/ (c \in (from + 1) .. id /\ c \in 0 .. NCols)
      BY <1>2, <1>4 DEF Cols
    <3> QED
      BY <1>1, <2>3, <3>1
  <2>6. CASE howMany = 1
    <3> DEFINE cols == (from + 1) .. LastForward(from)
    <3>1. LastForward(from) = id
      BY <1>2, <1>4, <2>6
    <3>2. \A c \in cols : c \in (from + 1) .. (id + 1) /\ c + 1 \in (from + 1) .. (id + 1)
      BY <1>2, <3>1
    <3>3. \A c \in cols : Begins(b[c].pointer, c) /\ Begins(b[c + 1].pointer, c + 1)
      BY <2>5, <3>2
    <3>4. attr' = Widths(b, cols) /\ pc' = "back"
      BY <2>4, <2>6 DEF WidthsForward
    <3>5. \A d \in Forward(from) : d \in cols
      BY <1>2, <1>3, <1>4
    <3> HIDE DEF cols
    <3>6. cols \in SUBSET Cols
      BY <1>4 DEF cols
    <3>7. (\A c \in cols : At(attr'[c], c)) /\ \A c \in 0 .. NCols : At(b[c], c) => At(attr'[c], c)
      BY <1>0, <2>3, <3>3, <3>4, <3>6, WidthsFound, Zenon
    <3> QED
      BY <1>4, <2>3, <3>4, <3>5, <3>7 DEF Keeps
  <2>7. CASE howMany # 1
    BY <1>4, <2>1, <2>2, <2>3, <2>4, <2>5, <2>7 DEF Keeps
  <2> QED
    BY <2>6, <2>7
<1>9. CASE ForwardEOL
  <2> DEFINE b == [attr EXCEPT ![id + 1].pointer = line.len + 1]
  <2>1. cur = line.len
    BY <1>1, <1>9 DEF ForwardEOL
  <2>2. id = NCols - 1
    BY <1>0, <1>1, <2>1, PlainSeparators
  <2>3. LastForward(from) = id /\ id + 1 = NCols
    BY <1>2, <1>4, <2>2
  <2>4. b \in [0 .. NCols -> Positions]
    <3>1. line.len + 1 \in Int
      BY <1>1
    <3> QED
      BY <1>0, <1>2, <1>4, <3>1, PositionTypes, Zenon
  <2>5. b[NCols].pointer = line.len + 1 /\ \A c \in Cols : b[c] = attr[c]
    <3>1. NCols \in 0 .. NCols /\ \A c \in Cols : c # NCols /\ c \in 0 .. NCols
      BY <1>2 DEF Cols
    <3> QED
      BY <1>0, <2>3, <3>1 DEF Positions
  <2> DEFINE cols == (from + 1) .. LastForward(from)
  <2>6. attr' = Widths(b, cols) /\ pc' = "back"
    BY <1>9 DEF ForwardEOL, WidthsForward
  <2>7. \A d \in Forward(from) : d \in cols
    BY <1>2, <1>3, <1>4
  <2> HIDE DEF b
  <2>8. ASSUME NEW c \in cols
        PROVE  /\ Begins(b[c].pointer, c)
               /\ Begins(b[c + 1].pointer, c + 1) \/ (c = NCols - 1 /\ b[c + 1].pointer = line.len + 1)
    <3>1. c \in (from + 1) .. id /\ c \in Cols
      BY <1>4, <2>3
    <3>2. c = NCols - 1 \/ (c + 1 \in (from + 1) .. id /\ c + 1 \in Cols)
      BY <1>2, <2>2, <3>1 DEF Cols
    <3>3. c = NCols - 1 => b[c + 1].pointer = line.len + 1
      BY <2>2, <2>3, <2>5
    <3> QED
      BY <1>1, <2>5, <3>1, <3>2, <3>3
  <2> HIDE DEF cols
  <2>9. cols \in SUBSET Cols
    BY <1>4 DEF cols
  <2>10. (\A c \in cols : At(attr'[c], c)) /\ \A c \in 0 .. NCols : At(b[c], c) => At(attr'[c], c)
    BY <1>0, <2>4, <2>6, <2>8, <2>9, WidthsFound, ZenonT(30)
  <2> QED
    BY <1>4, <2>5, <2>6, <2>7, <2>10, Zenon DEF Keeps
<1> QED
  BY <1>7, <1>8, <1>9

\* parseLineBackward finds the columns it is for, too; it comes to the
\* beginning of the line in the first of them.
LEMMA BackwardFinds ==
    ASSUME Found, Plain, SearchesOnce, BackwardChar \/ BackwardDelim \/ BackwardBOL
    PROVE  /\ Keeps
           /\ pc' = "backward" => /\ cur' + 1 \in 0 .. line.len /\ Number(cur' + 1) = id'
                                 /\ \A c \in (id' + 1) .. from : Begins(attr'[c].pointer, c)
           /\ pc' = "via" => \A c \in Backward(from) : At(attr'[c], c)
<1>0. Counted /\ Typed /\ Counting /\ Intact /\ Searched /\ line \in Lines /\ pc = "backward" /\ attr \in [0 .. NCols -> Positions]
  BY DEF Found, Counted, Typed, BackwardChar, BackwardDelim, BackwardBOL
<1>1. /\ cur + 1 \in 0 .. line.len /\ Number(cur + 1) = id /\ line.len \in Nat /\ cur \in Int
      /\ \A c \in (id + 1) .. from : Begins(attr[c].pointer, c)
  BY <1>0, Numbers DEF Searched, Typed
<1>2. /\ Backward(from) # {} /\ howMany >= 1 /\ id = LastBackward(from) + howMany - 1 /\ id <= from - 1
      /\ from \in Cols /\ from \in Int /\ id \in Int /\ id >= 0 /\ howMany \in Int /\ NCols \in Nat
  BY <1>0, FieldsAssumption DEF Counting, Typed, Cols
<1>3. /\ LastBackward(from) \in Cols /\ \A d \in Backward(from) : d >= LastBackward(from) /\ d < from /\ d \in Int
  BY <1>0, <1>2, SearchEnds, CollectCols, Zenon DEF Backward, From
<1>4. /\ LastBackward(from) .. (from - 1) \in SUBSET Cols /\ id \in 0 .. NCols
      /\ Cols \subseteq 0 .. NCols /\ LastBackward(from) \in Int /\ LastBackward(from) >= 0
  BY <1>2, <1>3 DEF Cols
<1>5. text = Buffer(line)
  BY <1>0, SearchIntact
<1>6. ASSUME cur >= 0
      PROVE  (cur \in Separators <=> CharAt(cur) = Delim) /\ CharAt(cur) # Back /\ cur \in 0 .. line.len
  <2>1. cur \in 0 .. (line.len - 1)
    BY <1>1, <1>6
  <2> QED
    BY <1>0, <1>1, <1>5, <2>1, PlainBuffer
<1>7. CASE BackwardChar
  <2>1. UNCHANGED <<attr, id, pc>> /\ cur' = cur - 1 /\ cur \in 0 .. line.len /\ cur \notin Separators
    BY <1>6, <1>7 DEF BackwardChar
  <2>2. Number(cur) = id /\ cur' + 1 = cur
    BY <1>0, <1>1, <2>1, Numbers
  <2>3. cur' + 1 \in 0 .. line.len /\ Number(cur' + 1) = id'
    BY <2>1, <2>2
  <2> QED
    BY <1>0, <1>1, <2>1, <2>3 DEF Keeps
<1>8. ASSUME NEW p, Begins(p, id), NEW b, b = Written(attr, id, p)
      PROVE  /\ b \in [0 .. NCols -> Positions]
             /\ \A c \in 0 .. NCols : (c # id \/ id > 0) /\ At(attr[c], c) => At(b[c], c)
             /\ \A c \in id .. from : Begins(b[c].pointer, c)
             /\ howMany = 1 /\ attr' = WidthsBackward(b) => Keeps /\ \A c \in Backward(from) : At(attr'[c], c)
  <2>1. /\ b \in [0 .. NCols -> Positions] /\ Begins(b[id].pointer, id)
        /\ \A c \in 0 .. NCols : (c # id \/ id > 0) /\ At(attr[c], c) => At(b[c], c)
        /\ \A c \in 0 .. NCols : Begins(attr[c].pointer, c) => Begins(b[c].pointer, c)
    BY <1>0, <1>4, <1>8, PointerWritten, Zenon
  <2>2. ASSUME NEW c \in id .. from PROVE Begins(b[c].pointer, c)
    <3>1. c = id \/ (c \in (id + 1) .. from /\ c \in 0 .. NCols)
      BY <1>2 DEF Cols
    <3> QED
      BY <1>1, <2>1, <3>1
  <2>3. ASSUME howMany = 1, attr' = WidthsBackward(b) PROVE Keeps /\ \A c \in Backward(from) : At(attr'[c], c)
    <3> DEFINE cols == LastBackward(from) .. (from - 1)
    <3>1. LastBackward(from) = id
      BY <1>2, <1>4, <2>3
    <3>2. \A c \in cols : c \in id .. from /\ c + 1 \in id .. from
      BY <1>2, <3>1
    <3>3. \A c \in cols : Begins(b[c].pointer, c) /\ Begins(b[c + 1].pointer, c + 1)
      BY <2>2, <3>2
    <3>4. attr' = Widths(b, cols)
      BY <2>3 DEF WidthsBackward
    <3>5. id \in cols /\ \A d \in Backward(from) : d \in cols
      BY <1>2, <1>3, <1>4, <3>1
    <3> HIDE DEF cols
    <3>6. cols \in SUBSET Cols
      BY <1>4 DEF cols
    <3>7. (\A c \in cols : At(attr'[c], c)) /\ \A c \in 0 .. NCols : At(b[c], c) => At(attr'[c], c)
      BY <1>0, <2>1, <3>3, <3>4, <3>6, WidthsFound, ZenonT(30)
    <3> QED
      BY <1>4, <2>1, <3>5, <3>7, Zenon DEF Keeps
  <2> QED
    BY <2>1, <2>2, <2>3
<1>9. CASE BackwardDelim
  <2> DEFINE b == [attr EXCEPT ![id].pointer = cur + 1]
  <2>1. /\ cur' = cur - 1 /\ cur \in Separators /\ cur \in 0 .. line.len
        /\ IF howMany = 1 THEN attr' = WidthsBackward(b) /\ pc' = "via"
                          ELSE attr' = b /\ pc' = "backward" /\ id' = id - 1
    BY <1>0, <1>6, <1>9 DEF BackwardDelim
  <2>2. Number(cur) = id - 1 /\ Begins(cur + 1, id) /\ cur' + 1 = cur /\ id > 0
    <3>1. Number(cur + 1) = Number(cur) + 1 /\ Number(cur) \in Nat
      BY <1>0, <1>1, <2>1, Numbers
    <3>2. Begins(cur + 1, Number(cur) + 1)
      BY <1>0, <2>1, AroundSeparator
    <3> QED
      BY <1>1, <1>2, <2>1, <3>1, <3>2
  <2>3. b = Written(attr, id, cur + 1)
    BY DEF Written
  <2> HIDE DEF b
  <2>4. /\ \A c \in 0 .. NCols : (c # id \/ id > 0) /\ At(attr[c], c) => At(b[c], c)
        /\ \A c \in id .. from : Begins(b[c].pointer, c)
        /\ howMany = 1 /\ attr' = WidthsBackward(b) => Keeps /\ \A c \in Backward(from) : At(attr'[c], c)
    BY <1>8, <2>2, <2>3
  <2>5. CASE howMany = 1
    BY <2>1, <2>4, <2>5
  <2>6. CASE howMany # 1
    <3>1. attr' = b /\ pc' = "backward" /\ id' = id - 1
      BY <2>1, <2>6
    <3>2. id' + 1 = id /\ Number(cur' + 1) = id' /\ cur' + 1 \in 0 .. line.len
      BY <1>2, <2>1, <2>2, <3>1
    <3> QED
      BY <1>4, <2>2, <2>4, <3>1, <3>2 DEF Keeps
  <2> QED
    BY <2>5, <2>6
<1>10. CASE BackwardBOL
  <2> DEFINE b == [attr EXCEPT ![id].pointer = 0]
  <2>1. cur + 1 = 0 /\ attr' = WidthsBackward(b) /\ pc' = "via"
    BY <1>1, <1>10 DEF BackwardBOL
  <2>2. id = 0 /\ Begins(0, id)
    BY <1>0, <1>1, <2>1, Numbers DEF Begins
  <2>3. howMany = 1
    BY <1>2, <1>4, <2>2
  <2>4. b = Written(attr, id, 0)
    BY DEF Written
  <2> HIDE DEF b
  <2> QED
    BY <1>8, <2>1, <2>2, <2>3, <2>4, Zenon
<1> QED
  BY <1>7, <1>9, <1>10

\* The columns found from k.
LEMMA FromSides ==
    ASSUME Typed, NEW k \in Cols
    PROVE  \A c \in From(k) : c = k \/ c \in Forward(k) \/ c \in Backward(k)
BY CollectCols DEF Forward, Backward, From

\* On a plain line the searches find fields, and lose none.
LEMMA NextSearched == Found /\ [Next]_vars => Searched'
<1> SUFFICES ASSUME Found, [Next]_vars PROVE Searched'
  OBVIOUS
<1>0. Counted /\ Typed /\ Counting /\ Strategic /\ Searched /\ PositionsTrue /\ line \in Lines /\ attr \in [0 .. NCols -> Positions]
  BY DEF Found, Counted, Typed
<1>s. /\ line' = line /\ (Plain' <=> Plain) /\ (\A p : Number(p)' = Number(p))
      /\ (\A p, c : Begins(p, c)' <=> Begins(p, c)) /\ (\A pair, c : At(pair, c)' <=> At(pair, c))
  BY LineStays, SameLine
<1>1. ASSUME pc' \notin {"via", "forward", "back", "backward"} PROVE Searched'
  BY <1>1 DEF Searched
<1>2. ASSUME UNCHANGED <<row, part>>
      PROVE  /\ Sources' = Sources /\ (SearchesOnce' <=> SearchesOnce)
             /\ \A k : From(k)' = From(k) /\ Forward(k)' = Forward(k)
  BY <1>2, SameStrategy DEF SearchesOnce, row
<1>3. Sources \subseteq Known \/ pc \notin {"via", "forward", "back", "backward"}
  BY <1>0 DEF Counting
<1>c. Collect \subseteq Cols /\ Known \subseteq Cols /\ Cols \subseteq 0 .. NCols
      /\ \A k : From(k) \subseteq Cols /\ Forward(k) \subseteq Cols /\ Backward(k) \subseteq Cols
  BY <1>0, CollectCols DEF From, Forward, Backward, Typed
<1>4. CASE UNCHANGED vars
  <2>1. UNCHANGED <<row, part>> /\ pc' = pc /\ attr' = attr /\ cur' = cur /\ id' = id /\ from' = from /\ todo' = todo
    BY <1>4 DEF vars, search
  <2> QED
    BY <1>0, <1>2, <1>s, <2>1 DEF Searched
<1>5. CASE PartWithPM
  <2>1. /\ UNCHANGED <<row, part>> /\ pc' = "via" /\ todo' = Sources /\ pc = "part"
        /\ attr' = [c \in 0 .. NCols |-> IF c \in Sources THEN pm[c] ELSE attr[c]]
    BY <1>5 DEF PartWithPM
  <2>2. Sources \subseteq Known
    BY <1>0, <1>5, <2>1, SourcesKnown DEF PartWithPM
  <2>3. ASSUME Plain, NEW k \in Sources PROVE At(attr'[k], k)
    <3>1. k \in Known /\ k \in 0 .. NCols
      BY <1>c, <2>2
    <3>2. attr'[k] = pm[k]
      BY <2>1, <3>1
    <3> QED
      BY <1>0, <2>3, <3>1, <3>2 DEF PositionsTrue
  <2> QED
    BY <1>2, <1>s, <2>1, <2>3 DEF Searched
<1>6. ASSUME NEW k \in Cols, ViaPM(k) PROVE Searched'
  <2>1. UNCHANGED <<row, part>> /\ pc = "via" /\ k \in todo /\ todo' = todo \ {k} /\ from' = k /\ k \in Sources
    BY <1>0, <1>6 DEF ViaPM, Counting
  <2>2. todo' \union {from'} = todo
    BY <2>1
  <2> SUFFICES ASSUME Plain, SearchesOnce PROVE Searched'
    BY <1>2, <1>s, <2>1 DEF Searched
  <2>3. /\ \A j \in Sources : At(attr[j], j)
        /\ \A j \in Sources \ todo : \A c \in From(j) : At(attr[c], c)
    BY <1>0, <2>1 DEF Searched
  <2>4. CASE Forward(k) = {}
    <3>1. pc' = "back" /\ attr' = attr
      BY <1>6, <2>4 DEF ViaPM
    <3>2. Forward(from)' = {}
      BY <1>2, <2>1, <2>4
    <3> QED
      BY <1>2, <1>s, <2>1, <2>2, <2>3, <3>1, <3>2 DEF Searched
  <2>5. CASE Forward(k) # {}
    <3> DEFINE e == attr[k].pointer + attr[k].width
    <3>1. /\ pc' = "forward" /\ cur' = e + 1 /\ id' = k + 1 /\ attr' = [attr EXCEPT ![k + 1].pointer = e + 1]
      BY <1>6, <2>5 DEF ViaPM
    <3>2. attr[k] \in Positions /\ k \in Int /\ k + 1 \in 0 .. NCols
      BY <1>0, <1>c, FieldsAssumption DEF Cols
    <3>3. Ends(e, k)
      BY <2>1, <2>3 DEF At
    <3>4. attr' = Written(attr, k + 1, e + 1)
      BY <3>1 DEF Written
    <3> HIDE DEF e
    <3>5. k < NCols - 1
      <4>1. PICK c \in Forward(k) : TRUE
        BY <2>5
      <4>2. c \in Cols /\ c > k
        BY <1>c, <4>1 DEF Forward
      <4> QED
        BY <3>2, <4>2, FieldsAssumption DEF Cols
    <3>6. e \in Separators /\ Number(e) = k
      <4>1. e # line.len
        BY <1>0, <3>2, <3>3, <3>5, PlainSeparators, FieldsAssumption DEF Ends
      <4> QED
        BY <3>3, <4>1 DEF Ends
    <3>7. Begins(e + 1, k + 1) /\ e + 1 \in 0 .. line.len /\ Number(e + 1) = k + 1
      BY <1>0, <3>6, AroundSeparator
    <3>8. /\ Begins(attr'[k + 1].pointer, k + 1) /\ \A c \in 0 .. NCols : At(attr[c], c) => At(attr'[c], c)
      <4>1. k + 1 > 0
        BY FieldsAssumption DEF Cols
      <4> QED
        BY <1>0, <3>2, <3>4, <3>7, <4>1, PointerWritten, Zenon
    <3>9. (\A j \in Sources : At(attr'[j], j)) /\ \A j \in Sources \ todo : \A c \in From(j) : At(attr'[c], c)
      BY <1>c, <1>3, <2>1, <2>3, <3>8, Zenon
    <3>10. cur' \in 0 .. line.len /\ Number(cur') = id'
      BY <3>1, <3>7
    <3>11. \A c \in (from' + 1) .. id' : Begins(attr'[c].pointer, c)
      <4>1. \A c \in (from' + 1) .. id' : c = k + 1
        BY <2>1, <3>1, <3>2, SMTT(30)
      <4> QED
        BY <3>8, <4>1
    <3> QED
      BY <1>2, <1>s, <2>1, <2>2, <3>1, <3>9, <3>10, <3>11, SMTT(30) DEF Searched
  <2> QED
    BY <2>4, <2>5
<1>7. CASE ForwardChar \/ ForwardDelim \/ ForwardEOL
  <2>1. UNCHANGED <<row, part, todo, from>> /\ pc = "forward" /\ pc' \in {"forward", "back"}
    BY <1>7 DEF ForwardChar, ForwardDelim, ForwardEOL, search
  <2> SUFFICES ASSUME Plain, SearchesOnce PROVE Searched'
    BY <1>2, <1>s, <2>1, Zenon DEF Searched
  <2>2. /\ \A j \in Sources : At(attr[j], j)
        /\ \A j \in Sources \ (todo \union {from}) : \A c \in From(j) : At(attr[c], c)
    BY <1>0, <2>1 DEF Searched
  <2>3. /\ Keeps
        /\ pc' = "forward" => /\ cur' \in 0 .. line.len /\ Number(cur') = id'
                             /\ \A c \in (from + 1) .. id' : Begins(attr'[c].pointer, c)
        /\ pc' = "back" => \A c \in Forward(from) : At(attr'[c], c)
    BY <1>7, ForwardFinds
  <2>4. /\ \A j \in Sources : At(attr'[j], j)
        /\ \A j \in Sources \ (todo \union {from}) : \A c \in From(j) : At(attr'[c], c)
    BY <1>c, <1>3, <2>1, <2>2, <2>3, Zenon DEF Keeps
  <2> QED
    BY <1>2, <1>s, <2>1, <2>3, <2>4 DEF Searched
<1>8. CASE ViaPMBackward
  <2>1. UNCHANGED <<row, part, todo, from, attr>> /\ pc = "back" /\ from \in Sources /\ from \in Cols
    BY <1>0, <1>8, SMTT(30) DEF ViaPMBackward, Counting, Typed
  <2> SUFFICES ASSUME Plain, SearchesOnce PROVE Searched'
    BY <1>2, <1>s, <2>1 DEF Searched
  <2>2. /\ \A j \in Sources : At(attr[j], j)
        /\ \A j \in Sources \ (todo \union {from}) : \A c \in From(j) : At(attr[c], c)
        /\ \A c \in Forward(from) : At(attr[c], c)
    BY <1>0, <2>1 DEF Searched
  <2>3. CASE Backward(from) = {}
    <3>1. pc' = "via"
      BY <1>8, <2>3, Zenon DEF ViaPMBackward
    <3>2. \A c \in From(from) : At(attr[c], c)
      BY <1>0, <2>1, <2>2, <2>3, FromSides
    <3>3. \A j \in Sources \ todo : \A c \in From(j) : At(attr[c], c)
      BY <2>2, <3>2, SMTT(30)
    <3> QED
      BY <1>2, <1>s, <2>1, <2>2, <3>1, <3>3 DEF Searched
  <2>4. CASE Backward(from) # {}
    <3>1. pc' = "backward" /\ cur' = attr[from].pointer - 2 /\ id' = from - 1
      BY <1>8, <2>4, Zenon DEF ViaPMBackward
    <3>2. attr[from] \in Positions /\ from \in Int /\ attr[from].pointer \in Int
      BY <1>0, <1>c, <2>1 DEF Positions, Cols
    <3>3. from > 0
      <4>1. PICK c \in Backward(from) : TRUE
        BY <2>4
      <4>2. c \in Cols /\ c < from
        BY <1>c, <4>1 DEF Backward
      <4> QED
        BY <3>2, <4>2 DEF Cols
    <3>4. Begins(attr[from].pointer, from)
      BY <2>1, <2>2, <3>2, <3>3, AtBegins
    <3>5. attr[from].pointer - 1 \in Separators /\ Number(attr[from].pointer - 1) = from - 1
      BY <1>0, <3>2, <3>3, <3>4, BeforeBeginning
    <3>6. cur' + 1 = attr[from].pointer - 1 /\ id' + 1 = from
      BY <3>1, <3>2
    <3>7. cur' + 1 \in 0 .. line.len /\ Number(cur' + 1) = id'
      <4>1. attr[from].pointer - 1 \in 0 .. line.len
        BY <1>0, <3>5, AroundSeparator DEF Ends
      <4> QED
        BY <3>1, <3>5, <3>6, <4>1
    <3>8. \A c \in (id' + 1) .. from' : Begins(attr'[c].pointer, c)
      <4>1. \A c \in (id' + 1) .. from' : c = from
        BY <2>1, <3>2, <3>6, SMTT(30)
      <4> QED
        BY <2>1, <3>4, <4>1
    <3> QED
      BY <1>2, <1>s, <2>1, <2>2, <3>1, <3>7, <3>8 DEF Searched
  <2> QED
    BY <2>3, <2>4
<1>9. CASE BackwardChar \/ BackwardDelim \/ BackwardBOL
  <2>1. UNCHANGED <<row, part, todo, from>> /\ pc = "backward" /\ pc' \in {"backward", "via"} /\ from \in Cols /\ from \in Sources
    BY <1>0, <1>9 DEF BackwardChar, BackwardDelim, BackwardBOL, search, Typed, Counting
  <2> SUFFICES ASSUME Plain, SearchesOnce PROVE Searched'
    BY <1>2, <1>s, <2>1, Zenon DEF Searched
  <2>2. /\ \A j \in Sources : At(attr[j], j)
        /\ \A j \in Sources \ (todo \union {from}) : \A c \in From(j) : At(attr[c], c)
        /\ \A c \in Forward(from) : At(attr[c], c)
    BY <1>0, <2>1 DEF Searched
  <2>3. /\ Keeps
        /\ pc' = "backward" => /\ cur' + 1 \in 0 .. line.len /\ Number(cur' + 1) = id'
                              /\ \A c \in (id' + 1) .. from : Begins(attr'[c].pointer, c)
        /\ pc' = "via" => \A c \in Backward(from) : At(attr'[c], c)
    BY <1>9, BackwardFinds
  <2>4. /\ \A j \in Sources : At(attr'[j], j)
        /\ \A j \in Sources \ (todo \union {from}) : \A c \in From(j) : At(attr'[c], c)
        /\ \A c \in Forward(from) : At(attr'[c], c)
    BY <1>c, <1>3, <2>1, <2>2, <2>3, Zenon DEF Keeps
  <2>5. ASSUME pc' = "via" PROVE \A j \in Sources \ todo : \A c \in From(j) : At(attr'[c], c)
    <3>1. \A c \in From(from) : At(attr'[c], c)
      BY <1>0, <2>1, <2>3, <2>4, <2>5, FromSides
    <3> QED
      BY <2>4, <3>1
  <2> QED
    BY <1>2, <1>s, <2>1, <2>3, <2>4, <2>5, SMTT(30) DEF Searched
<1>10. ASSUME NEW st \in Statements, StartRow(st) PROVE Searched'
  BY <1>1, <1>10, ZenonT(30) DEF StartRow
<1>11. CASE PartWithFile \/ CSVStep \/ ViaPMDone \/ ConvertStep \/ PartsDone \/ StorePositions
  BY <1>1, <1>11 DEF PartWithFile, CSVStep, PlainChar, OpenQuote, QuotedChar, UnterminatedField, EndField, NoDBGetValues,
                     ViaPMDone, ConvertStep, NoDBGetValuesWithPM, ConvertDone, PartsDone, StorePositions
<1>12. ASSUME NEW pass \in BOOLEAN, Filter(pass) PROVE Searched'
  BY <1>1, <1>12, SMTT(30) DEF Filter
<1> QED
  BY <1>4, <1>5, <1>6, <1>7, <1>8, <1>9, <1>10, <1>11, <1>12 DEF Next, RowStep, ViaStep

----------------------------------------------------------------------------
(* The pointer of the first field.                                         *)

\* The steps of the searches from stored positions.
SearchStep ==
    \/ \E k \in Cols : ViaPM(k)
    \/ ForwardChar \/ ForwardDelim \/ ForwardEOL
    \/ ViaPMBackward \/ BackwardChar \/ BackwardDelim \/ BackwardBOL

\* Which pointers a search writes: those of the fields to the right of a
\* stored position up to the one behind the last that is looked for, and on
\* the way back the one of the field it is in.
LEMMA PointersWritten ==
    ASSUME Counted,
           SearchStep,
           NEW c \in 0 .. NCols, attr'[c].pointer # attr[c].pointer
    PROVE  \/ \E f \in Sources : Forward(f) # {} /\ c \in (f + 1) .. (LastForward(f) + 1)
           \/ /\ pc = "backward" /\ c = id /\ Backward(from) # {} /\ c \in LastBackward(from) .. (from - 1)
              /\ BackwardDelim \/ attr'[c].pointer = 0
<1>0. /\ Typed /\ Counting /\ NCols \in Nat /\ line \in Lines
      /\ attr \in [0 .. NCols -> Positions] /\ id \in Int /\ howMany \in Int /\ cur \in Int
  BY FieldsAssumption DEF Counted, Typed
<1>1. ASSUME NEW j, NEW p, c # j PROVE [attr EXCEPT ![j].pointer = p][c].pointer = attr[c].pointer
  BY <1>0, <1>1
<1>2. ASSUME NEW p PROVE [attr EXCEPT ![c].pointer = p][c].pointer = p
  BY <1>0, <1>2 DEF Positions
<1>3. ASSUME NEW a \in [0 .. NCols -> Positions], NEW cols PROVE Widths(a, cols)[c].pointer = a[c].pointer
  <2>1. a[c] \in Positions
    OBVIOUS
  <2> QED
    BY <2>1 DEF Widths, Positions
<1>4. ASSUME NEW j \in 0 .. NCols, NEW p \in Int PROVE [attr EXCEPT ![j].pointer = p] \in [0 .. NCols -> Positions]
  BY <1>0, PositionTypes
<1>5. ASSUME NEW k \in Cols, ViaPM(k) PROVE \E f \in Sources : Forward(f) # {} /\ c \in (f + 1) .. (LastForward(f) + 1)
  <2>1. Forward(k) # {} /\ k \in Sources
    BY <1>0, <1>5 DEF ViaPM, Counting
  <2>2. c = k + 1
    <3>1. attr' = [attr EXCEPT ![k + 1].pointer = cur']
      BY <1>5, <2>1 DEF ViaPM
    <3> QED
      BY <1>1, <3>1, Zenon
  <2>3. LastForward(k) \in Forward(k) /\ Forward(k) \subseteq Cols
    BY <1>0, <2>1, SearchEnds, CollectCols DEF Forward, From
  <2>4. LastForward(k) > k /\ LastForward(k) \in Int /\ k \in Int
    BY <1>0, <2>3 DEF Forward, Cols
  <2> QED
    BY <2>1, <2>2, <2>4
<1>6. CASE ForwardDelim \/ ForwardEOL
  <2>1. pc = "forward" /\ from \in Sources /\ Forward(from) # {} /\ howMany >= 1
        /\ id + howMany = LastForward(from) + 1 /\ id >= from + 1
    BY <1>0, <1>6 DEF ForwardDelim, ForwardEOL, Counting
  <2>2. LastForward(from) \in Int /\ LastForward(from) <= NCols - 1 /\ from \in Int
    BY <1>0, <2>1, SearchEnds, CollectCols DEF Forward, From, Cols, Typed
  <2>3. id + 1 \in (from + 1) .. (LastForward(from) + 1) /\ id + 1 \in 0 .. NCols
    BY <1>0, <2>1, <2>2 DEF Typed
  <2>4. c = id + 1
    <3>1. PICK p \in Int : attr' \in {[attr EXCEPT ![id + 1].pointer = p], WidthsForward([attr EXCEPT ![id + 1].pointer = p])}
      <4>1. cur + 1 \in Int /\ line.len + 1 \in Int
        BY <1>0, Numbers
      <4>2. CASE ForwardDelim
        <5>1. LET found == [attr EXCEPT ![id + 1].pointer = cur + 1] IN attr' = found \/ attr' = WidthsForward(found)
          BY <4>2, Zenon DEF ForwardDelim
        <5> QED
          BY <4>1, <5>1, Zenon
      <4>3. CASE ForwardEOL
        BY <4>1, <4>3, Zenon DEF ForwardEOL
      <4> QED
        BY <1>6, <4>2, <4>3, Zenon
    <3>2. attr'[c].pointer = [attr EXCEPT ![id + 1].pointer = p][c].pointer
      BY <1>3, <1>4, <2>3, <3>1, Zenon DEF WidthsForward
    <3> QED
      BY <1>1, <3>2
  <2> QED
    BY <2>1, <2>3, <2>4
<1>7. CASE BackwardDelim \/ BackwardBOL
  <2>1. pc = "backward" /\ from \in Sources /\ Backward(from) # {} /\ howMany >= 1
        /\ id = LastBackward(from) + howMany - 1 /\ id <= from - 1
    BY <1>0, <1>7 DEF BackwardDelim, BackwardBOL, Counting
  <2>2. LastBackward(from) \in Int /\ from \in Int
    BY <1>0, <2>1, SearchEnds, CollectCols DEF Backward, From, Cols, Typed
  <2>3. id \in LastBackward(from) .. (from - 1) /\ id \in 0 .. NCols
    BY <1>0, <2>1, <2>2 DEF Typed
  <2>4. PICK p \in Int : /\ attr' \in {[attr EXCEPT ![id].pointer = p], WidthsBackward([attr EXCEPT ![id].pointer = p])}
                         /\ BackwardDelim \/ p = 0
    <3>1. cur + 1 \in Int
      BY <1>0 DEF Typed
    <3>2. CASE BackwardDelim
      BY <3>1, <3>2, Zenon DEF BackwardDelim
    <3>3. CASE BackwardBOL
      <4>1. 0 \in Int
        OBVIOUS
      <4> QED
        BY <3>3, <4>1, Zenon DEF BackwardBOL
    <3> QED
      BY <1>7, <3>2, <3>3, Zenon
  <2>5. attr'[c].pointer = [attr EXCEPT ![id].pointer = p][c].pointer
    BY <1>3, <1>4, <2>3, <2>4, Zenon DEF WidthsBackward
  <2>6. c = id
    BY <1>1, <2>5
  <2> QED
    BY <1>2, <2>1, <2>3, <2>4, <2>5, <2>6
<1>8. CASE ForwardChar \/ ViaPMBackward \/ BackwardChar
  BY <1>8 DEF ForwardChar, ViaPMBackward, BackwardChar
<1> QED
  BY <1>5, <1>6, <1>7, <1>8, Zenon DEF SearchStep

\* None of them is the pointer of a stored position that fields to its left
\* are looked for from: these are closer to no other one.
LEMMA SearchesApart ==
    ASSUME Typed, Strategic, pc # "idle", Sources \subseteq Known, NEW k \in Sources, Backward(k) # {}, NEW f \in Sources
    PROVE  /\ Forward(f) # {} => k \notin (f + 1) .. (LastForward(f) + 1)
           /\ Backward(f) # {} => k \notin LastBackward(f) .. (f - 1)
<1>0. f \in Known /\ k \in Known /\ f \in Int /\ k \in Int /\ Known # {}
  BY CollectCols DEF Typed
<1>1. \A c \in Cols : c \in Int /\ \A o \in Known : Abs(c - near[c]) <= Abs(c - o)
  BY <1>0, CollectCols DEF Strategic, Closest
<1>2. PICK d \in Cols : near[d] = k /\ d < k
  BY CollectCols DEF Backward, From
<1>3. ASSUME Forward(f) # {} PROVE k \notin (f + 1) .. (LastForward(f) + 1)
  <2> DEFINE c == LastForward(f)
  <2>1. c \in Cols /\ near[c] = f /\ c > f
    BY <1>3, SearchEnds, CollectCols, Zenon DEF Forward, From
  <2> HIDE DEF c
  <2>2. c \in Int /\ d \in Int /\ Abs(c - f) <= Abs(c - k) /\ Abs(d - k) <= Abs(d - f)
    BY <1>0, <1>1, <1>2, <2>1
  <2>3. c # d \/ f = k
    BY <1>2, <2>1
  <2>4. k \notin (f + 1) .. (c + 1)
    BY <1>0, <1>2, <2>1, <2>2, <2>3 DEF Abs
  <2> QED
    BY <2>4 DEF c
<1>4. ASSUME Backward(f) # {} PROVE k \notin LastBackward(f) .. (f - 1)
  <2> DEFINE c == LastBackward(f)
  <2>1. c \in Cols /\ near[c] = f /\ c < f
    BY <1>4, SearchEnds, CollectCols, Zenon DEF Backward, From
  <2> HIDE DEF c
  <2>2. c \in Int /\ Abs(c - f) <= Abs(c - k)
    BY <1>0, <1>1, <2>1
  <2>3. k \notin c .. (f - 1)
    BY <1>0, <2>1, <2>2 DEF Abs
  <2> QED
    BY <2>3 DEF c
<1> QED
  BY <1>3, <1>4

\* What a search to the left sees of a plain line are its characters, as
\* long as they have not been cut out.
LEMMA SeenCharacters ==
    ASSUME line \in Lines, Plain, CutText, NEW p \in Int
    PROVE  /\ CharAt(p) = Delim => p \in Separators
           /\ CharAt(p) # Back
<1>1. Delim # Nul /\ Back # Nul
  BY FieldsAssumption
<1>2. ASSUME CharAt(p) # Nul PROVE p \in 0 .. (line.len - 1) /\ CharAt(p) = line.at[p]
  BY <1>2 DEF CharAt, CutText
<1>3. ASSUME CharAt(p) = Delim PROVE p \in Separators
  BY <1>1, <1>2, <1>3, PlainSeparators
<1>4. CharAt(p) # Back
  BY <1>1, <1>2 DEF Plain
<1> QED
  BY <1>3, <1>4

\* A search to the left begins before a field whose beginning is known, and
\* sees no more delimiters than there are fields before that one.
LEMMA NextReturned == Counted /\ CutText /\ Returned /\ PositionsTrue /\ [Next]_vars => Returned'
<1> SUFFICES ASSUME Counted, CutText, Returned, PositionsTrue, [Next]_vars PROVE Returned'
  OBVIOUS
<1>0. Typed /\ Strategic /\ Counting /\ line \in Lines /\ attr \in [0 .. NCols -> Positions] /\ cur \in Int /\ id \in Int
  BY DEF Counted, Typed
<1>s. /\ line' = line /\ (Plain' <=> Plain) /\ (\A p : Number(p)' = Number(p))
      /\ (\A p, c : Begins(p, c)' <=> Begins(p, c))
  BY LineStays, SameLine
<1>n. \A p \in Int : Number(p) \in Nat
  BY <1>0, Numbers
<1>1. ASSUME pc' \notin {"via", "forward", "back", "backward"} PROVE Returned'
  BY <1>1 DEF Returned
<1>2. ASSUME UNCHANGED <<row, part>> PROVE Sources' = Sources /\ \A k : Backward(k)' = Backward(k)
  BY <1>2, SameStrategy
<1>3. ASSUME NEW k, Backward(k) # {}, k \in Known PROVE k \in 0 .. NCols /\ k \in Int /\ k > 0
  <2>1. PICK c \in Backward(k) : TRUE
    BY <1>3
  <2>2. c \in Cols /\ c < k
    BY <1>0, <2>1, CollectCols DEF Backward, From
  <2> QED
    BY <1>0, <1>3, <2>2, CollectCols DEF Cols, Typed
<1>4. CASE UNCHANGED vars
  <2>1. UNCHANGED <<row, part>> /\ pc' = pc /\ attr' = attr /\ cur' = cur /\ id' = id
    BY <1>4 DEF vars, search
  <2> QED
    BY <1>2, <1>s, <2>1 DEF Returned
<1>5. CASE PartWithPM
  <2>1. /\ UNCHANGED <<row, part>> /\ pc' = "via" /\ pc = "part"
        /\ attr' = [c \in 0 .. NCols |-> IF c \in Sources THEN pm[c] ELSE attr[c]]
    BY <1>5 DEF PartWithPM
  <2>2. Sources \subseteq Known
    BY <1>0, <1>5, <2>1, SourcesKnown DEF PartWithPM
  <2>3. ASSUME Plain, NEW k \in Sources, Backward(k) # {} PROVE Begins(attr'[k].pointer, k)
    <3>1. k \in Known /\ k \in 0 .. NCols /\ k \in Int /\ k > 0
      BY <1>3, <2>2, <2>3
    <3>2. attr'[k] = pm[k] /\ At(pm[k], k)
      BY <2>1, <2>3, <3>1 DEF PositionsTrue
    <3> QED
      BY <3>1, <3>2, AtBegins
  <2> QED
    BY <1>2, <1>s, <2>1, <2>3 DEF Returned
<1>6. ASSUME SearchStep PROVE Returned'
  <2>1. UNCHANGED <<row, part>> /\ pc \in {"via", "forward", "back", "backward"}
    BY <1>6 DEF SearchStep, ViaPM, ForwardChar, ForwardDelim, ForwardEOL, ViaPMBackward, BackwardChar, BackwardDelim, BackwardBOL
  <2> SUFFICES ASSUME Plain
               PROVE  /\ \A k \in Sources : Backward(k) # {} => Begins(attr'[k].pointer, k)
                      /\ pc' = "backward" => Number(cur' + 1) <= id'
    BY <1>2, <1>s, <2>1 DEF Returned
  <2>2. Sources \subseteq Known /\ (pc \in {"back", "backward"} => from \in Sources)
    BY <1>0, <2>1 DEF Counting
  <2>3. ASSUME NEW k \in Sources, Backward(k) # {} PROVE Begins(attr[k].pointer, k)
    BY <2>1, <2>3 DEF Returned
  <2>4. ASSUME NEW k \in Sources, Backward(k) # {} PROVE attr'[k].pointer = attr[k].pointer
    <3>1. k \in 0 .. NCols /\ pc # "idle"
      BY <1>3, <2>1, <2>2, <2>4
    <3>2. ASSUME NEW f \in Sources
          PROVE  /\ Forward(f) # {} => k \notin (f + 1) .. (LastForward(f) + 1)
                 /\ Backward(f) # {} => k \notin LastBackward(f) .. (f - 1)
      BY <1>0, <2>2, <2>4, <3>1, SearchesApart, Zenon
    <3> SUFFICES ASSUME attr'[k].pointer # attr[k].pointer PROVE FALSE
      OBVIOUS
    <3>3. \/ \E f \in Sources : Forward(f) # {} /\ k \in (f + 1) .. (LastForward(f) + 1)
          \/ /\ pc = "backward" /\ k = id /\ Backward(from) # {} /\ k \in LastBackward(from) .. (from - 1)
             /\ BackwardDelim \/ attr'[k].pointer = 0
      BY <1>6, <3>1, PointersWritten, Zenon
    <3>4. pc = "backward" => from \in Sources
      BY <2>2
    <3> QED
      BY <3>2, <3>3, <3>4, Zenon
  <2>5. ASSUME pc' = "backward" PROVE Number(cur' + 1) <= id'
    <3>1. CASE ViaPMBackward
      <4>1. Backward(from) # {} /\ cur' = attr[from].pointer - 2 /\ id' = from - 1 /\ from \in Sources
        BY <2>2, <2>5, <3>1, Zenon DEF ViaPMBackward
      <4>2. from \in 0 .. NCols /\ from \in Int /\ from > 0 /\ from \in Known
        BY <1>3, <2>2, <4>1
      <4>3. Number(attr[from].pointer - 1) = from - 1
        BY <1>0, <2>3, <4>1, <4>2, BeforeBeginning
      <4>4. attr[from].pointer \in Int
        BY <1>0, <4>2 DEF Positions
      <4>5. cur' + 1 = attr[from].pointer - 1
        BY <4>1, <4>4
      <4> QED
        BY <4>1, <4>2, <4>3, <4>5
    <3>2. CASE BackwardChar
      <4>1. cur' = cur - 1 /\ id' = id /\ pc = "backward"
        BY <1>0, <3>2, SeenCharacters DEF BackwardChar
      <4>2. Number(cur) <= Number(cur + 1) /\ Number(cur + 1) <= id /\ cur' + 1 = cur
        BY <1>0, <4>1, Numbers DEF Returned
      <4> QED
        BY <1>0, <1>n, <4>1, <4>2
    <3>3. CASE BackwardDelim
      <4>1. cur' = cur - 1 /\ id' = id - 1 /\ pc = "backward" /\ cur \in Separators
        BY <1>0, <2>5, <3>3, SeenCharacters DEF BackwardDelim
      <4>2. Number(cur + 1) = Number(cur) + 1 /\ Number(cur + 1) <= id /\ cur' + 1 = cur
        BY <1>0, <4>1, Numbers DEF Returned
      <4> QED
        BY <1>0, <1>n, <4>1, <4>2
    <3> QED
      BY <1>6, <2>5, <3>1, <3>2, <3>3 DEF SearchStep, ViaPM, ForwardChar, ForwardDelim, ForwardEOL, BackwardBOL
  <2> QED
    BY <2>3, <2>4, <2>5
<1>7. ASSUME NEW st \in Statements, StartRow(st) PROVE Returned'
  BY <1>1, <1>7, ZenonT(30) DEF StartRow
<1>8. CASE PartWithFile \/ CSVStep \/ ViaPMDone \/ ConvertStep \/ PartsDone \/ StorePositions
  BY <1>1, <1>8 DEF PartWithFile, CSVStep, PlainChar, OpenQuote, QuotedChar, UnterminatedField, EndField, NoDBGetValues,
                    ViaPMDone, ConvertStep, NoDBGetValuesWithPM, ConvertDone, PartsDone, StorePositions
<1>9. ASSUME NEW pass \in BOOLEAN, Filter(pass) PROVE Returned'
  BY <1>1, <1>9, SMTT(30) DEF Filter
<1> QED
  BY <1>4, <1>5, <1>6, <1>7, <1>8, <1>9, Zenon DEF Next, RowStep, ViaStep, SearchStep

\* In a file of plain lines attributes[0].pointer is never moved: a search
\* to the left has no delimiter left to find when it is in the first field.
LEMMA NextFirstPointer ==
    Counted /\ CutText /\ Returned /\ FirstPointer /\ PositionsTrue /\ [Next]_vars => FirstPointer'
<1> SUFFICES ASSUME Counted, CutText, Returned, FirstPointer, PositionsTrue, [Next]_vars, Plain', ~odd' PROVE attr'[0].pointer = 0
  BY DEF FirstPointer
<1>0. /\ Typed /\ Strategic /\ Counting /\ line \in Lines /\ attr \in [0 .. NCols -> Positions] /\ cur \in Int
      /\ id \in Nat /\ NCols \in Nat /\ 0 \in 0 .. NCols
  BY FieldsAssumption DEF Counted, Typed
<1>1. line' = line /\ Plain /\ ~odd /\ attr[0].pointer = 0
  BY LineStays, SameLine DEF FirstPointer
<1>2. ASSUME attr' = attr PROVE attr'[0].pointer = 0
  BY <1>1, <1>2
<1>3. CASE PartWithPM
  <2>1. attr'[0] = IF 0 \in Sources THEN pm[0] ELSE attr[0]
    BY <1>0, <1>3 DEF PartWithPM
  <2>2. ASSUME 0 \in Sources PROVE pm[0].pointer = 0
    <3>1. 0 \in Known
      BY <1>0, <1>3, <2>2, SourcesKnown DEF PartWithPM
    <3>2. Begins(pm[0].pointer, 0)
      BY <1>1, <3>1 DEF PositionsTrue, At
    <3>3. Begins(0, 0)
      BY <1>0, Numbers DEF Begins
    <3> QED
      BY <1>0, <3>2, <3>3, OneBeginning
  <2> QED
    BY <1>1, <2>1, <2>2
<1>4. ASSUME SearchStep PROVE attr'[0].pointer = 0
  <2> SUFFICES ASSUME attr'[0].pointer # 0 PROVE FALSE
    OBVIOUS
  <2>1. \/ \E f \in Sources : Forward(f) # {} /\ 0 \in (f + 1) .. (LastForward(f) + 1)
        \/ /\ pc = "backward" /\ 0 = id /\ Backward(from) # {} /\ 0 \in LastBackward(from) .. (from - 1)
           /\ BackwardDelim \/ attr'[0].pointer = 0
    <3>1. attr'[0].pointer # attr[0].pointer
      BY <1>1
    <3> QED
      BY <1>0, <1>4, <3>1, PointersWritten, Zenon
  <2>2. pc \in {"via", "forward", "back", "backward"}
    BY <1>4 DEF SearchStep, ViaPM, ForwardChar, ForwardDelim, ForwardEOL, ViaPMBackward, BackwardChar, BackwardDelim, BackwardBOL
  <2>3. Sources \subseteq Nat
    <3>1. Sources \subseteq Known /\ Known \subseteq Cols
      BY <1>0, <2>2 DEF Counting, Typed
    <3> QED
      BY <1>0, <3>1 DEF Cols
  <2>4. pc = "backward" /\ id = 0 /\ BackwardDelim
    <3>1. ASSUME NEW f \in Nat, NEW m PROVE 0 \notin (f + 1) .. m
      OBVIOUS
    <3> QED
      BY <2>1, <2>3, <3>1
  <2>5. cur \in Separators
    BY <1>0, <1>1, <2>4, SeenCharacters DEF BackwardDelim
  <2>6. Number(cur + 1) = Number(cur) + 1 /\ Number(cur) \in Nat /\ Number(cur + 1) <= id
    BY <1>0, <1>1, <2>4, <2>5, Numbers DEF Returned
  <2> QED
    BY <2>4, <2>6
<1>5. CASE EndField
  <2>1. id + 1 # 0 /\ attr[0] \in Positions
    BY <1>0
  <2>2. attr' = [attr EXCEPT ![id + 1].pointer = cur + 1, ![id].width = cur - attr[id].pointer]
    BY <1>5 DEF EndField
  <2>3. attr'[0].pointer = attr[0].pointer
    BY <1>0, <2>1, <2>2 DEF Positions
  <2> QED
    BY <1>1, <2>3
<1>6. ASSUME NEW st \in Statements, StartRow(st) PROVE attr'[0].pointer = 0
  <2>1. PICK first \in FirstPointers : attr' = FreshAttributes(first)
    BY <1>6, Zenon DEF StartRow
  <2>2. first = 0
    BY <1>1, <2>1 DEF FirstPointers
  <2> QED
    BY <1>0, <2>1, <2>2 DEF FreshAttributes
<1>7. ASSUME NEW pass \in BOOLEAN, Filter(pass) PROVE attr'[0].pointer = 0
  BY <1>2, <1>7 DEF Filter
<1>8. ASSUME NEW c \in Cols, NoDBGetValuesWithPM(c) PROVE attr'[0].pointer = 0
  BY <1>2, <1>8, Zenon DEF NoDBGetValuesWithPM
<1>9. CASE \/ PartWithFile \/ PlainChar \/ OpenQuote \/ QuotedChar \/ UnterminatedField \/ NoDBGetValues
           \/ ViaPMDone \/ ConvertDone \/ PartsDone \/ StorePositions \/ UNCHANGED vars
  BY <1>2, <1>9, ZenonT(30) DEF PartWithFile, PlainChar, OpenQuote, QuotedChar, UnterminatedField, NoDBGetValues,
                                ViaPMDone, ConvertDone, PartsDone, StorePositions, vars
<1> QED
  BY <1>3, <1>4, <1>5, <1>6, <1>7, <1>8, <1>9, ZenonT(30) DEF Next, RowStep, CSVStep, ViaStep, SearchStep, ConvertStep

----------------------------------------------------------------------------
(* The invariant, and what follows from it.                                *)

\* A row begins with nothing found and nothing stored.
LEMMA InitFound == Init => Found
<1> SUFFICES ASSUME Init PROVE Found
  OBVIOUS
<1>1. pc = "idle" /\ Known = {}
  BY DEF Init, Known
<1>2. FirstPointer
  <2>1. 0 \in 0 .. NCols
    BY FieldsAssumption
  <2> QED
    BY <2>1 DEF Init, FreshAttributes, FirstPointer
<1>3. CutText
  <2>1. text = Buffer(line) /\ line.len \in Nat
    BY FieldsAssumption DEF Init
  <2> QED
    BY <2>1 DEF CutText, Buffer
<1>4. Counted
  BY InitCounted
<1> QED
  BY <1>1, <1>2, <1>3, <1>4, Zenon DEF Found, Intact, Returned, Parsed, Searched, Ready, PositionsTrue

\* Every step keeps what has been found.
LEMMA NextFound == Found /\ [Next]_vars => Found'
<1> SUFFICES ASSUME Found, [Next]_vars PROVE Found'
  OBVIOUS
<1>1. Counted' /\ Intact' /\ CutText'
  BY NextCounted, NextIntact, NextCutText DEF Found
<1>2. Returned' /\ FirstPointer' /\ Parsed'
  BY NextReturned, NextFirstPointer, NextParsed DEF Found
<1>3. Searched' /\ Ready' /\ PositionsTrue'
  BY NextSearched, NextReady
<1> QED
  BY <1>1, <1>2, <1>3 DEF Found

\* Whatever statements read a line without quotes and backslashes, in
\* whatever order, the positions they store for it are those of its fields
\* (NoDBCopyReadAttributesCSV, parseLineForward and parseLineBackward agree
\* on where fields are).  In a file with other lines the beginning of the
\* first field is not among them: attributes[0].pointer is set once for each
\* scan, and one of those lines may have moved it.
THEOREM StoredPositionsAreTrue == Spec => []PositionsTrue
<1>1. Found => PositionsTrue
  BY DEF Found
<1> QED
  BY <1>1, InitFound, NextFound, PTL DEF Spec

\* parseLineBackward comes to the beginning of such a line in the first
\* attribute and with nothing else to find, as its comment has it.
THEOREM BeginningIsFirstAttribute == Spec => []FirstAttribute
<1>1. Found => FirstAttribute
  <2> SUFFICES ASSUME Found, pc = "backward", cur < 0, Plain, SearchesOnce PROVE id = 0 /\ howMany = 1
    BY DEF FirstAttribute
  <2>1. Typed /\ Counting /\ Searched /\ line \in Lines
    BY DEF Found, Counted, Typed
  <2>2. cur + 1 \in 0 .. line.len /\ Number(cur + 1) = id /\ cur \in Int /\ line.len \in Nat
    BY <2>1, Numbers DEF Searched, Typed
  <2>3. cur + 1 = 0
    BY <2>2
  <2>4. id = 0
    BY <2>1, <2>2, <2>3, Numbers
  <2>5. Backward(from) # {} /\ howMany >= 1 /\ id = LastBackward(from) + howMany - 1 /\ howMany \in Int
    BY <2>1 DEF Counting, Typed
  <2>6. LastBackward(from) \in Int /\ LastBackward(from) >= 0
    BY <2>1, <2>5, SearchEnds, CollectCols DEF Backward, From, Cols
  <2> QED
    BY <2>4, <2>5, <2>6
<1> QED
  BY <1>1, InitFound, NextFound, PTL DEF Spec

=============================================================================
