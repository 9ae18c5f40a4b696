---------------------------- MODULE FieldsParsed ----------------------------
(***************************************************************************)
(* The fields of a line without quotes and backslashes: what is found when *)
(* it is parsed from its beginning, and what is stored of it.              *)
(***************************************************************************)
EXTENDS FieldsProofs

----------------------------------------------------------------------------
(* Counting separators.                                                    *)

\* The number of separators before a position.
LEMMA Numbers ==
    ASSUME line \in Lines
    PROVE  /\ line.len \in Nat /\ IsFiniteSet(Separators) /\ Cardinality(Separators) \in Nat
           /\ \A p \in Int : Number(p) \in Nat
           /\ Number(0) = 0 /\ Number(line.len) = Cardinality(Separators)
           /\ \A p, r \in Int : p <= r => Number(p) <= Number(r)
           /\ \A p \in Int : p \in Separators => Number(p + 1) = Number(p) + 1
           /\ \A p \in Int : p \notin Separators => Number(p + 1) = Number(p)
           /\ Separators \subseteq 0 .. (line.len - 1)
<1> DEFINE Before(p) == {s \in Separators : s < p}
<1>1. line.len \in Nat
  BY FieldsAssumption
<1>2. Separators \subseteq 0 .. (line.len - 1)
  BY DEF Separators
<1>s. \A s \in Separators : s \in Int /\ 0 <= s /\ s < line.len
  BY <1>1, <1>2
<1>3. IsFiniteSet(Separators)
  <2>1. IsFiniteSet(0 .. (line.len - 1))
    BY <1>1, FS_Interval
  <2> QED
    BY <1>2, <2>1, FS_Subset, Zenon
<1>4. ASSUME NEW p \in Int PROVE IsFiniteSet(Before(p))
  BY <1>3, FS_Subset
<1>5. ASSUME NEW p \in Int PROVE Number(p) = Cardinality(Before(p)) /\ Number(p) \in Nat
  BY <1>4, FS_CardinalityType DEF Number
<1>6. Cardinality(Separators) \in Nat
  BY <1>3, FS_CardinalityType
<1>7. Number(0) = 0
  <2>1. Before(0) = {}
    BY <1>s
  <2> QED
    BY <2>1, <1>5, FS_EmptySet
<1>8. Number(line.len) = Cardinality(Separators)
  <2>1. Before(line.len) = Separators
    BY <1>s
  <2> QED
    BY <1>1, <2>1, <1>5
<1>9. ASSUME NEW p \in Int, NEW r \in Int, p <= r PROVE Number(p) <= Number(r)
  <2>1. Before(p) \subseteq Before(r)
    BY <1>s, <1>9
  <2>2. Cardinality(Before(p)) <= Cardinality(Before(r))
    BY <1>4, <2>1, FS_Subset
  <2> QED
    BY <1>5, <2>2
<1>10. ASSUME NEW p \in Int, p \in Separators PROVE Number(p + 1) = Number(p) + 1
  <2>1. Before(p + 1) = Before(p) \union {p} /\ p \notin Before(p)
    <3>1. ~(p < p) /\ \A s \in Separators : s < p + 1 <=> s < p \/ s = p
      BY <1>s
    <3> QED
      BY <1>10, <3>1, Zenon
  <2>2. Cardinality(Before(p) \union {p}) = Cardinality(Before(p)) + 1
    BY <1>4, <2>1, FS_AddElement
  <2> QED
    BY <1>5, <2>1, <2>2
<1>11. ASSUME NEW p \in Int, p \notin Separators PROVE Number(p + 1) = Number(p)
  <2>1. Before(p + 1) = Before(p)
    BY <1>s, <1>11
  <2>2. p + 1 \in Int
    OBVIOUS
  <2>3. Number(p + 1) = Cardinality(Before(p + 1)) /\ Number(p) = Cardinality(Before(p))
    BY <1>5, <2>2
  <2> QED
    BY <2>1, <2>3
<1> QED
  BY <1>1, <1>2, <1>3, <1>5, <1>6, <1>7, <1>8, <1>9, <1>10, <1>11, Zenon

\* A field begins in one place only, and ends after it has begun.
LEMMA OneBeginning ==
    ASSUME line \in Lines, NEW c, NEW p, Begins(p, c)
    PROVE  /\ \A r : Begins(r, c) => r = p
           /\ \A e : Ends(e, c) => p <= e
<1>1. ASSUME NEW r \in 0 .. line.len, NEW s \in 0 .. line.len, r < s, s - 1 \in Separators
      PROVE  Number(r) # Number(s)
  <2>1. r \in Int /\ s \in Int /\ s - 1 \in Int /\ r <= s - 1 /\ s - 1 + 1 = s
    BY <1>1, Numbers
  <2>2. Number(r) <= Number(s - 1) /\ Number(s) = Number(s - 1) + 1 /\ Number(r) \in Nat /\ Number(s - 1) \in Nat
    BY <1>1, <2>1, Numbers
  <2> QED
    BY <2>2
<1>2. line.len \in Nat
  BY Numbers
<1>3. ASSUME NEW r, Begins(r, c) PROVE r = p
  <2>1. CASE r < p
    BY <1>1, <1>2, <1>3, <2>1 DEF Begins
  <2>2. CASE p < r
    BY <1>1, <1>2, <1>3, <2>2 DEF Begins
  <2> QED
    BY <1>2, <1>3, <2>1, <2>2 DEF Begins
<1>4. ASSUME NEW e, Ends(e, c) PROVE p <= e
  <2>1. CASE e < p
    BY <1>1, <1>2, <1>4, <2>1 DEF Begins, Ends
  <2> QED
    BY <1>2, <1>4, <2>1 DEF Begins, Ends
<1> QED
  BY <1>3, <1>4

\* The position of a field that is not the first has its beginning.
LEMMA AtBegins ==
    ASSUME NEW c \in Int, c > 0, NEW pair, At(pair, c)
    PROVE  Begins(pair.pointer, c)
BY DEF At

\* It stays what it is when its beginning is found again.
LEMMA FoundAgain ==
    ASSUME line \in Lines, NEW c \in Int, c > 0, NEW pair, At(pair, c), NEW p, Begins(p, c)
    PROVE  p = pair.pointer
BY AtBegins, OneBeginning

\* A separator ends a field and has the next one behind it.
LEMMA AroundSeparator ==
    ASSUME line \in Lines, NEW p \in Separators
    PROVE  /\ Ends(p, Number(p)) /\ Begins(p + 1, Number(p) + 1)
           /\ p + 1 \in 0 .. line.len /\ Number(p + 1) = Number(p) + 1
<1>1. p \in Int /\ p \in 0 .. (line.len - 1) /\ line.len \in Nat
  BY Numbers
<1>2. p \in 0 .. line.len /\ p + 1 \in 0 .. line.len /\ (p + 1) - 1 = p
  BY <1>1
<1>3. Number(p + 1) = Number(p) + 1
  BY <1>1, Numbers
<1>4. (p + 1) - 1 \in Separators
  BY <1>2
<1>5. Begins(p + 1, Number(p) + 1)
  BY <1>2, <1>3, <1>4 DEF Begins
<1> QED
  BY <1>2, <1>3, <1>5 DEF Ends

\* So the field before one that is not the first ends at a separator.
LEMMA BeforeBeginning ==
    ASSUME line \in Lines, NEW c \in Int, c > 0, NEW p, Begins(p, c)
    PROVE  p - 1 \in Separators /\ Ends(p - 1, c - 1) /\ Number(p - 1) = c - 1
<1>1. p \in Int /\ p \in 0 .. line.len /\ line.len \in Nat
  BY Numbers DEF Begins
<1>2. p # 0
  BY Numbers DEF Begins
<1>3. p - 1 \in Separators
  BY <1>2 DEF Begins
<1>4. p - 1 + 1 = p /\ Number(p - 1) \in Nat
  BY <1>1, Numbers
<1>5. Number(p) = Number(p - 1) + 1
  BY <1>3, <1>4, AroundSeparator
<1>6. Number(p - 1) = c - 1
  BY <1>4, <1>5 DEF Begins
<1> QED
  BY <1>3, <1>6, AroundSeparator

\* Where there are no quotes, every delimiter separates fields.
LEMMA PlainSeparators ==
    ASSUME line \in Lines, Plain
    PROVE  /\ \A p \in 0 .. (line.len - 1) : p \in Separators <=> line.at[p] = Delim
           /\ Number(line.len) = NCols - 1
<1>1. line.len \in Nat
  BY Numbers
<1>2. ASSUME NEW p \in 0 .. (line.len - 1) PROVE p \in Separators <=> line.at[p] = Delim
  <2>1. {i \in 0 .. (p - 1) : line.at[i] = Quote} = {}
    BY <1>1 DEF Plain
  <2>2. Quotes(p) = 0
    BY <2>1, FS_EmptySet DEF Quotes
  <2> QED
    BY <2>2 DEF Separators
<1> QED
  BY <1>2, Numbers DEF Plain, Complete

----------------------------------------------------------------------------
(* The positions of the fields of a plain line.                            *)

\* The line in the buffer is whole until the first fields are cut out of it.
Intact ==
    pc \in {"part", "field", "quoted", "via", "forward", "back", "backward"} /\ part = FirstPart => text = Buffer(line)

\* The first field begins where the line does, in a file of plain lines.
FirstPointer == Plain /\ ~odd => attr[0].pointer = 0

\* What is left in the buffer is what was there.
CutText == \A p \in DOMAIN text : text[p] # Nul => p \in 0 .. (line.len - 1) /\ text[p] = line.at[p]

\* A search to the left begins at a field; it passes no more delimiters than
\* there are fields before it, even if some have been cut out.
Returned ==
    Plain =>
        /\ pc \in {"via", "forward", "back", "backward"} =>
              \A k \in Sources : Backward(k) # {} => Begins(attr[k].pointer, k)
        /\ pc = "backward" => Number(cur + 1) <= id

\* The parser of CSV: the fields it has left behind, and the one it is in.
Parsed ==
    /\ pc \in {"field", "quoted"} => Collect # {}
    /\ Plain /\ part = FirstPart =>
          /\ pc # "quoted"
          /\ pc = "field" =>
                /\ cur \in 0 .. line.len /\ Number(cur) = id
                /\ (id = 0 /\ odd) \/ Begins(attr[id].pointer, id)
                /\ \A c \in 0 .. (id - 1) : At(attr[c], c)

\* The searches: the fields found so far.
Searched ==
    Plain /\ SearchesOnce =>
        /\ pc \in {"via", "forward", "back", "backward"} => \A k \in Sources : At(attr[k], k)
        /\ pc = "via" => \A k \in Sources \ todo : \A c \in From(k) : At(attr[c], c)
        /\ pc \in {"forward", "back", "backward"} =>
              \A k \in Sources \ (todo \union {from}) : \A c \in From(k) : At(attr[c], c)
        /\ pc \in {"back", "backward"} => \A c \in Forward(from) : At(attr[c], c)
        /\ pc = "forward" =>
              /\ cur \in 0 .. line.len /\ Number(cur) = id
              /\ \A c \in (from + 1) .. id : Begins(attr[c].pointer, c)
        /\ pc = "backward" =>
              /\ cur + 1 \in 0 .. line.len /\ Number(cur + 1) = id
              /\ \A c \in (id + 1) .. from : Begins(attr[c].pointer, c)

\* What is to be stored has been found.
Ready ==
    Plain /\ (pc \in {"values", "convert", "done", "store"} \/ (pc # "idle" /\ part # FirstPart)) =>
        \A c \in AddPM : At(attr[c], c)

Found == Counted /\ Intact /\ CutText /\ Returned /\ FirstPointer /\ Parsed /\ Searched /\ Ready /\ PositionsTrue

\* A statement that searches once searches the whole line.
LEMMA SearchIntact ==
    ASSUME Counted, Intact, SearchesOnce, pc \in {"forward", "backward"}
    PROVE  text = Buffer(line) /\ part = FirstPart
<1>0. Typed /\ Strategic /\ Counting
  BY DEF Counted
<1>1. Collect \subseteq q.all /\ q.all \subseteq Cols /\ Cols \subseteq Int
  BY <1>0, CollectCols
<1>2. \E c \in Collect : near[c] = from /\ c # from
  <2>1. Forward(from) # {} \/ Backward(from) # {}
    BY <1>0 DEF Counting
  <2>2. from \in Int
    BY <1>0, <1>1 DEF Typed
  <2> QED
    BY <1>1, <2>1, <2>2 DEF Forward, Backward, From
<1>3. ASSUME part # FirstPart PROVE FALSE
  <2>1. CASE q.write
    BY <1>2, <1>3, <2>1 DEF Collect, Convert, ConvertFirst
  <2>2. CASE q.filter = {}
    BY <1>0, <1>3, <2>2 DEF Strategic, FirstPart, Typed
  <2>3. CASE q.all \subseteq Known
    <3>1. PICK c \in Collect : near[c] = from /\ c # from
      BY <1>2
    <3>2. c \in Cols /\ c \in Known /\ from \in Int /\ c \in Int
      BY <1>0, <1>1, <2>3 DEF Typed
    <3>3. Abs(c - from) <= Abs(c - c)
      BY <1>0, <3>1, <3>2 DEF Strategic, Closest
    <3> QED
      BY <3>1, <3>2, <3>3 DEF Abs
  <2> QED
    BY <2>1, <2>2, <2>3 DEF SearchesOnce
<1> QED
  BY <1>3 DEF Intact

\* What the buffer of a plain line holds.
LEMMA PlainBuffer ==
    ASSUME line \in Lines, Plain, text = Buffer(line)
    PROVE  /\ \A p \in 0 .. (line.len - 1) : text[p] = line.at[p] /\ CharAt(p) = line.at[p]
           /\ \A p \in 0 .. (line.len - 1) : text[p] \notin {Quote, Back}
           /\ \A p \in 0 .. (line.len - 1) : p \in Separators <=> text[p] = Delim
<1>1. line.len \in Nat
  BY Numbers
<1>2. ASSUME NEW p \in 0 .. (line.len - 1) PROVE text[p] = line.at[p] /\ CharAt(p) = line.at[p]
  BY <1>1 DEF Buffer, CharAt
<1>3. \A p \in 0 .. (line.len - 1) : text[p] \notin {Quote, Back}
  BY <1>2 DEF Plain
<1> QED
  BY <1>2, <1>3, PlainSeparators

\* Where the fields are depends on the line alone.
LEMMA SameLine ==
    ASSUME line' = line, odd' = odd
    PROVE  /\ Plain' <=> Plain
           /\ Separators' = Separators
           /\ \A p : Number(p)' = Number(p)
           /\ \A p, c : Begins(p, c)' <=> Begins(p, c)
           /\ \A pair, c : At(pair, c)' <=> At(pair, c)
<1>1. \A p : Quotes(p)' = Quotes(p)
  BY DEF Quotes
<1>2. Separators' = Separators
  BY <1>1 DEF Separators
<1>3. \A p : Number(p)' = Number(p)
  BY <1>2 DEF Number
<1>4. \A p, c : Begins(p, c)' <=> Begins(p, c)
  BY <1>2, <1>3 DEF Begins
<1>5. \A pair, c : At(pair, c)' <=> At(pair, c)
  BY <1>2, <1>3 DEF At, Begins, Ends
<1>6. Plain' <=> Plain
  BY <1>2, SMTT(30) DEF Plain, Complete
<1> QED
  BY <1>2, <1>3, <1>4, <1>5, <1>6

\* The line stays in the file as it is.
LEMMA LineStays == [Next]_vars => line' = line /\ odd' = odd
BY ZenonT(30) DEF Next, RowStep, CSVStep, ViaStep, ConvertStep, StartRow, PartWithFile, PartWithPM, PlainChar, OpenQuote,
       QuotedChar, UnterminatedField, EndField, NoDBGetValues, ViaPM, ForwardChar, ForwardDelim, ForwardEOL,
       ViaPMBackward, BackwardChar, BackwardDelim, BackwardBOL, ViaPMDone, NoDBGetValuesWithPM, ConvertDone,
       Filter, PartsDone, StorePositions, row, vars

\* A statement that stores positions has nothing left to find after the
\* filter; one that does not store has nothing to store.
LEMMA LaterPart ==
    /\ part # FirstPart /\ q.write => Collect = {} /\ Sources = {}
    /\ ~q.write => AddPM = {}
    /\ part = FirstPart => AddPM \subseteq Collect
BY Zenon DEF Collect, Convert, ConvertFirst, Sources, AddPM

\* The line stays whole until the first columns are converted.
LEMMA NextIntact == Counted /\ Intact /\ [Next]_vars => Intact'
<1> SUFFICES ASSUME Counted, Intact, [Next]_vars PROVE Intact'
  OBVIOUS
<1>1. ASSUME UNCHANGED <<row, part, text>>,
             pc \in {"part", "field", "quoted", "via", "forward", "back", "backward"}
      PROVE  Intact'
  BY <1>1, SameStrategy, Zenon DEF Intact, row
<1>2. ASSUME pc' \in {"idle", "values", "convert", "done", "store"} PROVE Intact'
  BY <1>2 DEF Intact
<1>3. ASSUME NEW st \in Statements, StartRow(st) PROVE Intact'
  BY <1>3, Zenon DEF StartRow, Intact
<1>4. CASE UNCHANGED vars
  <2>1. UNCHANGED <<row, part>> /\ pc' = pc /\ text' = text
    BY <1>4 DEF vars
  <2> QED
    BY <2>1, SameStrategy DEF Intact, row
<1>5. CASE PartWithFile \/ PartWithPM
  BY <1>1, <1>5 DEF PartWithFile, PartWithPM
<1>6. CASE PlainChar \/ OpenQuote \/ QuotedChar \/ EndField
  BY <1>1, <1>6 DEF PlainChar, OpenQuote, QuotedChar, EndField
<1>7. CASE \E k \in Cols : ViaPM(k)
  BY <1>1, <1>7 DEF ViaPM
<1>8. CASE ForwardChar \/ ForwardDelim \/ ForwardEOL \/ ViaPMBackward \/ BackwardChar \/ BackwardDelim \/ BackwardBOL
  BY <1>1, <1>8 DEF ForwardChar, ForwardDelim, ForwardEOL, ViaPMBackward, BackwardChar, BackwardDelim, BackwardBOL
<1>9. CASE UnterminatedField \/ NoDBGetValues \/ ViaPMDone \/ ConvertStep \/ PartsDone \/ StorePositions
  BY <1>2, <1>9 DEF UnterminatedField, NoDBGetValues, ViaPMDone, ConvertStep, NoDBGetValuesWithPM, ConvertDone,
                    PartsDone, StorePositions
<1>10. ASSUME NEW pass \in BOOLEAN, Filter(pass) PROVE Intact'
  <2>1. pc' = "store" \/ part' # FirstPart'
    <3>1. q.filter # {}
      BY <1>10 DEF Counted, Strategic, Filter
    <3> QED
      BY <1>10, <3>1 DEF Filter, FirstPart, row
  <2> QED
    BY <2>1 DEF Intact
<1> QED
  BY <1>3, <1>4, <1>5, <1>6, <1>7, <1>8, <1>9, <1>10 DEF Next, RowStep, CSVStep, ViaStep

\* Converting a field only cuts the line.
LEMMA NextCutText == Counted /\ CutText /\ [Next]_vars => CutText'
<1> SUFFICES ASSUME Counted, CutText, [Next]_vars PROVE CutText'
  OBVIOUS
<1>0. line' = line
  BY LineStays
<1>1. ASSUME text' = text PROVE CutText'
  BY <1>0, <1>1 DEF CutText
<1>2. ASSUME NEW st \in Statements, StartRow(st) PROVE CutText'
  <2>1. text' = Buffer(line) /\ line.len \in Nat
    BY <1>2, Numbers DEF StartRow, Counted, Typed
  <2> QED
    BY <1>0, <2>1 DEF CutText, Buffer
<1>3. ASSUME NEW c \in Cols, NoDBGetValuesWithPM(c) PROVE CutText'
  BY <1>0, <1>3 DEF NoDBGetValuesWithPM, CutText
<1>4. CASE UNCHANGED vars
  BY <1>1, <1>4 DEF vars
<1>5. CASE PartWithFile \/ PartWithPM \/ CSVStep \/ ViaStep \/ ConvertDone \/ PartsDone \/ StorePositions
  BY <1>1, <1>5, ZenonT(30) DEF PartWithFile, PartWithPM, CSVStep, PlainChar, OpenQuote, QuotedChar, UnterminatedField,
       EndField, NoDBGetValues, ViaStep, ViaPM, ForwardChar, ForwardDelim, ForwardEOL, ViaPMBackward, BackwardChar,
       BackwardDelim, BackwardBOL, ViaPMDone, ConvertDone, PartsDone, StorePositions
<1>6. ASSUME NEW pass \in BOOLEAN, Filter(pass) PROVE CutText'
  BY <1>1, <1>6 DEF Filter
<1> QED
  BY <1>2, <1>3, <1>4, <1>5, <1>6 DEF Next, RowStep, ConvertStep

\* The parser of CSV leaves the field it has come to the end of where it is,
\* and begins the next one behind the delimiter.  When it is done it has all
\* the columns of the statement.
LEMMA FieldEnded ==
    ASSUME Counted, Intact, Parsed, EndField, Plain, part = FirstPart
    PROVE  /\ \A c \in 0 .. id : At(attr'[c], c)
           /\ pc' = "values" => \A c \in q.all : At(attr'[c], c)
           /\ pc' = "field" => /\ cur + 1 \in 0 .. line.len /\ Number(cur + 1) = id + 1
                              /\ Begins(attr'[id + 1].pointer, id + 1)
<1>0. Typed /\ Counting /\ line \in Lines /\ pc = "field"
  BY DEF Counted, Typed, EndField
<1>1. /\ cur \in 0 .. line.len /\ Number(cur) = id
      /\ (id = 0 /\ odd) \/ Begins(attr[id].pointer, id)
      /\ \A c \in 0 .. (id - 1) : At(attr[c], c)
  BY <1>0 DEF Parsed
<1>2. /\ LastField \in Cols /\ id <= LastField /\ id \in Int /\ id >= 0 /\ line.len \in Nat /\ NCols \in Nat
      /\ \A c \in q.all : c <= LastField /\ c \in Int /\ c >= 0
  <2>1. q \in Statements /\ q.all \subseteq Cols /\ NCols \in Nat /\ line.len \in Nat
    BY <1>0, CollectCols, Numbers DEF Typed
  <2>2. LastField \in Cols /\ \A c \in q.all : c <= LastField
    BY <2>1, LastFieldRead
  <2>3. id <= LastField /\ id \in Int /\ id >= 0
    BY <1>0, <2>1 DEF Counting, Typed
  <2> QED
    BY <2>1, <2>2, <2>3 DEF Cols
<1>3. LastField \in Int /\ id \in 0 .. NCols /\ id + 1 \in 0 .. NCols /\ id # id + 1 /\ id <= NCols - 1 /\ LastField <= NCols - 1
  BY <1>2 DEF Cols
<1>4. attr' = [attr EXCEPT ![id + 1].pointer = cur + 1, ![id].width = cur - attr[id].pointer]
  BY DEF EndField
<1>5. attr[id] \in Positions /\ attr[id + 1] \in Positions /\ attr[id].pointer \in Int
  BY <1>0, <1>3 DEF Typed, Positions
<1>6. /\ attr'[id] = [pointer |-> attr[id].pointer, width |-> cur - attr[id].pointer]
      /\ attr'[id + 1].pointer = cur + 1
      /\ \A c \in 0 .. (id - 1) : attr'[c] = attr[c]
  <2> DEFINE a == [attr EXCEPT ![id + 1].pointer = cur + 1]
  <2>1. DOMAIN attr = 0 .. NCols /\ \A c \in 0 .. (id - 1) : c \in 0 .. NCols /\ c # id /\ c # id + 1
    BY <1>0, <1>2, <1>3 DEF Typed
  <2>2. /\ DOMAIN a = 0 .. NCols /\ a[id] = attr[id] /\ a[id + 1].pointer = cur + 1
        /\ \A c \in 0 .. (id - 1) : a[c] = attr[c]
    BY <1>3, <1>5, <2>1 DEF Positions
  <2>3. attr' = [a EXCEPT ![id].width = cur - attr[id].pointer]
    BY <1>4
  <2>4. attr'[id] = [attr[id] EXCEPT !.width = cur - attr[id].pointer] /\ attr'[id + 1] = a[id + 1]
        /\ \A c \in 0 .. (id - 1) : attr'[c] = a[c]
    <3> HIDE DEF a
    <3> QED
      BY <1>3, <2>1, <2>2, <2>3
  <2>5. attr'[id] = [pointer |-> attr[id].pointer, width |-> cur - attr[id].pointer]
    BY <1>5, <2>4 DEF Positions
  <2> HIDE DEF a
  <2> QED
    BY <2>2, <2>4, <2>5
<1>7. cur \in Int /\ (cur < line.len => cur \in 0 .. (line.len - 1))
  BY <1>1, <1>2
<1>8. cur >= line.len \/ cur \in Separators
  <2>1. CASE cur < line.len
    BY <1>0, <1>7, <2>1, PlainBuffer DEF EndField, Intact
  <2> QED
    BY <1>2, <1>7, <2>1
<1>9. cur >= line.len => cur = line.len
  BY <1>1, <1>2
<1>10. At(attr'[id], id)
  <2>1. Ends(cur, id)
    BY <1>1, <1>8, <1>9 DEF Ends
  <2>2. attr'[id] \in Positions /\ attr'[id].pointer + attr'[id].width = cur /\ attr'[id].pointer = attr[id].pointer
    BY <1>5, <1>6, <1>7 DEF Positions
  <2> QED
    BY <1>1, <2>1, <2>2 DEF At
<1>11. \A c \in 0 .. id : At(attr'[c], c)
  <2> SUFFICES ASSUME NEW c \in 0 .. id PROVE At(attr'[c], c)
    OBVIOUS
  <2>1. c = id \/ c \in 0 .. (id - 1)
    BY <1>2
  <2> QED
    BY <1>1, <1>6, <1>10, <2>1
<1>12. ASSUME pc' = "values" PROVE \A c \in q.all : At(attr'[c], c)
  <2>1. id = LastField \/ cur = line.len
    BY <1>0, <1>9, <1>12 DEF EndField
  <2>2. cur = line.len => id = NCols - 1
    BY <1>0, <1>1, PlainSeparators
  <2>3. \A c \in q.all : c \in 0 .. id
    BY <1>2, <1>3, <2>1, <2>2
  <2> QED
    BY <1>11, <2>3
<1>13. ASSUME pc' = "field"
       PROVE  cur + 1 \in 0 .. line.len /\ Number(cur + 1) = id + 1 /\ Begins(attr'[id + 1].pointer, id + 1)
  <2>1. cur < line.len
    BY <1>0, <1>2, <1>7, <1>13 DEF EndField
  <2>2. cur \in Separators
    BY <1>2, <1>7, <1>8, <2>1
  <2>3. cur + 1 \in 0 .. line.len /\ Number(cur + 1) = id + 1 /\ Begins(cur + 1, id + 1)
    BY <1>0, <1>1, <2>2, AroundSeparator
  <2> QED
    BY <1>6, <2>3
<1> QED
  BY <1>11, <1>12, <1>13

\* On a plain line the parser of CSV finds the fields one after the other.
LEMMA NextParsed == Counted /\ Intact /\ FirstPointer /\ Parsed /\ [Next]_vars => Parsed'
<1> SUFFICES ASSUME Counted, Intact, FirstPointer, Parsed, [Next]_vars PROVE Parsed'
  OBVIOUS
<1>0. Typed /\ line \in Lines /\ line.len \in Nat /\ cur \in Int
  BY Numbers DEF Counted, Typed
<1>s. /\ line' = line /\ odd' = odd /\ (Plain' <=> Plain) /\ (\A p : Number(p)' = Number(p))
      /\ (\A p, c : Begins(p, c)' <=> Begins(p, c)) /\ (\A pair, c : At(pair, c)' <=> At(pair, c))
  BY LineStays, SameLine
<1>1. ASSUME pc' \notin {"field", "quoted"} PROVE Parsed'
  BY <1>1 DEF Parsed
<1>2. CASE UNCHANGED vars
  <2>1. UNCHANGED <<row, part>> /\ pc' = pc /\ attr' = attr /\ cur' = cur /\ id' = id
    BY <1>2 DEF vars, search
  <2> QED
    BY <1>s, <2>1, SameStrategy DEF Parsed
<1>3. CASE PartWithFile
  <2>1. UNCHANGED <<row, part>> /\ pc' = "field" /\ pc = "part" /\ id' = 0 /\ cur' = 0 /\ attr' = attr /\ Collect # {}
    BY <1>3 DEF PartWithFile
  <2>2. Number(0) = 0 /\ 0 \in 0 .. line.len
    BY <1>0, Numbers
  <2>3. ASSUME Plain PROVE odd \/ Begins(attr[0].pointer, 0)
    BY <2>2, <2>3 DEF FirstPointer, Begins
  <2>4. 0 .. (0 - 1) = {}
    OBVIOUS
  <2> QED
    BY <1>s, <2>1, <2>2, <2>3, <2>4, SameStrategy DEF Parsed
<1>4. CASE PlainChar
  <2>1. UNCHANGED <<row, part, attr, id, pc>> /\ pc = "field" /\ cur' = cur + 1 /\ cur < line.len /\ text[cur] # Delim
    BY <1>4 DEF PlainChar
  <2>2. ASSUME Plain, part = FirstPart PROVE cur + 1 \in 0 .. line.len /\ Number(cur + 1) = id
    <3>1. cur \in 0 .. (line.len - 1) /\ Number(cur) = id /\ text = Buffer(line)
      BY <1>0, <2>1, <2>2 DEF Parsed, Intact
    <3>2. cur \notin Separators
      BY <1>0, <2>1, <2>2, <3>1, PlainBuffer
    <3> QED
      BY <1>0, <3>1, <3>2, Numbers
  <2> QED
    BY <1>s, <2>1, <2>2, SameStrategy DEF Parsed
<1>5. CASE OpenQuote
  <2>1. UNCHANGED <<row, part>> /\ pc = "field" /\ cur < line.len /\ text[cur] = Quote
    BY <1>5 DEF OpenQuote
  <2>2. ASSUME Plain, part = FirstPart PROVE FALSE
    <3>1. cur \in 0 .. (line.len - 1) /\ text = Buffer(line)
      BY <1>0, <2>1, <2>2 DEF Parsed, Intact
    <3> QED
      BY <1>0, <2>1, <2>2, <3>1, PlainBuffer
  <2> QED
    BY <1>s, <2>1, <2>2, SameStrategy, Zenon DEF Parsed
<1>6. CASE QuotedChar
  <2>1. UNCHANGED <<row, part>> /\ pc = "quoted"
    BY <1>6 DEF QuotedChar
  <2> QED
    BY <1>s, <2>1, SameStrategy, Zenon DEF Parsed
<1>7. CASE EndField
  <2>1. UNCHANGED <<row, part>> /\ pc = "field" /\ (pc' = "field" => id' = id + 1 /\ cur' = cur + 1) /\ pc' \in {"field", "values"}
    BY <1>7 DEF EndField
  <2>3. Collect' = Collect /\ Collect # {} /\ FirstPart' = FirstPart /\ part' = part
    BY <2>1, SameStrategy DEF Parsed
  <2>4. ASSUME Plain, part = FirstPart, pc' = "field"
        PROVE  /\ cur' \in 0 .. line.len /\ Number(cur') = id'
               /\ Begins(attr'[id'].pointer, id')
               /\ \A c \in 0 .. (id' - 1) : At(attr'[c], c)
    <3>1. /\ cur + 1 \in 0 .. line.len /\ Number(cur + 1) = id + 1
          /\ Begins(attr'[id + 1].pointer, id + 1)
          /\ \A c \in 0 .. id : At(attr'[c], c)
      BY <1>7, <2>4, FieldEnded
    <3>2. id' = id + 1 /\ cur' = cur + 1
      BY <2>1, <2>4
    <3>3. Begins(attr'[id'].pointer, id')
      BY <3>1, <3>2, Zenon
    <3>4. \A c \in 0 .. (id' - 1) : At(attr'[c], c)
      <4>1. id' - 1 = id
        BY <1>0, <3>2 DEF Typed
      <4> QED
        BY <3>1, <4>1
    <3>5. cur' \in 0 .. line.len /\ Number(cur') = id'
      BY <3>1, <3>2, Zenon
    <3> QED
      BY <3>3, <3>4, <3>5, Zenon
  <2> QED
    BY <1>s, <2>1, <2>3, <2>4 DEF Parsed
<1>8. ASSUME NEW st \in Statements, StartRow(st) PROVE Parsed'
  BY <1>1, <1>8 DEF StartRow
<1>9. CASE PartWithPM \/ UnterminatedField \/ NoDBGetValues \/ ViaPMDone \/ ConvertStep \/ PartsDone \/ StorePositions
  BY <1>1, <1>9 DEF PartWithPM, UnterminatedField, NoDBGetValues, ViaPMDone, ConvertStep, NoDBGetValuesWithPM, ConvertDone,
                    PartsDone, StorePositions
<1>10. ASSUME NEW k \in Cols, ViaPM(k) PROVE Parsed'
  BY <1>1, <1>10 DEF ViaPM
<1>11. CASE ForwardChar \/ ForwardDelim \/ ForwardEOL \/ ViaPMBackward \/ BackwardChar \/ BackwardDelim \/ BackwardBOL
  BY <1>1, <1>11 DEF ForwardChar, ForwardDelim, ForwardEOL, ViaPMBackward, BackwardChar, BackwardDelim, BackwardBOL
<1>12. ASSUME NEW pass \in BOOLEAN, Filter(pass) PROVE Parsed'
  BY <1>1, <1>12 DEF Filter
<1> QED
  BY <1>2, <1>3, <1>4, <1>5, <1>6, <1>7, <1>8, <1>9, <1>10, <1>11, <1>12, SMTT(30) DEF Next, RowStep, CSVStep, ViaStep

\* attributes[] with the pointer of k written.
Written(a, k, p) == [a EXCEPT ![k].pointer = p]

\* Writing the beginning of a field into attributes[] takes nothing away, but
\* for the end of the first field.
LEMMA PointerWritten ==
    ASSUME line \in Lines, NEW a \in [0 .. NCols -> Positions], NEW k \in 0 .. NCols, NEW p, Begins(p, k)
    PROVE  /\ Written(a, k, p) \in [0 .. NCols -> Positions] /\ Begins(Written(a, k, p)[k].pointer, k)
           /\ \A c \in 0 .. NCols : (c # k \/ k > 0) /\ At(a[c], c) => At(Written(a, k, p)[c], c)
           /\ \A c \in 0 .. NCols : Begins(a[c].pointer, c) => Begins(Written(a, k, p)[c].pointer, c)
<1> DEFINE b == Written(a, k, p)
<1>1. p \in Int
  BY Numbers DEF Begins
<1>2. a[k] \in Positions /\ b[k] = [a[k] EXCEPT !.pointer = p] /\ \A c \in 0 .. NCols : c # k => b[c] = a[c]
  BY DEF Written
<1>3. b[k].pointer = p /\ b[k] \in Positions
  BY <1>1, <1>2 DEF Positions
<1>4. b \in [0 .. NCols -> Positions]
  BY <1>1 DEF Positions, Written
<1> HIDE DEF b
<1>5. ASSUME k > 0, At(a[k], k) PROVE At(b[k], k)
  <2>1. p = a[k].pointer
    BY <1>5, FoundAgain
  <2>2. b[k] = a[k]
    BY <1>2, <2>1 DEF Positions
  <2> QED
    BY <1>5, <2>2
<1> QED
  BY <1>2, <1>3, <1>4, <1>5, Zenon DEF b

\* "Update width": fields whose beginnings are known, and those of the fields
\* behind them, are where attributes[] says.  Nor does it take anything away.
LEMMA WidthsFound ==
    ASSUME line \in Lines, Plain, NEW a \in [0 .. NCols -> Positions], NEW cols \in SUBSET Cols,
           \A c \in cols : Begins(a[c].pointer, c),
           \A c \in cols : Begins(a[c + 1].pointer, c + 1) \/ (c = NCols - 1 /\ a[c + 1].pointer = line.len + 1)
    PROVE  /\ \A c \in cols : At(Widths(a, cols)[c], c)
           /\ \A c \in 0 .. NCols : At(a[c], c) => At(Widths(a, cols)[c], c)
<1>0. NCols \in Nat /\ line.len \in Nat
  BY FieldsAssumption, Numbers
<1>1. ASSUME NEW c \in cols PROVE At(Widths(a, cols)[c], c)
  <2>1. c \in Int /\ c >= 0 /\ c \in 0 .. NCols /\ c + 1 \in 0 .. NCols /\ c + 1 > 0 /\ c + 1 \in Int
    BY <1>0 DEF Cols
  <2> DEFINE e == a[c + 1].pointer - 1
  <2>2. Ends(e, c)
    <3>1. CASE Begins(a[c + 1].pointer, c + 1)
      <4>1. Ends(e, c + 1 - 1)
        BY <2>1, <3>1, BeforeBeginning
      <4>2. c + 1 - 1 = c
        BY <2>1
      <4> QED
        BY <4>1, <4>2
    <3>2. CASE c = NCols - 1 /\ a[c + 1].pointer = line.len + 1
      <4>1. e = line.len /\ e \in 0 .. line.len
        BY <1>0, <3>2
      <4> QED
        BY <3>2, <4>1, PlainSeparators DEF Ends
    <3> QED
      BY <3>1, <3>2
  <2>3. a[c] \in Positions /\ a[c + 1] \in Positions
    BY <2>1
  <2>4. a[c].pointer \in Int /\ a[c + 1].pointer \in Int
    BY <2>3 DEF Positions
  <2>5. Widths(a, cols)[c] = [a[c] EXCEPT !.width = a[c + 1].pointer - a[c].pointer - 1]
    BY <2>1 DEF Widths
  <2>6. /\ Widths(a, cols)[c] \in Positions /\ Widths(a, cols)[c].pointer = a[c].pointer
        /\ Widths(a, cols)[c].width = a[c + 1].pointer - a[c].pointer - 1
    BY <2>3, <2>4, <2>5 DEF Positions
  <2>7. Widths(a, cols)[c].pointer + Widths(a, cols)[c].width = e
    BY <2>4, <2>6
  <2>8. Begins(Widths(a, cols)[c].pointer, c)
    BY <2>6
  <2> HIDE DEF e
  <2> QED
    BY <2>2, <2>7, <2>8 DEF At
<1>2. ASSUME NEW c \in 0 .. NCols, At(a[c], c) PROVE At(Widths(a, cols)[c], c)
  <2>1. CASE c \notin cols
    BY <1>2, <2>1 DEF Widths
  <2> QED
    BY <1>1, <2>1
<1> QED
  BY <1>1, <1>2

\* What a statement is to store it has found by the time it stores it, and
\* what it stores is true.
LEMMA NextReady == Found /\ [Next]_vars => Ready' /\ PositionsTrue'
<1> SUFFICES ASSUME Found, [Next]_vars PROVE Ready' /\ PositionsTrue'
  OBVIOUS
<1>0. Counted /\ Typed /\ Counting /\ Intact /\ Parsed /\ Searched /\ Ready /\ PositionsTrue
  BY DEF Found, Counted
<1>s. line' = line /\ (Plain' <=> Plain) /\ (\A pair, c : At(pair, c)' <=> At(pair, c))
  BY LineStays, SameLine
<1>1. ASSUME pm' = pm PROVE PositionsTrue'
  BY <1>0, <1>1, <1>s DEF PositionsTrue, Known
<1>2. ASSUME UNCHANGED <<row, part>>, part = FirstPart, pc' \in {"field", "quoted", "via", "forward", "back", "backward"}
      PROVE  Ready'
  BY <1>2, SameStrategy DEF Ready
<1>3. ASSUME UNCHANGED <<row, part>>, ~q.write PROVE Ready'
  <2>1. AddPM' = {}
    BY <1>3, SameStrategy, LaterPart
  <2> QED
    BY <2>1 DEF Ready
<1>4. ASSUME UNCHANGED <<pm, q>>, \A c \in Cols : attr'[c] = attr[c],
             pc \in {"values", "convert", "done", "store"} \/ (pc # "idle" /\ part # FirstPart)
      PROVE  Ready'
  <2>1. AddPM' = AddPM /\ AddPM \subseteq Cols
    BY <1>0, <1>4, CollectCols DEF AddPM, Known
  <2>2. Plain => \A c \in AddPM : At(attr[c], c)
    BY <1>0, <1>4 DEF Ready
  <2>3. Plain' => \A c \in AddPM' : At(attr'[c], c)
    BY <1>4, <1>s, <2>1, <2>2
  <2> QED
    BY <1>s, <2>3 DEF Ready
<1>5. CASE UNCHANGED vars
  <2>1. UNCHANGED <<row, part>> /\ pc' = pc /\ attr' = attr /\ pm' = pm
    BY <1>5 DEF vars, row
  <2> QED
    BY <1>0, <1>1, <1>s, <2>1, SameStrategy DEF Ready
<1>6. ASSUME NEW st \in Statements, StartRow(st) PROVE Ready' /\ PositionsTrue'
  <2>1. pc' = "part" /\ part' = FirstPart' /\ pm' = pm
    BY <1>6, Zenon DEF StartRow, FirstPart
  <2> QED
    BY <1>1, <2>1 DEF Ready
<1>7. CASE PartWithFile \/ PartWithPM
  <2>1. UNCHANGED <<row, part>> /\ pc' \in {"field", "via"} /\ pc = "part" /\ pm' = pm
    BY <1>7 DEF PartWithFile, PartWithPM, row
  <2>2. ASSUME part # FirstPart, q.write PROVE \A c \in Cols : attr'[c] = attr[c]
    <3>1. CASE PartWithFile
      BY <3>1 DEF PartWithFile
    <3>2. CASE PartWithPM
      BY <1>0, <2>2, <3>2, LaterPart, CollectCols, ZenonT(30) DEF PartWithPM
    <3> QED
      BY <1>7, <3>1, <3>2
  <2>3. part # FirstPart /\ q.write => Ready'
    BY <1>4, <2>1, <2>2 DEF row
  <2> QED
    BY <1>1, <1>2, <1>3, <2>1, <2>3
<1>8. CASE PlainChar \/ OpenQuote \/ QuotedChar
  <2>1. UNCHANGED <<row, part, attr>> /\ pc' \in {"field", "quoted"} /\ pc \in {"field", "quoted"} /\ pm' = pm
    BY <1>8 DEF PlainChar, OpenQuote, QuotedChar, row
  <2>2. part # FirstPart => Ready'
    BY <1>4, <2>1 DEF row
  <2> QED
    BY <1>1, <1>2, <2>1, <2>2, SMTT(30)
<1>9. CASE EndField
  <2>1. UNCHANGED <<row, part>> /\ pc' \in {"field", "values"} /\ pc = "field" /\ pm' = pm
    BY <1>9 DEF EndField, row
  <2>2. CASE part = FirstPart
    <3>1. Plain /\ pc' = "values" => \A c \in AddPM : At(attr'[c], c)
      BY <1>0, <1>9, <2>2, FieldEnded, CollectCols
    <3>2. AddPM' = AddPM /\ part' = FirstPart'
      BY <2>1, <2>2, SameStrategy
    <3>3. Ready'
      BY <1>s, <2>1, <3>1, <3>2 DEF Ready
    <3> QED
      BY <1>1, <2>1, <3>3, SMTT(30)
  <2>3. CASE part # FirstPart
    <3>1. ~q.write
      BY <1>0, <2>1, <2>3, LaterPart DEF Parsed
    <3> QED
      BY <1>1, <1>3, <2>1, <3>1
  <2> QED
    BY <2>2, <2>3
<1>10. CASE UnterminatedField
  <2>1. pc' = "idle" /\ pm' = pm /\ UNCHANGED <<row, part>>
    BY <1>10 DEF UnterminatedField, row
  <2> QED
    BY <1>1, <2>1 DEF Ready
<1>11. CASE ViaPMDone
  <2>1. UNCHANGED <<row, part, attr>> /\ pc' = "convert" /\ pc = "via" /\ pm' = pm /\ todo = {}
    BY <1>11 DEF ViaPMDone, row
  <2>2. ASSUME part = FirstPart, Plain PROVE \A c \in AddPM : At(attr[c], c)
    <3>1. CASE q.write
      <4>1. \A k \in Sources : \A c \in From(k) : At(attr[c], c)
        BY <1>0, <2>1, <2>2, <3>1 DEF Searched, SearchesOnce
      <4>2. \A c \in Collect : At(attr[c], c)
        BY <4>1 DEF Sources, From
      <4> QED
        BY <2>2, <4>2, LaterPart, SMTT(30)
    <3>2. CASE ~q.write
      BY <3>2, LaterPart
    <3> QED
      BY <3>1, <3>2
  <2>3. AddPM' = AddPM /\ FirstPart' = FirstPart
    BY <2>1, SameStrategy
  <2>4. part = FirstPart => Ready'
    BY <1>s, <2>1, <2>2, <2>3 DEF Ready
  <2>5. part # FirstPart => Ready'
    BY <1>4, <2>1 DEF row
  <2> QED
    BY <1>1, <2>1, <2>4, <2>5
<1>12. ASSUME UNCHANGED <<row, part>>, pc \in {"via", "forward", "back", "backward"}, Sources # {},
              pc' \in {"via", "forward", "back", "backward"}
       PROVE  Ready' /\ PositionsTrue'
  <2>1. part = FirstPart \/ ~q.write
    BY <1>12, LaterPart
  <2> QED
    BY <1>1, <1>2, <1>3, <1>12, <2>1 DEF row
<1>13. ASSUME NEW k \in Cols, ViaPM(k) PROVE Ready' /\ PositionsTrue'
  BY <1>0, <1>12, <1>13 DEF ViaPM, Counting
<1>14. CASE ForwardChar \/ ForwardDelim \/ ForwardEOL \/ ViaPMBackward \/ BackwardChar \/ BackwardDelim \/ BackwardBOL
  <2>1. /\ UNCHANGED <<row, part>> /\ pc \in {"forward", "back", "backward"}
        /\ pc' \in {"via", "forward", "back", "backward"}
    BY <1>14 DEF ForwardChar, ForwardDelim, ForwardEOL, ViaPMBackward, BackwardChar, BackwardDelim, BackwardBOL
  <2> QED
    BY <1>0, <1>12, <2>1 DEF Counting
<1>15. CASE NoDBGetValues \/ ConvertStep \/ PartsDone \/ \E pass \in BOOLEAN : Filter(pass)
  <2>1. UNCHANGED <<pm, q, attr>> /\ pc \in {"values", "convert", "done"}
    BY <1>15 DEF NoDBGetValues, ConvertStep, NoDBGetValuesWithPM, ConvertDone, PartsDone, Filter, row
  <2> QED
    BY <1>1, <1>4, <2>1, SMTT(30)
<1>16. CASE StorePositions
  <2>1. pc' = "idle" /\ pc = "store" /\ pm' = [c \in Known \union AddPM |-> IF c \in AddPM THEN attr[c] ELSE pm[c]]
    BY <1>16 DEF StorePositions
  <2>2. Known' = Known \union AddPM
    BY <2>1 DEF Known
  <2>3. Plain => (\A c \in AddPM : At(attr[c], c)) /\ (\A c \in Known : At(pm[c], c))
    BY <1>0, <2>1 DEF Ready, PositionsTrue
  <2>4. Plain => \A c \in Known' : At(pm'[c], c)
    BY <2>1, <2>2, <2>3
  <2>5. PositionsTrue'
    BY <1>s, <2>4 DEF PositionsTrue
  <2> QED
    BY <2>1, <2>5, SMTT(30) DEF Ready
<1> QED
  BY <1>5, <1>6, <1>7, <1>8, <1>9, <1>10, <1>11, <1>13, <1>14, <1>15, <1>16, SMTT(30) DEF Next, RowStep, CSVStep, ViaStep
=============================================================================
