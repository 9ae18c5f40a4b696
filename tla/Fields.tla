-------------------------------- MODULE Fields --------------------------------
(***************************************************************************)
(* What the executor does inside one line (noDB/NoDBExecutor.c): finding   *)
(* the fields and turning them into values.                                *)
(*                                                                         *)
(* The first scan of a row parses the line from its beginning by the rules *)
(* of CSV and stores where fields begin in a positional map (PM).  A later *)
(* scan starts from the stored position closest to a field and counts      *)
(* delimiters forward or backward.  The same row is read again and again   *)
(* by statements that want different columns; in between the scan state    *)
(* has processed other rows, so that attributes[] holds positions of other *)
(* lines when the row begins.  A line is plain if it has no quotes and no  *)
(* backslashes and as many fields as there are columns.                    *)
(*                                                                         *)
(* Positions count from 0.  A value is the set of the positions whose      *)
(* characters make it up, or Null.                                         *)
(***************************************************************************)
EXTENDS Integers, FiniteSets

CONSTANTS NCols,       \* columns of the relation
          Chars,       \* the characters of a file
          Delim, Quote, Back, BigN,
          Nul,         \* the character that ends a C string
          Lines,       \* the lines a row may be: records of len and at
          Statements,  \* what scans are after, see below
          Null, NoValue,
          Elsewhere    \* a position of some other line

ASSUME FieldsAssumption ==
    /\ NCols \in Nat \ {0}
    /\ {Delim, Quote, Back, BigN} \subseteq Chars /\ Nul \notin Chars
    /\ Cardinality({Delim, Quote, Back, BigN}) = 4
    /\ \A l \in Lines : l.len \in Nat /\ l.at \in [0 .. (l.len - 1) -> Chars]
    /\ Elsewhere \in Int

Cols == 0 .. (NCols - 1)

\* A statement reads the columns `all`, those of `filter` first.  It finds
\* `hits` in the data caches.  write: no other scan holds the column locks,
\* so that it stores the values and positions it finds.
ASSUME StatementsAssumption ==
    /\ Statements # {}
    /\ \A st \in Statements :
          /\ st.all \in (SUBSET Cols) \ {{}} /\ st.filter \subseteq st.all /\ st.hits \subseteq st.all
          /\ st.write \in BOOLEAN

VARIABLES line,    \* the row in the file
          odd,     \* another line of the file is not plain
          pm,      \* the positions stored for it, by column
          q,       \* the statement
          near,    \* the column of the PM each column is found from
          part,    \* "pre" and "post" the filter
          pc,      \* where the executor is
          text,    \* line_buf.data
          attr,    \* attributes[]: pointer and width of each field
          todo,    \* columns still to be searched from or converted
          from, howMany, id, cur,   \* a search: its beginning, how_many, attributeID, cur_ptr
          out, sawQuote, field,     \* CSV: the field so far, saw_quote, field_strings[]
          value    \* values[] and nulls[]

search == <<from, howMany, id, cur>>
csv == <<out, sawQuote, field>>
row == <<line, odd, pm, q, near>>
vars == <<row, part, pc, text, attr, todo, search, csv, value>>

----------------------------------------------------------------------------
(* The strategy (FillRow and BuildStrategy of noDB/NoDBScanStrategy.c).    *)

Known == DOMAIN pm
FirstPart == IF q.filter = {} THEN "post" ELSE "pre"

\* The columns converted before the filter, and those left for after it.
ConvertFirst ==
    ((IF q.filter = {} \/ q.write THEN q.all ELSE q.filter) \ q.hits)
Convert == IF part = FirstPart THEN ConvertFirst ELSE (q.all \ q.hits) \ ConvertFirst

\* The columns whose position is to be stored.
AddPM == IF q.write THEN q.all \ Known ELSE {}

Collect == IF part = FirstPart THEN Convert \union AddPM ELSE Convert

Abs(n) == IF n < 0 THEN -n ELSE n
Closest(c, k) == k \in Known /\ \A o \in Known : Abs(c - k) <= Abs(c - o)

\* The columns searched from, and how far.
Sources == {near[c] : c \in Collect}
From(k) == {c \in Collect : near[c] = k}
Forward(k) == {c \in From(k) : c > k}
Backward(k) == {c \in From(k) : c < k}
LastForward(k) == CHOOSE c \in Forward(k) : \A d \in Forward(k) : d <= c
\* Mutant: one column too far.
LastBackwardOneMore(k) == (CHOOSE c \in Backward(k) : \A d \in Backward(k) : d >= c) - 1
LastBackward(k) == CHOOSE c \in Backward(k) : \A d \in Backward(k) : d >= c

LastField == CHOOSE c \in q.all : \A d \in q.all : d <= c

----------------------------------------------------------------------------
(* A row and its parts.                                                    *)

Buffer(l) == [p \in 0 .. l.len |-> IF p < l.len THEN l.at[p] ELSE Nul]

\* attributes[] when a row begins, up to the pointer of the first field.
FreshAttributes(first) ==
    [c \in 0 .. NCols |-> [pointer |-> IF c = 0 THEN first ELSE Elsewhere, width |-> Elsewhere]]

Init ==
    /\ line \in Lines /\ odd \in BOOLEAN
    /\ pm = [c \in {} |-> 0]
    /\ q = (CHOOSE st \in Statements : TRUE) /\ near = [c \in Cols |-> NCols]
    /\ part = "post" /\ pc = "idle"
    /\ text = Buffer(line)
    /\ attr = FreshAttributes(0)
    /\ todo = {} /\ from = 0 /\ howMany = 0 /\ id = 0 /\ cur = 0
    /\ out = {} /\ sawQuote = FALSE /\ field = [c \in Cols |-> {Elsewhere}]
    /\ value = [c \in Cols |-> NoValue]

\* Mutant: a scan begins without setting the pointer.
FirstUnset == {attr[0].pointer, Elsewhere}

\* attributes[0].pointer is set to 0 once for each scan.  A scan that has come
\* by other lines, or by this one, has what they left there: a plain line
\* what this line may leave, another one a position of its own.
FirstPointers == {0, attr[0].pointer} \union (IF odd THEN {Elsewhere} ELSE {})

\* The row is read for a statement.
StartRow(st) ==
    /\ pc = "idle"
    /\ q' = st
    /\ near' \in [Cols -> Known \union {NCols}]
    /\ \A c \in Cols : IF Known = {} THEN near'[c] = NCols ELSE Closest(c, near'[c])
    /\ part' = IF st.filter = {} THEN "post" ELSE "pre"
    /\ pc' = "part"
    /\ text' = Buffer(line)
    /\ \E first \in FirstPointers : attr' = FreshAttributes(first)
    /\ field' = [c \in Cols |-> {Elsewhere}]
    /\ value' = [c \in Cols |-> NoValue]
    /\ UNCHANGED <<line, odd, pm, todo, search, out, sawQuote>>

\* "Read attributes With file".
PartWithFile ==
    /\ pc = "part" /\ Known = {} /\ Collect # {}
    /\ pc' = "field"
    /\ id' = 0 /\ cur' = 0 /\ out' = {} /\ sawQuote' = FALSE
    /\ UNCHANGED <<row, part, text, attr, todo, from, howMany, field, value>>

\* "Extract positions With PM".
PartWithPM ==
    /\ pc = "part" /\ ~(Known = {} /\ Collect # {})
    /\ pc' = "via"
    /\ attr' = [c \in 0 .. NCols |-> IF c \in Sources THEN pm[c] ELSE attr[c]]
    /\ todo' = Sources
    /\ UNCHANGED <<row, part, text, search, csv, value>>

----------------------------------------------------------------------------
(* NoDBCopyReadAttributesCSV, a character at a time.  total_length, from   *)
(* which it computes positions, is the distance of end_ptr.                *)

\* "Not in quote": any other character goes to the output.
PlainChar ==
    /\ pc = "field" /\ cur < line.len /\ text[cur] \notin {Delim, Quote}
    /\ out' = out \union {cur} /\ cur' = cur + 1
    /\ UNCHANGED <<row, part, pc, text, attr, todo, from, howMany, id, sawQuote, field, value>>

OpenQuote ==
    /\ pc = "field" /\ cur < line.len /\ text[cur] = Quote
    /\ pc' = "quoted" /\ sawQuote' = TRUE /\ cur' = cur + 1
    /\ UNCHANGED <<row, part, text, attr, todo, from, howMany, id, out, field, value>>

\* Mutant: quotes are not doubled.
NeverEscaped == FALSE

\* "In quote": a quote is the escape character too.
Escaped == cur + 1 < line.len /\ text[cur + 1] = Quote

QuotedChar ==
    /\ pc = "quoted" /\ cur < line.len
    /\ \/ text[cur] # Quote /\ out' = out \union {cur} /\ cur' = cur + 1 /\ pc' = pc
       \/ text[cur] = Quote /\ Escaped /\ out' = out \union {cur + 1} /\ cur' = cur + 2 /\ pc' = pc
       \/ text[cur] = Quote /\ ~Escaped /\ out' = out /\ cur' = cur + 1 /\ pc' = "field"
    /\ UNCHANGED <<row, part, text, attr, todo, from, howMany, id, sawQuote, field, value>>

\* "unterminated CSV quoted field": the statement fails.
UnterminatedField ==
    /\ pc = "quoted" /\ cur >= line.len
    /\ pc' = "idle"
    /\ UNCHANGED <<row, part, text, attr, todo, search, csv, value>>

EndField ==
    /\ pc = "field" /\ (cur >= line.len \/ text[cur] = Delim)
    /\ field' = [field EXCEPT ![id] = IF out = {} /\ ~sawQuote THEN Null ELSE out]
    /\ attr' = [attr EXCEPT ![id + 1].pointer = cur + 1, ![id].width = cur - attr[id].pointer]
    /\ IF id = LastField \/ cur >= line.len
       THEN pc' = "values" /\ UNCHANGED <<id, cur>>
       ELSE pc' = pc /\ id' = id + 1 /\ cur' = cur + 1
    /\ out' = {} /\ sawQuote' = FALSE
    /\ UNCHANGED <<row, part, text, todo, from, howMany, value>>

\* NoDBGetValues.
NoDBGetValues ==
    /\ pc = "values"
    /\ value' = [c \in Cols |-> IF c \in Convert THEN field[c] ELSE value[c]]
    /\ pc' = "done"
    /\ UNCHANGED <<row, part, text, attr, todo, search, csv>>

----------------------------------------------------------------------------
(* NoDBGetNextTupleViaPM: the columns searched from, in any order.         *)

ViaPM(k) ==
    /\ pc = "via" /\ k \in todo
    /\ todo' = todo \ {k} /\ from' = k
    /\ IF Forward(k) = {}
       THEN pc' = "back" /\ UNCHANGED <<attr, howMany, id, cur>>
       ELSE /\ pc' = "forward"
            /\ cur' = attr[k].pointer + attr[k].width + 1
            /\ attr' = [attr EXCEPT ![k + 1].pointer = cur']
            /\ id' = k + 1 /\ howMany' = LastForward(k) - k
    /\ UNCHANGED <<row, part, text, csv, value>>

\* "Update width".
Widths(a, cols) ==
    [c \in 0 .. NCols |->
        IF c \in cols THEN [a[c] EXCEPT !.width = a[c + 1].pointer - a[c].pointer - 1] ELSE a[c]]

WidthsForward(a) == Widths(a, (from + 1) .. LastForward(from))
WidthsBackward(a) == Widths(a, LastBackward(from) .. (from - 1))

\* The character at p.  A position of another line may lie outside this one,
\* in memory that is taken to hold no delimiter.
CharAt(p) == IF p \in DOMAIN text THEN text[p] ELSE Nul

\* Mutant: a backslash is not passed over.
StuckAtBackslash ==
    /\ pc = "forward" /\ cur < line.len /\ CharAt(cur) # Delim
    /\ cur' = IF CharAt(cur) = Back THEN cur ELSE cur + 1
    /\ UNCHANGED <<row, part, pc, text, attr, todo, from, howMany, id, csv, value>>

\* parseLineForward.  The character after a backslash is passed over.
ForwardChar ==
    /\ pc = "forward" /\ cur < line.len /\ CharAt(cur) # Delim
    /\ cur' = IF CharAt(cur) = Back THEN cur + 2 ELSE cur + 1
    /\ UNCHANGED <<row, part, pc, text, attr, todo, from, howMany, id, csv, value>>

ForwardDelim ==
    /\ pc = "forward" /\ cur < line.len /\ CharAt(cur) = Delim
    /\ id' = id + 1 /\ howMany' = howMany - 1 /\ cur' = cur + 1
    /\ LET found == [attr EXCEPT ![id + 1].pointer = cur + 1]
       IN  IF howMany = 1 THEN attr' = WidthsForward(found) /\ pc' = "back"
                          ELSE attr' = found /\ pc' = pc
    /\ UNCHANGED <<row, part, text, todo, from, csv, value>>

\* "We parsed the last attribute and we hit EOL".
ForwardEOL ==
    /\ pc = "forward" /\ cur >= line.len
    /\ attr' = WidthsForward([attr EXCEPT ![id + 1].pointer = line.len + 1])
    /\ pc' = "back"
    /\ UNCHANGED <<row, part, text, todo, search, csv, value>>

ViaPMBackward ==
    /\ pc = "back"
    /\ IF Backward(from) = {}
       THEN pc' = "via" /\ UNCHANGED <<howMany, id, cur>>
       ELSE /\ pc' = "backward"
            /\ cur' = attr[from].pointer - 2
            /\ id' = from - 1 /\ howMany' = from - LastBackward(from)
    /\ UNCHANGED <<row, part, text, attr, todo, from, csv, value>>

\* parseLineBackward.  The character before a backslash is passed over.
BackwardChar ==
    /\ pc = "backward" /\ cur >= 0 /\ CharAt(cur) # Delim
    /\ cur' = IF CharAt(cur) = Back THEN cur - 2 ELSE cur - 1
    /\ UNCHANGED <<row, part, pc, text, attr, todo, from, howMany, id, csv, value>>

BackwardDelim ==
    /\ pc = "backward" /\ cur >= 0 /\ CharAt(cur) = Delim
    /\ howMany' = howMany - 1 /\ cur' = cur - 1
    /\ LET found == [attr EXCEPT ![id].pointer = cur + 1]
       IN  IF howMany = 1 THEN attr' = WidthsBackward(found) /\ pc' = "via" /\ id' = id
                          ELSE attr' = found /\ pc' = pc /\ id' = id - 1
    /\ UNCHANGED <<row, part, text, todo, from, csv, value>>

\* "We didn't find delimeter ==> First attribute".
BackwardBOL ==
    /\ pc = "backward" /\ cur < 0
    /\ attr' = WidthsBackward([attr EXCEPT ![id].pointer = 0])
    /\ pc' = "via"
    /\ UNCHANGED <<row, part, text, todo, search, csv, value>>

ViaPMDone ==
    /\ pc = "via" /\ todo = {}
    /\ pc' = "convert" /\ todo' = Convert
    /\ UNCHANGED <<row, part, text, attr, search, csv, value>>

----------------------------------------------------------------------------
(* NoDBGetValuesWithPM.                                                    *)

\* The C string that begins at p.
CString(t, p) ==
    IF p \notin DOMAIN t THEN {Elsewhere}
    ELSE {i \in DOMAIN t : i >= p /\ \A j \in DOMAIN t : p <= j /\ j <= i => t[j] # Nul}

IsNullMarker(t, p) ==
    CString(t, p) = {p, p + 1} /\ t[p] = Back /\ t[p + 1] = BigN

\* The byte after the field is overwritten to end the string.
NoDBGetValuesWithPM(c) ==
    /\ pc = "convert" /\ c \in todo
    /\ todo' = todo \ {c}
    /\ text' = [p \in DOMAIN text |-> IF p = attr[c].pointer + attr[c].width THEN Nul ELSE text[p]]
    /\ value' = [value EXCEPT ![c] = IF IsNullMarker(text', attr[c].pointer) THEN Null
                                     ELSE CString(text', attr[c].pointer)]
    /\ UNCHANGED <<row, part, pc, attr, search, csv>>

ConvertDone ==
    /\ pc = "convert" /\ todo = {}
    /\ pc' = "done"
    /\ UNCHANGED <<row, part, text, attr, todo, search, csv, value>>

----------------------------------------------------------------------------
(* After the part, and after the row.                                      *)

\* The qualification is evaluated on the filter columns.
Filter(pass) ==
    /\ pc = "done" /\ part = "pre"
    /\ part' = IF pass THEN "post" ELSE "pre"
    /\ pc' = IF pass THEN "part" ELSE "store"
    /\ UNCHANGED <<row, text, attr, todo, search, csv, value>>

PartsDone ==
    /\ pc = "done" /\ part = "post"
    /\ pc' = "store"
    /\ UNCHANGED <<row, part, text, attr, todo, search, csv, value>>

\* Mutant: the next entry is stored.
StoreNext ==
    /\ pc = "store"
    /\ pm' = [c \in Known \union {d + 1 : d \in AddPM} |-> IF c - 1 \in AddPM THEN attr[c] ELSE pm[c]]
    /\ pc' = "idle"
    /\ UNCHANGED <<line, odd, q, near, part, text, attr, todo, search, csv, value>>

\* "Cache positions".
StorePositions ==
    /\ pc = "store"
    /\ pm' = [c \in Known \union AddPM |-> IF c \in AddPM THEN attr[c] ELSE pm[c]]
    /\ pc' = "idle"
    /\ UNCHANGED <<line, odd, q, near, part, text, attr, todo, search, csv, value>>

----------------------------------------------------------------------------

CSVStep == PlainChar \/ OpenQuote \/ QuotedChar \/ UnterminatedField \/ EndField \/ NoDBGetValues

ViaStep ==
    \/ \E k \in Cols : ViaPM(k)
    \/ ForwardChar \/ ForwardDelim \/ ForwardEOL
    \/ ViaPMBackward \/ BackwardChar \/ BackwardDelim \/ BackwardBOL
    \/ ViaPMDone

ConvertStep == (\E c \in Cols : NoDBGetValuesWithPM(c)) \/ ConvertDone

\* The steps the executor takes by itself once it has the row.
RowStep ==
    \/ PartWithFile \/ PartWithPM
    \/ CSVStep \/ ViaStep \/ ConvertStep
    \/ \E pass \in BOOLEAN : Filter(pass)
    \/ PartsDone \/ StorePositions

Next == RowStep \/ \E st \in Statements : StartRow(st)

\* The executor's loops run without waiting for anybody.
Spec == Init /\ [][Next]_vars /\ WF_vars(RowStep)

----------------------------------------------------------------------------
(* Where the fields really are: a delimiter separates fields if the number *)
(* of quotes before it is even.                                            *)

Quotes(p) == Cardinality({i \in 0 .. (p - 1) : line.at[i] = Quote})
Separators == {p \in 0 .. (line.len - 1) : line.at[p] = Delim /\ Quotes(p) % 2 = 0}
Number(p) == Cardinality({s \in Separators : s < p})
FieldOf(c) == {p \in 0 .. (line.len - 1) : p \notin Separators /\ Number(p) = c}

\* Quotes are no part of the value, but for one that follows another.
Kept(p) ==
    line.at[p] = Quote => Quotes(p) % 2 = 0 /\ p > 0 /\ line.at[p - 1] = Quote

TrueValue(c) == IF FieldOf(c) = {} THEN Null ELSE {p \in FieldOf(c) : Kept(p)}

\* p is where field c begins, and where it ends.
Begins(p, c) == p \in 0 .. line.len /\ Number(p) = c /\ (p = 0 \/ p - 1 \in Separators)
Ends(p, c) == p \in 0 .. line.len /\ Number(p) = c /\ (p = line.len \/ p \in Separators)

\* The pair is the position of field c.  Of the first field in a file with
\* lines that are not plain, only the end is.
At(pair, c) ==
    /\ (c = 0 /\ odd) \/ Begins(pair.pointer, c)
    /\ Ends(pair.pointer + pair.width, c)

Complete == Cardinality(Separators) = NCols - 1
Plain == (\A p \in 0 .. (line.len - 1) : line.at[p] \notin {Quote, Back}) /\ Complete

----------------------------------------------------------------------------
(* Properties.                                                             *)

\* Columns and the counters of a search stay in their ranges: the loops of
\* the executor never write beyond the end of attributes[].
TypeOK ==
    /\ line \in Lines /\ odd \in BOOLEAN
    /\ Known \subseteq Cols
    /\ q \in Statements
    /\ part \in {"pre", "post"}
    /\ pc \in {"idle", "part", "field", "quoted", "values", "via", "forward", "back", "backward",
              "convert", "done", "store"}
    /\ todo \subseteq Cols
    /\ id \in 0 .. NCols

\* The positions stored for a plain line are those of its fields, whichever
\* statements stored them and in whatever steps; where other lines are not
\* plain that of the first field still has the right end, from which the
\* next fields are searched (parseLineForward).
PositionsTrue == Plain => \A c \in Known : At(pm[c], c)

\* A scan that parses the line delivers the fields by the rules of CSV.  So
\* does a scan that goes by stored positions on a plain line without empty
\* fields, if it does not search the line again after the filter columns
\* have been cut out of it, but for a stored first field next to lines that
\* are not plain.
SearchesOnce == q.write \/ q.filter = {} \/ q.all \subseteq Known
Faithful(c) ==
    \/ Known = {} /\ Complete
    \/ Plain /\ SearchesOnce /\ (\A d \in Cols : FieldOf(d) # {}) /\ (odd => c > 0 \/ 0 \notin Known)
ValuesTrue ==
    \A c \in Cols : pc # "idle" /\ value[c] # NoValue => (Faithful(c) => value[c] = TrueValue(c))

\* "We didn't find delimeter ==> First attribute" (parseLineBackward), again
\* if the line is not searched after it has been cut.
FirstAttribute == pc = "backward" /\ cur < 0 /\ Plain /\ SearchesOnce => id = 0 /\ howMany = 1

\* Whatever the line, the executor gets through with it.
RowFinishes == (pc # "idle") ~> (pc = "idle")

\* "In csv mode, the following default values are used : '' (empty string)
\* as NULL value" (NoDBScanOperatorInit).
EmptyIsNull ==
    \A c \in Cols : value[c] = {} /\ Complete => FieldOf(c) # {}
=============================================================================
