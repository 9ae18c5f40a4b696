------------------------------- MODULE MCFields -------------------------------
(***************************************************************************)
(* Small instances of Fields: every line of a bounded length over the      *)
(* characters that matter, and the kinds of statements.                    *)
(***************************************************************************)
EXTENDS Fields, Sequences, SequencesExt

CONSTANTS MaxLen, Other

MCChars == {Delim, Quote, Back, BigN, Other}

LineOf(s) == [len |-> Len(s), at |-> [p \in 0 .. (Len(s) - 1) |-> s[p + 1]]]
Count(s, ch) == Cardinality({i \in DOMAIN s : s[i] = ch})

\* Every line of two delimiters, empty fields included, and one too short.
PlainLines == {s \in SeqOf({Delim, Other}, MaxLen) : Count(s, Delim) = 2} \union {<<Other, Delim, Other>>}

\* A quoted delimiter, a quoted quote, empty quotes, quotes inside a field, a
\* quote that does not end, a backslash before a delimiter, the text null
\* marker, backslashes at both ends.
OddLines ==
    {<<Quote, Delim, Quote, Delim, Other, Delim, Other>>,
     <<Other, Delim, Quote, Quote, Quote, Quote, Delim, Other>>,
     <<Quote, Quote, Delim, Delim, Other>>,
     <<Other, Quote, Delim, Quote, Other, Delim, Quote, Other, Quote, Delim>>,
     <<Other, Delim, Other, Delim, Quote, Other>>,
     <<Other, Back, Delim, Other, Delim, Other>>,
     <<Other, Delim, Back, BigN, Delim, Other>>,
     <<Back, Delim, Other, Delim, Back>>}

MCLines == {LineOf(s) : s \in PlainLines \union OddLines}

Stmt(all, filter, write, hits) == [all |-> all, filter |-> filter, write |-> write, hits |-> hits]

MCStatements ==
    {Stmt(Cols, {}, TRUE, {}), Stmt({0}, {}, TRUE, {}), Stmt({1}, {1}, TRUE, {}),
     Stmt({2}, {}, TRUE, {}), Stmt(Cols, {1}, TRUE, {0}), Stmt(Cols, {1}, FALSE, {}),
     Stmt({0, 2}, {2}, FALSE, {})}

\* Filters on one column, then on the others, of a line whose last field is
\* empty.
EmptyLast == {LineOf(<<Other, Delim, Other, Delim>>)}
OneThenOthers == {Stmt({1}, {1}, TRUE, {}), Stmt({0, 2}, {0, 2}, TRUE, {})}
=============================================================================
