----------------------------- MODULE MCNoDBScan -----------------------------
(* Instances of NoDBScan for TLC. *)
EXTENDS NoDBScan

MCRows == 0 .. (N + ChunkRows)
\* Lines of different lengths.
MCLineLen == [r \in 0 .. (N - 1) |-> 2 + (r % 2)]
\* Every set of columns, with and without a filter on any part of it, and a
\* LIMIT up to max.  A statement reads the columns it finds in the query
\* descriptor: a query whose scans are all in sublinks those of its text, a
\* plan that is kept what other statements left there.
AllQueries(max) ==
    {q \in [all : SUBSET Cols, filter : SUBSET Cols, limit : 0 .. max] : q.filter \subseteq q.all}
\* A query with a FROM clause that is parsed for its execution reads every
\* column.
WholeQueries(max) == {q \in AllQueries(max) : q.all = Cols}

AnyLimit == AllQueries(N - 1)
NoLimit == AllQueries(0)
WholeAnyLimit == WholeQueries(N - 1)
WholeNoLimit == WholeQueries(0)
=============================================================================
