----------------------------- MODULE MCNestLoop -----------------------------
(* Instances of NestLoop for TLC. *)
EXTENDS NestLoop

MCRows == 0 .. (N + ChunkRows)
MCLineLen == [r \in 0 .. (N - 1) |-> 2 + (r % 2)]
NoLimit == {q \in [all : SUBSET Cols, filter : SUBSET Cols, limit : {0}] : q.filter \subseteq q.all}
=============================================================================
