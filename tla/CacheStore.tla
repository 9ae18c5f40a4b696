----------------------------- MODULE CacheStore -----------------------------
(***************************************************************************)
(* What a NoDB cache promises the code that uses it: a table of cells,     *)
(* one for every (column, row), in which a write changes exactly one cell, *)
(* adding a column or growing the buffer loses nothing, and a cell that    *)
(* was never written reads as the uninitialised contents of its memory.    *)
(* NoDBCache.tla is shown to implement this.                               *)
(***************************************************************************)
CONSTANTS Column,    \* the columns of the relation
          Row,       \* the (logical) row numbers a cache may be asked for
          Value(_),  \* Value(c): what can be stored in a cell of column c
          Unset(_)   \* Unset(c): the contents of a cell nobody wrote

VARIABLES present,   \* the columns stored in the cache
          stored,    \* the rows the buffer has room for
          cell       \* cell[c][r]

storeVars == <<present, stored, cell>>

EmptyStore ==
    /\ present = {}
    /\ stored = {}
    /\ cell = [c \in Column |-> [r \in Row |-> Unset(c)]]

Add(c) ==
    /\ c \notin present
    /\ present' = present \union {c}
    /\ UNCHANGED <<stored, cell>>

Enlarge(rows) ==
    /\ stored \subseteq rows
    /\ stored' = rows
    /\ UNCHANGED <<present, cell>>

Put(c, r, v) ==
    /\ c \in present
    /\ r \in stored
    /\ cell' = [cell EXCEPT ![c][r] = v]
    /\ UNCHANGED <<present, stored>>

StoreNext ==
    \/ \E c \in Column : Add(c)
    \/ \E rows \in SUBSET Row : Enlarge(rows)
    \/ \E c \in Column, r \in Row : \E v \in Value(c) : Put(c, r, v)

StoreSpec == EmptyStore /\ [][StoreNext]_storeVars
=============================================================================
