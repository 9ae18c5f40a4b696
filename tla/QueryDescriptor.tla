--------------------------- MODULE QueryDescriptor ---------------------------
(***************************************************************************)
(* The query descriptor (snooping/queryDescriptor.c): one record per       *)
(* backend in which the parser, the rewriter and the walk over the plan    *)
(* collect which columns a statement uses, and from which a scan takes the *)
(* columns it reads and the columns it reads before its filter.            *)
(*                                                                         *)
(* The alias map is filled from its first slot on and emptied only as a    *)
(* whole, so it is kept as what is asked of it: the pairs it holds, and    *)
(* for every name the table it was first registered for.  Of the lists of  *)
(* columns only allAttributes and filterList are ever read.  The LIMIT is   *)
(* left to NoDBScan, which gives any scan any limit.                       *)
(***************************************************************************)
EXTENDS Naturals, FiniteSets

CONSTANTS Tables,      \* relation names
          Names,       \* every name a query may call a relation by
          Columns,
          AliasSlots,  \* NUMBER_OF_RELATIONS
          NoName,      \* NULL: no table name, no alias
          Whole        \* the whole_row flag instead of a column

ASSUME DescriptorAssumption ==
    /\ Tables \subseteq Names
    /\ NoName \notin Names
    /\ Whole \notin Columns
    /\ AliasSlots \in Nat

Entries == [name : Names \union {NoName}, col : Columns \union {Whole}]
Pairs == [name : Names, table : Tables]

Descriptors ==
    [pairs : SUBSET Pairs, first : [Names -> Tables \union {NoName}],
     allAttributes : SUBSET Entries, filterList : SUBSET Entries]

EmptyDescriptor ==
    [pairs |-> {}, first |-> [n \in Names |-> NoName],
     allAttributes |-> {}, filterList |-> {}]

resetQueryDescriptor(d) == EmptyDescriptor

hasTableAlias(d, table, name) == [name |-> name, table |-> table] \in d.pairs

getTableNameFromAlias(d, name) == IF d.first[name] # NoName THEN d.first[name] ELSE name

\* Mutant: the last slot is never used.
AliasMapShort(d, table, name) ==
    IF hasTableAlias(d, table, name) \/ Cardinality(d.pairs) + 1 >= AliasSlots THEN d
    ELSE [d EXCEPT !.pairs = @ \union {[name |-> name, table |-> table]},
                   !.first[name] = IF @ = NoName THEN table ELSE @]

\* With no empty slot left the alias is dropped, and nobody is told.
addTableAliasInformation(d, table, name) ==
    IF hasTableAlias(d, table, name) \/ Cardinality(d.pairs) >= AliasSlots THEN d
    ELSE [d EXCEPT !.pairs = @ \union {[name |-> name, table |-> table]},
                   !.first[name] = IF @ = NoName THEN table ELSE @]

\* addColumnInformation outside PS_filterList.
addColumns(d, entries) == [d EXCEPT !.allAttributes = @ \union entries]

\* addColumnInformation in PS_filterList: the filter list gets the name of
\* the table, the list of all attributes the name that was used.
addFilterColumns(d, entries) ==
    [d EXCEPT !.allAttributes = @ \union entries,
              !.filterList = @ \union
                  {[name |-> getTableNameFromAlias(d, e.name), col |-> e.col] : e \in entries}]

\* An entry of allAttributes is one of table's.
Concerns(d, e, table) == e.name = NoName \/ e.name = table \/ hasTableAlias(d, table, e.name)

\* Mutant: entries under an alias are not looked at.
AttributesByTableName(d, table) ==
    {c \in Columns : \E e \in d.allAttributes :
        (e.name = NoName \/ e.name = table) /\ e.col \in {c, Whole}}

getQueryAttributes(d, table) ==
    {c \in Columns : \E e \in d.allAttributes : Concerns(d, e, table) /\ e.col \in {c, Whole}}

getQueryFilterAttributes(d, table) ==
    {c \in Columns : \E e \in d.filterList : e.name \in {NoName, table} /\ e.col = c}
=============================================================================
