------------------------------ MODULE MCSession ------------------------------
(* Instances of Session for TLC. *)
EXTENDS Session

CONSTANTS t1, t2, t3, a, b, c, t1_1, x, y

MCTables == {t1, t2, t3}
MCNames == MCTables \union {a, b, c, t1_1}
S(rel, alias, ref, qual, target) ==
    [rel |-> rel, alias |-> alias, ref |-> ref, qual |-> qual, target |-> target, limitCalls |-> FALSE]
Stmt(scans, refs) == [scans |-> scans, refs |-> refs, from |-> TRUE, folds |-> FALSE]
R(name, col) == [name |-> name, col |-> col]

\* SELECT c.x FROM t1 a, t1 c WHERE a.x AND c.y
SelfJoin == Stmt(<<S(t1, a, a, {{x}}, {}), S(t1, c, c, {{y}}, {x})>>, {R(a, x), R(c, x), R(c, y)})
\* SELECT (SELECT b.x FROM t2 b WHERE b.y), (SELECT x FROM t3 WHERE x), with
\* t3 not in snoop.conf
Sublinks ==
    [Stmt(<<S(t2, b, b, {{y}}, {x}), S(t3, NoName, t3, {{x}}, {x})>>, {R(b, x), R(b, y), R(NoName, x)})
     EXCEPT !.from = FALSE]
\* SELECT x + f() FROM t2 LIMIT g(), with f immutable
EarlyCalls ==
    [Stmt(<<[S(t2, NoName, t2, {}, {x}) EXCEPT !.limitCalls = TRUE]>>, {R(NoName, x)}) EXCEPT !.folds = TRUE]
\* Names that mean one table each.
PlainStatements == {SelfJoin, Sublinks, EarlyCalls}

\* SELECT (SELECT count(*) FROM t1 JOIN t2 USING (x))
SublinkUsing ==
    {[Stmt(<<S(t1, NoName, t1, {}, {x}), S(t2, NoName, t2, {}, {x})>>, {}) EXCEPT !.from = FALSE]}

\* SELECT x FROM t1 WHERE y IN (SELECT y FROM t1 WHERE x): the second scan is
\* printed under the name t1_1.
TwiceWithoutAlias ==
    {Stmt(<<S(t1, NoName, t1, {}, {x, y}), S(t1, NoName, t1_1, {{x}}, {y})>>, {R(NoName, x), R(NoName, y)})}
====
