---------------------------- MODULE MCQueryPipeline ----------------------------
(* Small instances of the query pipeline. *)
EXTENDS QueryPipeline

CONSTANTS c1, c2, q1, q2, q3

OneConn  == {c1}
TwoConns == {c1, c2}
Three    == {q1, q2, q3}

\* Three queries of one connection, the first with a row between two checks.
SameConn == [q \in Three |-> c1]
Rows210 == [q \in Three |-> CASE q = q1 -> 2 [] q = q2 -> 1 [] q = q3 -> 0]
Rows111 == [q \in Three |-> 1]

\* Two queries of one connection and one of another.
TwoAndOne == [q \in Three |-> IF q = q3 THEN c2 ELSE c1]
Rows100 == [q \in Three |-> IF q = q1 THEN 1 ELSE 0]
===============================================================================
