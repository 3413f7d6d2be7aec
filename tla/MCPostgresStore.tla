---------------------------- MODULE MCPostgresStore ----------------------------
(* Small instances of the PostgreSQL event store. *)
EXTENDS PostgresStore

CONSTANTS db_writer, verifier

Ev(id, kind, t, exp, dtags, refs) ==
  [id |-> id, author |-> "alice", kind |-> kind, created_at |-> t,
   expiration |-> exp, dtags |-> dtags, refs |-> {[id |-> r, lower |-> TRUE] : r \in refs}]

m1 == Ev("m1", 0, 1, -1, << >>, {})
m2 == Ev("m2", 0, 2, 1, << >>, {})
m2b == Ev("m2b", 0, 2, -1, << >>, {})
m3 == Ev("m3", 0, 3, -1, << >>, {})
g1 == Ev("g1", 1059, 1, -1, << >>, {})
x1 == Ev("x1", 5, 2, -1, << >>, {"m1", "m2", "g1"})
x2 == Ev("x2", 5, 2, -1, << >>, {})

\* Versions of a metadata event, one of which both tasks write, two of one age and one
\* that expires; for the database writer also a gift wrap and two deletions, one
\* of them without a valid reference.
AllEvents == {m1, m2, m2b, m3, g1, x1, x2}
BothWriters == {db_writer, verifier}
MetadataForBoth ==
  [w \in BothWriters |-> IF w = verifier THEN {m1, m3} ELSE AllEvents \ {m3}]

OneWriter == {db_writer}
AllForOne == [w \in OneWriter |-> AllEvents]
===============================================================================
