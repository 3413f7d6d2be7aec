----------------------------- MODULE MCEventStore -----------------------------
(* Small event catalogues for model checking EventStore. *)
EXTENDS EventStore

Ev(id, author, kind, t, exp, dtags, refs) ==
  [id |-> id, author |-> author, kind |-> kind, created_at |-> t,
   expiration |-> exp, dtags |-> dtags, refs |-> refs]

Lower(id) == [id |-> id, lower |-> TRUE]
Upper(id) == [id |-> id, lower |-> FALSE]

Never == NoExpiration

\* Replaceable versions with a tie, parameterized versions in two places with a
\* tie, a note that expires, a gift wrap, and deletions by the author (one of
\* them naming the other), by a stranger and with an upper-case id.
MCEvents ==
  { Ev("m1", "alice", 0, 1, Never, <<>>, {}),
    Ev("m2", "alice", 0, 2, Never, <<>>, {}),
    Ev("m2b", "alice", 0, 2, 2, <<>>, {}),
    Ev("p1", "alice", 30000, 1, Never, <<"a">>, {}),
    Ev("p2", "alice", 30000, 2, Never, <<"a">>, {}),
    Ev("p2b", "alice", 30000, 2, Never, <<"a">>, {}),
    Ev("q1", "alice", 30000, 1, Never, <<"">>, {}),
    Ev("n1", "alice", 1, 1, 1, <<>>, {}),
    Ev("g1", "alice", 1059, 1, Never, <<>>, {}),
    Ev("x1", "alice", 5, 2, Never, <<>>, {Lower("m2"), Lower("p2"), Lower("g1"), Lower("x2")}),
    Ev("x2", "alice", 5, 1, 2, <<>>, {Lower("m1"), Upper("n1"), Lower("p1")}),
    Ev("x3", "bob", 5, 1, Never, <<>>, {Lower("q1"), Lower("g1")}) }

\* A parameterized event that repeats its "d" tag.
MCRepeatedParamEvents ==
  { Ev("p1", "alice", 30000, 1, Never, <<"a">>, {}),
    Ev("p2", "alice", 30000, 2, Never, <<"a", "a">>, {}) }
===============================================================================
