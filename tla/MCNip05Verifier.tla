---------------------------- MODULE MCNip05Verifier ----------------------------
(* Small instances of the NIP-05 verifier. *)
EXTENDS Nip05Verifier

CONSTANTS n1, n2

Meta(id, a, n, t) == [id |-> id, author |-> a, name |-> n, created_at |-> t]

\* alice has two metadata events, the newer one with another name; bob uses
\* alice's first name.
TwoAuthors == { Meta("e1", "alice", n1, 1), Meta("e2", "alice", n2, 2), Meta("f1", "bob", n1, 1) }
OneAuthor == { Meta("e1", "alice", n1, 1), Meta("e2", "alice", n2, 2) }
OneNote == { [id |-> "x", author |-> "alice"] }
Denied == {n2}
AllReplies == {"timeout", "listed", "not_listed"}
===============================================================================
