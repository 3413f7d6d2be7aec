---------------------------- MODULE MCNameAuthority ----------------------------
(* Small instances of the name authority. *)
EXTENDS NameAuthority, TLC

CONSTANTS w1, w2, n1, n2, p, q, ip1

TwoWorkers == {w1, w2}
OneWorker  == {w1}
TwoNames   == {n1, n2}
Keys       == {p, q}
Clients    == {ip1}
WorkerSymmetry == Permutations(TwoWorkers)

Auth(id, op, pk, n, body, t) ==
  [id |-> id, op |-> op, pubkey |-> pk, name |-> n, body_pubkey |-> body, created_at |-> t]

\* p claims, releases and claims again (the last event is post-dated by the whole
\* skew); q wants the same name.
ClaimEvents ==
  { Auth("a", "register", p, n1, p, 0), Auth("b", "release", p, n1, p, 0),
    Auth("c", "register", p, n2, p, 1), Auth("d", "register", q, n1, q, 0) }

\* p releases one claim twice, and q claims the name in between.
ReleaseEvents ==
  { Auth("a", "register", p, n1, p, 0), Auth("b", "release", p, n1, p, 0),
    Auth("c", "release", p, n1, p, 0), Auth("d", "register", q, n1, q, 0) }
===============================================================================
