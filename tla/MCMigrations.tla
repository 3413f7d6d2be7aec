----------------------------- MODULE MCMigrations -----------------------------
(* Databases of the first release with up to four events, upgraded in one go or
   through releases of versions 3 and 13, on both sides of 11 -> 12. *)
EXTENDS Migrations

\* A note, and three versions of one replaceable event, two of one age.
FourRows == {[id |-> "a", slot |-> 0, created_at |-> 1], [id |-> "m1", slot |-> 1, created_at |-> 1],
             [id |-> "m2", slot |-> 1, created_at |-> 2], [id |-> "m3", slot |-> 1, created_at |-> 2]}
ThreeReleases == {3, 13, DB_VERSION}
===============================================================================
