------------------------------ MODULE MCPayments ------------------------------
(* Small instances of the payments. *)
EXTENDS Payments

CONSTANTS alice, bob, g1, g2

OneKey   == {alice}
TwoKeys  == {alice, bob}
NoGate   == {}
OneGate  == {g1}
TwoGates == {g1, g2}
===============================================================================
