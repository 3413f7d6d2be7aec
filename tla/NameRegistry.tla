----------------------------- MODULE NameRegistry -----------------------------
(***************************************************************************)
(* What the name authority promises about names, with no handler, lock or   *)
(* clock in sight: a free name can be taken by a key that has none, a taken *)
(* name can become free, and nothing else happens to a name.               *)
(***************************************************************************)
CONSTANTS Names, Pubkeys, NoKey

VARIABLE holder    \* holder[n] is the key that name n resolves to, or NoKey

Init == holder = [n \in Names |-> NoKey]

Claim(n, pk) ==
  /\ holder[n] = NoKey
  /\ \A m \in Names : holder[m] # pk
  /\ holder' = [holder EXCEPT ![n] = pk]

Release(n) ==
  /\ holder[n] # NoKey
  /\ holder' = [holder EXCEPT ![n] = NoKey]

Next == \E n \in Names : Release(n) \/ \E pk \in Pubkeys : Claim(n, pk)

Spec == Init /\ [][Next]_holder
===============================================================================
