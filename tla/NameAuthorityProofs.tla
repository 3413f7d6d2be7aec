-------------------------- MODULE NameAuthorityProofs --------------------------
(***************************************************************************)
(* Theorems about the name authority, for any number of handlers, names,   *)
(* keys and auth events, any limits and both payment modes; and about its  *)
(* rate map with any callers.                                              *)
(***************************************************************************)
EXTENDS NameAuthority, RateLimiter, FiniteSetTheorems, TLAPS

(***************************************************************************)
(* Types.                                                                  *)
(***************************************************************************)

\* The keys of the rate map stay rate keys: allow and its sweep touch no other.
LEMMA AllowKeys ==
  ASSUME NEW m, DOMAIN m \subseteq RateKeys, NEW t,
         NEW key \in RateKeys, NEW max, NEW window
  PROVE  DOMAIN AfterAllow(m, key, max, window, t) \subseteq RateKeys
<1>1. \A k \in RateKeys : \A v : DOMAIN Put(m, k, v) \subseteq RateKeys
  BY DEF Put
<1>2. \A k \in RateKeys : \A v : DOMAIN Sweep(Put(m, k, v), t, window) \subseteq RateKeys
  BY <1>1 DEF Sweep
<1>. QED
  BY <1>1, <1>2 DEF AfterAllow

\* The keys that the endpoints use are rate keys.
LEMMA EndpointKeys ==
  /\ \A ip \in Ips : ReadKey(ip) \in RateKeys
  /\ \A ip \in Ips : WriteKey("na-reg", ip) \in RateKeys /\ WriteKey("na-unreg", ip) \in RateKeys
BY DEF RateKeys, WriteBuckets

\* The initial state is well typed.
LEMMA TypeInit == Init => TypeOK
BY AuthorityAssumption
   DEF Init, TypeOK, Idle, EmptyMap, PCs, WorkOK, NeverUsed

\* The part of TypeOK that is about the claims table.
ClaimsType ==
  /\ claims \in [Names -> [owner : Pubkeys \cup {NoKey}, active : BOOLEAN]]
  /\ \A n \in Names : claims[n].active => claims[n].owner \in Pubkeys

\* The part of TypeOK that is about the handlers.
WorkType ==
  /\ work \in [Workers -> [pc : PCs, ev : AuthEvents \cup {NoEvent}, armed : Nat \cup {NoTime}]]
  /\ \A w \in Workers : WorkOK(work[w])

\* A handler that answers, or goes on to a step of its own endpoint, leaves the
\* handlers well typed.
LEMMA WorkSteps ==
  ASSUME WorkType, NEW w \in Workers, ~At(w, "idle"), NEW pc,
         \/ Ev(w).op = "register" /\ pc \in RegisterPCs
         \/ Ev(w).op = "release" /\ pc \in ReleasePCs,
         Reply(w) \/ Goto(w, pc)
  PROVE  WorkType'
<1>1. CASE Reply(w)
  BY <1>1 DEF WorkType, Reply, Idle, PCs, WorkOK
<1>2. CASE Goto(w, pc)
  <2>1. work[w] # Idle /\ work[w].ev \in AuthEvents /\ work[w].armed \in Nat \cup {NoTime}
    BY DEF WorkType, WorkOK, At, Idle
  <2>2. pc \in PCs
    BY DEF PCs, RegisterPCs, ReleasePCs
  <2>3. work' \in [Workers -> [pc : PCs, ev : AuthEvents \cup {NoEvent}, armed : Nat \cup {NoTime}]]
    BY <1>2, <2>2 DEF Goto, WorkType
  <2>4. work'[w].ev = work[w].ev /\ work'[w].armed = work[w].armed /\ work'[w].pc = pc
    BY <1>2 DEF Goto, WorkType
  <2>5. WorkOK(work'[w])
    BY <2>1, <2>4 DEF WorkOK, Ev
  <2>6. \A v \in Workers \ {w} : work'[v] = work[v]
    BY <1>2 DEF Goto, WorkType
  <2>. QED  BY <2>3, <2>5, <2>6 DEF WorkType
<1>. QED  BY <1>1, <1>2

\* A handler at a step of an endpoint holds a request for that endpoint.
LEMMA Busy ==
  ASSUME TypeOK, NEW w \in Workers, ~At(w, "idle")
  PROVE  /\ Ev(w) \in AuthEvents /\ Ev(w).pubkey \in Pubkeys /\ Ev(w).name \in Names
         /\ work[w].pc \in RegisterPCs => Ev(w).op = "register"
         /\ work[w].pc \in ReleasePCs => Ev(w).op = "release"
BY AuthorityAssumption DEF TypeOK, WorkOK, At, Idle, Ev, RegisterPCs, ReleasePCs

\* The two steps of authentication leave the state well typed, whichever endpoint they serve.
LEMMA AuthenticateTypes ==
  ASSUME TypeOK, NEW w \in Workers, NEW from, NEW to, from # "idle",
         verify_nip98(w, from, to) \/ auth_event_fresh(w, from, to),
         \/ Ev(w).op = "register" /\ to \in RegisterPCs
         \/ Ev(w).op = "release" /\ to \in ReleasePCs
  PROVE  TypeOK'
<1>1. ~At(w, "idle")
  BY DEF verify_nip98, auth_event_fresh, At
<1>2. WorkType /\ Ev(w) \in AuthEvents
  BY <1>1, Busy DEF TypeOK, WorkType
<1>3. Reply(w) \/ Goto(w, to)
  BY DEF verify_nip98, auth_event_fresh
<1>4. WorkType'
  BY <1>1, <1>2, <1>3, WorkSteps
<1>5. CASE verify_nip98(w, from, to)
  BY <1>4, <1>5 DEF TypeOK, WorkType, verify_nip98
<1>6. CASE auth_event_fresh(w, from, to)
  <2>1. DOMAIN SeenNow \subseteq {e.id : e \in AuthEvents}
    BY DEF SeenNow, TypeOK
  <2>2. (DOMAIN seen \subseteq {e.id : e \in AuthEvents})'
    BY <1>2, <1>6, <2>1 DEF auth_event_fresh, Put, TypeOK
  <2>3. (accepted \in [AuthEvents -> [count : Nat, last : Nat]])'
    BY <1>2, <1>6 DEF auth_event_fresh, TypeOK
  <2>. QED
    BY <1>4, <1>6, <2>2, <2>3 DEF TypeOK, WorkType, auth_event_fresh
<1>. QED
  BY <1>5, <1>6

\* Accepting a request leaves the state well typed.
LEMMA BeginTypes ==
  ASSUME TypeOK, NEW w \in Workers, NEW ip \in Ips, NEW e \in AuthEvents,
         register(w, ip, e) \/ unregister(w, ip, e)
  PROVE  TypeOK'
<1>1. PICK bucket \in WriteBuckets, first \in PCs :
         /\ Begin(w, ip, e, bucket, first)
         /\ \/ e.op = "register" /\ first = "r_auth"
            \/ e.op = "release" /\ first = "u_auth"
  BY DEF register, unregister, WriteBuckets, PCs
<1>2. WriteKey(bucket, ip) \in RateKeys
  BY EndpointKeys DEF WriteBuckets
<1>3. (DOMAIN rate \subseteq RateKeys)'
  BY <1>1, <1>2, AllowKeys DEF Begin, TypeOK
<1>4. e.pubkey \in Pubkeys /\ armed[e.pubkey] \in Nat \cup {NoTime}
  BY AuthorityAssumption DEF TypeOK
<1>5. WorkType'
  BY <1>1, <1>4 DEF Begin, TypeOK, WorkType, WorkOK, RegisterPCs, ReleasePCs
<1>. QED
  BY <1>1, <1>3, <1>5 DEF TypeOK, WorkType, Begin

\* Every step leaves the state well typed.
LEMMA TypeStep == TypeOK /\ [Next]_vars => TypeOK'
<1>. SUFFICES ASSUME TypeOK, [Next]_vars  PROVE TypeOK'
  OBVIOUS
<1>0. WorkType
  BY DEF TypeOK, WorkType
<1>1. ASSUME NEW w \in Workers, NEW ip \in Ips, NEW e \in AuthEvents,
             register(w, ip, e) \/ unregister(w, ip, e)
      PROVE  TypeOK'
  BY <1>1, BeginTypes
<1>2. ASSUME NEW w \in Workers, Handle(w)  PROVE TypeOK'
  <2>0. ~At(w, "idle")
    BY <1>2 DEF Handle, register_auth, register_fresh, register_cooldown, register_lookup,
                register_name_of, register_gate, register_insert, unregister_auth,
                unregister_fresh, unregister_lookup, unregister_update, unregister_record,
                verify_nip98, auth_event_fresh, At
  <2>b. /\ Ev(w) \in AuthEvents /\ Ev(w).pubkey \in Pubkeys /\ Ev(w).name \in Names
        /\ work[w].pc \in RegisterPCs => Ev(w).op = "register"
        /\ work[w].pc \in ReleasePCs => Ev(w).op = "release"
    BY <2>0, Busy
  <2>1. CASE register_auth(w) \/ register_fresh(w)
    <3>1. Ev(w).op = "register"
      BY <2>1, <2>b DEF register_auth, register_fresh, verify_nip98, auth_event_fresh, At, RegisterPCs
    <3>. QED
      BY <2>1, <3>1, AuthenticateTypes DEF register_auth, register_fresh, RegisterPCs
  <2>2. CASE unregister_auth(w) \/ unregister_fresh(w)
    <3>1. Ev(w).op = "release"
      BY <2>2, <2>b DEF unregister_auth, unregister_fresh, verify_nip98, auth_event_fresh, At, ReleasePCs
    <3>. QED
      BY <2>2, <3>1, AuthenticateTypes DEF unregister_auth, unregister_fresh, ReleasePCs
  <2>3. CASE register_cooldown(w)
    <3>1. WorkType'
      BY <1>0, <2>0, <2>b, <2>3, WorkSteps DEF register_cooldown, RegisterPCs, At
    <3>2. (DOMAIN rate \subseteq RateKeys)'
      BY <2>b, <2>3 DEF register_cooldown, AfterCooldownCheck, TypeOK
    <3>. QED  BY <2>3, <3>1, <3>2 DEF register_cooldown, TypeOK, WorkType
  <2>4. CASE register_lookup(w)
    BY <1>0, <2>0, <2>b, <2>4, WorkSteps DEF register_lookup, RegisterPCs, At, TypeOK, WorkType
  <2>5. CASE register_name_of(w)
    BY <1>0, <2>0, <2>b, <2>5, WorkSteps DEF register_name_of, RegisterPCs, At, TypeOK, WorkType
  <2>6. CASE register_gate(w)
    BY <1>0, <2>0, <2>b, <2>6, WorkSteps DEF register_gate, RegisterPCs, At, TypeOK, WorkType
  <2>7. CASE register_insert(w)
    <3>1. WorkType'
      BY <1>0, <2>0, <2>b, <2>7, WorkSteps DEF register_insert, RegisterPCs, At
    <3>2. ClaimsType'
      <4>1. CASE UNCHANGED claims
        BY <4>1 DEF TypeOK, ClaimsType
      <4>2. CASE claims' = [claims EXCEPT ![Ev(w).name] = [owner |-> Ev(w).pubkey, active |-> TRUE]]
        BY <2>b, <4>2 DEF TypeOK, ClaimsType
      <4>. QED  BY <2>7, <4>1, <4>2 DEF register_insert
    <3>. QED  BY <2>7, <3>1, <3>2 DEF register_insert, TypeOK, WorkType, ClaimsType
  <2>8. CASE unregister_lookup(w)
    BY <1>0, <2>0, <2>b, <2>8, WorkSteps DEF unregister_lookup, ReleasePCs, At, TypeOK, WorkType
  <2>9. CASE unregister_update(w)
    <3>1. WorkType'
      BY <1>0, <2>0, <2>b, <2>9, WorkSteps DEF unregister_update, ReleasePCs, At
    <3>2. ClaimsType'
      <4>1. CASE UNCHANGED claims
        BY <4>1 DEF TypeOK, ClaimsType
      <4>2. CASE claims' = [claims EXCEPT ![Ev(w).name] = [owner |-> @.owner, active |-> FALSE]]
        <5>1. claims' \in [Names -> [owner : Pubkeys \cup {NoKey}, active : BOOLEAN]]
          BY <2>b, <4>2 DEF TypeOK
        <5>2. \A n \in Names : claims'[n].active => claims'[n] = claims[n]
          BY <2>b, <4>2 DEF TypeOK
        <5>. QED  BY <5>1, <5>2 DEF TypeOK, ClaimsType
      <4>. QED  BY <2>9, <4>1, <4>2 DEF unregister_update
    <3>. QED  BY <2>9, <3>1, <3>2 DEF unregister_update, TypeOK, WorkType, ClaimsType
  <2>10. CASE unregister_record(w)
    <3>1. WorkType'
      BY <1>0, <2>0, <2>b, <2>10, WorkSteps DEF unregister_record, ReleasePCs, At
    <3>2. (DOMAIN rate \subseteq RateKeys)'
      <4>1. CooldownKey(Ev(w).pubkey) \in RateKeys
        BY <2>b DEF RateKeys
      <4>. QED  BY <2>10, <4>1 DEF unregister_record, AfterRecord, Put, TypeOK
    <3>. QED  BY <2>b, <2>10, <3>1, <3>2 DEF unregister_record, TypeOK, WorkType
  <2>. QED
    BY <1>2, <2>1, <2>2, <2>3, <2>4, <2>5, <2>6, <2>7, <2>8, <2>9, <2>10 DEF Handle
<1>3. ASSUME NEW ip \in Ips, read(ip)  PROVE TypeOK'
  <2>1. ReadKey(ip) \in RateKeys
    BY EndpointKeys
  <2>2. (DOMAIN rate \subseteq RateKeys)'
    BY <1>3, <2>1, AllowKeys DEF read, TypeOK
  <2>. QED  BY <1>3, <2>2 DEF read, TypeOK
<1>5. CASE Tick
  BY <1>5 DEF Tick, TypeOK
<1>6. CASE Restart
  BY <1>6 DEF Restart, TypeOK, Idle, EmptyMap, PCs, WorkOK, NeverUsed
<1>7. CASE UNCHANGED vars
  BY <1>7 DEF vars, TypeOK
<1>. QED
  BY <1>1, <1>2, <1>3, <1>5, <1>6, <1>7 DEF Next

\* TypeOK holds in every reachable state of the name authority.
THEOREM TypeCorrect == Spec => []TypeOK
BY TypeInit, TypeStep, PTL DEF Spec

(***************************************************************************)
(* The claims table implements the registry.                               *)
(***************************************************************************)

\* What a step may do to the claims table: nothing, one guarded INSERT by a
\* handler that has reached it, or one UPDATE that releases a name.
LEMMA ClaimsStep ==
  ASSUME TypeOK, [Next]_vars
  PROVE  \/ claims' = claims
         \/ \E w \in Workers, n \in Names, pk \in Pubkeys :
              /\ At(w, "r_insert") /\ pk = Ev(w).pubkey
              /\ Insertable(n, pk)
              /\ claims' = [claims EXCEPT ![n] = [owner |-> pk, active |-> TRUE]]
         \/ \E n \in Names :
              /\ claims' = [claims EXCEPT ![n] = [owner |-> @.owner, active |-> FALSE]]
<1>1. ASSUME NEW w \in Workers, unregister_update(w)
      PROVE  Ev(w).name \in Names
  BY <1>1, Busy DEF unregister_update, At
<1>2. ASSUME NEW w \in Workers, register_insert(w)
      PROVE  Ev(w).name \in Names /\ Ev(w).pubkey \in Pubkeys
  BY <1>2, Busy DEF register_insert, At
<1>. QED
  BY <1>1, <1>2 DEF Next, vars, Handle, register, unregister, Begin, read, Tick, Restart,
     register_auth, unregister_auth, verify_nip98, register_fresh, unregister_fresh,
     auth_event_fresh, register_cooldown, register_lookup, register_name_of, register_gate,
     register_insert, unregister_lookup, unregister_update, unregister_record

\* The refinement mapping of RefinesRegistry.
Holder == [n \in Names |-> IF claims[n].active THEN claims[n].owner ELSE NoKey]

\* Every step of the authority is a step of the registry, or changes no holder.
LEMMA RegistryStep == TypeOK /\ [Next]_vars => [Registry!Next]_Holder
<1>. SUFFICES ASSUME TypeOK, [Next]_vars  PROVE [Registry!Next]_Holder
  OBVIOUS
<1>1. CASE claims' = claims
  BY <1>1 DEF Holder
<1>2. ASSUME NEW n \in Names, NEW pk \in Pubkeys, Insertable(n, pk),
             claims' = [claims EXCEPT ![n] = [owner |-> pk, active |-> TRUE]]
      PROVE  Registry!Next
  <2>1. Holder[n] = NoKey
    BY <1>2 DEF Insertable, Holder
  <2>2. \A m \in Names : Holder[m] # pk
    BY <1>2, AuthorityAssumption DEF Insertable, HasName, Holds, Holder
  <2>3. Holder' = [Holder EXCEPT ![n] = pk]
    BY <1>2 DEF Holder, TypeOK
  <2>4. Registry!Claim(n, pk)
    BY <2>1, <2>2, <2>3 DEF Registry!Claim, Holder
  <2>. QED  BY <2>4 DEF Registry!Next
<1>3. ASSUME NEW n \in Names,
             claims' = [claims EXCEPT ![n] = [owner |-> @.owner, active |-> FALSE]]
      PROVE  Registry!Next \/ Holder' = Holder
  <2>1. Holder' = [Holder EXCEPT ![n] = NoKey]
    BY <1>3 DEF Holder, TypeOK
  <2>2. CASE ~claims[n].active
    <3>1. Holder[n] = NoKey
      BY <2>2 DEF Holder
    <3>. QED  BY <2>1, <3>1 DEF Holder
  <2>3. CASE claims[n].active
    <3>1. Holder[n] # NoKey
      BY <2>3, AuthorityAssumption DEF Holder, TypeOK
    <3>2. Registry!Release(n)
      BY <2>1, <3>1 DEF Registry!Release, Holder
    <3>. QED  BY <3>2 DEF Registry!Next
  <2>. QED  BY <2>2, <2>3
<1>. QED
  BY <1>1, <1>2, <1>3, ClaimsStep

\* The initial state has no holder.
LEMMA RegistryInit == Init => Registry!Init
BY DEF Init, Registry!Init

\* The claims table, under any interleaving of handlers and restarts,
\* implements the abstract registry.
THEOREM AuthorityImplementsRegistry == Spec => RefinesRegistry
BY RegistryInit, RegistryStep, TypeCorrect, PTL DEF Spec, RefinesRegistry, Registry!Spec, Holder

\* A key never has two active names.
LEMMA OneNameStep == TypeOK /\ OneNamePerKey /\ [Next]_vars => OneNamePerKey'
<1>. SUFFICES ASSUME TypeOK, OneNamePerKey, [Next]_vars  PROVE OneNamePerKey'
  OBVIOUS
<1>1. CASE claims' = claims
  BY <1>1 DEF OneNamePerKey, Holds
<1>2. ASSUME NEW n \in Names, NEW pk \in Pubkeys, Insertable(n, pk),
             claims' = [claims EXCEPT ![n] = [owner |-> pk, active |-> TRUE]]
      PROVE  OneNamePerKey'
  <2>1. \A m \in Names \ {n} : claims'[m] = claims[m] /\ ~Holds(m, pk)
    BY <1>2 DEF Insertable, HasName, TypeOK
  <2>2. claims'[n] = [owner |-> pk, active |-> TRUE]
    BY <1>2 DEF TypeOK
  <2>. QED  BY <2>1, <2>2 DEF OneNamePerKey, Holds
<1>3. ASSUME NEW n \in Names,
             claims' = [claims EXCEPT ![n] = [owner |-> @.owner, active |-> FALSE]]
      PROVE  OneNamePerKey'
  <2>1. \A m \in Names : claims'[m].active => claims'[m] = claims[m]
    BY <1>3 DEF TypeOK
  <2>. QED  BY <2>1 DEF OneNamePerKey, Holds
<1>. QED
  BY <1>1, <1>2, <1>3, ClaimsStep

\* However register calls interleave, a key never has two active names.
THEOREM KeysHaveOneName == Spec => []OneNamePerKey
<1>1. Init => OneNamePerKey
  BY DEF Init, OneNamePerKey
<1>. QED
  BY <1>1, OneNameStep, TypeCorrect, PTL DEF Spec

(***************************************************************************)
(* One use per auth event.                                                 *)
(***************************************************************************)

\* The first instant at which verify_nip98 accepts e, the first one of its last second,
\* and how long its use is remembered, in ticks.
FirstTick(e) == (e.created_at - Skew) * TicksPerSecond
LastTick(e) == (e.created_at + MaxAge) * TicksPerSecond
Memory == (MaxAge + Skew) * TicksPerSecond

\* The memory reaches from the first instant to the last second.
LEMMA MemorySpans ==
  ASSUME NEW e \in AuthEvents
  PROVE  /\ FirstTick(e) \in Int /\ LastTick(e) \in Int /\ Memory \in Int
         /\ FirstTick(e) + Memory = LastTick(e)
<1>1. e.created_at \in Int /\ Skew \in Int /\ MaxAge \in Int /\ TicksPerSecond \in Int
  BY AuthorityAssumption
<1>2. PICK c \in Int, k \in Int, a \in Int, r \in Int :
        c = e.created_at /\ k = Skew /\ a = MaxAge /\ r = TicksPerSecond
  BY <1>1
<1>3. (c - k) * r + (a + k) * r = (c + a) * r
  OBVIOUS
<1> QED
  BY <1>2, <1>3 DEF FirstTick, LastTick, Memory

\* An event that verify_nip98 accepts is not before its first instant.
LEMMA FreshSince ==
  ASSUME TypeOK, NEW e \in AuthEvents, unix_time - e.created_at >= -Skew
  PROVE  now >= FirstTick(e)
<1>1. e.created_at \in Int /\ Skew \in Int /\ now \in Int /\ TicksPerSecond \in Int /\ TicksPerSecond > 0
  BY AuthorityAssumption DEF TypeOK
<1>2. PICK s \in Int : s = now \div TicksPerSecond /\ s * TicksPerSecond <= now
  BY <1>1
<1>3. s >= e.created_at - Skew
  BY <1>1, <1>2 DEF unix_time
<1>4. PICK d \in Int, r \in Int, t \in Int :
        d = e.created_at - Skew /\ r = TicksPerSecond /\ r > 0 /\ t = now /\ s >= d /\ s * r <= t
  BY <1>1, <1>2, <1>3
<1>5. s * r >= d * r
  BY <1>4
<1> QED
  BY <1>4, <1>5 DEF FirstTick

\* The last use of an auth event is still remembered or as long ago as its use is
\* remembered, and only a use in its last second or later followed another.
UseOK(e) ==
  /\ accepted[e].last >= FirstTick(e)
  /\ accepted[e].count > 1 => accepted[e].last >= LastTick(e)
  /\ \/ e.id \in DOMAIN seen /\ seen[e.id] = accepted[e].last
     \/ now - accepted[e].last >= Memory

FreshPCs == {"r_fresh", "u_fresh"}

ReplayInv ==
  /\ \A e \in AuthEvents : accepted[e].count = 0 \/ UseOK(e)
  /\ \A w \in Workers : work[w].pc \in FreshPCs => now >= FirstTick(Ev(w))

\* The handlers between the two checks of an auth event are past its first instant.
LEMMA FreshHandlers ==
  ASSUME TypeOK, ReplayInv, [Next]_vars
  PROVE  \A w \in Workers : work'[w].pc \in FreshPCs => now' >= FirstTick(work'[w].ev)
<1> SUFFICES ASSUME NEW w \in Workers, work'[w].pc \in FreshPCs
             PROVE  now' >= FirstTick(work'[w].ev)
  OBVIOUS
<1>0. now \in Nat /\ (now' = now \/ now' = now + 1)
  BY DEF TypeOK, Next, vars, Handle, register, unregister, Begin, read, Tick, Restart,
     register_auth, unregister_auth, verify_nip98, register_fresh, unregister_fresh,
     auth_event_fresh, register_cooldown, register_lookup, register_name_of, register_gate,
     register_insert, unregister_lookup, unregister_update, unregister_record
<1>1. CASE work'[w] = work[w]
  <2>1. Ev(w) \in AuthEvents
    BY <1>1, Busy DEF At, FreshPCs
  <2>2. FirstTick(Ev(w)) \in Int
    BY <2>1, MemorySpans
  <2> QED
    BY <1>0, <1>1, <2>2 DEF ReplayInv, Ev
<1>2. CASE work'[w] # work[w]
  <2>1. ASSUME NEW v \in Workers, NEW ip \in Ips, NEW e \in AuthEvents,
               register(v, ip, e) \/ unregister(v, ip, e)
        PROVE  FALSE
    BY <1>2, <2>1 DEF register, unregister, Begin, TypeOK, FreshPCs
  <2>2. ASSUME NEW v \in Workers, Handle(v)
        PROVE  v = w /\ (register_auth(w) \/ unregister_auth(w))
    <3>1. Reply(v) \/ \E pc \in PCs : Goto(v, pc)
      BY <2>2 DEF Handle, register_auth, unregister_auth, verify_nip98, register_fresh,
         unregister_fresh, auth_event_fresh, register_cooldown, register_lookup, register_name_of,
         register_gate, register_insert, unregister_lookup, unregister_update, unregister_record, PCs
    <3>2. v = w /\ ~Reply(v)
      BY <1>2, <3>1 DEF Goto, Reply, Idle, TypeOK, FreshPCs
    <3>3. \A pc : Goto(w, pc) => pc \in FreshPCs
      BY DEF Goto, TypeOK
    <3> QED
      BY <2>2, <3>2, <3>3 DEF Handle, register_auth, unregister_auth, register_fresh,
         unregister_fresh, auth_event_fresh, register_cooldown, register_lookup, register_name_of,
         register_gate, register_insert, unregister_lookup, unregister_update, unregister_record,
         FreshPCs
  <2>3. CASE register_auth(w) \/ unregister_auth(w)
    <3>1. PICK from, to : from # "idle" /\ verify_nip98(w, from, to)
      BY <2>3 DEF register_auth, unregister_auth
    <3>2. ~Reply(w)
      BY DEF Reply, Idle, TypeOK, FreshPCs
    <3>3. unix_time - Ev(w).created_at >= -Skew /\ Goto(w, to) /\ now' = now
      BY <3>1, <3>2 DEF verify_nip98
    <3>4. Ev(w) \in AuthEvents
      BY <3>1, Busy DEF verify_nip98, At
    <3>5. work'[w].ev = Ev(w)
      BY <3>3 DEF Goto, TypeOK, Ev
    <3> QED
      BY <3>3, <3>4, <3>5, FreshSince
  <2>4. ~Restart
    BY DEF Restart, Idle, FreshPCs
  <2> QED
    BY <1>2, <2>1, <2>2, <2>3, <2>4 DEF Next, read, Tick, vars
<1> QED
  BY <1>1, <1>2

\* Using one auth event keeps the invariant for all of them.
LEMMA ReplayFresh ==
  ASSUME TypeOK, ReplayInv, NEW w \in Workers, Ev(w) \in AuthEvents,
         NEW from \in FreshPCs, NEW to, auth_event_fresh(w, from, to)
  PROVE  \A e \in AuthEvents : accepted'[e].count = 0 \/ UseOK(e)'
<1>. SUFFICES ASSUME NEW e \in AuthEvents
             PROVE  accepted'[e].count = 0 \/ UseOK(e)'
  OBVIOUS
<1>0. /\ now' = now /\ now \in Nat
      /\ accepted[e] \in [count : Nat, last : Nat]
      /\ FirstTick(e) \in Int /\ LastTick(e) \in Int /\ Memory \in Int
      /\ FirstTick(e) + Memory = LastTick(e)
      /\ accepted[e].count = 0 \/ UseOK(e)
  BY MemorySpans DEF auth_event_fresh, TypeOK, ReplayInv
<1>a. SeenNow = [id \in {i \in DOMAIN seen : now - seen[i] < Memory} |-> seen[id]]
  BY DEF SeenNow, Memory
<1>b. accepted'[e].last = accepted[e].last /\ accepted'[e].count = accepted[e].count /\
      (e.id \in DOMAIN SeenNow => e.id \in DOMAIN seen' /\ seen'[e.id] = seen[e.id])
        => accepted'[e].count = 0 \/ UseOK(e)'
  BY <1>0, <1>a DEF UseOK, FirstTick, LastTick, Memory
<1>1. CASE seen' = SeenNow /\ accepted' = accepted
  BY <1>1, <1>a, <1>b
<1>2. CASE /\ Ev(w).id \notin DOMAIN SeenNow
           /\ seen' = Put(SeenNow, Ev(w).id, now)
           /\ accepted' = [accepted EXCEPT ![Ev(w)] = [count |-> @.count + 1, last |-> now]]
  <2>1. CASE e # Ev(w)
    <3>1. e.id # Ev(w).id
      BY <2>1, AuthorityAssumption
    <3>2. accepted'[e] = accepted[e]
      BY <1>2, <2>1 DEF TypeOK
    <3>3. e.id \in DOMAIN SeenNow => e.id \in DOMAIN seen' /\ seen'[e.id] = seen[e.id]
      BY <1>2, <1>a, <3>1 DEF Put
    <3>. QED  BY <1>b, <3>2, <3>3
  <2>2. CASE e = Ev(w)
    <3>1. now >= FirstTick(e)
      BY <2>2 DEF ReplayInv, auth_event_fresh, At
    <3>2. e.id \in DOMAIN seen' /\ seen'[e.id] = now
      BY <1>2, <2>2 DEF Put
    <3>3. accepted'[e].count = accepted[e].count + 1 /\ accepted'[e].last = now
      BY <1>2, <2>2 DEF TypeOK
    <3>4. ASSUME accepted[e].count > 0 PROVE now >= LastTick(e)
      <4>1. UseOK(e)
        BY <1>0, <3>4
      <4>2. now - accepted[e].last >= Memory
        BY <1>2, <1>a, <2>2, <4>1, <1>0 DEF UseOK
      <4> QED
        BY <1>0, <4>1, <4>2 DEF UseOK
    <3>. QED
      BY <1>0, <3>1, <3>2, <3>3, <3>4 DEF UseOK, FirstTick, LastTick
  <2>. QED  BY <2>1, <2>2
<1>. QED
  BY <1>1, <1>2 DEF auth_event_fresh

\* Between two restarts an auth event is let through at most once before the last second
\* in which it is fresh, for any number of handlers and however long they take between
\* the two checks.
THEOREM AuthEventsAreUsedOnce == Spec => []OneUseWhileFresh
<1>1. Init => ReplayInv
  BY DEF Init, ReplayInv, NeverUsed, Idle, FreshPCs
<1>2. TypeOK /\ ReplayInv /\ [Next]_vars => ReplayInv'
  <2>. SUFFICES ASSUME TypeOK, ReplayInv, [Next]_vars
                PROVE  \A e \in AuthEvents : accepted'[e].count = 0 \/ UseOK(e)'
    BY FreshHandlers DEF ReplayInv, Ev, FirstTick
  <2>1. ASSUME NEW w \in Workers, register_fresh(w) \/ unregister_fresh(w)
        PROVE  \A e \in AuthEvents : accepted'[e].count = 0 \/ UseOK(e)'
    <3>1. PICK from \in FreshPCs, to \in PCs : auth_event_fresh(w, from, to)
      BY <2>1 DEF register_fresh, unregister_fresh, FreshPCs, PCs
    <3>2. Ev(w) \in AuthEvents
      BY <3>1, Busy DEF auth_event_fresh, At, FreshPCs
    <3>. QED  BY <3>1, <3>2, ReplayFresh
  <2>2. CASE Restart
    BY <2>2 DEF Restart, NeverUsed
  <2>3. CASE Tick
    <3>1. seen' = seen /\ accepted' = accepted /\ now' = now + 1
      BY <2>3 DEF Tick
    <3>2. \A e \in AuthEvents : accepted[e].last \in Nat /\ Memory \in Int
      BY MemorySpans DEF TypeOK
    <3>3. now \in Nat
      BY DEF TypeOK
    <3>4. ASSUME NEW e \in AuthEvents, UseOK(e) PROVE UseOK(e)'
      BY <3>1, <3>2, <3>3, <3>4 DEF UseOK, FirstTick, LastTick, Memory
    <3>. QED  BY <3>1, <3>4 DEF ReplayInv
  <2>4. CASE UNCHANGED <<seen, accepted, now>>
    BY <2>4 DEF ReplayInv, UseOK, FirstTick, LastTick, Memory
  <2>. QED
    BY <2>1, <2>2, <2>3, <2>4 DEF Next, vars, Handle, register, unregister, Begin, read,
       register_auth, unregister_auth, verify_nip98, register_cooldown, register_lookup,
       register_name_of, register_gate, register_insert, unregister_lookup, unregister_update,
       unregister_record
<1>3. TypeOK /\ ReplayInv => OneUseWhileFresh
  BY DEF TypeOK, ReplayInv, OneUseWhileFresh, UseOK, LastTick
<1>. QED
  BY <1>1, <1>2, <1>3, TypeCorrect, PTL DEF Spec

(***************************************************************************)
(* The rate map.                                                           *)
(***************************************************************************)

HitsAt(hits, t) == {h \in hits : h[1] = t}

\* Hits are finitely many, and those of one instant are numbered from 1.
HitsOK(hits) ==
  /\ IsFiniteSet(hits)
  /\ \A h \in hits : h[1] \in Nat /\ h[2] \in 1..Cardinality(HitsAt(hits, h[1]))

MapOK(m) == DOMAIN m \subseteq RateKeys /\ \A k \in DOMAIN m : HitsOK(m[k])

\* A sweep on behalf of reads or writes spares the keys with a hit in a window that
\* is not longer than theirs; and there is none while all keys fit in the map.
SweepSpares(window) ==
  \/ window <= ReadWindow /\ window <= WriteWindow
  \/ IsFiniteSet(RateKeys) /\ Cardinality(RateKeys) <= MapLimit

\* No hits are well formed.
LEMMA NoHits == HitsOK({})
BY FS_EmptySet DEF HitsOK

\* retain keeps or drops the hits of an instant together.
LEMMA RecentOK ==
  ASSUME NEW hits, HitsOK(hits), NEW t \in Nat, NEW window \in Nat
  PROVE  HitsOK(Recent(hits, t, window))
<1> DEFINE kept == Recent(hits, t, window)
<1>1. kept \subseteq hits /\ IsFiniteSet(kept)
  <2>1. kept \subseteq hits
    BY DEF Recent
  <2> QED
    BY <2>1, FS_Subset DEF HitsOK
<1>2. ASSUME NEW h \in kept PROVE HitsAt(kept, h[1]) = HitsAt(hits, h[1])
  BY DEF Recent, HitsAt
<1> QED
  BY <1>1, <1>2 DEF HitsOK

\* push adds one hit that was not there, so that a hit is never counted as another.
LEMMA PushOK ==
  ASSUME NEW hits, HitsOK(hits), NEW t \in Nat
  PROVE  /\ HitsOK(Push(hits, t))
         /\ Cardinality(Push(hits, t)) = Cardinality(hits) + 1
<1>1. PICK c : c = Cardinality(HitsAt(hits, t))
  OBVIOUS
<1>2. HitsAt(hits, t) \subseteq hits /\ IsFiniteSet(HitsAt(hits, t)) /\ c \in Nat
  <2>1. HitsAt(hits, t) \subseteq hits
    BY DEF HitsAt
  <2> QED
    BY <1>1, <2>1, FS_Subset, FS_CardinalityType DEF HitsOK
<1>3. PICK x : x = <<t, 1 + c>>
  OBVIOUS
<1>4. x[1] = t /\ x[2] = 1 + c /\ x[2] \in 1..(c + 1) /\ ~(x[2] \in 1..c)
  BY <1>2, <1>3
<1>5. x \notin hits
  BY <1>1, <1>4 DEF HitsOK
<1>6. Push(hits, t) = hits \cup {x}
  BY <1>1, <1>3 DEF Push, HitsAt
<1>7. IsFiniteSet(Push(hits, t)) /\ Cardinality(Push(hits, t)) = Cardinality(hits) + 1
  BY <1>5, <1>6, FS_AddElement DEF HitsOK
<1>8. HitsAt(Push(hits, t), t) = HitsAt(hits, t) \cup {x} /\ x \notin HitsAt(hits, t)
  BY <1>4, <1>5, <1>6 DEF HitsAt
<1>9. Cardinality(HitsAt(Push(hits, t), t)) = c + 1
  BY <1>1, <1>2, <1>8, FS_AddElement
<1>10. ASSUME NEW h \in Push(hits, t)
       PROVE  h[1] \in Nat /\ h[2] \in 1..Cardinality(HitsAt(Push(hits, t), h[1]))
  <2>1. CASE h = x
    BY <1>4, <1>9, <2>1
  <2>2. CASE h \in hits /\ h[1] = t
    <3>1. h[2] \in 1..c
      BY <1>1, <2>2 DEF HitsOK
    <3> QED
      BY <1>2, <1>9, <2>2, <3>1
  <2>3. CASE h \in hits /\ h[1] # t
    <3>1. HitsAt(Push(hits, t), h[1]) = HitsAt(hits, h[1])
      BY <1>4, <1>6, <2>3 DEF HitsAt
    <3> QED
      BY <2>3, <3>1 DEF HitsOK
  <2> QED
    BY <1>6, <2>1, <2>2, <2>3
<1> QED
  BY <1>7, <1>10 DEF HitsOK

\* Whether old hits were dropped before makes no difference to what is recent after
\* a push.
LEMMA PushRecent ==
  ASSUME NEW hits, HitsOK(hits), NEW t \in Nat, NEW caller \in Nat, NEW window \in Nat,
         window <= caller
  PROVE  Recent(Push(Recent(hits, t, caller), t), t, window) = Recent(Push(hits, t), t, window)
<1>0. \A h \in hits : h[1] \in Nat
  BY DEF HitsOK
<1>1. Recent(Recent(hits, t, caller), t, window) = Recent(hits, t, window)
  BY <1>0 DEF Recent
<1>2. CASE window = 0
  <2>1. \A n : ~(t - <<t, n>>[1] < window)
    BY <1>2
  <2> QED
    BY <1>1, <2>1 DEF Recent, Push
<1>3. CASE window > 0
  <2>1. {h \in Recent(hits, t, caller) : h[1] = t} = {h \in hits : h[1] = t}
    BY <1>3 DEF Recent
  <2>2. PICK x : /\ Push(Recent(hits, t, caller), t) = Recent(hits, t, caller) \cup {x}
                 /\ Push(hits, t) = hits \cup {x}
    BY <2>1 DEF Push
  <2> QED
    BY <1>1, <2>2 DEF Recent
<1> QED
  BY <1>2, <1>3

\* What is recent stays recent or grows old as time passes; nothing becomes recent.
LEMMA RecentLater ==
  ASSUME NEW hits, HitsOK(hits), NEW t \in Nat, NEW window \in Nat
  PROVE  Recent(hits, t + 1, window) = Recent(Recent(hits, t, window), t + 1, window)
<1>1. \A h \in hits : h[1] \in Nat
  BY DEF HitsOK
<1> QED
  BY <1>1 DEF Recent

\* The hits of a key are well formed; a key that is not in the map has none.
LEMMA MapHits ==
  ASSUME NEW m, MapOK(m), NEW k
  PROVE  HitsOK(Hits(m, k))
BY NoHits DEF MapOK, Hits

\* The hits of every key after an insertion.
LEMMA PutHits ==
  ASSUME NEW m, NEW key, NEW value, NEW k
  PROVE  Hits(Put(m, key, value), k) = IF k = key THEN value ELSE Hits(m, k)
BY DEF Put, Hits

\* Inserting well-formed hits keeps the map well formed.
LEMMA PutOK ==
  ASSUME NEW m, MapOK(m), NEW key \in RateKeys, NEW value, HitsOK(value)
  PROVE  MapOK(Put(m, key, value))
BY DEF Put, MapOK

\* A sweep leaves the recent hits of every window that it spares.
LEMMA SweepHits ==
  ASSUME NEW m, MapOK(m), NEW t \in Nat, NEW caller \in Nat, NEW window \in Nat,
         NEW k, window <= caller \/ k \in DOMAIN Sweep(m, t, caller)
  PROVE  /\ MapOK(Sweep(m, t, caller))
         /\ Recent(Hits(Sweep(m, t, caller), k), t, window) = Recent(Hits(m, k), t, window)
<1>1. MapOK(Sweep(m, t, caller))
  BY DEF Sweep, MapOK
<1>2. CASE k \in DOMAIN Sweep(m, t, caller)
  BY <1>1, <1>2 DEF Sweep, Hits
<1>3. CASE k \notin DOMAIN Sweep(m, t, caller)
  <2>1. Hits(Sweep(m, t, caller), k) = {}
    BY <1>3 DEF Hits
  <2>2. Recent(Hits(m, k), t, caller) = {}
    BY <1>3 DEF Sweep, Hits, Recent
  <2>3. \A h \in Hits(m, k) : h[1] \in Nat
    BY MapHits DEF HitsOK
  <2>4. Recent(Hits(m, k), t, window) = {}
    BY <1>3, <2>2, <2>3 DEF Recent
  <2> QED
    BY <1>1, <2>1, <2>4 DEF Recent
<1> QED
  BY <1>2, <1>3


\* allow keeps the map well formed.
LEMMA AllowOK ==
  ASSUME NEW m, MapOK(m), NEW key \in RateKeys, NEW max, NEW caller \in Nat, NEW t \in Nat
  PROVE  /\ HitsOK(Recent(Hits(m, key), t, caller))
         /\ MapOK(Put(m, key, Push(Recent(Hits(m, key), t, caller), t)))
         /\ MapOK(AfterAllow(m, key, max, caller, t))
<1> DEFINE kept == Recent(Hits(m, key), t, caller)
           recorded == Put(m, key, Push(kept, t))
<1>1. HitsOK(kept) /\ HitsOK(Push(kept, t))
  BY MapHits, RecentOK, PushOK
<1>2. MapOK(recorded) /\ MapOK(Put(m, key, kept))
  BY <1>1, PutOK
<1>3. caller <= caller
  OBVIOUS
<1>4. MapOK(Sweep(recorded, t, caller))
  BY <1>2, <1>3, SweepHits
<1> QED
  BY <1>1, <1>2, <1>4 DEF AfterAllow

\* The recent hits of a key after a call of allow, for a window that sweeps spare or a
\* key that this call does not drop: those of another key stay, the caller's own get one
\* more if the call is let through.
LEMMA AllowHits ==
  ASSUME NEW m, MapOK(m), NEW key \in RateKeys, NEW max \in Nat,
         NEW caller \in {ReadWindow, WriteWindow}, NEW t \in Nat,
         NEW window \in Nat, NEW k,
         \/ SweepSpares(window) \/ window <= caller
         \/ k # key /\ k \notin DOMAIN m \ DOMAIN AfterAllow(m, key, max, caller, t)
  PROVE  LET hits == Recent(Hits(AfterAllow(m, key, max, caller, t), k), t, window)
         IN  /\ k # key => hits = Recent(Hits(m, k), t, window)
             /\ k = key /\ window <= caller =>
                  hits = Recent(IF Allowed(m, key, max, caller, t) THEN Push(Hits(m, key), t)
                                ELSE Hits(m, key), t, window)
<1> DEFINE kept == Recent(Hits(m, key), t, caller)
           recorded == Put(m, key, Push(kept, t))
           after == AfterAllow(m, key, max, caller, t)
<1>1. caller \in Nat /\ MapLimit \in Nat
  BY RateAssumption
<1>2. HitsOK(kept) /\ MapOK(recorded)
  BY <1>1, AllowOK
<1>3. Cardinality(kept) \in Nat
  BY <1>2, FS_CardinalityType DEF HitsOK
<1>a. \A h \in Hits(m, key) : h[1] \in Nat
  BY MapHits DEF HitsOK
<1>4. window <= caller =>
        Recent(Recent(Hits(m, key), t, caller), t, window) = Recent(Hits(m, key), t, window)
  BY <1>1, <1>a DEF Recent
<1>5. CASE Cardinality(kept) >= max
  <2>1. after = Put(m, key, kept) /\ ~Allowed(m, key, max, caller, t)
    BY <1>3, <1>5 DEF AfterAllow, Allowed
  <2>2. Hits(after, k) = IF k = key THEN kept ELSE Hits(m, k)
    BY <2>1, PutHits
  <2> QED
    BY <1>4, <2>1, <2>2
<1>6. CASE ~(Cardinality(kept) >= max)
  <2>1. Allowed(m, key, max, caller, t)
    BY <1>3, <1>6 DEF Allowed
  <2>2. Hits(recorded, k) = IF k = key THEN Push(kept, t) ELSE Hits(m, k)
    BY PutHits
  <2>3. window <= caller => Recent(Push(kept, t), t, window) = Recent(Push(Hits(m, key), t), t, window)
    BY <1>1, MapHits, PushRecent
  <2>4. Recent(Hits(after, k), t, window) = Recent(Hits(recorded, k), t, window)
    <3>1. CASE Cardinality(DOMAIN recorded) > MapLimit
      <4>1. after = Sweep(recorded, t, caller)
        BY <1>6, <3>1 DEF AfterAllow
      <4>2. CASE SweepSpares(window) \/ window <= caller
        <5>1. CASE IsFiniteSet(RateKeys) /\ Cardinality(RateKeys) <= MapLimit
          <6>1. DOMAIN recorded \in SUBSET RateKeys
            BY <1>2 DEF MapOK
          <6>2. /\ Cardinality(DOMAIN recorded) <= Cardinality(RateKeys)
                /\ Cardinality(DOMAIN recorded) \in Nat /\ Cardinality(RateKeys) \in Nat
            BY <5>1, <6>1, FS_Subset, FS_CardinalityType
          <6> HIDE DEF recorded
          <6> QED
            BY <1>1, <3>1, <5>1, <6>2
        <5>2. CASE window <= caller
          BY <1>1, <1>2, <4>1, <5>2, SweepHits
        <5> QED
          BY <4>2, <5>1, <5>2 DEF SweepSpares
      <4>3. CASE k # key /\ k \notin DOMAIN m \ DOMAIN after
        <5>1. k \notin DOMAIN m => k \notin DOMAIN recorded /\ k \notin DOMAIN after
          BY <4>1, <4>3 DEF Put, Sweep
        <5>2. k \notin DOMAIN m => Hits(after, k) = {} /\ Hits(recorded, k) = {}
          BY <5>1 DEF Hits
        <5>3. k \in DOMAIN m => Recent(Hits(after, k), t, window) = Recent(Hits(recorded, k), t, window)
          BY <1>1, <1>2, <4>1, <4>3, SweepHits
        <5> QED
          BY <5>2, <5>3
      <4> QED
        BY <4>2, <4>3
    <3>2. CASE ~(Cardinality(DOMAIN recorded) > MapLimit)
      <4>1. after = recorded
        BY <1>6, <3>2 DEF AfterAllow
      <4> QED
        BY <4>1
    <3> QED
      BY <3>1, <3>2
  <2> HIDE DEF after, recorded
  <2> QED
    BY <2>1, <2>2, <2>3, <2>4 DEF after
<1> QED
  BY <1>5, <1>6

\* cooldown_active and record_op, likewise.
LEMMA CooldownHits ==
  ASSUME NEW m, MapOK(m), NEW pk \in Pubkeys, NEW t \in Nat, NEW k
  PROVE  /\ MapOK(AfterCooldownCheck(m, pk, t)) /\ MapOK(AfterRecord(m, pk, t))
         /\ k # CooldownKey(pk) => /\ Hits(AfterCooldownCheck(m, pk, t), k) = Hits(m, k)
                                   /\ Hits(AfterRecord(m, pk, t), k) = Hits(m, k)
         /\ k = CooldownKey(pk) =>
              /\ Hits(AfterCooldownCheck(m, pk, t), k) = Recent(Hits(m, k), t, Cooldown)
              /\ Hits(AfterRecord(m, pk, t), k) = Push(Hits(m, k), t)
<1> DEFINE key == CooldownKey(pk)
<1>1. key \in RateKeys /\ Cooldown \in Nat
  BY RateAssumption DEF RateKeys
<1>2. /\ HitsOK(Hits(m, key)) /\ HitsOK(Push(Hits(m, key), t))
      /\ HitsOK(Recent(Hits(m, key), t, Cooldown))
  BY <1>1, MapHits, PushOK, RecentOK
<1>3. MapOK(AfterRecord(m, pk, t))
  BY <1>1, <1>2, PutOK DEF AfterRecord
<1>4. Hits(AfterRecord(m, pk, t), k) = IF k = key THEN Push(Hits(m, key), t) ELSE Hits(m, k)
  BY PutHits DEF AfterRecord
<1>5. CASE key \in DOMAIN m
  <2>1. /\ AfterCooldownCheck(m, pk, t) = [m EXCEPT ![key] = Recent(@, t, Cooldown)]
        /\ Hits(m, key) = m[key]
    BY <1>5 DEF AfterCooldownCheck, Hits
  <2>2. MapOK(AfterCooldownCheck(m, pk, t))
    BY <1>2, <1>5, <2>1 DEF MapOK
  <2> QED
    BY <1>3, <1>4, <1>5, <2>1, <2>2 DEF Hits
<1>6. CASE key \notin DOMAIN m
  <2>1. AfterCooldownCheck(m, pk, t) = m /\ Hits(m, key) = {}
    BY <1>6 DEF AfterCooldownCheck, Hits
  <2>2. Recent({}, t, Cooldown) = {}
    BY DEF Recent
  <2> QED
    BY <1>3, <1>4, <2>1, <2>2
<1> QED
  BY <1>5, <1>6


\* The keys of windows and of cooldowns are different.
LEMMA KeysDiffer ==
  \A pk : /\ \A ip : CooldownKey(pk) # ReadKey(ip)
          /\ \A b \in WriteBuckets : \A ip : CooldownKey(pk) # WriteKey(b, ip)
          /\ \A qk : CooldownKey(pk) = CooldownKey(qk) => pk = qk
BY DEF CooldownKey, ReadKey, WriteKey, WriteBuckets

(***************************************************************************)
(* The cooldown.                                                           *)
(***************************************************************************)

\* The hits of pk that are in force.
Marks(m, pk, t) == Recent(Hits(m, CooldownKey(pk)), t, Cooldown)

\* Whatever one method does to the map, a release in force is still there.
LEMMA MarksKept ==
  ASSUME SweepSpares(Cooldown), NEW m, MapOK(m), NEW t \in Nat, NEW m2,
         \/ \E ip \in Ips : m2 = AfterAllow(m, ReadKey(ip), ReadMax, ReadWindow, t)
         \/ \E b \in WriteBuckets, ip \in Ips :
              m2 = AfterAllow(m, WriteKey(b, ip), WriteMax, WriteWindow, t)
         \/ \E pk \in Pubkeys : m2 = AfterCooldownCheck(m, pk, t) \/ m2 = AfterRecord(m, pk, t)
  PROVE  MapOK(m2) /\ \A pk \in Pubkeys : Marks(m, pk, t) \subseteq Hits(m2, CooldownKey(pk))
<1>1. {ReadMax, ReadWindow, WriteMax, WriteWindow, Cooldown} \subseteq Nat
  BY RateAssumption
<1>2. \A hits, window : Recent(hits, t, window) \subseteq hits
  BY DEF Recent
<1>3. ASSUME NEW key \in RateKeys, \A pk \in Pubkeys : CooldownKey(pk) # key,
             NEW max \in Nat, NEW caller \in {ReadWindow, WriteWindow},
             m2 = AfterAllow(m, key, max, caller, t)
      PROVE  MapOK(m2) /\ \A pk \in Pubkeys : Marks(m, pk, t) \subseteq Hits(m2, CooldownKey(pk))
  <2>1. MapOK(m2)
    BY <1>1, <1>3, AllowOK
  <2>2. ASSUME NEW pk \in Pubkeys PROVE Marks(m, pk, t) \subseteq Hits(m2, CooldownKey(pk))
    <3>1. Recent(Hits(m2, CooldownKey(pk)), t, Cooldown) = Marks(m, pk, t)
      BY <1>1, <1>3, AllowHits DEF Marks
    <3> QED
      BY <1>2, <3>1
  <2> QED
    BY <2>1, <2>2
<1>4. ASSUME NEW ip \in Ips, m2 = AfterAllow(m, ReadKey(ip), ReadMax, ReadWindow, t)
      PROVE  MapOK(m2) /\ \A pk \in Pubkeys : Marks(m, pk, t) \subseteq Hits(m2, CooldownKey(pk))
  BY <1>1, <1>3, <1>4, KeysDiffer, EndpointKeys
<1>5. ASSUME NEW b \in WriteBuckets, NEW ip \in Ips,
             m2 = AfterAllow(m, WriteKey(b, ip), WriteMax, WriteWindow, t)
      PROVE  MapOK(m2) /\ \A pk \in Pubkeys : Marks(m, pk, t) \subseteq Hits(m2, CooldownKey(pk))
  <2>1. WriteKey(b, ip) \in RateKeys
    BY DEF RateKeys
  <2> QED
    BY <1>1, <1>3, <1>5, <2>1, KeysDiffer
<1>6. ASSUME NEW qk \in Pubkeys, m2 = AfterCooldownCheck(m, qk, t) \/ m2 = AfterRecord(m, qk, t)
      PROVE  MapOK(m2) /\ \A pk \in Pubkeys : Marks(m, pk, t) \subseteq Hits(m2, CooldownKey(pk))
  <2>1. MapOK(m2)
    BY <1>6, CooldownHits
  <2>2. ASSUME NEW pk \in Pubkeys PROVE Marks(m, pk, t) \subseteq Hits(m2, CooldownKey(pk))
    <3>1. \/ Hits(m2, CooldownKey(pk)) = Hits(m, CooldownKey(pk))
          \/ Hits(m2, CooldownKey(pk)) = Recent(Hits(m, CooldownKey(pk)), t, Cooldown)
          \/ Hits(m2, CooldownKey(pk)) = Push(Hits(m, CooldownKey(pk)), t)
      BY <1>6, CooldownHits
    <3> QED
      BY <1>2, <3>1 DEF Marks, Push
  <2> QED
    BY <2>1, <2>2
<1> QED
  BY <1>4, <1>5, <1>6

\* A release at instant t is remembered for pk as long as it is in force.
Remembered(pk, t) ==
  t # NoTime /\ now - t < Cooldown => \E h \in Hits(rate, CooldownKey(pk)) : h[1] = t

CheckedPCs == {"r_lookup", "r_name_of", "r_gate", "r_insert"}

\* The last release of every key is remembered, and so is the one that was over when
\* a request came; a request that has passed the check of the cooldown came later.
CooldownInv ==
  /\ MapOK(rate)
  /\ \A pk \in Pubkeys : Remembered(pk, armed[pk])
  /\ \A w \in Workers : ~At(w, "idle") =>
       /\ Remembered(Ev(w).pubkey, work[w].armed)
       /\ work[w].pc \in CheckedPCs /\ work[w].armed # NoTime =>
            now - work[w].armed >= Cooldown

\* A step that leaves the clock alone and keeps the marks forgets no release.
LEMMA StillRemembered ==
  ASSUME TypeOK, NEW pk \in Pubkeys, NEW t \in Nat \cup {NoTime}, Remembered(pk, t), now' = now,
         Marks(rate, pk, now) \subseteq Hits(rate', CooldownKey(pk))
  PROVE  Remembered(pk, t)'
<1> SUFFICES ASSUME t # NoTime, now - t < Cooldown
             PROVE  \E h \in Hits(rate', CooldownKey(pk)) : h[1] = t
  BY DEF Remembered
<1>1. PICK h \in Hits(rate, CooldownKey(pk)) : h[1] = t
  BY DEF Remembered
<1>2. h \in Marks(rate, pk, now)
  BY <1>1 DEF Marks, Recent
<1> QED
  BY <1>1, <1>2


\* The handlers after a step that keeps the marks: each is idle, or where it was, or
\* has moved on with its request.
LEMMA HandlersRemember ==
  ASSUME TypeOK, TypeOK', CooldownInv, now' = now, MapOK(rate'),
         \A pk \in Pubkeys : Marks(rate, pk, now) \subseteq Hits(rate', CooldownKey(pk)),
         \A pk \in Pubkeys : Remembered(pk, armed[pk])',
         \A w \in Workers :
           \/ work'[w] = work[w]
           \/ work'[w].pc = "idle"
           \/ /\ work'[w].ev = work[w].ev /\ work'[w].armed = work[w].armed
              /\ work[w].pc # "idle"
              /\ work'[w].pc \in CheckedPCs =>
                   \/ work[w].pc \in CheckedPCs
                   \/ work[w].armed # NoTime => now - work[w].armed >= Cooldown
           \/ /\ work'[w].ev \in AuthEvents /\ work'[w].pc \notin CheckedPCs
              /\ work'[w].armed = armed[work'[w].ev.pubkey]
  PROVE  CooldownInv'
<1> SUFFICES ASSUME NEW w \in Workers, work'[w].pc # "idle"
             PROVE  /\ Remembered(Ev(w).pubkey, work[w].armed)'
                    /\ work'[w].pc \in CheckedPCs /\ work'[w].armed # NoTime =>
                         now - work'[w].armed >= Cooldown
  BY DEF CooldownInv, At, Ev
<1>1. PICK t \in Nat \cup {NoTime} : t = work'[w].armed
  BY DEF TypeOK
<1>2. PICK pk \in Pubkeys : pk = work'[w].ev.pubkey
  BY AuthorityAssumption DEF TypeOK, WorkOK, Idle
<1>3. Remembered(pk, t)
  <2>1. CASE work'[w].ev = work[w].ev /\ work'[w].armed = work[w].armed /\ work[w].pc # "idle"
    BY <1>1, <1>2, <2>1 DEF CooldownInv, At, Ev
  <2>2. CASE work'[w].armed = armed[work'[w].ev.pubkey]
    BY <1>1, <1>2, <2>2 DEF CooldownInv
  <2> QED
    BY <2>1, <2>2
<1>4. Remembered(pk, t)'
  BY <1>3, StillRemembered
<1>5. ASSUME work'[w].pc \in CheckedPCs, t # NoTime PROVE now - t >= Cooldown
  <2>1. work[w].armed = t /\ work[w].pc # "idle" /\
        (work[w].pc \in CheckedPCs \/ now - t >= Cooldown)
    BY <1>1, <1>5
  <2> QED
    BY <1>5, <2>1 DEF CooldownInv, At
<1> QED
  BY <1>1, <1>2, <1>4, <1>5 DEF Remembered, Ev

\* Every step keeps what CooldownHonoured rests on.
LEMMA CooldownStep ==
  SweepSpares(Cooldown) /\ TypeOK /\ TypeOK' /\ CooldownInv /\ [Next]_vars => CooldownInv'
<1> SUFFICES ASSUME SweepSpares(Cooldown), TypeOK, TypeOK', CooldownInv, [Next]_vars
             PROVE  CooldownInv'
  OBVIOUS
<1>0. MapOK(rate) /\ now \in Nat /\ Cooldown \in Nat
  BY RateAssumption DEF CooldownInv, TypeOK
<1>a. ASSUME now' = now, armed' = armed,
             \A pk \in Pubkeys : Marks(rate, pk, now) \subseteq Hits(rate', CooldownKey(pk))
      PROVE  \A pk \in Pubkeys : Remembered(pk, armed[pk])'
  <2> SUFFICES ASSUME NEW pk \in Pubkeys PROVE Remembered(pk, armed[pk])'
    OBVIOUS
  <2>1. PICK t \in Nat \cup {NoTime} : t = armed[pk]
    BY DEF TypeOK
  <2>2. Remembered(pk, t)
    BY <2>1 DEF CooldownInv
  <2>3. Remembered(pk, t)'
    BY <1>a, <2>2, StillRemembered
  <2> QED
    BY <1>a, <2>1, <2>3 DEF Remembered
<1>b. ASSUME rate' = rate
      PROVE  /\ MapOK(rate')
             /\ \A pk \in Pubkeys : Marks(rate, pk, now) \subseteq Hits(rate', CooldownKey(pk))
  BY <1>0, <1>b DEF Marks, Recent
<1>1. ASSUME NEW w \in Workers, NEW ip \in Ips, NEW e \in AuthEvents,
             register(w, ip, e) \/ unregister(w, ip, e)
      PROVE  CooldownInv'
  <2>1. PICK bucket \in WriteBuckets, first \in {"r_auth", "u_auth"} :
          Begin(w, ip, e, bucket, first)
    BY <1>1 DEF register, unregister, WriteBuckets
  <2>2. /\ rate' = AfterAllow(rate, WriteKey(bucket, ip), WriteMax, WriteWindow, now)
        /\ now' = now /\ armed' = armed
        /\ \/ work' = work
           \/ work' = [work EXCEPT ![w] = [pc |-> first, ev |-> e, armed |-> armed[e.pubkey]]]
    BY <2>1 DEF Begin
  <2>3. /\ MapOK(rate')
        /\ \A pk \in Pubkeys : Marks(rate, pk, now) \subseteq Hits(rate', CooldownKey(pk))
    BY <1>0, <2>2, MarksKept
  <2>4. \A v \in Workers :
          \/ work'[v] = work[v]
          \/ /\ work'[v].ev \in AuthEvents /\ work'[v].pc \notin CheckedPCs
             /\ work'[v].armed = armed[work'[v].ev.pubkey]
    BY <2>2 DEF TypeOK, CheckedPCs
  <2>5. \A pk \in Pubkeys : Remembered(pk, armed[pk])'
    BY <1>a, <2>2, <2>3
  <2> QED
    BY <2>2, <2>3, <2>4, <2>5, HandlersRemember
<1>2. ASSUME NEW w \in Workers, register_cooldown(w) PROVE CooldownInv'
  <2>1. work[w].pc = "r_cooldown" /\ Ev(w).pubkey \in Pubkeys
    BY <1>2, Busy DEF register_cooldown, At
  <2>2. /\ rate' = AfterCooldownCheck(rate, Ev(w).pubkey, now) /\ now' = now /\ armed' = armed
        /\ Reply(w) \/ (Goto(w, "r_lookup") /\ ~CooldownActive(rate, Ev(w).pubkey, now))
    BY <1>2 DEF register_cooldown
  <2>3. /\ MapOK(rate')
        /\ \A pk \in Pubkeys : Marks(rate, pk, now) \subseteq Hits(rate', CooldownKey(pk))
    BY <1>0, <2>1, <2>2, MarksKept
  <2>4. ~CooldownActive(rate, Ev(w).pubkey, now) /\ work[w].armed # NoTime =>
          now - work[w].armed >= Cooldown
    <3> SUFFICES ASSUME work[w].armed # NoTime, ~(now - work[w].armed >= Cooldown)
                 PROVE  CooldownActive(rate, Ev(w).pubkey, now)
      OBVIOUS
    <3>1. work[w].armed \in Nat /\ now - work[w].armed < Cooldown
      BY <1>0 DEF TypeOK
    <3>2. PICK h \in Hits(rate, CooldownKey(Ev(w).pubkey)) : h[1] = work[w].armed
      BY <2>1, <3>1 DEF CooldownInv, At, Remembered
    <3> QED
      BY <3>1, <3>2 DEF CooldownActive, Recent
  <2>5. \A v \in Workers :
          \/ work'[v] = work[v]
          \/ work'[v].pc = "idle"
          \/ /\ work'[v].ev = work[v].ev /\ work'[v].armed = work[v].armed
             /\ work[v].pc # "idle"
             /\ work[v].armed # NoTime => now - work[v].armed >= Cooldown
    BY <2>1, <2>2, <2>4 DEF Reply, Goto, Idle, TypeOK
  <2>6. \A pk \in Pubkeys : Remembered(pk, armed[pk])'
    BY <1>a, <2>2, <2>3
  <2> QED
    BY <2>2, <2>3, <2>5, <2>6, HandlersRemember
<1>3. ASSUME NEW w \in Workers, unregister_record(w) PROVE CooldownInv'
  <2>1. work[w].pc = "u_record" /\ Ev(w).pubkey \in Pubkeys
    BY <1>3, Busy DEF unregister_record, At
  <2>2. /\ rate' = AfterRecord(rate, Ev(w).pubkey, now) /\ now' = now /\ Reply(w)
        /\ armed' = [armed EXCEPT ![Ev(w).pubkey] = now]
    BY <1>3 DEF unregister_record
  <2>3. /\ MapOK(rate')
        /\ \A pk \in Pubkeys : Marks(rate, pk, now) \subseteq Hits(rate', CooldownKey(pk))
    BY <1>0, <2>1, <2>2, MarksKept
  <2>4. \A v \in Workers : work'[v] = work[v] \/ work'[v].pc = "idle"
    BY <2>2 DEF Reply, Idle, TypeOK
  <2>5. ASSUME NEW pk \in Pubkeys PROVE Remembered(pk, armed[pk])'
    <3>1. CASE pk = Ev(w).pubkey
      <4>1. armed'[pk] = now
        BY <2>2, <3>1 DEF TypeOK
      <4>2. Hits(rate', CooldownKey(pk)) = Push(Hits(rate, CooldownKey(pk)), now)
        BY <1>0, <2>2, <3>1, CooldownHits
      <4>3. \E h \in Hits(rate', CooldownKey(pk)) : h[1] = now
        <5>1. \A n : <<now, n>>[1] = now
          OBVIOUS
        <5> QED
          BY <4>2, <5>1 DEF Push
      <4> QED
        BY <2>2, <4>1, <4>3 DEF Remembered
    <3>2. CASE pk # Ev(w).pubkey
      <4>1. PICK t \in Nat \cup {NoTime} : t = armed[pk]
        BY DEF TypeOK
      <4>2. Remembered(pk, t) /\ armed'[pk] = t
        BY <2>2, <3>2, <4>1 DEF CooldownInv, TypeOK
      <4>3. Remembered(pk, t)'
        BY <2>2, <2>3, <4>2, StillRemembered
      <4> QED
        BY <4>2, <4>3 DEF Remembered
    <3> QED
      BY <3>1, <3>2
  <2> QED
    BY <2>2, <2>3, <2>4, <2>5, HandlersRemember
<1>4. ASSUME NEW w \in Workers,
             \/ register_auth(w) \/ register_fresh(w) \/ register_lookup(w) \/ register_name_of(w)
             \/ register_gate(w) \/ register_insert(w) \/ unregister_auth(w) \/ unregister_fresh(w)
             \/ unregister_lookup(w) \/ unregister_update(w)
      PROVE  CooldownInv'
  <2>1. now' = now /\ armed' = armed /\ rate' = rate
    BY <1>4 DEF register_auth, register_fresh, register_lookup, register_name_of, register_gate,
                register_insert, unregister_auth, unregister_fresh, unregister_lookup,
                unregister_update, verify_nip98, auth_event_fresh
  <2>2. \/ Reply(w)
        \/ work[w].pc \in CheckedPCs /\ \E pc \in CheckedPCs : Goto(w, pc)
        \/ work[w].pc # "idle" /\ \E pc \in PCs \ CheckedPCs : Goto(w, pc)
    BY <1>4 DEF register_auth, register_fresh, register_lookup, register_name_of, register_gate,
                register_insert, unregister_auth, unregister_fresh, unregister_lookup,
                unregister_update, verify_nip98, auth_event_fresh, At, CheckedPCs, PCs
  <2>3. \A v \in Workers :
          \/ work'[v] = work[v]
          \/ work'[v].pc = "idle"
          \/ /\ work'[v].ev = work[v].ev /\ work'[v].armed = work[v].armed
             /\ work[v].pc # "idle"
             /\ work'[v].pc \in CheckedPCs => work[v].pc \in CheckedPCs
    BY <2>2 DEF Reply, Goto, Idle, TypeOK, CheckedPCs
  <2>4. \A pk \in Pubkeys : Remembered(pk, armed[pk])'
    BY <1>a, <1>b, <2>1
  <2> QED
    BY <1>b, <2>1, <2>3, <2>4, HandlersRemember
<1>5. ASSUME NEW ip \in Ips, read(ip) PROVE CooldownInv'
  <2>1. /\ rate' = AfterAllow(rate, ReadKey(ip), ReadMax, ReadWindow, now)
        /\ now' = now /\ armed' = armed /\ work' = work
    BY <1>5 DEF read
  <2>2. /\ MapOK(rate')
        /\ \A pk \in Pubkeys : Marks(rate, pk, now) \subseteq Hits(rate', CooldownKey(pk))
    BY <1>0, <2>1, MarksKept
  <2>3. \A pk \in Pubkeys : Remembered(pk, armed[pk])'
    BY <1>a, <2>1, <2>2
  <2> QED
    BY <2>1, <2>2, <2>3, HandlersRemember
<1>6. CASE Tick
  <2>1. now' = now + 1 /\ rate' = rate /\ armed' = armed /\ work' = work
    BY <1>6 DEF Tick
  <2>2. ASSUME NEW pk, NEW t \in Nat \cup {NoTime}, Remembered(pk, t)
        PROVE  Remembered(pk, t)'
    BY <1>0, <2>1, <2>2 DEF Remembered
  <2>3. ASSUME NEW pk \in Pubkeys PROVE Remembered(pk, armed[pk])'
    <3>1. PICK t \in Nat \cup {NoTime} : t = armed[pk]
      BY DEF TypeOK
    <3>2. Remembered(pk, t)'
      BY <2>2, <3>1 DEF CooldownInv
    <3> QED
      BY <2>1, <3>1, <3>2 DEF Remembered
  <2>4. ASSUME NEW w \in Workers, work[w].pc # "idle"
        PROVE  /\ Remembered(Ev(w).pubkey, work[w].armed)'
               /\ work[w].pc \in CheckedPCs /\ work[w].armed # NoTime =>
                    now' - work[w].armed >= Cooldown
    <3>1. PICK t \in Nat \cup {NoTime} : t = work[w].armed
      BY DEF TypeOK
    <3>2. PICK pk : pk = Ev(w).pubkey
      OBVIOUS
    <3>3. Remembered(pk, t)'
      BY <2>2, <2>4, <3>1, <3>2 DEF CooldownInv, At
    <3>4. work[w].pc \in CheckedPCs /\ t # NoTime => now - t >= Cooldown
      BY <2>4, <3>1 DEF CooldownInv, At
    <3>5. work[w].pc \in CheckedPCs /\ t # NoTime => now' - t >= Cooldown
      BY <1>0, <2>1, <3>4
    <3> QED
      BY <2>1, <3>1, <3>2, <3>3, <3>5 DEF Remembered, Ev
  <2> QED
    BY <1>0, <2>1, <2>3, <2>4 DEF CooldownInv, At, Ev
<1>7. CASE Restart
  <2>1. /\ rate' = EmptyMap /\ armed' = [pk \in Pubkeys |-> NoTime]
        /\ work' = [w \in Workers |-> Idle]
    BY <1>7 DEF Restart
  <2> QED
    BY <2>1 DEF CooldownInv, MapOK, EmptyMap, Remembered, At, Idle
<1>8. CASE UNCHANGED <<rate, now, armed, work>>
  BY <1>8 DEF CooldownInv, Remembered, At, Ev
<1> QED
  BY <1>1, <1>2, <1>3, <1>4, <1>5, <1>6, <1>7, <1>8 DEF Next, Handle, vars

\* No claim succeeds within the cooldown of a release that was over when the request
\* came: register checks the cooldown before it inserts, and neither other requests nor
\* their pruning of the shared map make it forget, as long as sweeps spare the cooldown.
THEOREM CooldownIsHonoured == SweepSpares(Cooldown) /\ Spec => CooldownHonoured
<1>1. Init => CooldownInv
  BY DEF Init, CooldownInv, MapOK, EmptyMap, Remembered, At, Idle
<1>2. SweepSpares(Cooldown) => []SweepSpares(Cooldown)
  <2>1. SweepSpares(Cooldown) => SweepSpares(Cooldown)'
    BY DEF SweepSpares
  <2> QED
    BY <2>1, PTL
<1> DEFINE Honoured == \A w \in Workers : ClaimedBy(w) /\ work[w].armed # NoTime =>
                                            now - work[w].armed >= Cooldown
<1>3. CooldownInv /\ [Next]_vars => [Honoured]_vars
  BY DEF CooldownInv, ClaimedBy, At, CheckedPCs
<1>4. SweepSpares(Cooldown) /\ Spec => []CooldownInv
  BY <1>1, <1>2, CooldownStep, TypeCorrect, PTL DEF Spec
<1>5. CooldownHonoured <=> [][Honoured]_vars
  BY DEF CooldownHonoured
<1> HIDE DEF Honoured
<1>6. Spec => [][Next]_vars
  BY PTL DEF Spec
<1> QED
  BY <1>3, <1>4, <1>5, <1>6, PTL


(***************************************************************************)
(* RateLimiter: the map with every caller in any order.                    *)
(***************************************************************************)

\* What the map and the histories hold.
LimiterType ==
  /\ clock \in Nat /\ MapOK(map)
  /\ DOMAIN admitted = WriteKeys /\ \A k \in WriteKeys : HitsOK(admitted[k])
  /\ released \in [Pubkeys -> SUBSET Nat]

\* The map knows the admitted calls of key k within window, no more and no less.
WritesKnownFor(k, window) ==
  /\ Recent(Hits(map, k), clock, window) = Recent(admitted[k], clock, window)
  /\ Cardinality(Recent(admitted[k], clock, window)) <= WriteMax

\* It knows them for the shortest window, and for the window of writes as long as no
\* sweep has dropped the key.
WritesKnown ==
  \A k \in WriteKeys : /\ WritesKnownFor(k, Shortest(WriteWindow))
                       /\ k \notin swept => WritesKnownFor(k, WriteWindow)

\* The map knows the releases of pk within window.
ReleasesKnownFor(pk, window) ==
  \A t \in released[pk] : clock - t < window => \E h \in Hits(map, CooldownKey(pk)) : h[1] = t

\* It knows them for the shortest window, and for Cooldown as long as no sweep has
\* dropped the key; and it knows of no release that did not happen.
ReleasesKnown ==
  \A pk \in Pubkeys :
    /\ ReleasesKnownFor(pk, Shortest(Cooldown))
    /\ CooldownKey(pk) \notin swept => ReleasesKnownFor(pk, Cooldown)
    /\ \A h \in Hits(map, CooldownKey(pk)) : h[1] \in released[pk]

\* The shortest window is what it says.
LEMMA ShortestIs ==
  ASSUME NEW window \in Nat
  PROVE  /\ Shortest(window) \in Nat /\ Shortest(window) <= window
         /\ Shortest(window) <= ReadWindow /\ Shortest(window) <= WriteWindow
<1> DEFINE all == {window, ReadWindow, WriteWindow}
<1>1. window \in Nat /\ ReadWindow \in Nat /\ WriteWindow \in Nat
  BY RateAssumption
<1>2. \E w \in all : \A v \in all : w <= v
  BY <1>1
<1>3. Shortest(window) \in all /\ \A v \in all : Shortest(window) <= v
  BY <1>2 DEF Shortest
<1> QED
  BY <1>1, <1>3

\* The steps of the limiter.
LEMMA LimiterMoves ==
  ASSUME LimiterType, [LimiterNext]_limiterVars
  PROVE  \/ UNCHANGED <<map, clock, admitted, released, swept>>
         \/ clock' = clock + 1 /\ UNCHANGED <<map, admitted, released, swept>>
         \/ /\ UNCHANGED <<clock, admitted, released>>
            /\ swept' = swept \cup (DOMAIN map \ DOMAIN map')
            /\ \E ip \in Ips : map' = AfterAllow(map, ReadKey(ip), ReadMax, ReadWindow, clock)
         \/ /\ UNCHANGED <<clock, released>>
            /\ swept' = swept \cup (DOMAIN map \ DOMAIN map')
            /\ \E key \in WriteKeys :
                 /\ map' = AfterAllow(map, key, WriteMax, WriteWindow, clock)
                 /\ admitted' = IF Allowed(map, key, WriteMax, WriteWindow, clock)
                                THEN [admitted EXCEPT ![key] = Push(@, clock)] ELSE admitted
         \/ /\ UNCHANGED <<clock, admitted, released, swept>>
            /\ \E pk \in Pubkeys : map' = AfterCooldownCheck(map, pk, clock)
         \/ /\ UNCHANGED <<clock, admitted, swept>>
            /\ \E pk \in Pubkeys :
                 /\ map' = AfterRecord(map, pk, clock)
                 /\ released' = [released EXCEPT ![pk] = @ \cup {clock}]
<1>1. ASSUME NEW ip \in Ips, allow_read(ip)
      PROVE  /\ UNCHANGED <<clock, admitted, released>>
             /\ swept' = swept \cup (DOMAIN map \ DOMAIN map')
             /\ map' = AfterAllow(map, ReadKey(ip), ReadMax, ReadWindow, clock)
  BY <1>1 DEF allow_read, allow
<1>2. ASSUME NEW ip \in Ips, NEW b \in WriteBuckets, allow_write(b, ip)
      PROVE  /\ UNCHANGED <<clock, released>>
             /\ swept' = swept \cup (DOMAIN map \ DOMAIN map')
             /\ WriteKey(b, ip) \in WriteKeys
             /\ map' = AfterAllow(map, WriteKey(b, ip), WriteMax, WriteWindow, clock)
             /\ admitted' = IF Allowed(map, WriteKey(b, ip), WriteMax, WriteWindow, clock)
                            THEN [admitted EXCEPT ![WriteKey(b, ip)] = Push(@, clock)]
                            ELSE admitted
  BY <1>2 DEF allow_write, allow, WriteKeys
<1>3. ASSUME NEW pk \in Pubkeys, cooldown_active(pk)
      PROVE  /\ UNCHANGED <<clock, admitted, released, swept>>
             /\ map' = AfterCooldownCheck(map, pk, clock)
  BY <1>3 DEF cooldown_active
<1>4. ASSUME NEW pk \in Pubkeys, record_op(pk)
      PROVE  /\ UNCHANGED <<clock, admitted, swept>> /\ map' = AfterRecord(map, pk, clock)
             /\ released' = [released EXCEPT ![pk] = @ \cup {clock}]
  BY <1>4 DEF record_op
<1>5. CASE LimiterNext
  BY <1>1, <1>2, <1>3, <1>4, <1>5 DEF LimiterNext, Elapse
<1> QED
  BY <1>5 DEF limiterVars

\* The keys of writes are keys of the map, and none of them is used otherwise.
LEMMA LimiterKeys ==
  /\ \A k \in WriteKeys : k \in RateKeys
  /\ \A k \in WriteKeys : \A ip : k # ReadKey(ip)
  /\ \A k \in WriteKeys : \A pk : k # CooldownKey(pk)
BY DEF WriteKeys, RateKeys, WriteBuckets, WriteKey, ReadKey, CooldownKey


\* Types of the limiter.
LEMMA LimiterTypeStep ==
  ASSUME LimiterType, [LimiterNext]_limiterVars
  PROVE  LimiterType'
<1>0. {ReadMax, ReadWindow, WriteMax, WriteWindow, Cooldown} \subseteq Nat
  BY RateAssumption
<1>1. CASE UNCHANGED <<map, clock, admitted, released>>
  BY <1>1 DEF LimiterType
<1>2. CASE clock' = clock + 1 /\ UNCHANGED <<map, admitted, released>>
  BY <1>2 DEF LimiterType
<1>3. ASSUME UNCHANGED <<clock, admitted, released>>, NEW ip \in Ips,
             map' = AfterAllow(map, ReadKey(ip), ReadMax, ReadWindow, clock)
      PROVE  LimiterType'
  <2>1. MapOK(map')
    BY <1>0, <1>3, EndpointKeys, AllowOK DEF LimiterType
  <2> QED
    BY <1>3, <2>1 DEF LimiterType
<1>4. ASSUME UNCHANGED <<clock, released>>, NEW key \in WriteKeys,
             map' = AfterAllow(map, key, WriteMax, WriteWindow, clock),
             admitted' = IF Allowed(map, key, WriteMax, WriteWindow, clock)
                         THEN [admitted EXCEPT ![key] = Push(@, clock)] ELSE admitted
      PROVE  LimiterType'
  <2>1. MapOK(map')
    BY <1>0, <1>4, LimiterKeys, AllowOK DEF LimiterType
  <2>2. HitsOK(Push(admitted[key], clock))
    BY PushOK DEF LimiterType
  <2> QED
    BY <1>4, <2>1, <2>2 DEF LimiterType
<1>5. ASSUME UNCHANGED <<clock, admitted, released>>, NEW pk \in Pubkeys,
             map' = AfterCooldownCheck(map, pk, clock)
      PROVE  LimiterType'
  <2>1. MapOK(map')
    BY <1>5, CooldownHits DEF LimiterType
  <2> QED
    BY <1>5, <2>1 DEF LimiterType
<1>6. ASSUME UNCHANGED <<clock, admitted>>, NEW pk \in Pubkeys,
             map' = AfterRecord(map, pk, clock),
             released' = [released EXCEPT ![pk] = @ \cup {clock}]
      PROVE  LimiterType'
  <2>1. MapOK(map')
    BY <1>6, CooldownHits DEF LimiterType
  <2> QED
    BY <1>6, <2>1 DEF LimiterType
<1> QED
  BY <1>1, <1>2, <1>3, <1>4, <1>5, <1>6, LimiterMoves

\* Every step leaves the map with the admitted calls of a key, for a window that is not
\* longer than that of writes and that sweeps spare, or a key that none has dropped.
LEMMA WritesKnownStep ==
  ASSUME LimiterType, [LimiterNext]_limiterVars, NEW k \in WriteKeys, NEW window \in Nat,
         window <= WriteWindow, window <= ReadWindow \/ k \notin swept',
         WritesKnownFor(k, window)
  PROVE  WritesKnownFor(k, window)'
<1>0. /\ {ReadMax, ReadWindow, WriteMax, WriteWindow, Cooldown} \subseteq Nat
      /\ MapOK(map) /\ clock \in Nat
      /\ HitsOK(Hits(map, k)) /\ HitsOK(admitted[k])
      /\ Recent(Hits(map, k), clock, window) = Recent(admitted[k], clock, window)
      /\ Cardinality(Recent(admitted[k], clock, window)) <= WriteMax
  BY RateAssumption, MapHits DEF LimiterType, WritesKnownFor
<1>a. ASSUME NEW A, HitsOK(A), NEW t \in Nat, NEW w \in Nat
      PROVE  /\ IsFiniteSet(Recent(A, t, w))
             /\ Cardinality(Recent(A, t, w)) \in Nat
  BY <1>a, RecentOK, FS_CardinalityType DEF HitsOK
<1>b. ASSUME clock' = clock, admitted'[k] = admitted[k],
             Recent(Hits(map', k), clock, window) = Recent(Hits(map, k), clock, window)
      PROVE  WritesKnownFor(k, window)'
  BY <1>0, <1>b DEF WritesKnownFor
<1>1. CASE UNCHANGED <<map, clock, admitted, released>>
  BY <1>0, <1>1 DEF WritesKnownFor
<1>2. CASE clock' = clock + 1 /\ UNCHANGED <<map, admitted, released>>
  <2>2. /\ Recent(Hits(map, k), clock + 1, window)
             = Recent(Recent(Hits(map, k), clock, window), clock + 1, window)
        /\ Recent(admitted[k], clock + 1, window)
             = Recent(Recent(admitted[k], clock, window), clock + 1, window)
    BY <1>0, RecentLater
  <2>3. Recent(admitted[k], clock + 1, window) \in SUBSET Recent(admitted[k], clock, window)
    BY <2>2 DEF Recent
  <2>4. Cardinality(Recent(admitted[k], clock + 1, window))
          <= Cardinality(Recent(admitted[k], clock, window))
    BY <1>0, <1>a, <2>3, FS_Subset
  <2>5. /\ Cardinality(Recent(admitted[k], clock + 1, window)) \in Nat
        /\ Cardinality(Recent(admitted[k], clock, window)) \in Nat
    <3>1. clock + 1 \in Nat
      BY <1>0
    <3> QED
      BY <1>0, <1>a, <3>1
  <2>6. Cardinality(Recent(admitted[k], clock + 1, window)) <= WriteMax
    BY <1>0, <2>4, <2>5
  <2> QED
    BY <1>0, <1>2, <2>2, <2>6 DEF WritesKnownFor
<1>3. ASSUME UNCHANGED <<clock, admitted, released>>, NEW ip \in Ips,
             swept' = swept \cup (DOMAIN map \ DOMAIN map'),
             map' = AfterAllow(map, ReadKey(ip), ReadMax, ReadWindow, clock)
      PROVE  WritesKnownFor(k, window)'
  <2>1. k # ReadKey(ip) /\ ReadKey(ip) \in RateKeys
    BY EndpointKeys, LimiterKeys
  <2>2. window <= ReadWindow \/ k \notin DOMAIN map \ DOMAIN map'
    BY <1>3
  <2>3. Recent(Hits(map', k), clock, window) = Recent(Hits(map, k), clock, window)
    BY <1>0, <1>3, <2>1, <2>2, AllowHits
  <2> QED
    BY <1>3, <1>b, <2>3
<1>4. ASSUME UNCHANGED <<clock, released>>, NEW key \in WriteKeys,
             map' = AfterAllow(map, key, WriteMax, WriteWindow, clock),
             admitted' = IF Allowed(map, key, WriteMax, WriteWindow, clock)
                         THEN [admitted EXCEPT ![key] = Push(@, clock)] ELSE admitted
      PROVE  WritesKnownFor(k, window)'
  <2>0. key \in RateKeys
    BY LimiterKeys
  <2>1. CASE k # key
    <3>1. admitted'[k] = admitted[k]
      BY <1>4, <2>1 DEF LimiterType
    <3>2. Recent(Hits(map', k), clock, window) = Recent(Hits(map, k), clock, window)
      BY <1>0, <1>4, <2>0, <2>1, AllowHits
    <3> QED
      BY <1>4, <1>b, <3>1, <3>2
  <2>2. CASE k = key /\ ~Allowed(map, key, WriteMax, WriteWindow, clock)
    <3>1. Recent(Hits(map', k), clock, window) = Recent(Hits(map, k), clock, window)
      BY <1>0, <1>4, <2>0, <2>2, AllowHits
    <3> QED
      BY <1>4, <1>b, <2>2, <3>1
  <2>3. CASE k = key /\ Allowed(map, key, WriteMax, WriteWindow, clock)
    <3>1. Recent(Hits(map', k), clock, window) = Recent(Push(Hits(map, k), clock), clock, window)
      BY <1>0, <1>4, <2>0, <2>3, AllowHits
    <3>2. admitted'[k] = Push(admitted[k], clock)
      BY <1>4, <2>3 DEF LimiterType
    <3>3. Recent(Push(Hits(map, k), clock), clock, window)
            = Recent(Push(admitted[k], clock), clock, window)
      <4>0. window <= window
        OBVIOUS
      <4>1. /\ Recent(Push(Recent(Hits(map, k), clock, window), clock), clock, window)
                 = Recent(Push(Hits(map, k), clock), clock, window)
            /\ Recent(Push(Recent(admitted[k], clock, window), clock), clock, window)
                 = Recent(Push(admitted[k], clock), clock, window)
        BY <1>0, <4>0, PushRecent
      <4> QED
        BY <1>0, <4>1
    <3>4. PICK S : S = Recent(admitted[k], clock, window)
      OBVIOUS
    <3>5. IsFiniteSet(S) /\ Cardinality(S) \in Nat
      BY <1>0, <1>a, <3>4
    <3>6. Cardinality(S) < WriteMax
      <4>1. \A h \in Hits(map, k) : h[1] \in Nat
        BY <1>0 DEF HitsOK
      <4>2. S \in SUBSET Recent(Hits(map, k), clock, WriteWindow)
        BY <1>0, <3>4, <4>1 DEF Recent
      <4>3. /\ Cardinality(S) <= Cardinality(Recent(Hits(map, k), clock, WriteWindow))
            /\ Cardinality(Recent(Hits(map, k), clock, WriteWindow)) \in Nat
        BY <1>0, <1>a, <4>2, FS_Subset
      <4>4. Cardinality(Recent(Hits(map, k), clock, WriteWindow)) < WriteMax
        BY <2>3 DEF Allowed
      <4> QED
        BY <1>0, <3>5, <4>3, <4>4
    <3>7. PICK x : Recent(Push(admitted[k], clock), clock, window) \in SUBSET (S \cup {x})
      BY <3>4 DEF Recent, Push
    <3>8. /\ Cardinality(Recent(Push(admitted[k], clock), clock, window)) <= Cardinality(S \cup {x})
          /\ Cardinality(S \cup {x}) \in {Cardinality(S), Cardinality(S) + 1}
      BY <3>5, <3>7, FS_AddElement, FS_Subset
    <3>9. Cardinality(Recent(Push(admitted[k], clock), clock, window)) \in Nat
      BY <1>0, <1>a, PushOK
    <3>10. Cardinality(Recent(Push(admitted[k], clock), clock, window)) <= WriteMax
      BY <1>0, <3>5, <3>6, <3>8, <3>9
    <3> QED
      BY <1>4, <3>1, <3>2, <3>3, <3>10 DEF WritesKnownFor
  <2> QED
    BY <2>1, <2>2, <2>3
<1>5. ASSUME UNCHANGED <<clock, admitted>>, NEW pk \in Pubkeys,
             map' = AfterCooldownCheck(map, pk, clock) \/ map' = AfterRecord(map, pk, clock)
      PROVE  WritesKnownFor(k, window)'
  <2>1. Hits(map', k) = Hits(map, k)
    BY <1>0, <1>5, LimiterKeys, CooldownHits
  <2> QED
    BY <1>5, <1>b, <2>1
<1> QED
  BY <1>1, <1>2, <1>3, <1>4, <1>5, LimiterMoves

\* Every step leaves the map with the releases of a key, for a window that is not longer
\* than Cooldown and that sweeps spare, or a key that none has dropped.
LEMMA ReleasesKnownStep ==
  ASSUME LimiterType, [LimiterNext]_limiterVars, NEW pk \in Pubkeys, NEW window \in Nat,
         window <= Cooldown,
         \/ window <= ReadWindow /\ window <= WriteWindow
         \/ CooldownKey(pk) \notin swept',
         ReleasesKnownFor(pk, window)
  PROVE  ReleasesKnownFor(pk, window)'
<1>0. /\ {ReadMax, ReadWindow, WriteMax, WriteWindow, Cooldown} \subseteq Nat
      /\ MapOK(map) /\ clock \in Nat
      /\ \A t \in released[pk] : t \in Nat
  BY RateAssumption DEF LimiterType
<1>a. ASSUME clock' = clock, released'[pk] = released[pk],
             Recent(Hits(map, CooldownKey(pk)), clock, window) \subseteq Hits(map', CooldownKey(pk))
      PROVE  ReleasesKnownFor(pk, window)'
  <2> SUFFICES ASSUME NEW t \in released[pk], clock - t < window
               PROVE  \E h \in Hits(map', CooldownKey(pk)) : h[1] = t
    BY <1>a DEF ReleasesKnownFor
  <2>1. PICK h \in Hits(map, CooldownKey(pk)) : h[1] = t
    BY DEF ReleasesKnownFor
  <2>2. h \in Recent(Hits(map, CooldownKey(pk)), clock, window)
    BY <2>1 DEF Recent
  <2> QED
    BY <1>a, <2>1, <2>2
<1>b. Recent(Hits(map, CooldownKey(pk)), clock, window) \subseteq Hits(map, CooldownKey(pk))
  BY DEF Recent
<1>1. CASE UNCHANGED <<map, clock, admitted, released>>
  BY <1>1, <1>a, <1>b
<1>2. CASE clock' = clock + 1 /\ UNCHANGED <<map, admitted, released>>
  <2>1. \A t \in released[pk] : (clock + 1) - t < window => clock - t < window
    BY <1>0
  <2> QED
    BY <1>2, <2>1 DEF ReleasesKnownFor
<1>3. ASSUME UNCHANGED <<clock, released>>, NEW key \in RateKeys, NEW max \in Nat,
             NEW caller \in {ReadWindow, WriteWindow}, CooldownKey(pk) # key,
             swept' = swept \cup (DOMAIN map \ DOMAIN map'),
             map' = AfterAllow(map, key, max, caller, clock)
      PROVE  ReleasesKnownFor(pk, window)'
  <2>1. window <= caller \/ CooldownKey(pk) \notin DOMAIN map \ DOMAIN map'
    BY <1>3
  <2>2. Recent(Hits(map', CooldownKey(pk)), clock, window)
          = Recent(Hits(map, CooldownKey(pk)), clock, window)
    BY <1>0, <1>3, <2>1, AllowHits
  <2>3. Recent(Hits(map', CooldownKey(pk)), clock, window) \subseteq Hits(map', CooldownKey(pk))
    BY DEF Recent
  <2> QED
    BY <1>3, <1>a, <2>2, <2>3
<1>4. ASSUME UNCHANGED <<clock, admitted, released>>, NEW qk \in Pubkeys,
             map' = AfterCooldownCheck(map, qk, clock)
      PROVE  ReleasesKnownFor(pk, window)'
  <2>1. \/ Hits(map', CooldownKey(pk)) = Hits(map, CooldownKey(pk))
        \/ Hits(map', CooldownKey(pk)) = Recent(Hits(map, CooldownKey(pk)), clock, Cooldown)
    BY <1>0, <1>4, CooldownHits
  <2>2. \A h \in Hits(map, CooldownKey(pk)) : h[1] \in Nat
    BY <1>0, MapHits DEF HitsOK
  <2>3. Recent(Hits(map, CooldownKey(pk)), clock, window)
          \subseteq Recent(Hits(map, CooldownKey(pk)), clock, Cooldown)
    BY <1>0, <2>2 DEF Recent
  <2> QED
    BY <1>4, <1>a, <1>b, <2>1, <2>3
<1>5. ASSUME UNCHANGED <<clock, admitted>>, NEW qk \in Pubkeys,
             map' = AfterRecord(map, qk, clock),
             released' = [released EXCEPT ![qk] = @ \cup {clock}]
      PROVE  ReleasesKnownFor(pk, window)'
  <2>1. CASE qk # pk
    <3>1. Hits(map', CooldownKey(pk)) = Hits(map, CooldownKey(pk))
      BY <1>0, <1>5, <2>1, KeysDiffer, CooldownHits
    <3>2. released'[pk] = released[pk]
      BY <1>5, <2>1 DEF LimiterType
    <3> QED
      BY <1>5, <1>a, <1>b, <3>1, <3>2
  <2>2. CASE qk = pk
    <3>1. Hits(map', CooldownKey(pk)) = Push(Hits(map, CooldownKey(pk)), clock)
      BY <1>0, <1>5, <2>2, CooldownHits
    <3>2. released'[pk] = released[pk] \cup {clock}
      BY <1>5, <2>2 DEF LimiterType
    <3>3. PICK x : x[1] = clock /\ Hits(map', CooldownKey(pk)) = Hits(map, CooldownKey(pk)) \cup {x}
      <4>1. \A n : <<clock, n>>[1] = clock
        OBVIOUS
      <4> QED
        BY <3>1, <4>1 DEF Push
    <3> QED
      BY <1>5, <3>2, <3>3 DEF ReleasesKnownFor
  <2> QED
    BY <2>1, <2>2
<1>6. ASSUME UNCHANGED <<clock, released>>, NEW ip \in Ips,
             swept' = swept \cup (DOMAIN map \ DOMAIN map'),
             map' = AfterAllow(map, ReadKey(ip), ReadMax, ReadWindow, clock)
      PROVE  ReleasesKnownFor(pk, window)'
  BY <1>0, <1>3, <1>6, EndpointKeys, KeysDiffer
<1>7. ASSUME UNCHANGED <<clock, released>>, NEW key \in WriteKeys,
             swept' = swept \cup (DOMAIN map \ DOMAIN map'),
             map' = AfterAllow(map, key, WriteMax, WriteWindow, clock)
      PROVE  ReleasesKnownFor(pk, window)'
  BY <1>0, <1>3, <1>7, LimiterKeys
<1> QED
  BY <1>1, <1>2, <1>4, <1>5, <1>6, <1>7, LimiterMoves

\* No step makes up a release.
LEMMA ReleasesMeantStep ==
  ASSUME LimiterType, [LimiterNext]_limiterVars, NEW pk \in Pubkeys,
         \A h \in Hits(map, CooldownKey(pk)) : h[1] \in released[pk]
  PROVE  \A h \in Hits(map', CooldownKey(pk)) : h[1] \in released'[pk]
<1> DEFINE ck == CooldownKey(pk)
<1>0. {ReadMax, ReadWindow, WriteMax, WriteWindow, Cooldown, MapLimit} \subseteq Nat
      /\ MapOK(map) /\ clock \in Nat
  BY RateAssumption DEF LimiterType
<1>1. ASSUME released'[pk] = released[pk], Hits(map', ck) \subseteq Hits(map, ck)
      PROVE  \A h \in Hits(map', ck) : h[1] \in released'[pk]
  BY <1>1
<1>2. ASSUME NEW key \in RateKeys, ck # key, NEW max, NEW caller, released' = released,
             map' = AfterAllow(map, key, max, caller, clock)
      PROVE  \A h \in Hits(map', ck) : h[1] \in released'[pk]
  <2>1. \A m : Hits(Sweep(m, clock, caller), ck) \subseteq Hits(m, ck)
    BY DEF Sweep, Hits
  <2>2. \A v : Hits(Put(map, key, v), ck) = Hits(map, ck)
    BY <1>2, PutHits
  <2>3. Hits(map', ck) \subseteq Hits(map, ck)
    BY <1>2, <2>1, <2>2 DEF AfterAllow
  <2> QED
    BY <1>1, <1>2, <2>3
<1>3. ASSUME NEW qk \in Pubkeys, released' = released, map' = AfterCooldownCheck(map, qk, clock)
      PROVE  \A h \in Hits(map', ck) : h[1] \in released'[pk]
  <2>1. \/ Hits(map', ck) = Hits(map, ck)
        \/ Hits(map', ck) = Recent(Hits(map, ck), clock, Cooldown)
    BY <1>0, <1>3, CooldownHits
  <2>2. Recent(Hits(map, ck), clock, Cooldown) \subseteq Hits(map, ck)
    BY DEF Recent
  <2> QED
    BY <1>1, <1>3, <2>1, <2>2
<1>4. ASSUME NEW qk \in Pubkeys, map' = AfterRecord(map, qk, clock),
             released' = [released EXCEPT ![qk] = @ \cup {clock}]
      PROVE  \A h \in Hits(map', ck) : h[1] \in released'[pk]
  <2>1. CASE qk # pk
    <3>1. Hits(map', ck) = Hits(map, ck) /\ released'[pk] = released[pk]
      BY <1>0, <1>4, <2>1, KeysDiffer, CooldownHits DEF LimiterType
    <3> QED
      BY <3>1
  <2>2. CASE qk = pk
    <3>1. Hits(map', ck) = Push(Hits(map, ck), clock) /\ released'[pk] = released[pk] \cup {clock}
      BY <1>0, <1>4, <2>2, CooldownHits DEF LimiterType
    <3>2. \A n : <<clock, n>>[1] = clock
      OBVIOUS
    <3> QED
      BY <3>1, <3>2 DEF Push
  <2> QED
    BY <2>1, <2>2
<1>5. ASSUME NEW ip \in Ips, released' = released,
             map' = AfterAllow(map, ReadKey(ip), ReadMax, ReadWindow, clock)
      PROVE  \A h \in Hits(map', ck) : h[1] \in released'[pk]
  BY <1>2, <1>5, EndpointKeys, KeysDiffer
<1>6. ASSUME NEW key \in WriteKeys, released' = released,
             map' = AfterAllow(map, key, WriteMax, WriteWindow, clock)
      PROVE  \A h \in Hits(map', ck) : h[1] \in released'[pk]
  BY <1>2, <1>6, LimiterKeys
<1>7. CASE map' = map /\ released' = released
  BY <1>7
<1> QED
  BY <1>3, <1>4, <1>5, <1>6, <1>7, LimiterMoves

\* The empty map knows all that has happened.
LEMMA LimiterStarts == LimiterInit => LimiterType /\ WritesKnown /\ ReleasesKnown
<1> SUFFICES ASSUME LimiterInit PROVE LimiterType /\ WritesKnown /\ ReleasesKnown
  OBVIOUS
<1>1. /\ map = << >> /\ clock = 0 /\ admitted = [k \in WriteKeys |-> {}]
      /\ released = [pk \in Pubkeys |-> {}]
  BY DEF LimiterInit, EmptyMap
<1>2. DOMAIN map = {} /\ (\A k : Hits(map, k) = {}) /\ \A t, w : Recent({}, t, w) = {}
  BY <1>1 DEF Hits, Recent
<1>3. LimiterType
  BY <1>1, <1>2, NoHits DEF LimiterType, MapOK
<1>4. WritesKnown
  <2>1. Cardinality({}) <= WriteMax
    BY RateAssumption, FS_EmptySet
  <2> QED
    BY <1>1, <1>2, <2>1 DEF WritesKnown, WritesKnownFor
<1>5. ReleasesKnown
  BY <1>1, <1>2 DEF ReleasesKnown, ReleasesKnownFor
<1> QED
  BY <1>3, <1>4, <1>5

\* No address gets more than WriteMax calls of a write endpoint through within
\* WriteWindow, or within the shortest window once a sweep has dropped its key, whatever
\* the windows and whatever else shares the map.
THEOREM WritesAreBounded == LimiterSpec => []WritesBounded
<1>1. LimiterType /\ WritesKnown /\ [LimiterNext]_limiterVars => LimiterType' /\ WritesKnown'
  <2> SUFFICES ASSUME LimiterType, WritesKnown, [LimiterNext]_limiterVars, NEW k \in WriteKeys
               PROVE  /\ WritesKnownFor(k, Shortest(WriteWindow))'
                      /\ k \notin swept' => WritesKnownFor(k, WriteWindow)'
    BY LimiterTypeStep DEF WritesKnown, Shortest
  <2>0. WriteWindow \in Nat /\ WriteWindow <= WriteWindow
    BY RateAssumption
  <2>1. WritesKnownFor(k, Shortest(WriteWindow))'
    <3>1. PICK w \in Nat : w = Shortest(WriteWindow) /\ w <= WriteWindow /\ w <= ReadWindow
      BY <2>0, ShortestIs
    <3>2. WritesKnownFor(k, w)'
      BY <3>1, WritesKnownStep DEF WritesKnown
    <3> QED
      BY <3>1, <3>2 DEF Shortest
  <2>2. ASSUME k \notin swept' PROVE WritesKnownFor(k, WriteWindow)'
    <3>1. k \notin swept
      BY <2>2, LimiterMoves
    <3> QED
      BY <2>0, <2>2, <3>1, WritesKnownStep DEF WritesKnown
  <2> QED
    BY <2>1, <2>2
<1>2. WritesKnown => WritesBounded
  BY DEF WritesKnown, WritesKnownFor, WritesBounded, Kept
<1> QED
  BY <1>1, <1>2, LimiterStarts, PTL DEF LimiterSpec

\* cooldown_active says yes only while a release of the key is younger than Cooldown, and
\* it says yes as long as one is, or within the shortest window once a sweep has dropped
\* the key, whatever the windows and whatever else shares the map.
THEOREM CooldownsAreRemembered == LimiterSpec => []CooldownRemembered
<1>1. LimiterType /\ ReleasesKnown /\ [LimiterNext]_limiterVars => LimiterType' /\ ReleasesKnown'
  <2> SUFFICES ASSUME LimiterType, ReleasesKnown, [LimiterNext]_limiterVars, NEW pk \in Pubkeys
               PROVE  /\ ReleasesKnownFor(pk, Shortest(Cooldown))'
                      /\ CooldownKey(pk) \notin swept' => ReleasesKnownFor(pk, Cooldown)'
                      /\ \A h \in Hits(map', CooldownKey(pk)) : h[1] \in released'[pk]
    BY LimiterTypeStep DEF ReleasesKnown, Shortest
  <2>0. Cooldown \in Nat /\ Cooldown <= Cooldown
    BY RateAssumption
  <2>1. ReleasesKnownFor(pk, Shortest(Cooldown))'
    <3>1. PICK w \in Nat : /\ w = Shortest(Cooldown) /\ w <= Cooldown
                           /\ w <= ReadWindow /\ w <= WriteWindow
      BY <2>0, ShortestIs
    <3>2. ReleasesKnownFor(pk, w)'
      BY <3>1, ReleasesKnownStep DEF ReleasesKnown
    <3> QED
      BY <3>1, <3>2 DEF Shortest
  <2>2. ASSUME CooldownKey(pk) \notin swept' PROVE ReleasesKnownFor(pk, Cooldown)'
    <3>1. CooldownKey(pk) \notin swept
      BY <2>2, LimiterMoves
    <3> QED
      BY <2>0, <2>2, <3>1, ReleasesKnownStep DEF ReleasesKnown
  <2> QED
    BY <2>1, <2>2, ReleasesMeantStep DEF ReleasesKnown
<1>2. LimiterType /\ ReleasesKnown => CooldownRemembered
  <2> SUFFICES ASSUME LimiterType, ReleasesKnown, NEW pk \in Pubkeys
               PROVE  /\ Marks(map, pk, clock) # {} => \E t \in released[pk] : clock - t < Cooldown
                      /\ (\E t \in released[pk] : clock - t < Kept(CooldownKey(pk), Cooldown))
                           => Marks(map, pk, clock) # {}
    BY DEF CooldownRemembered, CooldownActive, Marks
  <2>0. Cooldown \in Nat /\ clock \in Nat /\ \A t \in released[pk] : t \in Nat
    BY RateAssumption DEF LimiterType
  <2>1. Marks(map, pk, clock) # {} => \E t \in released[pk] : clock - t < Cooldown
    BY DEF ReleasesKnown, Marks, Recent
  <2>2. ASSUME NEW t \in released[pk], clock - t < Kept(CooldownKey(pk), Cooldown)
        PROVE  Marks(map, pk, clock) # {}
    <3>1. /\ ReleasesKnownFor(pk, Kept(CooldownKey(pk), Cooldown))
          /\ Kept(CooldownKey(pk), Cooldown) \in Nat /\ Kept(CooldownKey(pk), Cooldown) <= Cooldown
      BY <2>0, ShortestIs DEF ReleasesKnown, Kept
    <3>2. PICK h \in Hits(map, CooldownKey(pk)) : h[1] = t
      BY <2>2, <3>1 DEF ReleasesKnownFor
    <3>3. clock - h[1] < Cooldown
      BY <2>0, <2>2, <3>1, <3>2
    <3> QED
      BY <3>2, <3>3 DEF Marks, Recent
  <2> QED
    BY <2>1, <2>2
<1> QED
  BY <1>1, <1>2, LimiterStarts, PTL DEF LimiterSpec

===============================================================================
