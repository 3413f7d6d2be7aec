----------------------------- MODULE NameAuthority -----------------------------
(***************************************************************************)
(* The built-in name authority: POST /api/v1/register, DELETE              *)
(* /api/v1/register/{name} and the read endpoints, served concurrently by a *)
(* multi-threaded runtime.  A handler holds a mutex only for the length of  *)
(* one call (the claims table, the rate map, the seen-auth map), so each    *)
(* such call is one step and everything else may happen between two steps.  *)
(*                                                                         *)
(* A request is its NIP-98 auth event, a record                            *)
(*   [id, op, pubkey, name, body_pubkey, created_at]                       *)
(* the signature, method, URL and payload hash of which tie op, name and    *)
(* body_pubkey to pubkey.  Instant::now() counts the ticks of one clock and *)
(* unix_time() its whole seconds: the system clock is taken to run at the   *)
(* pace of the monotonic one and never to be set.                          *)
(***************************************************************************)
EXTENDS RateMap, Integers

CONSTANTS
  Workers,     \* concurrent request handlers
  Names,       \* names a request may ask for
  Reserved,    \* those that valid_name or is_reserved refuses
  AuthEvents,  \* signed NIP-98 events that clients hold
  TicksPerSecond,
  MaxAge,      \* auth_max_age_secs
  Skew,        \* seconds an auth event may be post-dated (5)
  PaidMode,    \* goblinpay.pay_mode = "name"
  MaxRestarts, \* bound on restarts of the relay
  NoKey, NoEvent, NoTime

ASSUME AuthorityAssumption ==
  /\ MaxAge \in Nat /\ Skew \in Nat /\ MaxRestarts \in Nat
  /\ TicksPerSecond \in Nat \ {0}
  /\ PaidMode \in BOOLEAN
  /\ Reserved \subseteq Names
  /\ NoKey \notin Pubkeys
  /\ NoEvent \notin AuthEvents
  /\ \A e \in AuthEvents : /\ e.op \in {"register", "release"}
                           /\ e.pubkey \in Pubkeys
                           /\ e.body_pubkey \in Pubkeys
                           /\ e.name \in Names
                           /\ e.created_at \in Nat
  /\ \A e, f \in AuthEvents : e.id = f.id => e = f

VARIABLES
  claims,    \* table name_claims: per name [owner, active]; owner NoKey: no row
  rate,      \* Authority.rate
  seen,      \* Authority.seen_auth: id of a used auth event -> instant of use
  now,       \* the clock, in ticks
  work,      \* per handler: [pc, ev, armed]
  restarts,
  accepted,  \* history: how often each auth event got past auth_event_fresh since
             \* the last restart, and the instant of the last time
  armed      \* history: per pubkey, the instant of its last release, or NoTime

vars == <<claims, rate, seen, now, work, restarts, accepted, armed>>

Idle == [pc |-> "idle", ev |-> NoEvent, armed |-> NoTime]

NeverUsed == [count |-> 0, last |-> 0]

PCs == {"idle", "r_auth", "r_fresh", "r_cooldown", "r_lookup", "r_name_of", "r_gate", "r_insert",
        "u_auth", "u_fresh", "u_lookup", "u_update", "u_record"}

Ev(w)  == work[w].ev
At(w, pc) == work[w].pc = pc
Goto(w, pc) == work' = [work EXCEPT ![w].pc = pc]
\* The handler answers its request.
Reply(w) == work' = [work EXCEPT ![w] = Idle]

Holds(n, pk) == claims[n].active /\ claims[n].owner = pk
HasName(pk) == \E n \in Names : Holds(n, pk)

-------------------------------------------------------------------------------
Init ==
  /\ claims = [n \in Names |-> [owner |-> NoKey, active |-> FALSE]]
  /\ rate = EmptyMap
  /\ seen = EmptyMap
  /\ now = 0
  /\ work = [w \in Workers |-> Idle]
  /\ restarts = 0
  /\ accepted = [e \in AuthEvents |-> NeverUsed]
  /\ armed = [pk \in Pubkeys |-> NoTime]

-------------------------------------------------------------------------------
(* NIP-98 authentication, shared by both write endpoints. *)

\* Whole seconds.
unix_time == now \div TicksPerSecond

\* Mutant: the window forgets the allowance for post-dated events.
SeenNow_noSkew ==
  [id \in {i \in DOMAIN seen : now - seen[i] < MaxAge * TicksPerSecond} |-> seen[id]]

\* auth_event_fresh forgets uses that are older than the freshness window.
SeenNow ==
  [id \in {i \in DOMAIN seen : now - seen[i] < (MaxAge + Skew) * TicksPerSecond} |-> seen[id]]

\* Receive a request: the per-IP write limit is the first thing it meets.
Begin(w, ip, e, bucket, first) ==
  LET key == WriteKey(bucket, ip)
  IN  /\ At(w, "idle")
      /\ rate' = AfterAllow(rate, key, WriteMax, WriteWindow, now)
      /\ work' = IF Allowed(rate, key, WriteMax, WriteWindow, now)
                 THEN [work EXCEPT ![w] = [pc |-> first, ev |-> e, armed |-> armed[e.pubkey]]]
                 ELSE work
      /\ UNCHANGED <<claims, seen, now, restarts, accepted, armed>>

\* The auth event is signed, is for this request, and is neither too old nor
\* post-dated.  A body that is too long or unreadable and a malformed header are
\* refused like an event that is stale.
verify_nip98(w, from, to) ==
  LET age == unix_time - Ev(w).created_at
  IN  /\ At(w, from)
      /\ \/ Reply(w)
         \/ age <= MaxAge /\ age >= -Skew /\ Goto(w, to)
      /\ UNCHANGED <<claims, rate, seen, now, restarts, accepted, armed>>

\* Use up the auth event, some time later: one that was used in the freshness
\* window is refused.
auth_event_fresh(w, from, to) ==
  LET e == Ev(w)
  IN  /\ At(w, from)
      /\ \/ /\ e.id \in DOMAIN SeenNow
            /\ seen' = SeenNow
            /\ Reply(w)
            /\ UNCHANGED accepted
         \/ /\ e.id \notin DOMAIN SeenNow
            /\ seen' = Put(SeenNow, e.id, now)
            /\ accepted' = [accepted EXCEPT ![e] = [count |-> @.count + 1, last |-> now]]
            /\ Goto(w, to)
      /\ UNCHANGED <<claims, rate, now, restarts, armed>>

-------------------------------------------------------------------------------
(* POST /api/v1/register *)

register(w, ip, e) ==
  e.op = "register" /\ Begin(w, ip, e, "na-reg", "r_auth")

register_auth(w) == verify_nip98(w, "r_auth", "r_fresh")

register_fresh(w) == auth_event_fresh(w, "r_fresh", "r_cooldown")

\* Mutant: the cooldown is not consulted.
register_cooldown_skipped(w) ==
  /\ At(w, "r_cooldown")
  /\ Goto(w, "r_lookup")
  /\ UNCHANGED <<claims, rate, seen, now, restarts, accepted, armed>>

\* The cooldown of the authenticated key, then the checks on the body.
register_cooldown(w) ==
  LET refused == \/ CooldownActive(rate, Ev(w).pubkey, now)
                 \/ Ev(w).body_pubkey # Ev(w).pubkey
                 \/ Ev(w).name \in Reserved
  IN  /\ At(w, "r_cooldown")
      /\ rate' = AfterCooldownCheck(rate, Ev(w).pubkey, now)
      /\ IF refused THEN Reply(w) ELSE Goto(w, "r_lookup")
      /\ UNCHANGED <<claims, seen, now, restarts, accepted, armed>>

\* lookup(name): an active row answers the request, whoever owns it.  A failed
\* query counts as no row.
register_lookup(w) ==
  /\ At(w, "r_lookup")
  /\ \/ claims[Ev(w).name].active /\ Reply(w)
     \/ Goto(w, "r_name_of")
  /\ UNCHANGED <<claims, rate, seen, now, restarts, accepted, armed>>

\* name_of(pubkey), likewise.
register_name_of(w) ==
  /\ At(w, "r_name_of")
  /\ \/ HasName(Ev(w).pubkey) /\ Reply(w)
     \/ Goto(w, "r_gate")
  /\ UNCHANGED <<claims, rate, seen, now, restarts, accepted, armed>>

\* paid_gate(pubkey).await: the handler goes on, or in paid mode it may answer 402
\* or 5xx instead.  Whom the gate lets through is Payments!PaidOnly; here it is an
\* await during which anything may happen.
register_gate(w) ==
  /\ At(w, "r_gate")
  /\ Goto(w, "r_insert") \/ (PaidMode /\ Reply(w))
  /\ UNCHANGED <<claims, rate, seen, now, restarts, accepted, armed>>

\* Mutant: the table has no unique index on active pubkeys.
Insertable_noIndex(n, pk) == ~claims[n].active

\* Mutant: ON CONFLICT(name) DO UPDATE without its WHERE clause.
Insertable_noWhere(n, pk) == ~\E m \in Names \ {n} : Holds(m, pk)

\* The upsert touches a row only when the name is new or released, and the
\* partial unique index admits one active name per pubkey.
Insertable(n, pk) == ~claims[n].active /\ ~HasName(pk)

register_insert(w) ==
  LET n  == Ev(w).name
      pk == Ev(w).pubkey
  IN  /\ At(w, "r_insert")
      /\ \/ /\ Insertable(n, pk)
            /\ claims' = [claims EXCEPT ![n] = [owner |-> pk, active |-> TRUE]]
         \/ UNCHANGED claims        \* 409, or 500 when the database is busy
      /\ Reply(w)
      /\ UNCHANGED <<rate, seen, now, restarts, accepted, armed>>

-------------------------------------------------------------------------------
(* DELETE /api/v1/register/{name} *)

unregister(w, ip, e) ==
  e.op = "release" /\ Begin(w, ip, e, "na-unreg", "u_auth")

unregister_auth(w) == verify_nip98(w, "u_auth", "u_fresh")

unregister_fresh(w) == auth_event_fresh(w, "u_fresh", "u_lookup")

\* lookup(name): 404 or 403 unless the key owns the name.
unregister_lookup(w) ==
  /\ At(w, "u_lookup")
  /\ \/ Holds(Ev(w).name, Ev(w).pubkey) /\ Goto(w, "u_update")
     \/ Reply(w)
  /\ UNCHANGED <<claims, rate, seen, now, restarts, accepted, armed>>

\* UPDATE ... SET released_at WHERE name AND released_at IS NULL, under its own
\* acquisition of the database mutex; zero rows is a success too.
unregister_update(w) ==
  /\ At(w, "u_update")
  /\ \/ /\ claims' = [claims EXCEPT ![Ev(w).name] = [owner |-> @.owner, active |-> FALSE]]
        /\ Goto(w, "u_record")
     \/ Reply(w) /\ UNCHANGED claims
  /\ UNCHANGED <<rate, seen, now, restarts, accepted, armed>>

\* record_op: releasing is what arms the cooldown.
unregister_record(w) ==
  /\ At(w, "u_record")
  /\ rate' = AfterRecord(rate, Ev(w).pubkey, now)
  /\ armed' = [armed EXCEPT ![Ev(w).pubkey] = now]
  /\ Reply(w)
  /\ UNCHANGED <<claims, seen, now, restarts, accepted>>

-------------------------------------------------------------------------------
\* Any read endpoint: only the limiter changes.
read(ip) ==
  /\ rate' = AfterAllow(rate, ReadKey(ip), ReadMax, ReadWindow, now)
  /\ UNCHANGED <<claims, seen, now, work, restarts, accepted, armed>>

Tick ==
  /\ now < MaxTime
  /\ now' = now + 1
  /\ UNCHANGED <<claims, rate, seen, work, restarts, accepted, armed>>

\* The relay stops and starts again: the database stays, memory does not, and
\* what the memory remembered is forgotten by design.
Restart ==
  /\ restarts < MaxRestarts
  /\ restarts' = restarts + 1
  /\ rate' = EmptyMap
  /\ seen' = EmptyMap
  /\ work' = [w \in Workers |-> Idle]
  /\ accepted' = [e \in AuthEvents |-> NeverUsed]
  /\ armed' = [pk \in Pubkeys |-> NoTime]
  /\ UNCHANGED <<claims, now>>

\* A handler that has a request takes its next step.
Handle(w) ==
  \/ register_auth(w) \/ register_fresh(w) \/ register_cooldown(w) \/ register_lookup(w)
  \/ register_name_of(w) \/ register_gate(w) \/ register_insert(w)
  \/ unregister_auth(w) \/ unregister_fresh(w) \/ unregister_lookup(w)
  \/ unregister_update(w) \/ unregister_record(w)

Next ==
  \/ \E w \in Workers, ip \in Ips, e \in AuthEvents : register(w, ip, e) \/ unregister(w, ip, e)
  \/ \E w \in Workers : Handle(w)
  \/ \E ip \in Ips : read(ip)
  \/ Restart
  \/ Tick

Spec == Init /\ [][Next]_vars

-------------------------------------------------------------------------------
(* Properties *)

RegisterPCs == {"r_auth", "r_fresh", "r_cooldown", "r_lookup", "r_name_of", "r_gate", "r_insert"}
ReleasePCs  == {"u_auth", "u_fresh", "u_lookup", "u_update", "u_record"}

WorkOK(r) ==
  \/ r = Idle
  \/ /\ r.ev \in AuthEvents
     /\ r.armed \in Nat \cup {NoTime}
     /\ \/ r.ev.op = "register" /\ r.pc \in RegisterPCs
        \/ r.ev.op = "release" /\ r.pc \in ReleasePCs

\* Types, and the fact that a handler at a step of an endpoint holds a request
\* for that endpoint (the routing of Authority::handle).
TypeOK ==
  /\ claims \in [Names -> [owner : Pubkeys \cup {NoKey}, active : BOOLEAN]]
  /\ \A n \in Names : claims[n].active => claims[n].owner \in Pubkeys
  /\ DOMAIN rate \subseteq RateKeys
  /\ DOMAIN seen \subseteq {e.id : e \in AuthEvents}
  /\ now \in Nat /\ restarts \in Nat
  /\ work \in [Workers -> [pc : PCs, ev : AuthEvents \cup {NoEvent}, armed : Nat \cup {NoTime}]]
  /\ \A w \in Workers : WorkOK(work[w])
  /\ accepted \in [AuthEvents -> [count : Nat, last : Nat]]
  /\ armed \in [Pubkeys -> Nat \cup {NoTime}]

\* However the checks of concurrent register calls interleave, a key never has
\* two active names ("One active name per pubkey").
OneNamePerKey ==
  \A m, n \in Names : claims[m].active /\ Holds(n, claims[m].owner) => m = n

\* An active name never passes from one key to another in one step, no name is
\* given to a key that has one: the claims table implements the registry.
Registry == INSTANCE NameRegistry WITH
  holder <- [n \in Names |-> IF claims[n].active THEN claims[n].owner ELSE NoKey]
RefinesRegistry == Registry!Spec

\* This step is the successful INSERT of handler w.
ClaimedBy(w) == At(w, "r_insert") /\ claims' # claims /\ work'[w] = Idle

\* No claim succeeds within the cooldown of a release that was over when the
\* request arrived: the check in register sees it whatever runs in between.
CooldownHonoured ==
  [][\A w \in Workers :
       ClaimedBy(w) /\ work[w].armed # NoTime => now - work[w].armed >= Cooldown]_vars

\* The UPDATE of unregister releases a claim of the key that asked for it, the
\* others having been refused as "not the owner".
ReleaseByOwner ==
  [][\A w \in Workers :
       At(w, "u_update") /\ claims' # claims /\ work'[w].pc = "u_record"
         => claims[Ev(w).name].owner = Ev(w).pubkey]_vars

\* Between two restarts an auth event is let through at most once (seen_auth:
\* "one-time use in the freshness window") before second created_at + MaxAge, the last
\* one in which verify_nip98 accepts it, whatever time passes between the check of its
\* age and that of its use.
OneUseWhileFresh ==
  \A e \in AuthEvents :
    accepted[e].count > 1 => accepted[e].last >= (e.created_at + MaxAge) * TicksPerSecond

===============================================================================
