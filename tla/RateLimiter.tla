------------------------------ MODULE RateLimiter ------------------------------
(***************************************************************************)
(* The rate map on its own: every caller of allow(), cooldown_active() and *)
(* record_op(), in any order, against a clock.  Histories remember what the *)
(* limiter let through, when names were released and what sweeps dropped.  *)
(***************************************************************************)
EXTENDS RateMap

VARIABLES
  map,       \* the map
  clock,     \* the clock
  admitted,  \* history: per write bucket and IP, the calls admitted, as hits
  released,  \* history: per pubkey, the instants at which record_op ran
  swept      \* history: the keys that a sweep has dropped at some time

limiterVars == <<map, clock, admitted, released, swept>>

WriteKeys == {WriteKey(b, ip) : b \in WriteBuckets, ip \in Ips}

LimiterInit ==
  /\ map = EmptyMap
  /\ clock = 0
  /\ admitted = [k \in WriteKeys |-> {}]
  /\ released = [pk \in Pubkeys |-> {}]
  /\ swept = {}

\* allow(): the map afterwards, and the keys that its sweep has dropped.
allow(key, max, window) ==
  /\ map' = AfterAllow(map, key, max, window, clock)
  /\ swept' = swept \cup (DOMAIN map \ DOMAIN map')

allow_read(ip) ==
  /\ allow(ReadKey(ip), ReadMax, ReadWindow)
  /\ UNCHANGED <<clock, admitted, released>>

allow_write(bucket, ip) ==
  LET key == WriteKey(bucket, ip)
  IN  /\ allow(key, WriteMax, WriteWindow)
      /\ admitted' = IF Allowed(map, key, WriteMax, WriteWindow, clock)
                     THEN [admitted EXCEPT ![key] = Push(@, clock)] ELSE admitted
      /\ UNCHANGED <<clock, released>>

\* Bound: one release of a pubkey per instant of the clock.
record_op(pk) ==
  /\ clock \notin released[pk]
  /\ map' = AfterRecord(map, pk, clock)
  /\ released' = [released EXCEPT ![pk] = @ \cup {clock}]
  /\ UNCHANGED <<clock, admitted, swept>>

cooldown_active(pk) ==
  /\ map' = AfterCooldownCheck(map, pk, clock)
  /\ UNCHANGED <<clock, admitted, released, swept>>

Elapse ==
  /\ clock < MaxTime
  /\ clock' = clock + 1
  /\ UNCHANGED <<map, admitted, released, swept>>

LimiterNext ==
  \/ \E ip \in Ips : allow_read(ip) \/ \E b \in WriteBuckets : allow_write(b, ip)
  \/ \E pk \in Pubkeys : record_op(pk) \/ cooldown_active(pk)
  \/ Elapse

LimiterSpec == LimiterInit /\ [][LimiterNext]_limiterVars

-------------------------------------------------------------------------------
\* A sweep drops a key that has no hit within the window of its caller, whatever
\* window the key itself is for.  So a promise made for a window is kept for all of
\* it until a sweep drops the key, and from then on for the shortest of the windows.
Shortest(window) ==
  CHOOSE w \in {window, ReadWindow, WriteWindow} :
    \A v \in {window, ReadWindow, WriteWindow} : w <= v
Kept(key, window) == IF key \in swept THEN Shortest(window) ELSE window

\* However reads, writes and cooldowns share the map and its sweeps, no IP gets more
\* than WriteMax calls of one bucket through in the window of writes, or in the
\* shortest window once a sweep has dropped its key.
WritesBounded ==
  \A k \in WriteKeys : Cardinality(Recent(admitted[k], clock, Kept(k, WriteWindow))) <= WriteMax

\* cooldown_active refuses nobody without a release within Cooldown, and it misses no
\* release within Cooldown, or within the shortest window once a sweep has dropped
\* the key.
CooldownRemembered ==
  \A pk \in Pubkeys :
    /\ CooldownActive(map, pk, clock) => \E t \in released[pk] : clock - t < Cooldown
    /\ (\E t \in released[pk] : clock - t < Kept(CooldownKey(pk), Cooldown))
         => CooldownActive(map, pk, clock)

\* The cooldown "blocks registering a new name for the window after letting one go":
\* a release is in force for all of Cooldown.
CooldownForWindow ==
  \A pk \in Pubkeys :
    (\E t \in released[pk] : clock - t < Cooldown) => CooldownActive(map, pk, clock)

===============================================================================
