-------------------------------- MODULE RateMap --------------------------------
(***************************************************************************)
(* The name authority's in-memory rate map: one map holds the per-IP       *)
(* sliding windows and the per-pubkey rename cooldowns (the field rate of   *)
(* Authority).  A map is a function from the keys present to the hits       *)
(* recorded under each key.  A hit is <<instant, n>>, where n numbers the   *)
(* hits of one instant: retain, len and any, the only uses of a Vec of      *)
(* instants, do not see its order.  Every operator below is what one method *)
(* does while it holds the map's mutex.                                    *)
(***************************************************************************)
EXTENDS Naturals, FiniteSets

CONSTANTS
  Ips,          \* client addresses
  Pubkeys,      \* nostr public keys
  ReadMax, ReadWindow,     \* read_rate_max, read_rate_window_secs
  WriteMax, WriteWindow,   \* write_rate_max, write_rate_window_secs
  Cooldown,     \* name_change_cooldown_secs
  MapLimit,     \* number of keys above which allow() sweeps the map (50_000)
  MaxTime       \* bound on the clock

ASSUME RateAssumption ==
  {ReadMax, ReadWindow, WriteMax, WriteWindow, Cooldown, MapLimit, MaxTime} \subseteq Nat

WriteBuckets == {"na-reg", "na-unreg"}
ReadKey(ip) == <<"na-read", ip>>
WriteKey(bucket, ip) == <<bucket, ip>>
CooldownKey(pk) == <<"na-namechange", pk>>
RateKeys == {ReadKey(ip) : ip \in Ips} \cup {WriteKey(b, ip) : b \in WriteBuckets, ip \in Ips}
              \cup {CooldownKey(pk) : pk \in Pubkeys}

\* HashMap: an empty one, and one after insert(key, value).
EmptyMap == <<>>
Put(m, key, value) ==
  [k \in DOMAIN m \cup {key} |-> IF k = key THEN value ELSE m[k]]

Hits(m, key) == IF key \in DOMAIN m THEN m[key] ELSE {}

\* hits.push(now)
Push(hits, t) == hits \cup {<<t, 1 + Cardinality({h \in hits : h[1] = t})>>}

\* hits.retain(|t| now.duration_since(*t) < window)
Recent(hits, t, window) == {h \in hits : t - h[1] < window}

\* The sweep keeps the keys with a hit inside the window of the caller.
Sweep(m, t, window) ==
  [key \in {k \in DOMAIN m : Recent(m[k], t, window) # {}} |-> m[key]]

\* allow(): is the call let through ...
Allowed(m, key, max, window, t) == Cardinality(Recent(Hits(m, key), t, window)) < max

\* Mutant: a refused call is recorded as well, and a let-through one is not.
AfterAllow_swapped(m, key, max, window, t) ==
  LET kept == Recent(Hits(m, key), t, window)
  IN  Put(m, key, IF Cardinality(kept) < max THEN kept ELSE Push(kept, t))

\* ... and what it leaves in the map: a refused call returns before the sweep.
AfterAllow(m, key, max, window, t) ==
  LET kept     == Recent(Hits(m, key), t, window)
      recorded == Put(m, key, Push(kept, t))
  IN  IF Cardinality(kept) >= max THEN Put(m, key, kept)
      ELSE IF Cardinality(DOMAIN recorded) > MapLimit THEN Sweep(recorded, t, window)
      ELSE recorded

\* cooldown_active(): the answer, and the pruning it does on the way.
CooldownActive(m, pk, t) == Recent(Hits(m, CooldownKey(pk)), t, Cooldown) # {}

AfterCooldownCheck(m, pk, t) ==
  LET key == CooldownKey(pk)
  IN  IF key \in DOMAIN m THEN [m EXCEPT ![key] = Recent(@, t, Cooldown)] ELSE m

\* Mutant: an operation is recorded only for a key that has no entry yet.
AfterRecord_firstOnly(m, pk, t) ==
  IF CooldownKey(pk) \in DOMAIN m THEN m ELSE Put(m, CooldownKey(pk), Push({}, t))

\* record_op()
AfterRecord(m, pk, t) ==
  Put(m, CooldownKey(pk), Push(Hits(m, CooldownKey(pk)), t))

===============================================================================
