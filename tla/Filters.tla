-------------------------------- MODULE Filters --------------------------------
(***************************************************************************)
(* Subscription filters.  One filter is matched by three pieces of code: by *)
(* ReqFilter::interested_in_event when an event is broadcast, and by the    *)
(* SQL that query_from_filter writes for SQLite and for PostgreSQL.  Also   *)
(* here is what parsing adds to an event: its delegator (NIP-26).           *)
(*                                                                         *)
(* A text (a key, an id, a tag value) is a record [txt, form, num]: txt     *)
(* says which text, form how it is spelt, num its value as a number, or -1. *)
(*   "lower", "upper"  the whole text, an even number of hex digits in that *)
(*                     case, or not only in lower case (keys and ids have   *)
(*                     64 digits)                                          *)
(*   "odd", "prefix"   lower-case hex that the text txt begins with: an odd *)
(*                     and an even number of digits                         *)
(*   "plain"           not hex                                             *)
(* An event carries its author twice: pubkey is the text of the event,      *)
(* which may be in upper case (secp256k1 parses both), author the key that  *)
(* it decodes to, which is what the databases hold.  An id is the text of a *)
(* digest, in lower case always.                                           *)
(* An Option is a set with at most one element.  A filter is a record       *)
(*   [ids, authors, kinds, since, until, limit, tags]                      *)
(* of Options; tags holds a function from tag names to [op, vals].  An      *)
(* event's tags are sequences of texts that begin with a name; those called *)
(* "delegation" with four elements are kept apart, in delegations.          *)
(* force_no_match is left out: no code sets it.                            *)
(***************************************************************************)
EXTENDS Integers, Sequences, FiniteSets, Functions

CONSTANTS
  TwoTo63,     \* 2^63: numbers of filters and events are u64, those of SQL i64
  ChronoLimit, \* timestamps up to here are dates (chrono: about 8.2 * 10^12)
  PgLimit      \* rows that a PostgreSQL query returns at most (1000)

ASSUME FiltersAssumption ==
  /\ {TwoTo63, ChronoLimit, PgLimit} \subseteq Nat
  /\ ChronoLimit < TwoTo63

U64 == 0..(2 * TwoTo63 - 1)

\* x as i64
as_i64(x) == IF x < TwoTo63 THEN x ELSE x - 2 * TwoTo63

\* The canonical spelling of a key or an id.
Lower(k) == [txt |-> k, form |-> "lower", num |-> -1]

is_lower_hex(v) == v.form \in {"lower", "odd", "prefix"}

Null == [txt |-> "", form |-> "null", num |-> -1]

\* hex::decode(v).ok(): the case of the digits is lost, odd lengths are errors.
decode(v) ==
  CASE v.form \in {"lower", "upper"} -> Lower(v.txt)
    [] v.form = "prefix"             -> v
    [] OTHER                         -> Null

\* column = ? with the decoded v: NULL compares with nothing.
SqlEquals(k, v) == decode(v) = Lower(k)

-------------------------------------------------------------------------------
(* Tags and delegation *)

HasTag(e, name) == \E t \in Range(e.tags) : t # << >> /\ t[1] = name

\* tag_values_by_name: the values of the tags of this name, each at its place
\* among the tags.
tag_values_by_name(e, name) ==
  [i \in {j \in DOMAIN e.tags : Len(e.tags[j]) > 1 /\ e.tags[j][1] = name} |-> e.tags[i][2]]

\* The entry of build_index, and the rows of table tag, for a one-character name.
TagVals(e, c) == Range(tag_values_by_name(e, c))

ResolvedField(c, e) == IF c.field = "kind" THEN e.kind ELSE e.created_at

\* Mutant: a list of forbidden values forbids nothing once one value differs.
Condition_allows_event_any(c, e) ==
  LET x == ResolvedField(c, e)
  IN  CASE c.operator = "<" -> Len(c.values) = 1 /\ x < c.values[1]
        [] c.operator = ">" -> Len(c.values) = 1 /\ x > c.values[1]
        [] c.operator = "=" -> \E i \in DOMAIN c.values : x = c.values[i]
        [] c.operator = "!" -> \E i \in DOMAIN c.values : x # c.values[i]

Condition_allows_event(c, e) ==
  LET x == ResolvedField(c, e)
  IN  CASE c.operator = "<" -> Len(c.values) = 1 /\ x < c.values[1]
        [] c.operator = ">" -> Len(c.values) = 1 /\ x > c.values[1]
        [] c.operator = "=" -> \E i \in DOMAIN c.values : x = c.values[i]
        [] c.operator = "!" -> \A i \in DOMAIN c.values : x # c.values[i]

\* The query parses: every condition has a known field and operator.  A condition
\* here is what the regex finds in one part of the query (text around it is not
\* looked at) and its values are numbers that fit into 64 bits.
Parses(conds) ==
  \A i \in DOMAIN conds : /\ conds[i].field \in {"kind", "created_at"}
                          /\ conds[i].operator \in {"<", ">", "=", "!"}

\* The signature of a delegation tag is over the text of the delegatee and the
\* conditions; sig says which key made it and over what, or is malformed.
validate_delegation(d, delegatee) ==
  /\ d.sig = [by |-> d.delegator.txt, to |-> delegatee, conds |-> d.conds]
  /\ Parses(d.conds)

MalformedSig == [by |-> "", to |-> Null, conds |-> << >>]

\* schnorr::Signature::from_str(sig).unwrap() on the first delegation tag.
Panics(m) == m.delegations # << >> /\ Head(m.delegations).sig = MalformedSig

\* An Option: the key in whose name the author wrote, as the tag spells it.
delegated_author(m) ==
  LET d == Head(m.delegations)
  IN  IF /\ m.delegations # << >>
         /\ validate_delegation(d, m.pubkey)
         /\ \A i \in DOMAIN d.conds : Condition_allows_event(d.conds[i], m)
      THEN {d.delegator} ELSE {}

-------------------------------------------------------------------------------
(* Broadcast: ReqFilter::interested_in_event *)

\* target.starts_with(v) for a v of the list: texts compare, with their case.
prefix_match(vs, target) ==
  \E v \in vs : /\ v.txt = target.txt
                /\ v.form = target.form \/ (is_lower_hex(target) /\ is_lower_hex(v))

ids_match(f, e) == \A vs \in f.ids : prefix_match(vs, Lower(e.id))

authors_match(f, e) == \A vs \in f.authors : prefix_match(vs, e.pubkey)

delegated_authors_match(f, e) ==
  \E k \in e.delegated_by : \A vs \in f.authors : prefix_match(vs, k)

generic_tag_val_intersect(e, c, operand) ==
  LET valset == TagVals(e, c)
  IN  /\ valset # {}
      /\ IF operand.op = "and" THEN operand.vals \subseteq valset
                               ELSE operand.vals \cap valset # {}

tag_match(f, e) ==
  \A map \in f.tags : \A c \in DOMAIN map : generic_tag_val_intersect(e, c, map[c])

kind_match(f, e) == \A ks \in f.kinds : e.kind \in ks

interested_in_event(f, e) ==
  /\ ids_match(f, e)
  /\ \A t \in f.since : e.created_at >= t
  /\ \A t \in f.until : e.created_at <= t
  /\ kind_match(f, e)
  /\ authors_match(f, e) \/ delegated_authors_match(f, e)
  /\ tag_match(f, e)

-------------------------------------------------------------------------------
(* SQLite: the WHERE clause of query_from_filter, without hidden and expiry *)

\* Mutant: the query leaves out the last second of the period.
sqlite_times_before(f, e) ==
  /\ \A t \in f.since : e.created_at >= t
  /\ \A t \in f.until : e.created_at < t

sqlite_times(f, e) ==
  /\ \A t \in f.since : e.created_at >= t
  /\ \A t \in f.until : e.created_at <= t

\* A clause for every tag name with values; an empty set of values adds none.
sqlite_tags(f, e) ==
  \A map \in f.tags : \A c \in DOMAIN map :
    \/ map[c].vals = {}
    \/ map[c].op = "or"  /\ map[c].vals \cap TagVals(e, c) # {}
    \/ map[c].op = "and" /\ map[c].vals \subseteq TagVals(e, c)

sqlite_selects(f, e) ==
  /\ \A vs \in f.authors : \E v \in vs : SqlEquals(e.author, v)
  /\ \A ks \in f.kinds : e.kind \in ks
  /\ \A vs \in f.ids : \E v \in vs : SqlEquals(e.id, v)
  /\ sqlite_tags(f, e)
  /\ sqlite_times(f, e)

-------------------------------------------------------------------------------
(* PostgreSQL: query_from_filter, without hidden and expiry *)

\* Column value_hex holds the values that are an even number of lower-case hex
\* digits, column value all others.
InHexColumn(v) == v.form \in {"lower", "prefix"}

\* value in (...) OR value_hex in (...): an odd number of hex digits is in
\* neither list, and a list that this leaves empty is a syntax error.
pg_or(vals, row) ==
  /\ (\E v \in vals : is_lower_hex(v)) => \E v \in vals : InHexColumn(v)
  /\ row \in vals /\ (is_lower_hex(row) => InHexColumn(row))

\* One join per value: value_hex = NULL for an odd number of hex digits.
pg_and(vals, rows) == \A v \in vals : v \in rows /\ (is_lower_hex(v) => InHexColumn(v))

pg_tags(f, e) ==
  \A map \in f.tags : \A c \in DOMAIN map :
    /\ map[c].vals # {}
    /\ \/ map[c].op = "or"  /\ \E row \in TagVals(e, c) : pg_or(map[c].vals, row)
       \/ map[c].op = "and" /\ pg_and(map[c].vals, TagVals(e, c))

\* The unqualified column id is ambiguous once the tag table is joined.
pg_ids(f, e) ==
  \A vs \in f.ids : /\ \E v \in vs : SqlEquals(e.id, v)
                    /\ \A map \in f.tags : DOMAIN map = {}

\* Utc.timestamp_opt(t as i64, 0).unwrap() panics, and ends the query, when it is
\* no date.
pg_is_date(t) == as_i64(t) \in -ChronoLimit..ChronoLimit

pg_times(f, e) ==
  /\ \A t \in f.since \cup f.until : pg_is_date(t)
  /\ \A t \in f.since : as_i64(e.created_at) >= as_i64(t)
  /\ \A t \in f.until : as_i64(e.created_at) <= as_i64(t)

\* Values that are not hex are left out of the lists of authors and ids, and an
\* empty list selects nothing.
postgres_selects(f, e) ==
  /\ pg_tags(f, e)
  /\ \A vs \in f.authors :
       \E v \in vs, k \in {e.author} \cup {d.txt : d \in e.delegated_by} : SqlEquals(k, v)
  /\ \A ks \in f.kinds : \E k \in ks : as_i64(e.kind) = as_i64(k)
  /\ pg_ids(f, e)
  /\ pg_times(f, e)

-------------------------------------------------------------------------------
(* Subscriptions: sequences of filters *)

\* Vec::dedup: a filter that equals the one before it is dropped.
dedup(fs) ==
  LET kept == SelectSeq([i \in DOMAIN fs |-> i], LAMBDA i : i = 1 \/ fs[i] # fs[i - 1])
  IN  [j \in DOMAIN kept |-> fs[kept[j]]]

needs_historical_events(fs) == \E i \in DOMAIN fs : fs[i].limit # {0}

sub_interested_in_event(fs, e) == \E i \in DOMAIN fs : interested_in_event(fs[i], e)

Precision(f) ==
  2 * Cardinality(f.ids) + Cardinality(f.authors) + Cardinality(f.kinds) + Cardinality(f.tags)

is_scraper(fs) == \E i \in DOMAIN fs : Precision(fs[i]) < 2

\* The results of one filter's query over rows: ORDER BY created_at DESC LIMIT n
\* keeps n of the most recent rows, without a limit all rows come.
Answers(f, rows) ==
  LET all == {e \in rows : sqlite_selects(f, e)}
  IN  {S \in SUBSET all :
         /\ \A n \in f.limit : /\ Cardinality(S) <= n
                               /\ S # all => Cardinality(S) = n
                               /\ \A e \in S, d \in all \ S : d.created_at <= e.created_at
         /\ f.limit = {} => S = all}

\* The same for PostgreSQL, which returns PgLimit rows at most: the oldest without
\* a limit, else the most recent.  A join with the tags may repeat a row, so that
\* with tags the limit may cut the answer earlier.
PgAnswers(f, rows) ==
  LET all  == {e \in rows : postgres_selects(f, e)}
      size == IF \E n \in f.limit : n < PgLimit THEN CHOOSE n \in f.limit : TRUE ELSE PgLimit
  IN  {S \in SUBSET all :
         /\ Cardinality(S) <= size
         /\ f.tags = {} => IF Cardinality(all) <= size THEN S = all ELSE Cardinality(S) = size
         /\ \A e \in S, d \in all \ S :
              IF f.limit = {} THEN e.created_at <= d.created_at ELSE d.created_at <= e.created_at}

===============================================================================
