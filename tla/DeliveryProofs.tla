---------------------------- MODULE DeliveryProofs ----------------------------
(* Theorems about Delivery, for any connections, keys, messages, requests and *)
(* settings.                                                                 *)
EXTENDS Delivery, FiniteSetTheorems, TLAPS

\* The keys that clients may authenticate with.
AuthKeys == {a.pubkey : a \in AuthEvents}

\* Every key that a connection speaks for was proven over this connection.
AuthInv ==
  /\ auth \in [Conns -> SUBSET AuthKeys]
  /\ \A c \in Conns : \A k \in auth[c] : Proven(c, k)

\* Everything on its way to a client is the parsed form of a message.
StoreInv == stored \subseteq Events
QueueInv == eventq \in Seq(Events)
BcastInv == bcast \in [Conns -> Seq(Events)]
Channel(q) ==
  /\ q \in Seq(Range(q))
  /\ \A b \in Range(q) :
       "rows" \in DOMAIN b /\ "eose" \in DOMAIN b /\ b.rows \subseteq Events
ResultsInv ==
  /\ DOMAIN results = Conns
  /\ results = [c \in Conns |-> results[c]]
  /\ \A c \in Conns : Channel(results[c])
SentInv == sent \in [Conns -> SUBSET Events]

\* Subscriptions hold the filters of requests.
SubsInv == subs \in [Conns -> SUBSET {dedup(request) : request \in Requests}]

FlowInv == StoreInv /\ QueueInv /\ BcastInv /\ ResultsInv /\ SentInv

-------------------------------------------------------------------------------
(* Filters. *)

\* A list of whole texts in lower case is matched alike by the broadcast, which
\* compares prefixes of hex digits, and by SQL, which compares decoded blobs.
LEMMA PlainTextAgrees ==
  ASSUME NEW vs, PlainText(vs), NEW t
  PROVE  /\ prefix_match(vs, t) => \E v \in vs : SqlEquals(t.txt, v)
         /\ t.form = "lower" => (prefix_match(vs, t) <=> \E v \in vs : SqlEquals(t.txt, v))
<1>1. \A v \in vs : decode(v) = Lower(v.txt)
  BY DEF PlainText, decode
<1>2. \A x, y : Lower(x) = Lower(y) <=> x = y
  <2>1. \A x : Lower(x).txt = x
    BY DEF Lower
  <2> QED
    BY <2>1
<1>3. \A v \in vs : SqlEquals(t.txt, v) <=> v.txt = t.txt
  BY <1>1, <1>2 DEF SqlEquals
<1> QED
  BY <1>3 DEF prefix_match, PlainText

\* Operators of tag conditions.
OpsTyped(f) == \A map \in f.tags : \A c \in DOMAIN map : map[c].op \in {"and", "or"}

\* The tag conditions of a plain filter mean the same to all three readers.
LEMMA PlainTagsAgree ==
  ASSUME NEW f, NEW e, PlainFilter(f), OpsTyped(f)
  PROVE  /\ tag_match(f, e) <=> sqlite_tags(f, e)
         /\ tag_match(f, e) <=> pg_tags(f, e)
<1>1. ASSUME NEW map \in f.tags, NEW c \in DOMAIN map
      PROVE  /\ map[c].vals # {} /\ map[c].op \in {"and", "or"}
             /\ \A v \in map[c].vals : v.form # "odd"
  BY <1>1 DEF PlainFilter, OpsTyped
<1>2. ASSUME NEW map \in f.tags, NEW c \in DOMAIN map
      PROVE  generic_tag_val_intersect(e, c, map[c]) <=>
               \/ map[c].vals = {}
               \/ map[c].op = "or"  /\ map[c].vals \cap TagVals(e, c) # {}
               \/ map[c].op = "and" /\ map[c].vals \subseteq TagVals(e, c)
  BY <1>1, <1>2 DEF generic_tag_val_intersect
<1>3. ASSUME NEW map \in f.tags, NEW c \in DOMAIN map
      PROVE  generic_tag_val_intersect(e, c, map[c]) <=>
               /\ map[c].vals # {}
               /\ \/ map[c].op = "or"  /\ \E row \in TagVals(e, c) : pg_or(map[c].vals, row)
                  \/ map[c].op = "and" /\ pg_and(map[c].vals, TagVals(e, c))
  <2> DEFINE vals == map[c].vals
             rows == TagVals(e, c)
  <2>1. vals # {} /\ (\A v \in vals : v.form # "odd") /\ map[c].op \in {"and", "or"}
    BY <1>1, <1>3
  <2>2. \A v \in vals : is_lower_hex(v) => InHexColumn(v)
    BY <2>1 DEF is_lower_hex, InHexColumn
  <2>3. \A row : pg_or(vals, row) <=> row \in vals
    BY <2>2 DEF pg_or
  <2>4. pg_and(vals, rows) <=> vals \subseteq rows
    BY <2>2 DEF pg_and
  <2> HIDE DEF vals, rows
  <2>5. generic_tag_val_intersect(e, c, map[c]) <=>
          rows # {} /\ IF map[c].op = "and" THEN vals \subseteq rows ELSE vals \cap rows # {}
    BY DEF generic_tag_val_intersect, vals, rows
  <2>6. generic_tag_val_intersect(e, c, map[c]) <=>
          /\ vals # {}
          /\ \/ map[c].op = "or"  /\ \E row \in rows : pg_or(vals, row)
             \/ map[c].op = "and" /\ pg_and(vals, rows)
    BY <2>1, <2>3, <2>4, <2>5
  <2> QED
    BY <2>6 DEF vals, rows
<1> QED
  BY <1>2, <1>3 DEF tag_match, sqlite_tags, pg_tags

\* Numbers of a filter are u64.
NumbersTyped(f) ==
  f.since \cup f.until \subseteq U64 /\ \A ks \in f.kinds : ks \subseteq U64

\* What the broadcast passes on SQLite selects, for every spelling of the author,
\* and nothing else when it is spelt in lower case.
LEMMA PlainFiltersAgree ==
  ASSUME NEW f, NEW e, PlainFilter(f), OpsTyped(f), e.delegated_by = {},
         e.author = e.pubkey.txt
  PROVE  /\ interested_in_event(f, e) => sqlite_selects(f, e)
         /\ PlainEvent(e) /\ sqlite_selects(f, e) => interested_in_event(f, e)
<1>1. \A vs \in f.ids \cup f.authors : PlainText(vs)
  BY DEF PlainFilter
<1>2. Lower(e.id).txt = e.id /\ Lower(e.id).form = "lower"
  BY DEF Lower
<1>3. ids_match(f, e) <=> \A vs \in f.ids : \E v \in vs : SqlEquals(e.id, v)
  BY <1>1, <1>2, PlainTextAgrees DEF ids_match
<1>4. authors_match(f, e) => \A vs \in f.authors : \E v \in vs : SqlEquals(e.author, v)
  BY <1>1, PlainTextAgrees DEF authors_match
<1>5. PlainEvent(e) /\ (\A vs \in f.authors : \E v \in vs : SqlEquals(e.author, v))
        => authors_match(f, e)
  BY <1>1, PlainTextAgrees DEF authors_match, PlainEvent
<1>6. ~delegated_authors_match(f, e)
  BY DEF delegated_authors_match
<1>7. tag_match(f, e) <=> sqlite_tags(f, e)
  BY PlainTagsAgree
<1> QED
  BY <1>3, <1>4, <1>5, <1>6, <1>7
     DEF interested_in_event, sqlite_selects, sqlite_times, kind_match

\* as i64 keeps dates and tells all u64 apart.
LEMMA AsI64 ==
  /\ \A x \in U64 : x <= ChronoLimit => as_i64(x) = x /\ pg_is_date(x)
  /\ \A x, y \in U64 : as_i64(x) = as_i64(y) => x = y
<1>1. TwoTo63 \in Nat /\ ChronoLimit \in Nat /\ ChronoLimit < TwoTo63
  BY FiltersAssumption
<1>2. \A x \in U64 : x \in Nat /\ x < 2 * TwoTo63
  BY <1>1 DEF U64
<1>3. ASSUME NEW x \in U64, x <= ChronoLimit PROVE as_i64(x) = x /\ pg_is_date(x)
  BY <1>1, <1>2, <1>3 DEF as_i64, pg_is_date
<1>4. ASSUME NEW x \in U64, NEW y \in U64, as_i64(x) = as_i64(y) PROVE x = y
  BY <1>1, <1>2, <1>4 DEF as_i64
<1> QED
  BY <1>3, <1>4

\* The two databases select the same events.
LEMMA DatabasesAgree ==
  ASSUME NEW f, NEW e, PlainFilter(f), OpsTyped(f), NumbersTyped(f), PgFilter(f),
         e.delegated_by = {}, e.kind \in U64, e.created_at \in U64,
         e.created_at <= ChronoLimit
  PROVE  sqlite_selects(f, e) <=> postgres_selects(f, e)
<1>1. pg_ids(f, e) <=> \A vs \in f.ids : \E v \in vs : SqlEquals(e.id, v)
  BY DEF pg_ids, PgFilter
<1>2. (\A vs \in f.authors :
         \E v \in vs, k \in {e.author} \cup {d.txt : d \in e.delegated_by} : SqlEquals(k, v))
        <=> \A vs \in f.authors : \E v \in vs : SqlEquals(e.author, v)
  OBVIOUS
<1>3. (\A ks \in f.kinds : \E k \in ks : as_i64(e.kind) = as_i64(k))
        <=> \A ks \in f.kinds : e.kind \in ks
  BY AsI64 DEF NumbersTyped
<1>4. pg_times(f, e) <=> sqlite_times(f, e)
  <2>1. \A t \in f.since \cup f.until : t \in U64 /\ as_i64(t) = t /\ pg_is_date(t)
    BY AsI64 DEF NumbersTyped, PgFilter
  <2>2. as_i64(e.created_at) = e.created_at
    BY AsI64
  <2> QED
    BY <2>1, <2>2 DEF pg_times, sqlite_times
<1>5. sqlite_tags(f, e) <=> pg_tags(f, e)
  BY PlainTagsAgree
<1> QED
  BY <1>1, <1>2, <1>3, <1>4, <1>5 DEF sqlite_selects, postgres_selects

-------------------------------------------------------------------------------
(* The channel from the queries to a connection. *)

\* A sequence is one over its own elements.
LEMMA OwnElements ==
  ASSUME NEW S, NEW q \in Seq(S)
  PROVE  q \in Seq(Range(q))
  BY DEF Range

LEMMA ChannelEmpty == Channel(<< >>)
  BY DEF Channel, Range

LEMMA ChannelAppend ==
  ASSUME NEW q, Channel(q), NEW b, "rows" \in DOMAIN b, "eose" \in DOMAIN b, b.rows \subseteq Events
  PROVE  Channel(Append(q, b))
<1> DEFINE S == Range(q) \cup {b}
<1>1. q \in Seq(S)
  BY DEF Channel, Range
<1>2. /\ Append(q, b) \in Seq(S) /\ DOMAIN Append(q, b) = 1..(Len(q) + 1)
      /\ \A p \in 1..Len(q) : Append(q, b)[p] = q[p] /\ q[p] \in S
      /\ Append(q, b)[Len(q) + 1] = b
  BY <1>1
<1>3. Range(Append(q, b)) \subseteq S
  BY <1>2 DEF Range
<1>4. Append(q, b) \in Seq(Range(Append(q, b)))
  BY <1>2, OwnElements
<1> QED
  BY <1>3, <1>4 DEF Channel

LEMMA ChannelTail ==
  ASSUME NEW q, Channel(q), q # << >>
  PROVE  /\ Channel(Tail(q))
         /\ "rows" \in DOMAIN Head(q) /\ "eose" \in DOMAIN Head(q) /\ Head(q).rows \subseteq Events /\ Head(q) = q[1]
         /\ DOMAIN q = 1..Len(q) /\ 1 \in DOMAIN q
<1> DEFINE S == Range(q)
<1>1. q \in Seq(S)
  BY DEF Channel
<1>2. /\ Tail(q) \in Seq(S) /\ Head(q) \in S /\ Head(q) = q[1]
      /\ DOMAIN q = 1..Len(q) /\ 1 \in DOMAIN q
      /\ \A p \in DOMAIN Tail(q) : Tail(q)[p] \in S
  <2> HIDE DEF S
  <2> QED
    BY <1>1
<1>3. Range(Tail(q)) \subseteq S
  BY <1>2 DEF Range
<1>4. Tail(q) \in Seq(Range(Tail(q)))
  BY <1>2, OwnElements
<1> QED
  BY <1>2, <1>3, <1>4 DEF Channel

\* A row is taken from the batch at the head.
LEMMA ChannelTake ==
  ASSUME NEW q, Channel(q), q # << >>, NEW R, R \subseteq Head(q).rows
  PROVE  /\ Channel([q EXCEPT ![1].rows = R])
         /\ Len([q EXCEPT ![1].rows = R]) = Len(q)
         /\ \A p \in 2..Len(q) : [q EXCEPT ![1].rows = R][p] = q[p]
         /\ [q EXCEPT ![1].rows = R][1].rows = R
         /\ [q EXCEPT ![1].rows = R][1].eose = q[1].eose
<1> DEFINE b == [q[1] EXCEPT !.rows = R]
           S == Range(q) \cup {b}
           r == [q EXCEPT ![1].rows = R]
<1>1. /\ "rows" \in DOMAIN q[1] /\ "eose" \in DOMAIN q[1] /\ Head(q).rows \subseteq Events /\ Head(q) = q[1]
      /\ DOMAIN q = 1..Len(q) /\ 1 \in DOMAIN q
  BY ChannelTail
<1>2. "rows" \in DOMAIN b /\ "eose" \in DOMAIN b /\ b.rows = R
  BY <1>1
<1>3. q \in Seq(S)
  BY DEF Channel, Range
<1>4. r = [q EXCEPT ![1] = b]
  BY <1>1
<1> HIDE DEF b, r
<1>5. r \in Seq(S) /\ DOMAIN r = DOMAIN q /\ \A p \in DOMAIN r : r[p] \in S
  BY <1>1, <1>3, <1>4
<1>6. Range(r) \subseteq S
  BY <1>5 DEF Range
<1>7. r \in Seq(Range(r))
  BY <1>5, OwnElements
<1>8. Channel(r)
  BY <1>1, <1>2, <1>6, <1>7 DEF Channel
<1>9. Len(r) = Len(q) /\ r[1] = b /\ \A p \in 2..Len(q) : r[p] = q[p]
  BY <1>1, <1>3, <1>4, <1>5
<1> QED
  BY <1>2, <1>8, <1>9 DEF r

-------------------------------------------------------------------------------
(* Where events go. *)

\* An event that the writer stores is the only one that a write adds.
LEMMA StoreStep ==
  ASSUME StoreInv, NEW e \in Events, Store!write_event(e)
  PROVE  StoreInv'
  BY DEF StoreInv, Store!write_event, Store!WriteIgnored, Store!WriteInserted,
         Store!RowsAfterInsert

\* A query returns stored events.
LEMMA AnswersVisible ==
  ASSUME StoreInv, NEW f, NEW rows \in Answers(f, Store!Visible)
  PROVE  rows \subseteq Events
<1>1. Store!Visible \subseteq Events
  BY DEF StoreInv, Store!Visible
<1>2. rows \subseteq Store!Visible
  BY DEF Answers
<1> QED
  BY <1>1, <1>2

\* The end of a connection empties its channels.
LEMMA ClosedFlow ==
  ASSUME FlowInv, NEW c \in Conns, Closed(c), UNCHANGED <<store, eventq, sent>>
  PROVE  FlowInv'
<1>1. StoreInv' /\ QueueInv' /\ SentInv'
  BY DEF FlowInv, StoreInv, QueueInv, SentInv, store
<1>2. BcastInv'
  <2>1. << >> \in Seq(Events)
    OBVIOUS
  <2> QED
    BY <2>1 DEF FlowInv, BcastInv, Closed
<1>3. ResultsInv'
  BY ChannelEmpty DEF FlowInv, ResultsInv, Closed
<1> QED
  BY <1>1, <1>2, <1>3 DEF FlowInv

LEMMA WriterFlow ==
  ASSUME FlowInv, db_writer
  PROVE  FlowInv'
<1> DEFINE e == Head(eventq)
<1>1. eventq \in Seq(Events) /\ eventq # << >>
  BY DEF FlowInv, QueueInv, db_writer
<1>2. e \in Events /\ Tail(eventq) \in Seq(Events)
  BY <1>1
<1>3. QueueInv'
  BY <1>2 DEF QueueInv, db_writer
<1>4. \/ is_ephemeral(e) /\ Broadcast(e) /\ UNCHANGED store
      \/ Store!write_event(e) /\ (Broadcast(e) \/ UNCHANGED bcast)
  BY DEF db_writer
<1> HIDE DEF e
<1>5. StoreInv'
  <2>1. StoreInv
    BY DEF FlowInv
  <2>2. CASE UNCHANGED store
    BY <2>1, <2>2 DEF StoreInv, store
  <2>3. CASE Store!write_event(e)
    BY <2>1, <2>3, <1>2, StoreStep
  <2> QED
    BY <1>4, <2>2, <2>3
<1>6. BcastInv'
  <2>1. CASE UNCHANGED bcast
    BY <2>1 DEF FlowInv, BcastInv
  <2>2. CASE Broadcast(e)
    <3>1. \A c \in Conns : bcast[c] \in Seq(Events) /\ Append(bcast[c], e) \in Seq(Events)
      BY <1>2 DEF FlowInv, BcastInv
    <3> QED
      BY <2>2, <3>1 DEF BcastInv, Broadcast
  <2> QED
    BY <1>4, <2>1, <2>2
<1>7. ResultsInv' /\ SentInv'
  BY DEF FlowInv, ResultsInv, SentInv, db_writer
<1> QED
  BY <1>3, <1>5, <1>6, <1>7 DEF FlowInv

LEMMA QueryFlow ==
  ASSUME FlowInv, NEW c \in Conns, NEW q \in asking[c],
         query_filter(c, q) \/ query_eose(c, q) \/ query_unavailable(c, q) \/ query_stops(c, q)
  PROVE  FlowInv'
<1>1. StoreInv' /\ QueueInv' /\ BcastInv' /\ SentInv'
  BY DEF FlowInv, StoreInv, QueueInv, BcastInv, SentInv, store,
         query_filter, query_eose, query_unavailable, query_stops
<1>2. \/ UNCHANGED results
      \/ \E b : /\ "rows" \in DOMAIN b /\ "eose" \in DOMAIN b /\ b.rows \subseteq Events
               /\ results' = [results EXCEPT ![c] = Append(results[c], b)]
  <2>1. CASE query_filter(c, q)
    <3>1. PICK rows \in Answers(Head(q.filters), Store!Visible) :
            results' = [results EXCEPT ![c] =
              IF rows = {} THEN @ ELSE Append(@, [rows |-> rows, eose |-> FALSE, owed |-> {}])]
      BY <2>1 DEF query_filter
    <3>2. rows \subseteq Events
      BY AnswersVisible DEF FlowInv
    <3> DEFINE b == [rows |-> rows, eose |-> FALSE, owed |-> {}]
    <3>3. "rows" \in DOMAIN b /\ "eose" \in DOMAIN b /\ b.rows \subseteq Events
      BY <3>2
    <3>4. CASE rows = {}
      BY <3>1, <3>4 DEF FlowInv, ResultsInv
    <3>5. CASE rows # {}
      <4>1. results' = [results EXCEPT ![c] = Append(results[c], b)]
        BY <3>1, <3>5
      <4> HIDE DEF b
      <4> QED
        BY <4>1, <3>3
    <3> QED
      BY <3>4, <3>5
  <2>2. CASE query_eose(c, q)
    <3> DEFINE b == [rows |-> {}, eose |-> TRUE, owed |-> q.owed]
    <3>1. "rows" \in DOMAIN b /\ "eose" \in DOMAIN b /\ b.rows \subseteq Events
      OBVIOUS
    <3>2. results' = [results EXCEPT ![c] = Append(results[c], b)]
      BY <2>2 DEF query_eose
    <3> HIDE DEF b
    <3> QED
      BY <3>1, <3>2
  <2>3. CASE query_unavailable(c, q)
    <3> DEFINE b == [rows |-> {}, eose |-> TRUE, owed |-> {}]
    <3>1. "rows" \in DOMAIN b /\ "eose" \in DOMAIN b /\ b.rows \subseteq Events
      OBVIOUS
    <3>2. results' = [results EXCEPT ![c] = Append(results[c], b)]
      BY <2>3 DEF query_unavailable
    <3> HIDE DEF b
    <3> QED
      BY <3>1, <3>2
  <2>4. CASE query_stops(c, q)
    BY <2>4 DEF query_stops
  <2> QED
    BY <2>1, <2>2, <2>3, <2>4
<1>3. ResultsInv'
  <2>1. CASE UNCHANGED results
    BY <2>1 DEF FlowInv, ResultsInv
  <2>2. ASSUME NEW b, "rows" \in DOMAIN b, "eose" \in DOMAIN b, b.rows \subseteq Events,
               results' = [results EXCEPT ![c] = Append(results[c], b)]
        PROVE  ResultsInv'
    <3>1. Channel(Append(results[c], b))
      BY <2>2, ChannelAppend DEF FlowInv, ResultsInv
    <3> QED
      BY <2>2, <3>1 DEF FlowInv, ResultsInv
  <2> QED
    BY <1>2, <2>1, <2>2
<1> QED
  BY <1>1, <1>3 DEF FlowInv

\* A delivery sends at most one event, which was in a channel and which the gate
\* on private kinds lets pass.
LEMMA DeliverFlow ==
  ASSUME FlowInv, NEW c \in Conns, deliver_result(c) \/ deliver_bcast(c)
  PROVE  /\ FlowInv'
         /\ \/ UNCHANGED sent
            \/ \E e \in Events : allowed_to_send(e, c) /\ Send(c, e)
<1>1. StoreInv' /\ QueueInv'
  BY DEF FlowInv, StoreInv, QueueInv, store, deliver_result, deliver_bcast
<1>2. CASE deliver_bcast(c)
  <2>1. bcast[c] \in Seq(Events) /\ bcast[c] # << >>
    BY <1>2 DEF FlowInv, BcastInv, deliver_bcast
  <2>2. Head(bcast[c]) \in Events /\ Tail(bcast[c]) \in Seq(Events)
    BY <2>1
  <2>3. BcastInv' /\ ResultsInv'
    BY <1>2, <2>2 DEF FlowInv, BcastInv, ResultsInv, deliver_bcast
  <2>4. \/ UNCHANGED sent
        \/ \E e \in Events : allowed_to_send(e, c) /\ Send(c, e)
    BY <1>2, <2>2 DEF deliver_bcast
  <2>5. SentInv'
    BY <2>4 DEF FlowInv, SentInv, Send
  <2> QED
    BY <1>1, <2>3, <2>4, <2>5 DEF FlowInv
<1>3. CASE deliver_result(c)
  <2>1. Channel(results[c]) /\ results[c] # << >>
    BY <1>3 DEF FlowInv, ResultsInv, deliver_result
  <2> DEFINE batch == Head(results[c])
  <2>2. Channel(Tail(results[c])) /\ batch.rows \subseteq Events
    BY <2>1, ChannelTail
  <2>3. \/ results' = [results EXCEPT ![c] = Tail(results[c])] /\ UNCHANGED sent
        \/ \E e \in batch.rows :
             /\ results' = [results EXCEPT ![c] =
                  IF batch.rows = {e} THEN Tail(results[c])
                  ELSE [results[c] EXCEPT ![1].rows = batch.rows \ {e}]]
             /\ IF allowed_to_send(e, c) THEN Send(c, e) ELSE UNCHANGED sent
    BY <1>3 DEF deliver_result
  <2>4. \A e \in batch.rows : Channel([results[c] EXCEPT ![1].rows = batch.rows \ {e}])
    BY <2>1, ChannelTake
  <2>5. \E ch : Channel(ch) /\ results' = [results EXCEPT ![c] = ch]
    BY <2>2, <2>3, <2>4
  <2>6. ResultsInv'
    BY <2>5 DEF FlowInv, ResultsInv
  <2>7. \/ UNCHANGED sent
        \/ \E e \in Events : allowed_to_send(e, c) /\ Send(c, e)
    BY <2>2, <2>3
  <2>8. SentInv'
    BY <2>7 DEF FlowInv, SentInv, Send
  <2>9. BcastInv'
    BY <1>3 DEF FlowInv, BcastInv, deliver_result
  <2> QED
    BY <1>1, <2>6, <2>7, <2>8, <2>9 DEF FlowInv
<1> QED
  BY <1>2, <1>3

LEMMA InitFlow == Init => FlowInv
<1> SUFFICES ASSUME Init PROVE FlowInv
  OBVIOUS
<1>1. StoreInv /\ QueueInv /\ SentInv
  BY DEF Init, Store!Init, StoreInv, QueueInv, SentInv
<1>2. BcastInv
  <2>1. << >> \in Seq(Events)
    OBVIOUS
  <2> QED
    BY <2>1 DEF Init, BcastInv
<1>3. ResultsInv
  BY ChannelEmpty DEF Init, ResultsInv
<1> QED
  BY <1>1, <1>2, <1>3 DEF FlowInv

\* The steps that move no event.
LEMMA IdleFlow ==
  ASSUME FlowInv, UNCHANGED <<store, results, bcast, eventq, sent>>
  PROVE  FlowInv'
  BY DEF FlowInv, StoreInv, QueueInv, BcastInv, ResultsInv, SentInv, store

LEMMA FlowStep == FlowInv /\ [Next]_vars => FlowInv'
<1> SUFFICES ASSUME FlowInv, [Next]_vars PROVE FlowInv'
  OBVIOUS
<1> USE DeliveryAssumption
<1>1. ASSUME NEW c \in Conns, connect(c) PROVE FlowInv'
  BY <1>1, IdleFlow DEF connect
<1>2. ASSUME NEW c \in Conns, disconnect(c) PROVE FlowInv'
  BY <1>2, ClosedFlow DEF disconnect
<1>3. ASSUME NEW c \in Conns, NEW a \in AuthEvents, authenticate(c, a) PROVE FlowInv'
  BY <1>3, IdleFlow DEF authenticate
<1>4. ASSUME NEW c \in Publishers, NEW m \in Messages, event_msg(c, m) PROVE FlowInv'
  <2>1. Parsed(m) \in Events
    BY <1>4 DEF event_msg, Events
  <2>2. eventq' = Append(eventq, Parsed(m)) /\ UNCHANGED <<store, conn, sent>>
    BY <1>4 DEF event_msg
  <2>3. QueueInv'
    BY <2>1, <2>2 DEF FlowInv, QueueInv
  <2> QED
    BY <2>2, <2>3 DEF FlowInv, StoreInv, BcastInv, ResultsInv, SentInv, store, conn
<1>5. ASSUME NEW c \in Publishers, NEW m \in Messages, event_panics(c, m) PROVE FlowInv'
  BY <1>5, ClosedFlow DEF event_panics
<1>6. ASSUME db_writer PROVE FlowInv'
  BY <1>6, WriterFlow
<1>7. ASSUME NEW c \in Readers, NEW request \in Requests, req(c, request) PROVE FlowInv'
  BY <1>7, IdleFlow DEF req
<1>8. ASSUME NEW c \in Conns, close(c) PROVE FlowInv'
  BY <1>8, IdleFlow DEF close
<1>9. ASSUME NEW c \in Conns, NEW q \in asking[c],
             query_filter(c, q) \/ query_eose(c, q) \/ query_unavailable(c, q) \/ query_stops(c, q)
      PROVE  FlowInv'
  BY <1>9, QueryFlow
<1>10. ASSUME NEW c \in Conns, deliver_result(c) \/ deliver_bcast(c) PROVE FlowInv'
  BY <1>10, DeliverFlow
<1>11. ASSUME Upkeep PROVE FlowInv'
  <2>1. StoreInv'
    BY <1>11 DEF Upkeep, FlowInv, StoreInv, Store!delete_expired, Store!Tick
  <2>2. UNCHANGED <<conn, eventq, sent>>
    BY <1>11 DEF Upkeep
  <2> QED
    BY <2>1, <2>2 DEF FlowInv, QueueInv, BcastInv, ResultsInv, SentInv, conn
<1>12. ASSUME UNCHANGED vars PROVE FlowInv'
  BY <1>12, IdleFlow DEF vars, conn
<1> QED
  BY <1>1, <1>2, <1>3, <1>4, <1>5, <1>6, <1>7, <1>8, <1>9, <1>10, <1>11, <1>12 DEF Next

LEMMA FlowAlways == Spec => []FlowInv
  BY InitFlow, FlowStep, PTL DEF Spec

-------------------------------------------------------------------------------
(* The relation to the event store. *)

\* A step of the relay is one of the store, or leaves the store alone.
LEMMA StoreSteps == FlowInv /\ [Next]_vars => [Store!Next]_Store!vars
<1> SUFFICES ASSUME FlowInv, [Next]_vars PROVE Store!Next \/ UNCHANGED store
  BY DEF store, Store!vars
<1>1. ASSUME db_writer PROVE Store!Next \/ UNCHANGED store
  <2>1. eventq \in Seq(Events) /\ eventq # << >>
    BY <1>1 DEF FlowInv, QueueInv, db_writer
  <2>2. Head(eventq) \in Events
    BY <2>1
  <2>3. Store!write_event(Head(eventq)) \/ UNCHANGED store
    BY <1>1 DEF db_writer
  <2> QED
    BY <2>2, <2>3 DEF Store!Next
<1>2. ASSUME Upkeep PROVE Store!Next
  BY <1>2 DEF Upkeep, Store!Next
<1>3. ASSUME Next, ~db_writer, ~Upkeep PROVE UNCHANGED store
  <2>1. ASSUME NEW c \in Conns, connect(c) \/ disconnect(c) PROVE UNCHANGED store
    BY <2>1 DEF connect, disconnect
  <2>2. ASSUME NEW c \in Conns, NEW a \in AuthEvents, authenticate(c, a)
        PROVE  UNCHANGED store
    BY <2>2 DEF authenticate
  <2>3. ASSUME NEW c, NEW m, event_msg(c, m) \/ event_panics(c, m) PROVE UNCHANGED store
    BY <2>3 DEF event_msg, event_panics
  <2>4. ASSUME NEW c, NEW request, req(c, request) PROVE UNCHANGED store
    BY <2>4 DEF req
  <2>5. ASSUME NEW c \in Conns, close(c) PROVE UNCHANGED store
    BY <2>5 DEF close
  <2>6. ASSUME NEW c, NEW q,
               \/ query_filter(c, q) \/ query_eose(c, q)
               \/ query_unavailable(c, q) \/ query_stops(c, q)
        PROVE  UNCHANGED store
    BY <2>6 DEF query_filter, query_eose, query_unavailable, query_stops
  <2>7. ASSUME NEW c \in Conns, deliver_result(c) \/ deliver_bcast(c) PROVE UNCHANGED store
    BY <2>7 DEF deliver_result, deliver_bcast
  <2> QED
    BY <1>3, <2>1, <2>2, <2>3, <2>4, <2>5, <2>6, <2>7 DEF Next
<1>4. ASSUME UNCHANGED vars PROVE UNCHANGED store
  BY <1>4 DEF vars
<1> QED
  BY <1>1, <1>2, <1>3, <1>4

\* Whatever clients, connections and the admission policies do, the store that
\* db_writer and the expiry sweep work on behaves as EventStore says, with the
\* parsed messages for its events.
THEOREM DrivesTheStore == Spec => Store!Spec
<1>1. Init => Store!Init
  BY DEF Init
<1> QED
  BY <1>1, StoreSteps, FlowAlways, PTL DEF Spec, Store!Spec

-------------------------------------------------------------------------------
(* Private events. *)

PrivateInv == FlowInv /\ AuthInv /\ PrivateToParties

\* Only an AUTH message changes the key of a connection, from none to one that was
\* proven; only a delivery sends an event.
LEMMA AuthSteps ==
  ASSUME FlowInv, [Next]_vars
  PROVE  /\ settings' = settings
         /\ \/ UNCHANGED <<auth, sent>>
            \/ /\ UNCHANGED sent
               /\ \E c \in Conns, a \in AuthEvents : authenticate(c, a)
            \/ /\ UNCHANGED auth
               /\ \E c \in Conns, e \in Events : allowed_to_send(e, c) /\ Send(c, e)
<1> DEFINE Goal ==
      /\ settings' = settings
      /\ \/ UNCHANGED <<auth, sent>>
         \/ /\ UNCHANGED sent
            /\ \E c \in Conns, a \in AuthEvents : authenticate(c, a)
         \/ /\ UNCHANGED auth
            /\ \E c \in Conns, e \in Events : allowed_to_send(e, c) /\ Send(c, e)
<1>1. ASSUME NEW c \in Conns, connect(c) \/ disconnect(c) PROVE Goal
  BY <1>1 DEF connect, disconnect, Closed
<1>2. ASSUME NEW c \in Conns, NEW a \in AuthEvents, authenticate(c, a) PROVE Goal
  <2>1. UNCHANGED <<settings, sent>>
    BY <1>2 DEF authenticate
  <2> QED
    BY <1>2, <2>1
<1>3. ASSUME NEW c, NEW m, event_msg(c, m) \/ event_panics(c, m) PROVE Goal
  BY <1>3 DEF event_msg, event_panics, Closed, conn
<1>4. ASSUME NEW c, NEW request, req(c, request) PROVE Goal
  BY <1>4 DEF req
<1>5. ASSUME NEW c \in Conns, close(c) PROVE Goal
  BY <1>5 DEF close
<1>6. ASSUME NEW c, NEW q,
             \/ query_filter(c, q) \/ query_eose(c, q)
             \/ query_unavailable(c, q) \/ query_stops(c, q)
      PROVE  Goal
  BY <1>6 DEF query_filter, query_eose, query_unavailable, query_stops
<1>7. ASSUME NEW c \in Conns, deliver_result(c) \/ deliver_bcast(c) PROVE Goal
  <2>1. UNCHANGED <<settings, auth>>
    BY <1>7 DEF deliver_result, deliver_bcast
  <2>2. UNCHANGED sent \/ \E e \in Events : allowed_to_send(e, c) /\ Send(c, e)
    BY <1>7, DeliverFlow
  <2> QED
    BY <2>1, <2>2
<1>8. ASSUME db_writer PROVE Goal
  BY <1>8 DEF db_writer
<1>9. ASSUME Upkeep PROVE Goal
  BY <1>9 DEF Upkeep, conn
<1>10. ASSUME UNCHANGED vars PROVE Goal
  BY <1>10 DEF vars, conn
<1> HIDE DEF Goal
<1>11. Goal
  BY <1>1, <1>2, <1>3, <1>4, <1>5, <1>6, <1>7, <1>8, <1>9, <1>10 DEF Next
<1> QED
  BY <1>11 DEF Goal

\* The key of a connection stays, and what it was sent stays justified by it.
LEMMA PrivateStep ==
  ASSUME PrivateInv, [Next]_vars
  PROVE  AuthInv' /\ PrivateToParties'
<1>1. FlowInv
  BY DEF PrivateInv
<1>2. settings' = settings
  BY <1>1, AuthSteps
<1>3. \A c, k : Proven(c, k)' <=> Proven(c, k)
  BY <1>2 DEF Proven
<1>4. CASE UNCHANGED <<auth, sent>>
  BY <1>2, <1>3, <1>4 DEF PrivateInv, AuthInv, PrivateToParties
<1>5. ASSUME UNCHANGED sent, NEW c \in Conns, NEW a \in AuthEvents, authenticate(c, a)
      PROVE  AuthInv' /\ PrivateToParties'
  <2>1. auth[c] = {} /\ auth' = [auth EXCEPT ![c] = {a.pubkey}]
    BY <1>5 DEF authenticate, Unauthenticated
  <2>2. Proven(c, a.pubkey)
    BY <1>5 DEF authenticate, Proven, ChallengeMatches, RelayMatches
  <2>3. a.pubkey \in AuthKeys
    BY DEF AuthKeys
  <2>4. AuthInv'
    BY <2>1, <2>2, <2>3, <1>3 DEF PrivateInv, AuthInv
  <2>5. \A d \in Conns : auth[d] \subseteq auth'[d]
    BY <2>1 DEF PrivateInv, AuthInv
  <2>6. PrivateToParties'
    BY <1>2, <1>3, <1>5, <2>5 DEF PrivateInv, PrivateToParties
  <2> QED
    BY <2>4, <2>6
<1>6. ASSUME UNCHANGED auth, NEW c \in Conns, NEW e \in Events,
             allowed_to_send(e, c), Send(c, e)
      PROVE  AuthInv' /\ PrivateToParties'
  <2>1. AuthInv'
    BY <1>3, <1>6 DEF PrivateInv, AuthInv
  <2>2. \A d \in Conns : \A x \in sent'[d] : x \in sent[d] \/ (d = c /\ x = e)
    BY <1>1, <1>6 DEF FlowInv, SentInv, Send
  <2>3. settings.nip42_dms /\ Private(e) => \E k \in auth[c] : MaySee(e, k) /\ Proven(c, k)
    BY <1>6 DEF allowed_to_send, PrivateInv, AuthInv
  <2>4. PrivateToParties'
    BY <1>2, <1>3, <1>6, <2>2, <2>3 DEF PrivateInv, PrivateToParties
  <2> QED
    BY <2>1, <2>4
<1> QED
  BY <1>1, <1>4, <1>5, <1>6, AuthSteps

\* With nip42_dms a private event is only ever sent over a connection that speaks
\* for its author or its recipient, who signed the challenge of this connection.
THEOREM PrivateStaysPrivate == Spec => []PrivateToParties
<1>1. Init => PrivateInv
  <2>1. Init => AuthInv /\ PrivateToParties
    BY DEF Init, AuthInv, PrivateToParties
  <2> QED
    BY <2>1, InitFlow DEF PrivateInv
<1>2. PrivateInv /\ [Next]_vars => PrivateInv'
  BY FlowStep, PrivateStep DEF PrivateInv
<1>3. PrivateInv => PrivateToParties
  BY DEF PrivateInv
<1> QED
  BY <1>1, <1>2, <1>3, PTL DEF Spec

-------------------------------------------------------------------------------
(* Filters of live subscriptions. *)

LEMMA SubsStep == SubsInv /\ [Next]_vars => SubsInv'
<1> SUFFICES ASSUME SubsInv, [Next]_vars PROVE SubsInv'
  OBVIOUS
<1> USE DEF SubsInv
<1>1. ASSUME NEW c \in Conns, connect(c) \/ disconnect(c) PROVE SubsInv'
  BY <1>1 DEF connect, disconnect, Closed
<1>2. ASSUME NEW c \in Conns, NEW a \in AuthEvents, authenticate(c, a) PROVE SubsInv'
  BY <1>2 DEF authenticate
<1>3. ASSUME NEW c \in Publishers, NEW m, event_msg(c, m) \/ event_panics(c, m) PROVE SubsInv'
  BY <1>3 DEF event_msg, event_panics, Closed, conn
<1>4. ASSUME NEW c \in Readers, NEW request \in Requests, req(c, request) PROVE SubsInv'
  <2>1. subs' = [subs EXCEPT ![c] = {dedup(request)}]
    BY <1>4 DEF req
  <2> QED
    BY <2>1
<1>5. ASSUME NEW c \in Conns, close(c) PROVE SubsInv'
  BY <1>5 DEF close
<1>6. ASSUME NEW c, NEW q,
             \/ query_filter(c, q) \/ query_eose(c, q)
             \/ query_unavailable(c, q) \/ query_stops(c, q)
      PROVE  SubsInv'
  BY <1>6 DEF query_filter, query_eose, query_unavailable, query_stops
<1>7. ASSUME NEW c \in Conns, deliver_result(c) \/ deliver_bcast(c) PROVE SubsInv'
  BY <1>7 DEF deliver_result, deliver_bcast
<1>8. ASSUME db_writer PROVE SubsInv'
  BY <1>8 DEF db_writer
<1>9. ASSUME Upkeep PROVE SubsInv'
  BY <1>9 DEF Upkeep, conn
<1>10. ASSUME UNCHANGED vars PROVE SubsInv'
  BY <1>10 DEF vars, conn
<1> QED
  BY <1>1, <1>2, <1>3, <1>4, <1>5, <1>6, <1>7, <1>8, <1>9, <1>10 DEF Next

\* What a stored event is.
LEMMA StoredFacts ==
  ASSUME FlowInv, NEW e \in stored
  PROVE  e.kind \in U64 /\ e.created_at \in U64 /\ e.author = e.pubkey.txt
<1>1. PICK m \in Messages : e = Parsed(m)
  BY DEF FlowInv, StoreInv, Events
<1>2. e.kind = m.kind /\ e.created_at = m.created_at /\ e.pubkey = m.pubkey
      /\ e.author = m.pubkey.txt
  BY <1>1 DEF Parsed
<1> QED
  BY <1>2, DeliveryAssumption

\* The filters of subscriptions are typed.
LEMMA SubsFacts ==
  ASSUME SubsInv, NEW c \in Conns, NEW fs \in subs[c], NEW i \in DOMAIN fs
  PROVE  OpsTyped(fs[i]) /\ NumbersTyped(fs[i])
<1>1. PICK request \in Requests : fs = dedup(request)
  BY DEF SubsInv
<1>2. fs[i] \in Range(dedup(request))
  BY <1>1 DEF Range
<1> QED
  BY <1>2, DeliveryAssumption DEF OpsTyped, NumbersTyped

\* The broadcast (interested_in_event) and the SQL that query_from_filter writes
\* for SQLite and for PostgreSQL select the same stored events for every plain
\* filter of a live subscription, wherever the author is spelt in lower case and
\* times are dates, whatever the widths of the numbers; SQLite selects what the
\* broadcast passes on for every spelling.  The databases answer alike up to the
\* limit of PostgreSQL.
THEOREM FiltersMeanOneThing == Spec => []FiltersAgree
<1>1. Init => SubsInv
  BY DEF Init, SubsInv
<1>2. FlowInv /\ SubsInv => FiltersAgree
  <2> SUFFICES ASSUME FlowInv, SubsInv, NEW c \in Conns, NEW fs \in subs[c],
                      NEW i \in DOMAIN fs, NEW f, f = fs[i], PlainFilter(f)
               PROVE  /\ \A e \in stored :
                           /\ interested_in_event(f, e) /\ e.delegated_by = {} => sqlite_selects(f, e)
                           /\ PlainEvent(e) /\ sqlite_selects(f, e) => interested_in_event(f, e)
                           /\ PlainEvent(e) /\ PgFilter(f) /\ e.created_at <= ChronoLimit =>
                                (interested_in_event(f, e) <=> postgres_selects(f, e))
                      /\ /\ PgFilter(f) /\ f.limit = {} /\ f.tags = {}
                         /\ \A e \in stored : e.delegated_by = {} /\ e.created_at <= ChronoLimit
                         /\ Cardinality({e \in stored : sqlite_selects(f, e)}) <= PgLimit
                         => PgAnswers(f, stored) = Answers(f, stored)
    BY DEF FiltersAgree
  <2>1. OpsTyped(f) /\ NumbersTyped(f)
    BY SubsFacts
  <2>2. \A e \in stored : e.kind \in U64 /\ e.created_at \in U64 /\ e.author = e.pubkey.txt
    BY StoredFacts
  <2>3. \A e \in stored : e.delegated_by = {} =>
          /\ interested_in_event(f, e) => sqlite_selects(f, e)
          /\ PlainEvent(e) /\ sqlite_selects(f, e) => interested_in_event(f, e)
    BY <2>1, <2>2, PlainFiltersAgree
  <2>4. \A e \in stored : PgFilter(f) /\ e.delegated_by = {} /\ e.created_at <= ChronoLimit =>
          (sqlite_selects(f, e) <=> postgres_selects(f, e))
    BY <2>1, <2>2, DatabasesAgree
  <2>5. \A e : PlainEvent(e) => e.delegated_by = {}
    BY DEF PlainEvent
  <2>6. ASSUME PgFilter(f), f.limit = {}, f.tags = {},
               \A e \in stored : e.delegated_by = {} /\ e.created_at <= ChronoLimit,
               Cardinality({e \in stored : sqlite_selects(f, e)}) <= PgLimit
        PROVE  PgAnswers(f, stored) = Answers(f, stored)
    <3>1. PICK all : all = {e \in stored : sqlite_selects(f, e)}
      OBVIOUS
    <3>2. all = {e \in stored : postgres_selects(f, e)}
      BY <2>4, <2>6, <3>1
    <3>3. Answers(f, stored) = {all}
      BY <2>6, <3>1 DEF Answers
    <3>4. PgAnswers(f, stored) = {all}
      BY <2>6, <3>1, <3>2 DEF PgAnswers
    <3> QED
      BY <3>3, <3>4
  <2> QED
    BY <2>3, <2>4, <2>5, <2>6
<1> QED
  BY <1>1, <1>2, FlowAlways, SubsStep, PTL DEF Spec

-------------------------------------------------------------------------------
(* Delegation. *)

\* A condition that allows an event permits the field that it is about.
LEMMA AllowedIsPermitted ==
  ASSUME NEW cond, NEW m, cond.values \in Seq(Nat), m.kind \in Nat, m.created_at \in Nat,
         cond.operator \in {"<", ">", "=", "!"}, Condition_allows_event(cond, m)
  PROVE  ResolvedField(cond, m) \in Permitted(cond, ResolvedField(cond, m))
<1> DEFINE x == ResolvedField(cond, m)
<1>1. x \in Nat
  BY DEF ResolvedField
<1>2. \A i \in DOMAIN cond.values : cond.values[i] \in Nat
  OBVIOUS
<1>3. Len(cond.values) = 1 => 1 \in DOMAIN cond.values
  OBVIOUS
<1>4. CASE cond.operator = "="
  <2>1. \E i \in DOMAIN cond.values : x = cond.values[i]
    BY <1>4 DEF Condition_allows_event
  <2>2. Permitted(cond, x) = Range(cond.values)
    BY <1>4 DEF Permitted
  <2> QED
    BY <2>1, <2>2 DEF Range
<1>5. CASE cond.operator = "!"
  <2>1. \A i \in DOMAIN cond.values : x # cond.values[i]
    BY <1>5 DEF Condition_allows_event
  <2>2. Permitted(cond, x) = (0..x) \ Range(cond.values)
    BY <1>5 DEF Permitted
  <2>3. x \in 0..x
    BY <1>1
  <2>4. x \notin Range(cond.values)
    BY <2>1 DEF Range
  <2> QED
    BY <2>2, <2>3, <2>4
<1>6. CASE cond.operator = "<"
  <2>1. Len(cond.values) = 1 /\ x < cond.values[1]
    BY <1>6 DEF Condition_allows_event
  <2>2. Permitted(cond, x) = 0..(cond.values[1] - 1)
    BY <1>6, <2>1 DEF Permitted
  <2>3. x \in 0..(cond.values[1] - 1)
    <3>1. cond.values[1] \in Nat
      BY <2>1, <1>2, <1>3
    <3> HIDE DEF x
    <3> QED
      BY <2>1, <3>1, <1>1
  <2> QED
    BY <2>2, <2>3
<1>7. CASE cond.operator = ">"
  <2>1. Len(cond.values) = 1 /\ x > cond.values[1]
    BY <1>7 DEF Condition_allows_event
  <2>2. Permitted(cond, x) = (cond.values[1] + 1)..x
    BY <1>7, <2>1 DEF Permitted
  <2>3. x \in (cond.values[1] + 1)..x
    <3>1. cond.values[1] \in Nat
      BY <2>1, <1>2, <1>3
    <3> HIDE DEF x
    <3> QED
      BY <2>1, <3>1, <1>1
  <2> QED
    BY <2>2, <2>3
<1> QED
  BY <1>4, <1>5, <1>6, <1>7

\* A parsed event that names a delegator carries a delegation that covers it.
LEMMA ParsedDelegation ==
  ASSUME NEW e \in Events, NEW k \in e.delegated_by
  PROVE  \E d \in Range(e.delegations) :
           /\ d.sig = [by |-> k.txt, to |-> e.pubkey, conds |-> d.conds]
           /\ \A i \in DOMAIN d.conds :
                ResolvedField(d.conds[i], e) \in Permitted(d.conds[i], ResolvedField(d.conds[i], e))
<1>1. PICK m \in Messages : e = Parsed(m)
  BY DEF Events
<1>2. /\ e.kind = m.kind /\ e.created_at = m.created_at /\ e.pubkey = m.pubkey
      /\ e.delegations = m.delegations /\ e.delegated_by = delegated_author(m)
  BY <1>1 DEF Parsed
<1> DEFINE d == Head(m.delegations)
<1>3. /\ m.delegations # << >> /\ validate_delegation(d, m.pubkey) /\ k = d.delegator
      /\ \A i \in DOMAIN d.conds : Condition_allows_event(d.conds[i], m)
  BY <1>2 DEF delegated_author
<1>4. m.delegations \in Seq(Range(m.delegations))
  BY DeliveryAssumption
<1>5. d \in Range(m.delegations)
  BY <1>3, <1>4
<1>6. /\ m.kind \in Nat /\ m.created_at \in Nat
      /\ \A i \in DOMAIN d.conds : d.conds[i].values \in Seq(Nat)
  BY <1>5, DeliveryAssumption, FiltersAssumption DEF U64
<1> HIDE DEF d
<1>7. d.sig = [by |-> k.txt, to |-> e.pubkey, conds |-> d.conds]
  BY <1>2, <1>3 DEF validate_delegation
<1>8. \A i \in DOMAIN d.conds : d.conds[i].operator \in {"<", ">", "=", "!"}
  BY <1>3 DEF validate_delegation, Parses
<1>9. \A i \in DOMAIN d.conds :
        ResolvedField(d.conds[i], m) \in Permitted(d.conds[i], ResolvedField(d.conds[i], m))
  BY <1>3, <1>6, <1>8, AllowedIsPermitted
<1>10. \A i \in DOMAIN d.conds : ResolvedField(d.conds[i], e) = ResolvedField(d.conds[i], m)
  BY <1>2 DEF ResolvedField
<1> QED
  BY <1>2, <1>5, <1>7, <1>9, <1>10

\* An event that a client is sent in the name of a delegator, from the store or
\* from the broadcast, lies within what the delegator signed.
THEOREM DelegationIsCovered == Spec => []DelegationHonoured
<1>1. FlowInv => DelegationHonoured
  <2> SUFFICES ASSUME FlowInv, NEW c \in Conns, NEW e \in sent[c], NEW k \in e.delegated_by
               PROVE  \E d \in Range(e.delegations) :
                        /\ d.sig = [by |-> k.txt, to |-> e.pubkey, conds |-> d.conds]
                        /\ \A i \in DOMAIN d.conds :
                             ResolvedField(d.conds[i], e)
                               \in Permitted(d.conds[i], ResolvedField(d.conds[i], e))
    BY DEF DelegationHonoured
  <2>1. e \in Events
    BY DEF FlowInv, SentInv
  <2> QED
    BY <2>1, ParsedDelegation
<1> QED
  BY <1>1, FlowAlways, PTL

-------------------------------------------------------------------------------
(* Types. *)

\* What TypeOK says, with the domains of the variables.
ConnInv ==
  /\ state \in [Conns -> {"new", "open", "closed"}]
  /\ auth \in [Conns -> SUBSET Keys]
  /\ asking = [c \in Conns |-> asking[c]]
  /\ \A c \in Conns :
       /\ auth[c] = {} \/ \E k \in Keys : auth[c] = {k}
       /\ auth[c] # {} => settings.nip42_auth /\ settings.relay_url # {} /\ state[c] # "new"
       /\ state[c] # "open" => subs[c] = {} /\ asking[c] = {} /\ results[c] = << >>

TypeInv == settings \in Configs /\ Store!TypeOK /\ FlowInv /\ SubsInv /\ ConnInv

LEMMA StoreType == Store!TypeOK /\ [Store!Next]_Store!vars => Store!TypeOK'
<1> SUFFICES ASSUME Store!TypeOK, [Store!Next]_Store!vars PROVE Store!TypeOK'
  OBVIOUS
<1> USE DEF Store!TypeOK
<1>1. ASSUME NEW e \in Events, Store!WriteIgnored(e) PROVE Store!TypeOK'
  BY <1>1 DEF Store!WriteIgnored
<1>2. ASSUME NEW e \in Events, Store!WriteInserted(e) PROVE Store!TypeOK'
  <2> DEFINE rows == Store!RowsAfterInsert(e)
  <2>1. rows \subseteq stored \cup {e}
    BY DEF Store!RowsAfterInsert
  <2>2. Store!HiddenAfterInsert(rows, e) \subseteq rows
    BY DEF Store!HiddenAfterInsert, Store!HiddenByDeletion
  <2>3. /\ stored' = rows /\ hidden' = Store!HiddenAfterInsert(rows, e)
        /\ received' = received \cup {e} /\ now' = now
        /\ saved' \subseteq saved \cup {e}
    BY <1>2 DEF Store!WriteInserted
  <2> HIDE DEF rows
  <2> QED
    BY <2>1, <2>2, <2>3
<1>3. ASSUME Store!delete_expired PROVE Store!TypeOK'
  BY <1>3 DEF Store!delete_expired
<1>4. ASSUME Store!Tick PROVE Store!TypeOK'
  BY <1>4, DeliveryAssumption DEF Store!Tick
<1>5. ASSUME UNCHANGED Store!vars PROVE Store!TypeOK'
  BY <1>5 DEF Store!vars
<1> QED
  BY <1>1, <1>2, <1>3, <1>4, <1>5 DEF Store!Next, Store!write_event

\* The end of a connection.
LEMMA ClosedConn ==
  ASSUME ConnInv, ResultsInv, SubsInv, NEW c \in Conns, state[c] = "open", Closed(c),
         settings' = settings
  PROVE  ConnInv'
  BY DEF ConnInv, ResultsInv, SubsInv, Closed

LEMMA ConnStep ==
  ASSUME TypeInv, [Next]_vars
  PROVE  ConnInv'
<1> USE DeliveryAssumption
<1>0. ConnInv /\ ResultsInv /\ SubsInv
  BY DEF TypeInv, FlowInv
<1>1. ASSUME NEW c \in Conns, connect(c) PROVE ConnInv'
  BY <1>0, <1>1 DEF ConnInv, connect
<1>2. ASSUME NEW c \in Conns, disconnect(c) PROVE ConnInv'
  BY <1>0, <1>2, ClosedConn DEF disconnect
<1>3. ASSUME NEW c \in Conns, NEW a \in AuthEvents, authenticate(c, a) PROVE ConnInv'
  BY <1>0, <1>3 DEF ConnInv, authenticate
<1>4. ASSUME NEW c \in Publishers, NEW m \in Messages, event_msg(c, m) PROVE ConnInv'
  BY <1>0, <1>4 DEF ConnInv, event_msg, conn
<1>5. ASSUME NEW c \in Publishers, NEW m \in Messages, event_panics(c, m) PROVE ConnInv'
  BY <1>0, <1>5, ClosedConn DEF event_panics
<1>6. ASSUME db_writer PROVE ConnInv'
  BY <1>0, <1>6 DEF ConnInv, db_writer
<1>7. ASSUME NEW c \in Readers, NEW request \in Requests, req(c, request) PROVE ConnInv'
  BY <1>0, <1>7 DEF ConnInv, SubsInv, req
<1>8. ASSUME NEW c \in Conns, close(c) PROVE ConnInv'
  BY <1>0, <1>8 DEF ConnInv, SubsInv, close
<1>9. ASSUME NEW c \in Conns, NEW q \in asking[c],
             query_filter(c, q) \/ query_eose(c, q) \/ query_unavailable(c, q) \/ query_stops(c, q)
      PROVE  ConnInv'
  <2>1. state[c] = "open" /\ UNCHANGED <<settings, state, auth, subs>>
    BY <1>0, <1>9 DEF ConnInv, query_filter, query_eose, query_unavailable, query_stops
  <2>2. /\ \A d \in Conns : d # c => asking'[d] = asking[d] /\ results'[d] = results[d]
        /\ asking' = [d \in Conns |-> asking'[d]]
    <3> HIDE DeliveryAssumption
    <3>0. asking \in [Conns -> {asking[d] : d \in Conns}] /\ results \in [Conns -> {results[d] : d \in Conns}]
      BY <1>0 DEF ConnInv, ResultsInv
    <3> USE <3>0
    <3>1. CASE query_filter(c, q)
      <4>1. PICK rows : results' = [results EXCEPT ![c] = rows]
        BY <3>1, Zenon DEF query_filter
      <4>2. PICK queries : asking' = [asking EXCEPT ![c] = queries]
        BY <3>1, Zenon DEF query_filter
      <4> QED  BY <4>1, <4>2
    <3>2. CASE query_eose(c, q)
      BY <3>2 DEF query_eose
    <3>3. CASE query_unavailable(c, q)
      BY <3>3 DEF query_unavailable
    <3>4. CASE query_stops(c, q)
      BY <3>4 DEF query_stops
    <3> QED
      BY <1>9, <3>1, <3>2, <3>3, <3>4
  <2> QED
    BY <1>0, <2>1, <2>2 DEF ConnInv
<1>10. ASSUME NEW c \in Conns, deliver_result(c) \/ deliver_bcast(c) PROVE ConnInv'
  <2>1. UNCHANGED <<settings, state, auth, subs, asking>>
    BY <1>10 DEF deliver_result, deliver_bcast
  <2>2. \A d \in Conns : results[d] = << >> => results'[d] = << >>
    BY <1>0, <1>10 DEF ResultsInv, deliver_result, deliver_bcast
  <2> QED
    BY <1>0, <2>1, <2>2 DEF ConnInv
<1>11. ASSUME Upkeep PROVE ConnInv'
  BY <1>0, <1>11 DEF ConnInv, Upkeep, conn
<1>12. ASSUME UNCHANGED vars PROVE ConnInv'
  BY <1>0, <1>12 DEF ConnInv, vars, conn
<1> QED
  BY <1>1, <1>2, <1>3, <1>4, <1>5, <1>6, <1>7, <1>8, <1>9, <1>10, <1>11, <1>12 DEF Next

LEMMA TypeStep == TypeInv /\ [Next]_vars => TypeInv'
<1> SUFFICES ASSUME TypeInv, [Next]_vars PROVE TypeInv'
  OBVIOUS
<1>1. FlowInv' /\ SubsInv' /\ ConnInv'
  BY FlowStep, SubsStep, ConnStep DEF TypeInv
<1>2. Store!TypeOK'
  BY StoreSteps, StoreType DEF TypeInv
<1>3. settings' = settings
  BY AuthSteps DEF TypeInv
<1> QED
  BY <1>1, <1>2, <1>3 DEF TypeInv

LEMMA InitType == Init => TypeInv
<1> SUFFICES ASSUME Init PROVE TypeInv
  OBVIOUS
<1>1. FlowInv
  BY InitFlow
<1>2. SubsInv /\ ConnInv /\ settings \in Configs
  BY DEF Init, SubsInv, ConnInv
<1>3. Store!TypeOK
  BY DeliveryAssumption DEF Init, Store!Init, Store!TypeOK
<1> QED
  BY <1>1, <1>2, <1>3 DEF TypeInv

LEMMA TypeImplied == TypeInv => TypeOK
<1> SUFFICES ASSUME TypeInv PROVE TypeOK
  OBVIOUS
<1>1. \A c \in Conns : Cardinality(auth[c]) <= 1
  <2>1. \A k : Cardinality({k}) = 1
    BY FS_Singleton
  <2>2. Cardinality({}) = 0
    BY FS_EmptySet
  <2>3. \A c \in Conns : Cardinality(auth[c]) = 0 \/ Cardinality(auth[c]) = 1
    <3> SUFFICES ASSUME NEW c \in Conns
                 PROVE  Cardinality(auth[c]) = 0 \/ Cardinality(auth[c]) = 1
      OBVIOUS
    <3>1. auth[c] = {} \/ \E k : auth[c] = {k}
      BY DEF TypeInv, ConnInv
    <3>2. ASSUME NEW k, auth[c] = {k} PROVE Cardinality(auth[c]) = 1
      BY <3>2, <2>1
    <3>3. ASSUME auth[c] = {} PROVE Cardinality(auth[c]) = 0
      BY <3>3, <2>2
    <3> QED
      BY <3>1, <3>2, <3>3
  <2> QED
    BY <2>3
<1> QED
  BY <1>1 DEF TypeInv, TypeOK, ConnInv, FlowInv, SentInv

-------------------------------------------------------------------------------
(* Gift wraps: what admission makes of them and what the store does to them. *)

Wrap(e) == e.kind = GIFT_WRAP_KIND

\* Every gift wrap on its way to the store or in it has passed admission, none is
\* hidden, and those reported as saved are stored.
WrapInv ==
  /\ \A e \in Range(eventq) \cup stored : GiftWrapRetention(e)
  /\ \A e \in hidden : ~Wrap(e)
  /\ \A e \in saved : Wrap(e) => e \in stored

\* An admitted gift wrap names one key, which the gate accepts; it does not expire
\* and it is in nobody else's name.
LEMMA WrapFacts ==
  ASSUME NEW e \in Events, Wrap(e), GiftWrapRetention(e)
  PROVE  /\ e.expiration = -1 /\ e.delegated_by = {}
         /\ \E k \in Keys : k.form = "lower" /\ TagVals(e, "p") = {k} /\ MaySee(e, k)
         /\ \A k : k \in TagVals(e, "p") \/ e.pubkey = k => MaySee(e, k)
<1>1. PICK m \in Messages : e = Parsed(m)
  BY DEF Events
<1>2. /\ e.tags = m.tags /\ e.delegations = m.delegations
      /\ e.delegated_by = delegated_author(m) /\ e.expiration = expiration(m)
  BY <1>1 DEF Parsed
<1> DEFINE ps == tag_values_by_name(e, "p")
<1>3. /\ ~HasTag(e, "expiration") /\ Len(e.tags) + Len(e.delegations) = 1
      /\ \E i \in DOMAIN ps : DOMAIN ps = {i} /\ ps[i].form = "lower"
  BY DEF Wrap, GiftWrapRetention
<1>4. PICK i \in DOMAIN ps : DOMAIN ps = {i} /\ ps[i].form = "lower"
  BY <1>3
<1>5. m.tags \in Seq(Range(m.tags)) /\ m.delegations \in Seq(Range(m.delegations))
  BY DeliveryAssumption
<1>6. i \in 1..Len(e.tags)
  <2>1. i \in DOMAIN e.tags
    BY <1>4 DEF tag_values_by_name
  <2> QED
    BY <2>1, <1>2, <1>5
<1> HIDE DEF ps
<1>7. e.expiration = -1
  <2>1. {j \in DOMAIN m.tags : m.tags[j] # << >> /\ m.tags[j][1] = "expiration"} = {}
    BY <1>2, <1>3 DEF HasTag, Range
  <2> QED
    BY <1>2, <2>1 DEF expiration
<1>8. e.delegated_by = {}
  <2>1. Len(m.tags) \in Nat /\ Len(m.delegations) \in Nat
    BY <1>5
  <2>2. Len(m.delegations) = 0
    <3>1. i \in 1..Len(m.tags)
      BY <1>2, <1>6
    <3>2. Len(m.tags) + Len(m.delegations) = 1
      BY <1>2, <1>3
    <3>3. Len(m.tags) >= 1
      BY <3>1, <2>1
    <3>4. \A a, b \in Nat : a >= 1 /\ a + b = 1 => b = 0
      OBVIOUS
    <3> QED
      BY <3>2, <3>3, <3>4, <2>1
  <2>3. m.delegations = << >>
    BY <1>5, <2>2
  <2> QED
    BY <1>2, <2>3 DEF delegated_author
<1>9. TagVals(e, "p") = {ps[i]}
  BY <1>4 DEF TagVals, Range, ps
<1>10. i <= i
  BY <1>6
<1>11. \A k : k \in TagVals(e, "p") \/ e.pubkey = k => MaySee(e, k)
  <2> SUFFICES ASSUME NEW k, k \in TagVals(e, "p") \/ e.pubkey = k PROVE MaySee(e, k)
    OBVIOUS
  <2>1. ps[i] = k \/ e.pubkey = k
    BY <1>9
  <2>2. \A j \in DOMAIN ps : i <= j
    BY <1>4, <1>10
  <2> QED
    BY <2>1, <2>2 DEF MaySee, ps
<1>12. TagVals(m, "p") = TagVals(e, "p")
  BY <1>2 DEF TagVals, tag_values_by_name
<1>13. PICK k \in Keys : ps[i] = k
  BY <1>4, <1>9, <1>12, DeliveryAssumption
<1> QED
  BY <1>4, <1>7, <1>8, <1>9, <1>11, <1>13

\* Neither a replacement nor the sweep removes an admitted gift wrap, and no
\* deletion hides it.
LEMMA WrapStays ==
  ASSUME TypeInv, WrapInv, [Next]_vars
  PROVE  /\ \A e \in stored : Wrap(e) => e \in stored'
         /\ \A e \in hidden' : ~Wrap(e)
         /\ \A e \in saved' \ saved : Wrap(e) => e \in stored'
<1> DEFINE Goal == /\ \A e \in stored : Wrap(e) => e \in stored'
                   /\ \A e \in hidden' : ~Wrap(e)
                   /\ \A e \in saved' \ saved : Wrap(e) => e \in stored'
<1>1. [Store!Next]_Store!vars
  BY StoreSteps DEF TypeInv
<1>2. \A e \in hidden : ~Wrap(e)
  BY DEF WrapInv
<1>3. ASSUME NEW x \in Events, Store!WriteIgnored(x) PROVE Goal
  BY <1>2, <1>3 DEF Store!WriteIgnored
<1>4. ASSUME NEW x \in Events, Store!WriteInserted(x) PROVE Goal
  <2> DEFINE rows == Store!RowsAfterInsert(x)
  <2>1. \A S : \A e \in Store!OlderReplaceable(S, x) : ~Wrap(e)
    <3> SUFFICES ASSUME NEW S, NEW e \in Store!OlderReplaceable(S, x), e.kind = 1059
                 PROVE  FALSE
      BY DEF Wrap, GIFT_WRAP_KIND
    <3>1. Store!is_replaceable(x) /\ x.kind = 1059
      BY DEF Store!OlderReplaceable, Store!SameAuthorKind
    <3> QED
      BY <3>1 DEF Store!is_replaceable
  <2>2. \A S : \A e \in Store!OlderParamReplaceable(S, x) : ~Wrap(e)
    <3> SUFFICES ASSUME NEW S, NEW e \in Store!OlderParamReplaceable(S, x), e.kind = 1059
                 PROVE  FALSE
      BY DEF Wrap, GIFT_WRAP_KIND
    <3>1. Store!is_param_replaceable(x) /\ \E r \in Store!ParamRows(S, x) : e = r[1]
      BY DEF Store!OlderParamReplaceable
    <3>2. x.kind = 1059
      BY <3>1 DEF Store!ParamRows, Store!SameAuthorKind
    <3> QED
      BY <3>1, <3>2 DEF Store!is_param_replaceable
  <2>3. \A e \in stored \cup {x} : Wrap(e) => e \in rows
    BY <2>1, <2>2 DEF Store!RowsAfterInsert
  <2>4. \A e \in Store!HiddenAfterInsert(rows, x) : ~Wrap(e)
    BY <1>2 DEF Store!HiddenAfterInsert, Store!HiddenByDeletion, Store!DeletedBefore,
                Store!deletable, Wrap, GIFT_WRAP_KIND
  <2>5. stored' = rows /\ hidden' = Store!HiddenAfterInsert(rows, x) /\ saved' \subseteq saved \cup {x}
    BY <1>4 DEF Store!WriteInserted
  <2> HIDE DEF rows
  <2> QED
    BY <2>3, <2>4, <2>5
<1>5. ASSUME Store!delete_expired PROVE Goal
  <2>1. \A e \in stored : Wrap(e) => e.expiration = -1
    BY WrapFacts DEF WrapInv, TypeInv, FlowInv, StoreInv
  <2>2. \A e \in stored : Wrap(e) => ~Store!is_expired(e)
    BY <2>1 DEF Store!is_expired, Store!NoExpiration
  <2> QED
    BY <1>2, <1>5, <2>2 DEF Store!delete_expired
<1>6. ASSUME Store!Tick PROVE Goal
  BY <1>2, <1>6 DEF Store!Tick
<1>7. ASSUME UNCHANGED Store!vars PROVE Goal
  BY <1>2, <1>7 DEF Store!vars
<1> HIDE DEF Goal
<1>8. Goal
  BY <1>1, <1>3, <1>4, <1>5, <1>6, <1>7 DEF Store!Next, Store!write_event
<1> QED
  BY <1>8 DEF Goal

\* What enters the queue was admitted, and the store gets it from there.
LEMMA AdmittedStep ==
  ASSUME TypeInv, WrapInv, [Next]_vars
  PROVE  \A e \in Range(eventq') \cup stored' : GiftWrapRetention(e)
<1> DEFINE Goal == \A e \in Range(eventq') \cup stored' : GiftWrapRetention(e)
<1>0. /\ \A e \in Range(eventq) \cup stored : GiftWrapRetention(e)
      /\ eventq \in Seq(Events)
  BY DEF TypeInv, FlowInv, QueueInv, WrapInv
<1>1. ASSUME NEW c \in Publishers, NEW m \in Messages, event_msg(c, m) PROVE Goal
  <2>1. eventq' = Append(eventq, Parsed(m)) /\ GiftWrapRetention(Parsed(m)) /\ UNCHANGED store
    BY <1>1 DEF event_msg, Admits
  <2>2. Parsed(m) \in Events
    BY <1>1 DEF event_msg, Events
  <2>3. Range(eventq') \subseteq Range(eventq) \cup {Parsed(m)}
    <3> DEFINE x == Parsed(m)
    <3> HIDE DEF x
    <3>1. x \in Events /\ eventq' = Append(eventq, x)
      BY <2>1, <2>2 DEF x
    <3>2. /\ DOMAIN Append(eventq, x) = 1..(Len(eventq) + 1)
          /\ \A p \in 1..Len(eventq) : Append(eventq, x)[p] = eventq[p]
          /\ Append(eventq, x)[Len(eventq) + 1] = x
          /\ Len(eventq) \in Nat /\ DOMAIN eventq = 1..Len(eventq)
      BY <1>0, <3>1
    <3>3. Range(Append(eventq, x)) \subseteq Range(eventq) \cup {x}
      BY <3>2 DEF Range
    <3> QED
      BY <3>1, <3>3 DEF x
  <2> QED
    BY <1>0, <2>1, <2>3 DEF store
<1>2. ASSUME db_writer PROVE Goal
  <2>1. eventq # << >> /\ eventq' = Tail(eventq)
    BY <1>2 DEF db_writer
  <2>2. Range(Tail(eventq)) \subseteq Range(eventq) /\ Head(eventq) \in Range(eventq)
    <3>1. /\ \A p \in DOMAIN Tail(eventq) : p + 1 \in DOMAIN eventq /\ Tail(eventq)[p] = eventq[p + 1]
          /\ 1 \in DOMAIN eventq /\ Head(eventq) = eventq[1]
      BY <1>0, <2>1
    <3> QED
      BY <3>1 DEF Range
  <2>3. stored' \subseteq stored \cup {Head(eventq)}
    <3>1. UNCHANGED store \/ Store!write_event(Head(eventq))
      BY <1>2 DEF db_writer
    <3> QED
      BY <3>1 DEF store, Store!write_event, Store!WriteIgnored, Store!WriteInserted,
                  Store!RowsAfterInsert
  <2> QED
    BY <1>0, <2>1, <2>2, <2>3
<1>3. ASSUME Upkeep PROVE Goal
  <2>1. eventq' = eventq /\ stored' \subseteq stored
    BY <1>3 DEF Upkeep, Store!delete_expired, Store!Tick
  <2> QED
    BY <1>0, <2>1
<1>4. ASSUME UNCHANGED <<store, eventq>> PROVE Goal
  BY <1>0, <1>4 DEF store
<1>5. ASSUME NEW c \in Conns, connect(c) \/ disconnect(c) PROVE Goal
  BY <1>4, <1>5 DEF connect, disconnect
<1>6. ASSUME NEW c \in Conns, NEW a \in AuthEvents, authenticate(c, a) PROVE Goal
  BY <1>4, <1>6 DEF authenticate
<1>7. ASSUME NEW c, NEW m, event_panics(c, m) PROVE Goal
  BY <1>4, <1>7 DEF event_panics
<1>8. ASSUME NEW c, NEW request, req(c, request) PROVE Goal
  BY <1>4, <1>8 DEF req
<1>9. ASSUME NEW c \in Conns, close(c) PROVE Goal
  BY <1>4, <1>9 DEF close
<1>10. ASSUME NEW c, NEW q,
              \/ query_filter(c, q) \/ query_eose(c, q)
              \/ query_unavailable(c, q) \/ query_stops(c, q)
       PROVE  Goal
  BY <1>4, <1>10 DEF query_filter, query_eose, query_unavailable, query_stops
<1>11. ASSUME NEW c \in Conns, deliver_result(c) \/ deliver_bcast(c) PROVE Goal
  BY <1>4, <1>11 DEF deliver_result, deliver_bcast
<1>12. ASSUME UNCHANGED vars PROVE Goal
  BY <1>4, <1>12 DEF vars
<1> HIDE DEF Goal
<1>13. Goal
  BY <1>1, <1>2, <1>3, <1>5, <1>6, <1>7, <1>8, <1>9, <1>10, <1>11, <1>12 DEF Next
<1> QED
  BY <1>13 DEF Goal

LEMMA WrapStep ==
  ASSUME TypeInv, WrapInv, [Next]_vars
  PROVE  WrapInv'
<1>1. \A e \in Range(eventq') \cup stored' : GiftWrapRetention(e)
  BY AdmittedStep
<1>2. /\ \A e \in stored : Wrap(e) => e \in stored'
      /\ \A e \in hidden' : ~Wrap(e)
      /\ \A e \in saved' \ saved : Wrap(e) => e \in stored'
  BY WrapStays
<1> QED
  BY <1>1, <1>2 DEF WrapInv

-------------------------------------------------------------------------------
(* Gift wraps on their way to the client that asked for them. *)

\* A stored gift wrap that the gate lets pass to connection c.
Entitled(c, e) == e \in stored /\ Wrap(e) /\ allowed_to_send(e, c)

\* It was sent, or is in the first n batches of the channel.
Coming(c, e, n) == e \in sent[c] \/ \E j \in 1..n : e \in results[c][j].rows

\* A filter of the list selects it.
Asked(fs, e) ==
  \E i \in DOMAIN fs : PlainFilter(fs[i]) /\ fs[i].limit = {} /\ interested_in_event(fs[i], e)

QueryShape(q) ==
  /\ {"filters", "begun", "owed"} \subseteq DOMAIN q
  /\ q.filters \in Seq(Range(q.filters))
  /\ \A f \in Range(q.filters) : OpsTyped(f)

\* What a running query owes is on its way or selected by a filter still to run,
\* and what an EOSE owes was sent or comes before it.
QueryOwes(c, q) ==
  \A e \in q.owed : Entitled(c, e) /\ (Coming(c, e, Len(results[c])) \/ Asked(q.filters, e))
BatchOwes(c, p) ==
  results[c][p].eose =>
    /\ results[c][p].rows = {}
    /\ \A e \in results[c][p].owed : Entitled(c, e) /\ Coming(c, e, p - 1)

OwedAt(c) ==
  /\ \A q \in asking[c] : QueryShape(q) /\ QueryOwes(c, q)
  /\ \A p \in 1..Len(results[c]) : BatchOwes(c, p)

OwedInv == \A c \in Conns : OwedAt(c)

ReadInv == TypeInv /\ WrapInv /\ OwedInv

\* A connection that may be sent a stored gift wrap may be sent it from then on.
LEMMA EntitledStays ==
  ASSUME TypeInv, WrapInv, [Next]_vars, NEW c \in Conns, NEW e, Entitled(c, e)
  PROVE  Entitled(c, e)'
<1>1. e \in stored'
  BY WrapStays DEF Entitled
<1>2. FlowInv /\ ConnInv
  BY DEF TypeInv
<1>3. settings' = settings
  BY <1>2, AuthSteps
<1>4. auth[c] \subseteq auth'[c]
  <2>1. CASE UNCHANGED auth
    BY <2>1
  <2>2. ASSUME NEW d \in Conns, NEW a \in AuthEvents, authenticate(d, a)
        PROVE  auth[c] \subseteq auth'[c]
    BY <1>2, <2>2 DEF ConnInv, authenticate, Unauthenticated
  <2> QED
    BY <1>2, <2>1, <2>2, AuthSteps
<1>5. \A k : MaySee(e, k)' <=> MaySee(e, k)
  BY DEF MaySee
<1>6. allowed_to_send(e, c)'
  BY <1>3, <1>4 DEF Entitled, allowed_to_send
<1> QED
  BY <1>1, <1>6 DEF Entitled

\* A step that adds nothing to the channel of a connection and starts no query.
LEMMA OwedKept ==
  ASSUME ReadInv, [Next]_vars, NEW c \in Conns, results'[c] = results[c],
         asking'[c] \subseteq asking[c], sent[c] \subseteq sent'[c]
  PROVE  OwedAt(c)'
<1>1. TypeInv /\ WrapInv /\ OwedAt(c)
  BY DEF ReadInv, OwedInv
<1>2. \A e : Entitled(c, e) => Entitled(c, e)'
  BY <1>1, EntitledStays
<1>3. \A e, n : Coming(c, e, n) => Coming(c, e, n)'
  BY DEF Coming
<1>4. \A q \in asking[c] : QueryShape(q) /\ QueryOwes(c, q)'
  BY <1>1, <1>2, <1>3 DEF OwedAt, QueryOwes
<1>5. \A p \in 1..Len(results[c]) : BatchOwes(c, p)'
  BY <1>1, <1>2, <1>3 DEF OwedAt, BatchOwes
<1> QED
  BY <1>4, <1>5 DEF OwedAt

\* A connection without queries and results.
LEMMA OwedNone ==
  ASSUME NEW c, asking'[c] = {}, results'[c] = << >>
  PROVE  OwedAt(c)'
  BY DEF OwedAt

\* A new request owes what Owed says.
LEMMA ReqOwes ==
  ASSUME ReadInv, [Next]_vars, NEW c \in Conns, NEW request \in Requests, req(c, request)
  PROVE  OwedAt(c)'
<1> DEFINE fs == dedup(request)
<1>0. PICK q : q = [filters |-> fs, begun |-> FALSE, owed |-> Owed(c, fs)]
  OBVIOUS
<1>1. TypeInv /\ WrapInv /\ OwedAt(c)
  BY DEF ReadInv, OwedInv
<1>2. /\ asking'[c] \subseteq asking[c] \cup {q}
      /\ UNCHANGED <<results, sent, stored, settings, auth>>
  BY <1>0, <1>1 DEF req, Stopping, TypeInv, ConnInv, store
<1>3. QueryShape(q)
  <2>1. {"filters", "begun", "owed"} \subseteq DOMAIN q /\ q.filters = fs
    BY <1>0
  <2>2. fs \in Seq(Range(fs)) /\ \A f \in Range(fs) : OpsTyped(f)
    BY DeliveryAssumption DEF OpsTyped
  <2> HIDE DEF fs
  <2> QED
    BY <2>1, <2>2 DEF QueryShape
<1>4. q.owed = Owed(c, fs) /\ q.filters = fs
  BY <1>0
<1>5. \A e \in Owed(c, fs) : Asked(fs, e)
  BY DEF Owed, Asked
<1>6. \A e \in Owed(c, fs) : Entitled(c, e)
  <2> SUFFICES ASSUME NEW e \in Owed(c, fs) PROVE Entitled(c, e)
    OBVIOUS
  <2>1. e \in stored /\ Wrap(e)
    BY DEF Owed, Store!Visible, Wrap
  <2>2. e \in Events /\ GiftWrapRetention(e)
    BY <1>1, <2>1 DEF TypeInv, FlowInv, StoreInv, WrapInv
  <2>3. settings.nip42_dms => \E k \in auth[c] : k \in TagVals(e, "p") \/ e.pubkey = k
    BY DEF Owed
  <2>4. settings.nip42_dms => \E k \in auth[c] : MaySee(e, k)
    BY <2>1, <2>2, <2>3, WrapFacts
  <2> QED
    BY <2>1, <2>4 DEF Entitled, allowed_to_send
<1> HIDE DEF fs
<1>7. \A e : Entitled(c, e) => Entitled(c, e)'
  BY <1>1, EntitledStays
<1>8. QueryOwes(c, q)'
  BY <1>4, <1>5, <1>6, <1>7 DEF QueryOwes
<1>9. \A e, n : Coming(c, e, n) => Coming(c, e, n)'
  BY <1>2 DEF Coming
<1>10. \A r \in asking[c] : QueryShape(r) /\ QueryOwes(c, r)'
  BY <1>1, <1>2, <1>7, <1>9 DEF OwedAt, QueryOwes
<1>11. \A p \in 1..Len(results[c]) : BatchOwes(c, p)'
  BY <1>1, <1>2, <1>7, <1>9 DEF OwedAt, BatchOwes
<1> QED
  BY <1>2, <1>3, <1>8, <1>10, <1>11 DEF OwedAt

\* A batch is put into the channel of a connection: what was coming is coming.
LEMMA AppendOwes ==
  ASSUME ReadInv, [Next]_vars, NEW c \in Conns, NEW b,
         results'[c] = Append(results[c], b), sent'[c] = sent[c]
  PROVE  /\ Len(results'[c]) = Len(results[c]) + 1 /\ Len(results[c]) \in Nat
         /\ results'[c][Len(results[c]) + 1] = b
         /\ \A e : \A n \in 0..Len(results[c]) : Coming(c, e, n) => Coming(c, e, n)'
         /\ \A e : Coming(c, e, Len(results[c])) => Coming(c, e, Len(results[c]))'
         /\ \A e \in b.rows : Coming(c, e, Len(results[c]))'
         /\ \A p \in 1..Len(results[c]) : BatchOwes(c, p)'
<1>1. TypeInv /\ WrapInv /\ OwedAt(c)
  BY DEF ReadInv, OwedInv
<1> DEFINE S == Range(results[c]) \cup {b}
           n0 == Len(results[c])
<1>2. results[c] \in Seq(Range(results[c]))
  BY <1>1 DEF TypeInv, FlowInv, ResultsInv, Channel
<1>3. results[c] \in Seq(S) /\ b \in S
  BY <1>2 DEF Range
<1> HIDE DEF S
<1>4. /\ Len(results'[c]) = n0 + 1 /\ n0 \in Nat /\ results'[c][n0 + 1] = b
      /\ \A j \in 1..n0 : results'[c][j] = results[c][j]
  BY <1>3
<1> HIDE DEF n0
<1>5. \A e : \A n \in 0..n0 : Coming(c, e, n) => Coming(c, e, n)'
  <2> SUFFICES ASSUME NEW e, NEW n \in 0..n0, Coming(c, e, n) PROVE Coming(c, e, n)'
    OBVIOUS
  <2>1. \A j \in 1..n : j \in 1..n0
    BY <1>4
  <2> QED
    BY <1>4, <2>1 DEF Coming
<1>6. \A e : Coming(c, e, n0) => \E j \in 1..(n0 + 1) : e \in sent'[c] \/ e \in results'[c][j].rows
  <2> SUFFICES ASSUME NEW e, Coming(c, e, n0)
               PROVE  \E j \in 1..(n0 + 1) : e \in sent'[c] \/ e \in results'[c][j].rows
    OBVIOUS
  <2>1. \A j \in 1..n0 : j \in 1..(n0 + 1)
    BY <1>4
  <2>2. n0 + 1 \in 1..(n0 + 1)
    BY <1>4
  <2> QED
    BY <1>4, <2>1, <2>2 DEF Coming
<1>7. \A e \in b.rows : \E j \in 1..(n0 + 1) : e \in results'[c][j].rows
  <2>1. n0 + 1 \in 1..(n0 + 1)
    BY <1>4
  <2> QED
    BY <1>4, <2>1
<1>8. \A e : Entitled(c, e) => Entitled(c, e)'
  BY <1>1, EntitledStays
<1>9. \A p \in 1..n0 : BatchOwes(c, p)'
  <2> SUFFICES ASSUME NEW p \in 1..n0 PROVE BatchOwes(c, p)'
    OBVIOUS
  <2>1. p - 1 \in 0..n0 /\ results'[c][p] = results[c][p]
    BY <1>4
  <2>2. BatchOwes(c, p)
    BY <1>1 DEF OwedAt, n0
  <2> QED
    BY <1>5, <1>8, <2>1, <2>2 DEF BatchOwes
<1>10. /\ \A e : Coming(c, e, n0) => Coming(c, e, Len(results[c]))'
       /\ \A e \in b.rows : Coming(c, e, Len(results[c]))'
  BY <1>4, <1>6, <1>7 DEF Coming
<1> QED
  BY <1>4, <1>5, <1>9, <1>10 DEF n0

\* query_filter: the rows of a plain filter without limit hold every gift wrap that
\* the filter selects.
LEMMA AnswersOwed ==
  ASSUME TypeInv, WrapInv, NEW f, PlainFilter(f), OpsTyped(f), f.limit = {},
         NEW rows \in Answers(f, Store!Visible),
         NEW e \in stored, Wrap(e), interested_in_event(f, e)
  PROVE  e \in rows
<1>1. e \in Events /\ GiftWrapRetention(e) /\ e \notin hidden
  BY DEF TypeInv, FlowInv, StoreInv, WrapInv
<1>2. e.expiration = -1 /\ e.delegated_by = {}
  BY <1>1, WrapFacts
<1>3. e \in Store!Visible
  BY <1>1, <1>2 DEF Store!Visible, Store!is_expired, Store!NoExpiration
<1>4. sqlite_selects(f, e)
  <2>1. e.author = e.pubkey.txt
    BY StoredFacts DEF TypeInv
  <2> QED
    BY <1>2, <2>1, PlainFiltersAgree
<1>5. rows = {x \in Store!Visible : sqlite_selects(f, x)}
  BY DEF Answers
<1> QED
  BY <1>3, <1>4, <1>5

LEMMA FilterOwes ==
  ASSUME ReadInv, [Next]_vars, NEW c \in Conns, NEW q \in asking[c], query_filter(c, q)
  PROVE  OwedAt(c)'
<1>1. TypeInv /\ WrapInv /\ OwedAt(c)
  BY DEF ReadInv, OwedInv
<1>2. PICK rows \in Answers(Head(q.filters), Store!Visible) :
        results' = [results EXCEPT ![c] =
          IF rows = {} THEN @ ELSE Append(@, [rows |-> rows, eose |-> FALSE, owed |-> {}])]
  BY DEF query_filter
<1>3. PICK q2 : q2 = [q EXCEPT !.filters = Tail(q.filters), !.begun = TRUE]
  OBVIOUS
<1>4. asking'[c] = (asking[c] \ {q}) \cup {q2} /\ q.filters # << >> /\ sent' = sent
  BY <1>1, <1>3 DEF query_filter, TypeInv, ConnInv
<1>5. QueryShape(q) /\ QueryOwes(c, q)
  BY <1>1 DEF OwedAt
<1>6. /\ {"filters", "begun", "owed"} \subseteq DOMAIN q2
      /\ q2.filters = Tail(q.filters) /\ q2.owed = q.owed
  BY <1>3, <1>5 DEF QueryShape
<1> DEFINE fs == q.filters
<1>7. /\ fs \in Seq(Range(fs)) /\ fs # << >> /\ \A f \in Range(fs) : OpsTyped(f)
  BY <1>4, <1>5 DEF QueryShape
<1> HIDE DEF fs
<1>8. /\ Tail(fs) \in Seq(Range(fs)) /\ Head(fs) = fs[1] /\ Head(fs) \in Range(fs)
      /\ \A i \in DOMAIN fs : i = 1 \/ (i - 1 \in DOMAIN Tail(fs) /\ Tail(fs)[i - 1] = fs[i])
      /\ \A i \in DOMAIN Tail(fs) : Tail(fs)[i] \in Range(fs)
  <2> DEFINE S == Range(fs)
  <2>1. fs \in Seq(S)
    BY <1>7
  <2> HIDE DEF S
  <2>2. /\ Tail(fs) \in Seq(S) /\ Head(fs) = fs[1] /\ Head(fs) \in S
        /\ \A i \in DOMAIN fs : i = 1 \/ (i - 1 \in DOMAIN Tail(fs) /\ Tail(fs)[i - 1] = fs[i])
        /\ \A i \in DOMAIN Tail(fs) : Tail(fs)[i] \in S
    BY <1>7, <2>1
  <2> QED
    BY <2>2 DEF S
<1>9. QueryShape(q2)
  <2>1. Tail(fs) \in Seq(Range(Tail(fs)))
    BY <1>8, OwnElements
  <2>2. Range(Tail(fs)) \subseteq Range(fs)
    BY <1>8 DEF Range
  <2> QED
    BY <1>6, <1>7, <2>1, <2>2 DEF QueryShape, fs
<1>10. \A e : Asked(fs, e) /\ Entitled(c, e) => e \in rows \/ Asked(Tail(fs), e)
  <2> SUFFICES ASSUME NEW e, Asked(fs, e), Entitled(c, e), ~Asked(Tail(fs), e) PROVE e \in rows
    OBVIOUS
  <2>1. PICK i \in DOMAIN fs : PlainFilter(fs[i]) /\ fs[i].limit = {} /\ interested_in_event(fs[i], e)
    BY DEF Asked
  <2>2. i = 1
    BY <1>8, <2>1 DEF Asked
  <2>3. PlainFilter(Head(fs)) /\ Head(fs).limit = {} /\ interested_in_event(Head(fs), e)
    BY <1>8, <2>1, <2>2
  <2>4. OpsTyped(Head(fs)) /\ rows \in Answers(Head(fs), Store!Visible)
    BY <1>7, <1>8 DEF fs
  <2>5. e \in stored /\ Wrap(e)
    BY DEF Entitled
  <2> QED
    BY <1>1, <2>3, <2>4, <2>5, AnswersOwed
<1>11. \A e : Entitled(c, e) => Entitled(c, e)'
  BY <1>1, EntitledStays
<1>12. CASE rows = {}
  <2>1. results'[c] = results[c]
    BY <1>1, <1>2, <1>12 DEF TypeInv, FlowInv, ResultsInv
  <2>2. \A e, n : Coming(c, e, n) => Coming(c, e, n)'
    BY <1>4, <2>1 DEF Coming
  <2>3. QueryOwes(c, q2)'
    BY <1>5, <1>6, <1>10, <1>11, <1>12, <2>1, <2>2 DEF QueryOwes, fs
  <2>4. \A r \in asking[c] : QueryShape(r) /\ QueryOwes(c, r)'
    BY <1>1, <1>11, <2>1, <2>2 DEF OwedAt, QueryOwes
  <2>5. \A p \in 1..Len(results[c]) : BatchOwes(c, p)'
    BY <1>1, <1>11, <2>1, <2>2 DEF OwedAt, BatchOwes
  <2> QED
    BY <1>4, <1>9, <2>1, <2>3, <2>4, <2>5 DEF OwedAt
<1>13. CASE rows # {}
  <2>1. PICK b : b = [rows |-> rows, eose |-> FALSE, owed |-> {}]
    OBVIOUS
  <2>2. b.rows = rows /\ b.eose = FALSE
    BY <2>1
  <2>3. results'[c] = Append(results[c], b) /\ sent'[c] = sent[c]
    BY <1>1, <1>2, <1>4, <1>13, <2>1 DEF TypeInv, FlowInv, ResultsInv
  <2>4. /\ Len(results'[c]) = Len(results[c]) + 1 /\ Len(results[c]) \in Nat
        /\ results'[c][Len(results[c]) + 1] = b
        /\ \A e : Coming(c, e, Len(results[c])) => Coming(c, e, Len(results[c]))'
        /\ \A e \in rows : Coming(c, e, Len(results[c]))'
        /\ \A p \in 1..Len(results[c]) : BatchOwes(c, p)'
    BY <2>2, <2>3, AppendOwes
  <2>5. QueryOwes(c, q2)'
    BY <1>5, <1>6, <1>10, <1>11, <2>4 DEF QueryOwes, fs
  <2>6. \A r \in asking[c] : QueryShape(r) /\ QueryOwes(c, r)'
    BY <1>1, <1>11, <2>4 DEF OwedAt, QueryOwes
  <2>7. \A p \in 1..Len(results'[c]) : BatchOwes(c, p)'
    <3>1. \A p \in 1..Len(results'[c]) : p \in 1..Len(results[c]) \/ p = Len(results[c]) + 1
      BY <2>4
    <3>2. ASSUME NEW p, p = Len(results[c]) + 1 PROVE BatchOwes(c, p)'
      BY <2>2, <2>4, <3>2 DEF BatchOwes
    <3> QED
      BY <2>4, <3>1, <3>2
  <2> QED
    BY <1>4, <1>9, <2>5, <2>6, <2>7 DEF OwedAt
<1> QED
  BY <1>12, <1>13

\* EOSE: every filter has run, and what the query owes is before it in the channel.
LEMMA EoseOwes ==
  ASSUME ReadInv, [Next]_vars, NEW c \in Conns, NEW q \in asking[c],
         query_eose(c, q) \/ query_unavailable(c, q)
  PROVE  OwedAt(c)'
<1>1. TypeInv /\ WrapInv /\ OwedAt(c)
  BY DEF ReadInv, OwedInv
<1>2. PICK b : /\ b.rows = {} /\ results'[c] = Append(results[c], b)
               /\ b.owed = {} \/ (b.owed = q.owed /\ q.filters = << >>)
  <2>1. CASE query_eose(c, q)
    <3> DEFINE b == [rows |-> {}, eose |-> TRUE, owed |-> q.owed]
    <3>1. b.rows = {} /\ b.owed = q.owed
      OBVIOUS
    <3>2. results'[c] = Append(results[c], b) /\ q.filters = << >>
      BY <1>1, <2>1 DEF query_eose, TypeInv, FlowInv, ResultsInv
    <3> HIDE DEF b
    <3> QED
      BY <3>1, <3>2
  <2>2. CASE query_unavailable(c, q)
    <3> DEFINE b == [rows |-> {}, eose |-> TRUE, owed |-> {}]
    <3>1. b.rows = {} /\ b.owed = {}
      OBVIOUS
    <3>2. results'[c] = Append(results[c], b)
      BY <1>1, <2>2 DEF query_unavailable, TypeInv, FlowInv, ResultsInv
    <3> HIDE DEF b
    <3> QED
      BY <3>1, <3>2
  <2> QED
    BY <2>1, <2>2
<1>3. asking'[c] \subseteq asking[c] /\ sent'[c] = sent[c]
  BY <1>1 DEF query_eose, query_unavailable, TypeInv, ConnInv
<1>4. /\ Len(results'[c]) = Len(results[c]) + 1 /\ Len(results[c]) \in Nat
      /\ results'[c][Len(results[c]) + 1] = b
      /\ \A e : \A n \in 0..Len(results[c]) : Coming(c, e, n) => Coming(c, e, n)'
      /\ \A e : Coming(c, e, Len(results[c])) => Coming(c, e, Len(results[c]))'
      /\ \A p \in 1..Len(results[c]) : BatchOwes(c, p)'
  BY <1>2, <1>3, AppendOwes
<1>5. \A e : Entitled(c, e) => Entitled(c, e)'
  BY <1>1, EntitledStays
<1>6. \A r \in asking[c] : QueryShape(r) /\ QueryOwes(c, r)'
  BY <1>1, <1>4, <1>5 DEF OwedAt, QueryOwes
<1>7. \A e \in b.owed : Entitled(c, e) /\ Coming(c, e, Len(results[c]))
  <2>1. \A e : ~Asked(<< >>, e)
    BY DEF Asked
  <2> QED
    BY <1>1, <1>2, <2>1 DEF OwedAt, QueryOwes
<1>8. ASSUME NEW p, p = Len(results[c]) + 1 PROVE BatchOwes(c, p)'
  <2>1. p - 1 = Len(results[c]) /\ p - 1 \in 0..Len(results[c])
    BY <1>4, <1>8
  <2>2. \A e \in b.owed : Entitled(c, e)' /\ Coming(c, e, p - 1)'
    BY <1>4, <1>5, <1>7, <2>1
  <2>3. results'[c][p] = b
    BY <1>4, <1>8
  <2> QED
    BY <1>2, <2>2, <2>3 DEF BatchOwes
<1>9. \A p \in 1..Len(results'[c]) : p \in 1..Len(results[c]) \/ p = Len(results[c]) + 1
  BY <1>4
<1> QED
  BY <1>3, <1>4, <1>6, <1>8, <1>9 DEF OwedAt

\* The connection's task takes from its channel: a gift wrap that it takes and that
\* the client is entitled to is sent.
LEMMA DeliverOwes ==
  ASSUME ReadInv, [Next]_vars, NEW c \in Conns, deliver_result(c)
  PROVE  OwedAt(c)'
<1>1. TypeInv /\ WrapInv /\ OwedAt(c)
  BY DEF ReadInv, OwedInv
<1> DEFINE ch == results[c]
           n0 == Len(results[c])
<1>2. Channel(ch) /\ ch # << >>
  BY <1>1 DEF TypeInv, FlowInv, ResultsInv, deliver_result
<1>3. /\ n0 \in Nat /\ n0 >= 1 /\ Head(ch) = ch[1]
      /\ Len(Tail(ch)) = n0 - 1
      /\ \A j \in 1..(n0 - 1) : Tail(ch)[j] = ch[j + 1]
  <2> DEFINE S == Range(ch)
  <2>1. ch \in Seq(S)
    BY <1>2 DEF Channel
  <2> HIDE DEF S, ch
  <2> QED
    BY <1>2, <2>1 DEF n0, ch
<1>4. asking' = asking /\ sent[c] \subseteq sent'[c]
  BY <1>1 DEF deliver_result, Send, TypeInv, FlowInv, SentInv
<1>5. BatchOwes(c, 1)
  <2>1. 1 \in 1..n0
    BY <1>3
  <2> QED
    BY <1>1, <2>1 DEF OwedAt
<1>6. \A e : Entitled(c, e) => Entitled(c, e)'
  BY <1>1, EntitledStays
<1>7. \/ /\ ch[1].eose /\ results'[c] = Tail(ch)
      \/ \E x \in ch[1].rows :
           /\ results'[c] = IF ch[1].rows = {x} THEN Tail(ch)
                           ELSE [ch EXCEPT ![1].rows = ch[1].rows \ {x}]
           /\ allowed_to_send(x, c) => x \in sent'[c]
  <2>1. /\ results = [d \in Conns |-> results[d]]
        /\ \A x : Send(c, x) => x \in sent'[c]
    BY <1>1 DEF Send, TypeInv, FlowInv, ResultsInv, SentInv
  <2>2. \A v : results' = [results EXCEPT ![c] = v] => results'[c] = v
    BY <2>1
  <2>3. CASE ch[1].eose /\ results' = [results EXCEPT ![c] = Tail(ch)]
    BY <2>2, <2>3
  <2>4. ASSUME NEW x \in ch[1].rows,
               results' = [results EXCEPT ![c] =
                 IF ch[1].rows = {x} THEN Tail(ch)
                 ELSE [ch EXCEPT ![1].rows = ch[1].rows \ {x}]],
               IF allowed_to_send(x, c) THEN Send(c, x) ELSE UNCHANGED sent
        PROVE  /\ results'[c] = IF ch[1].rows = {x} THEN Tail(ch)
                               ELSE [ch EXCEPT ![1].rows = ch[1].rows \ {x}]
               /\ allowed_to_send(x, c) => x \in sent'[c]
    BY <2>1, <2>2, <2>4
  <2>5. \/ ch[1].eose /\ results' = [results EXCEPT ![c] = Tail(ch)]
        \/ \E x \in ch[1].rows :
             /\ results' = [results EXCEPT ![c] =
                  IF ch[1].rows = {x} THEN Tail(ch)
                  ELSE [ch EXCEPT ![1].rows = ch[1].rows \ {x}]]
             /\ IF allowed_to_send(x, c) THEN Send(c, x) ELSE UNCHANGED sent
    BY <1>3 DEF deliver_result
  <2> QED
    BY <2>3, <2>4, <2>5
<1> HIDE DEF ch, n0
<1>8. ASSUME results'[c] = Tail(ch),
             \A e \in ch[1].rows : Entitled(c, e) => e \in sent'[c]
      PROVE  OwedAt(c)'
  <2>1. /\ Len(results'[c]) = n0 - 1
        /\ \A j \in 1..(n0 - 1) : results'[c][j] = results[c][j + 1]
    BY <1>3, <1>8 DEF ch
  <2>2. \A e : \A n \in 1..n0 : Coming(c, e, n) /\ Entitled(c, e) => Coming(c, e, n - 1)'
    <3> SUFFICES ASSUME NEW e, NEW n \in 1..n0, Coming(c, e, n), Entitled(c, e)
                 PROVE  Coming(c, e, n - 1)'
      OBVIOUS
    <3>1. CASE e \in sent[c]
      BY <1>4, <3>1 DEF Coming
    <3>2. ASSUME NEW j \in 1..n, e \in results[c][j].rows, j # 1 PROVE Coming(c, e, n - 1)'
      <4>1. j - 1 \in 1..(n - 1) /\ j - 1 \in 1..(n0 - 1) /\ (j - 1) + 1 = j
        BY <1>3, <3>2
      <4>2. e \in results'[c][j - 1].rows
        BY <2>1, <3>2, <4>1
      <4> QED
        BY <4>1, <4>2 DEF Coming
    <3>3. ASSUME e \in results[c][1].rows PROVE Coming(c, e, n - 1)'
      BY <1>8, <3>3 DEF Coming, ch
    <3> QED
      BY <3>1, <3>2, <3>3 DEF Coming
  <2>3. \A r \in asking[c] : QueryOwes(c, r)'
    <3> SUFFICES ASSUME NEW r \in asking[c], NEW e \in r.owed
                 PROVE  Entitled(c, e)' /\ (Coming(c, e, Len(results[c]))' \/ Asked(r.filters, e))
      BY DEF QueryOwes
    <3>1. Entitled(c, e) /\ (Coming(c, e, n0) \/ Asked(r.filters, e))
      BY <1>1 DEF OwedAt, QueryOwes, n0
    <3>2. n0 \in 1..n0
      BY <1>3
    <3>3. Coming(c, e, n0) => Coming(c, e, Len(results[c]))'
      <4>1. Coming(c, e, n0) => \A m : m = n0 - 1 => Coming(c, e, m)'
        <5> SUFFICES ASSUME Coming(c, e, n0), NEW m, m = n0 - 1 PROVE Coming(c, e, m)'
          OBVIOUS
        <5>1. PICK n : n = n0
          OBVIOUS
        <5>2. Coming(c, e, n - 1)'
          BY <2>2, <3>1, <3>2, <5>1
        <5> QED
          BY <5>1, <5>2
      <4>2. Len(results'[c]) = n0 - 1
        BY <2>1
      <4> QED
        BY <4>1, <4>2 DEF Coming
    <3> QED
      BY <1>6, <3>1, <3>3
  <2>4. \A p \in 1..(n0 - 1) : BatchOwes(c, p)'
    <3> SUFFICES ASSUME NEW p \in 1..(n0 - 1) PROVE BatchOwes(c, p)'
      OBVIOUS
    <3>1. PICK r : r = p + 1
      OBVIOUS
    <3>2. r \in 1..n0 /\ r - 1 \in 1..n0 /\ r - 1 = p /\ (r - 1) - 1 = p - 1
      BY <1>3, <3>1
    <3>3. BatchOwes(c, r) /\ results'[c][p] = results[c][r]
      BY <1>1, <2>1, <3>1, <3>2 DEF OwedAt, n0
    <3>4. \A e : Coming(c, e, r - 1) /\ Entitled(c, e) => Coming(c, e, p - 1)'
      BY <2>2, <3>2
    <3> QED
      BY <1>6, <3>3, <3>4 DEF BatchOwes
  <2> QED
    BY <1>1, <1>4, <2>1, <2>3, <2>4 DEF OwedAt
<1>9. ASSUME NEW x \in ch[1].rows, allowed_to_send(x, c) => x \in sent'[c],
             results'[c] = [ch EXCEPT ![1].rows = ch[1].rows \ {x}]
      PROVE  OwedAt(c)'
  <2>1. /\ Len(results'[c]) = n0
        /\ \A p \in 2..n0 : results'[c][p] = results[c][p]
        /\ results'[c][1].rows = ch[1].rows \ {x}
        /\ results'[c][1].eose = ch[1].eose
    <3> DEFINE R == ch[1].rows \ {x}
    <3>1. R \subseteq Head(ch).rows
      BY <1>3
    <3> HIDE DEF R
    <3>2. /\ Len([ch EXCEPT ![1].rows = R]) = Len(ch)
          /\ \A p \in 2..Len(ch) : [ch EXCEPT ![1].rows = R][p] = ch[p]
          /\ [ch EXCEPT ![1].rows = R][1].rows = R
          /\ [ch EXCEPT ![1].rows = R][1].eose = ch[1].eose
      BY <1>2, <3>1, ChannelTake
    <3>3. results'[c] = [ch EXCEPT ![1].rows = R] /\ Len(ch) = n0 /\ ch = results[c]
      BY <1>9 DEF R, ch, n0
    <3> QED
      BY <3>2, <3>3 DEF R
  <2>2. ~ch[1].eose
    BY <1>5, <1>9 DEF BatchOwes, ch
  <2>3. \A e : \A n \in 0..n0 : Coming(c, e, n) /\ Entitled(c, e) => Coming(c, e, n)'
    <3> SUFFICES ASSUME NEW e, NEW n \in 0..n0, Coming(c, e, n), Entitled(c, e)
                 PROVE  Coming(c, e, n)'
      OBVIOUS
    <3>1. CASE e \in sent[c]
      BY <1>4, <3>1 DEF Coming
    <3>2. ASSUME NEW j \in 1..n, e \in results[c][j].rows, j # 1 PROVE Coming(c, e, n)'
      <4>1. j \in 2..n0
        BY <1>3, <3>2
      <4> QED
        BY <2>1, <3>2, <4>1 DEF Coming
    <3>3. ASSUME 1 \in 1..n, e \in results[c][1].rows PROVE Coming(c, e, n)'
      <4>1. CASE e = x
        BY <1>9, <4>1 DEF Coming, Entitled
      <4>2. CASE e # x
        BY <2>1, <3>3, <4>2 DEF Coming, ch
      <4> QED
        BY <4>1, <4>2
    <3> QED
      BY <3>1, <3>2, <3>3 DEF Coming
  <2>4. \A r \in asking[c] : QueryOwes(c, r)'
    <3>1. n0 \in 0..n0
      BY <1>3
    <3>2. \A e : Coming(c, e, n0) /\ Entitled(c, e) => Coming(c, e, Len(results[c]))'
      <4> SUFFICES ASSUME NEW e, Coming(c, e, n0), Entitled(c, e)
                   PROVE  Coming(c, e, Len(results[c]))'
        OBVIOUS
      <4>1. PICK n : n = n0
        OBVIOUS
      <4>2. Coming(c, e, n)'
        BY <2>3, <3>1, <4>1
      <4> QED
        BY <2>1, <4>1, <4>2 DEF Coming
    <3> QED
      BY <1>1, <1>6, <3>2 DEF OwedAt, QueryOwes, n0
  <2>5. \A p \in 1..n0 : BatchOwes(c, p)'
    <3> SUFFICES ASSUME NEW p \in 1..n0 PROVE BatchOwes(c, p)'
      OBVIOUS
    <3>1. CASE p = 1
      BY <2>1, <2>2, <3>1 DEF BatchOwes
    <3>2. CASE p # 1
      <4>1. p \in 2..n0 /\ p - 1 \in 0..n0
        BY <1>3, <3>2
      <4>2. BatchOwes(c, p)
        BY <1>1 DEF OwedAt, n0
      <4> QED
        BY <1>6, <2>1, <2>3, <4>1, <4>2 DEF BatchOwes
    <3> QED
      BY <3>1, <3>2
  <2> QED
    BY <1>1, <1>4, <2>1, <2>4, <2>5 DEF OwedAt
<1>10. CASE ch[1].eose /\ results'[c] = Tail(ch)
  BY <1>5, <1>8, <1>10 DEF BatchOwes, ch
<1>11. ASSUME NEW x \in ch[1].rows, allowed_to_send(x, c) => x \in sent'[c],
              ch[1].rows = {x}, results'[c] = Tail(ch)
       PROVE  OwedAt(c)'
  BY <1>8, <1>11 DEF Entitled
<1> QED
  BY <1>7, <1>9, <1>10, <1>11

LEMMA OwedStep ==
  ASSUME ReadInv, [Next]_vars
  PROVE  OwedInv'
<1> USE DeliveryAssumption
<1>0. /\ asking = [c \in Conns |-> asking[c]] /\ results = [c \in Conns |-> results[c]]
      /\ sent \in [Conns -> SUBSET Events]
  BY DEF ReadInv, TypeInv, ConnInv, FlowInv, ResultsInv, SentInv
<1>1. ASSUME NEW d \in Conns, UNCHANGED <<asking, results>>, sent[d] \subseteq sent'[d]
      PROVE  OwedAt(d)'
  BY <1>1, OwedKept
<1>2. ASSUME NEW c \in Conns, NEW d \in Conns, d # c, sent' = sent,
             asking'[d] = asking[d], results'[d] = results[d]
      PROVE  OwedAt(d)'
  BY <1>2, OwedKept
<1>3. ASSUME UNCHANGED <<asking, results, sent>> PROVE OwedInv'
  BY <1>1, <1>3 DEF OwedInv
<1>4. ASSUME NEW c \in Conns, connect(c) PROVE OwedInv'
  BY <1>3, <1>4 DEF connect
<1>5. ASSUME NEW c \in Conns, Closed(c), sent' = sent PROVE OwedInv'
  <2> SUFFICES ASSUME NEW d \in Conns PROVE OwedAt(d)'
    BY DEF OwedInv
  <2>1. CASE d = c
    <3>1. asking'[d] = {} /\ results'[d] = << >>
      BY <1>0, <1>5, <2>1 DEF Closed
    <3> QED
      BY <3>1, OwedNone
  <2>2. CASE d # c
    <3>1. asking'[d] = asking[d] /\ results'[d] = results[d]
      BY <1>0, <1>5, <2>2 DEF Closed
    <3> QED
      BY <1>2, <1>5, <2>2, <3>1
  <2> QED
    BY <2>1, <2>2
<1>6. ASSUME NEW c \in Conns, disconnect(c) PROVE OwedInv'
  BY <1>5, <1>6 DEF disconnect
<1>7. ASSUME NEW c \in Conns, NEW a \in AuthEvents, authenticate(c, a) PROVE OwedInv'
  BY <1>3, <1>7 DEF authenticate
<1>8. ASSUME NEW c \in Publishers, NEW m \in Messages, event_msg(c, m) PROVE OwedInv'
  BY <1>3, <1>8 DEF event_msg, conn
<1>9. ASSUME NEW c \in Publishers, NEW m \in Messages, event_panics(c, m) PROVE OwedInv'
  BY <1>5, <1>9 DEF event_panics
<1>10. ASSUME db_writer PROVE OwedInv'
  BY <1>3, <1>10 DEF db_writer
<1>11. ASSUME NEW c \in Readers, NEW request \in Requests, req(c, request) PROVE OwedInv'
  <2> SUFFICES ASSUME NEW d \in Conns PROVE OwedAt(d)'
    BY DEF OwedInv
  <2>1. CASE d = c
    BY <1>11, <2>1, ReqOwes
  <2>2. CASE d # c
    <3>1. asking'[d] = asking[d] /\ results' = results /\ sent' = sent
      BY <1>0, <1>11, <2>2 DEF req
    <3> QED
      BY <1>2, <2>2, <3>1
  <2> QED
    BY <2>1, <2>2
<1>12. ASSUME NEW c \in Conns, close(c) PROVE OwedInv'
  <2> SUFFICES ASSUME NEW d \in Conns PROVE OwedAt(d)'
    BY DEF OwedInv
  <2>1. asking'[d] \subseteq asking[d] /\ results' = results /\ sent' = sent
    BY <1>0, <1>12 DEF close, Stopping
  <2> QED
    BY <2>1, OwedKept
<1>13. ASSUME NEW c \in Conns, NEW q \in asking[c],
              query_filter(c, q) \/ query_eose(c, q) \/ query_unavailable(c, q)
       PROVE  OwedInv'
  <2> SUFFICES ASSUME NEW d \in Conns PROVE OwedAt(d)'
    BY DEF OwedInv
  <2>1. CASE d = c
    BY <1>13, <2>1, FilterOwes, EoseOwes
  <2>2. CASE d # c
    <3>1. asking'[d] = asking[d] /\ results'[d] = results[d] /\ sent' = sent
      BY <1>0, <1>13, <2>2 DEF query_filter, query_eose, query_unavailable
    <3> QED
      BY <1>2, <2>2, <3>1
  <2> QED
    BY <2>1, <2>2
<1>14. ASSUME NEW c \in Conns, NEW q \in asking[c], query_stops(c, q) PROVE OwedInv'
  <2> SUFFICES ASSUME NEW d \in Conns PROVE OwedAt(d)'
    BY DEF OwedInv
  <2>1. asking'[d] \subseteq asking[d] /\ results' = results /\ sent' = sent
    BY <1>0, <1>14 DEF query_stops
  <2> QED
    BY <2>1, OwedKept
<1>15. ASSUME NEW c \in Conns, deliver_result(c) PROVE OwedInv'
  <2> SUFFICES ASSUME NEW d \in Conns PROVE OwedAt(d)'
    BY DEF OwedInv
  <2>1. CASE d = c
    BY <1>15, <2>1, DeliverOwes
  <2>2. CASE d # c
    <3>1. asking'[d] = asking[d] /\ results'[d] = results[d] /\ sent[d] \subseteq sent'[d]
      BY <1>0, <1>15, <2>2 DEF deliver_result, Send
    <3> QED
      BY <3>1, OwedKept
  <2> QED
    BY <2>1, <2>2
<1>16. ASSUME NEW c \in Conns, deliver_bcast(c) PROVE OwedInv'
  <2>1. UNCHANGED <<asking, results>> /\ \A d \in Conns : sent[d] \subseteq sent'[d]
    BY <1>0, <1>16 DEF deliver_bcast, Send
  <2> QED
    BY <1>1, <2>1 DEF OwedInv
<1>17. ASSUME Upkeep PROVE OwedInv'
  BY <1>3, <1>17 DEF Upkeep, conn
<1>18. ASSUME UNCHANGED vars PROVE OwedInv'
  BY <1>3, <1>18 DEF vars, conn
<1> QED
  BY <1>4, <1>6, <1>7, <1>8, <1>9, <1>10, <1>11, <1>12, <1>13, <1>14, <1>15, <1>16, <1>17,
     <1>18 DEF Next

\* A gift wrap that the writer reported as saved stays visible and readable for
\* the one key that it names; and when the EOSE of a request is the next message
\* to its client, all the gift wraps that the client asked for, was entitled to and
\* that were there when it asked have been sent.
THEOREM WrapsReachTheirReaders == Spec => []GiftWrapsReadable
<1>1. Init => ReadInv
  <2>1. Init => WrapInv
    BY DEF Init, Store!Init, WrapInv, Range
  <2>2. Init => OwedInv
    BY DEF Init, OwedInv, OwedAt
  <2> QED
    BY <2>1, <2>2, InitType DEF ReadInv
<1>2. ReadInv /\ [Next]_vars => ReadInv'
  BY TypeStep, WrapStep, OwedStep DEF ReadInv
<1>3. ReadInv => GiftWrapsReadable
  <2> SUFFICES ASSUME ReadInv PROVE GiftWrapsReadable
    OBVIOUS
  <2>1. TypeOK
    BY TypeImplied DEF ReadInv
  <2>2. ASSUME NEW e \in saved, e.kind = GIFT_WRAP_KIND
        PROVE  /\ e \in Store!Visible
               /\ \E k \in Keys : k.form = "lower" /\ TagVals(e, "p") = {k} /\ MaySee(e, k)
    <3>1. Wrap(e) /\ e \in stored /\ e \in Events /\ GiftWrapRetention(e) /\ e \notin hidden
      BY <2>2 DEF ReadInv, TypeInv, FlowInv, StoreInv, WrapInv, Wrap
    <3>2. e.expiration = -1 /\ \E k \in Keys : k.form = "lower" /\ TagVals(e, "p") = {k} /\ MaySee(e, k)
      BY <3>1, WrapFacts
    <3> QED
      BY <3>1, <3>2 DEF Store!Visible, Store!is_expired, Store!NoExpiration
  <2>3. ASSUME NEW c \in Conns, results[c] # << >>, Head(results[c]).eose
        PROVE  Head(results[c]).owed \subseteq sent[c]
    <3>1. Channel(results[c])
      BY DEF ReadInv, TypeInv, FlowInv, ResultsInv
    <3>2. Head(results[c]) = results[c][1] /\ 1 \in 1..Len(results[c])
      BY <2>3, <3>1, ChannelTail
    <3>3. BatchOwes(c, 1)
      BY <3>2 DEF ReadInv, OwedInv, OwedAt
    <3>4. \A e : Coming(c, e, 1 - 1) => e \in sent[c]
      BY DEF Coming
    <3> QED
      BY <2>3, <3>2, <3>3, <3>4 DEF BatchOwes
  <2> QED
    BY <2>1, <2>2, <2>3 DEF GiftWrapsReadable
<1> QED
  BY <1>1, <1>2, <1>3, PTL DEF Spec

===============================================================================
