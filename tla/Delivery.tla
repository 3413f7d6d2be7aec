------------------------------- MODULE Delivery -------------------------------
(***************************************************************************)
(* Who may write an event and who gets to see it: NIP-42 authentication of  *)
(* connections, admission of events (Admission), the event store            *)
(* (EventStore), and delivery to subscribers from the store and from the    *)
(* broadcast, selected by filters (Filters) and by the gate on private      *)
(* kinds, allowed_to_send.                                                 *)
(*                                                                         *)
(* A connection has one subscription id here.  Channel limits, notices and  *)
(* subscription ids are in RelayPipeline.                                   *)
(***************************************************************************)
EXTENDS Admission

CONSTANTS
  Conns,       \* connections, each used once; its challenge is known by its name
  Publishers, Readers,  \* the ones that clients publish and subscribe over
  Configs,     \* settings the relay may run with
  Messages,    \* what clients publish: [id, pubkey, kind, created_at, tags,
               \* delegations, valid]
  AuthEvents,  \* what clients sign to authenticate: [pubkey, challenge, relay,
               \* created_at, kind, valid], challenge and relay being Options
  Requests,    \* sequences of filters that clients ask for
  Keys,        \* public keys as texts
  AuthWindow,  \* seconds an AUTH event may be early or late (600)
  MaxTime, MaxSubmits, MaxReqs

ASSUME DeliveryAssumption ==
  /\ {AuthWindow, MaxTime, MaxSubmits, MaxReqs} \subseteq Nat
  /\ Publishers \subseteq Conns /\ Readers \subseteq Conns
  /\ \A m, n \in Messages : m.id = n.id => m = n
  /\ \A m \in Messages :
       /\ m.kind \in U64 /\ m.created_at \in U64
       /\ m.pubkey.form \in {"lower", "upper"}
       /\ m.tags \in Seq(Range(m.tags))
       /\ \A v \in TagVals(m, "p") : v.form = "lower" => v \in Keys
       /\ m.delegations \in Seq(Range(m.delegations))
       /\ \A d \in Range(m.delegations) : \A i \in DOMAIN d.conds : d.conds[i].values \in Seq(Nat)
  /\ \A a \in AuthEvents : a.pubkey \in Keys
  /\ \A request \in Requests :
       /\ dedup(request) \in Seq(Range(dedup(request)))
       /\ \A f \in Range(dedup(request)) :
            /\ f.since \cup f.until \subseteq U64 /\ \A ks \in f.kinds : ks \subseteq U64
            /\ \A map \in f.tags : \A name \in DOMAIN map : map[name].op \in {"and", "or"}

VARIABLES
  settings,  \* chosen at start-up
  stored, hidden, now, received, saved,  \* EventStore
  state,     \* per connection: "new", "open" or "closed"
  auth,      \* per connection: auth_pubkey(), an Option
  subs,      \* per connection: the filters of its subscription, an Option
  asking,    \* per connection: its queries, [filters (still to run), begun, owed]
  results,   \* per connection: the query channel, batches [rows, eose, owed]
  bcast,     \* per connection: broadcast events it has not looked at
  eventq,    \* events on their way to the database writer
  submits, reqs,
  sent       \* history: per connection, the events it was sent

store == <<stored, hidden, now, received, saved>>
conn  == <<state, auth, subs, asking, results, bcast>>
vars  == <<settings, store, conn, eventq, submits, reqs, sent>>

-------------------------------------------------------------------------------
(* Events *)

\* The first "expiration" tag, if its value is a number.
expiration(m) ==
  LET xs == {i \in DOMAIN m.tags : m.tags[i] # << >> /\ m.tags[i][1] = "expiration"}
      t  == m.tags[CHOOSE i \in xs : \A j \in xs : i <= j]
  IN  IF xs # {} /\ Len(t) > 1 THEN t[2].num ELSE -1

DTags(m) ==
  LET ds == SelectSeq(m.tags, LAMBDA t : t # << >> /\ t[1] = "d")
  IN  [i \in DOMAIN ds |-> IF Len(ds[i]) > 1 THEN ds[i][2].txt ELSE "bare"]

\* The event ids in "e" tags, whatever the case of their digits.
Refs(m) ==
  {[id |-> v.txt, lower |-> v.form = "lower"] :
     v \in {w \in TagVals(m, "e") : w.form \in {"lower", "upper"}}}

\* The parsed event, with its delegator and what the store reads from its pubkey
\* and tags.
Parsed(m) ==
  [id |-> m.id, pubkey |-> m.pubkey, author |-> m.pubkey.txt, kind |-> m.kind,
   created_at |-> m.created_at, tags |-> m.tags, delegations |-> m.delegations, delegated_by |-> delegated_author(m),
   expiration |-> expiration(m), dtags |-> DTags(m), refs |-> Refs(m)]

Events == {Parsed(m) : m \in {x \in Messages : ~Panics(x)}}

Store == INSTANCE EventStore

is_ephemeral(e) == e.kind >= 20000 /\ e.kind < 30000

is_valid_timestamp(e) == \A s \in settings.reject_future_seconds : e.created_at <= now + s

Private(e) == e.kind \in {4, 44, 1059}

\* The first "p" value names the recipient: texts compare, with their case.
MaySee(e, k) ==
  LET ps == tag_values_by_name(e, "p")
  IN  \E i \in DOMAIN ps : /\ \A j \in DOMAIN ps : i <= j
                           /\ ps[i] = k \/ e.pubkey = k

allowed_to_send(e, c) ==
  settings.nip42_dms /\ Private(e) => \E k \in auth[c] : MaySee(e, k)

-------------------------------------------------------------------------------
Init ==
  /\ settings \in Configs
  /\ Store!Init
  /\ state = [c \in Conns |-> "new"]
  /\ auth = [c \in Conns |-> {}] /\ subs = [c \in Conns |-> {}]
  /\ asking = [c \in Conns |-> {}]
  /\ results = [c \in Conns |-> << >>] /\ bcast = [c \in Conns |-> << >>]
  /\ eventq = << >>
  /\ submits = 0 /\ reqs = 0
  /\ sent = [c \in Conns |-> {}]

\* With nip42_auth the relay sends the connection its challenge.
connect(c) ==
  /\ state[c] = "new"
  /\ state' = [state EXCEPT ![c] = "open"]
  /\ UNCHANGED <<settings, store, auth, subs, asking, results, bcast, eventq,
                 submits, reqs, sent>>

-------------------------------------------------------------------------------
(* ["AUTH", event] *)

ChallengeMatches(c, a) == a.challenge = {c}

\* Hosts are compared, not URLs.
RelayMatches(a) == a.relay # {} /\ a.relay = settings.relay_url

\* Mutant: a connection may authenticate again, with another key.
Unauthenticated_always(c) == TRUE

Unauthenticated(c) == auth[c] = {}

\* A connection that has authenticated stays with its key: a second AUTH is
\* answered OK and changes nothing.  A failed one changes nothing either.
authenticate(c, a) ==
  /\ state[c] = "open"
  /\ settings.nip42_auth /\ settings.relay_url # {}
  /\ Unauthenticated(c)
  /\ a.valid /\ a.kind = 22242
  /\ a.created_at >= now - AuthWindow /\ a.created_at <= now + AuthWindow
  /\ ChallengeMatches(c, a)
  /\ RelayMatches(a)
  /\ auth' = [auth EXCEPT ![c] = {a.pubkey}]
  /\ UNCHANGED <<settings, store, state, subs, asking, results, bcast, eventq,
                 submits, reqs, sent>>

-------------------------------------------------------------------------------
(* ["EVENT", event] *)

\* The event is valid, neither expired nor too new, and admitted.  Otherwise a
\* notice answers it and nothing changes.
event_msg(c, m) ==
  LET e == Parsed(m)
  IN  /\ state[c] = "open" /\ submits < MaxSubmits
      /\ m.valid /\ ~Panics(m)
      /\ ~Store!is_expired(e)
      /\ is_valid_timestamp(e)
      /\ Admits(settings, e, auth[c])
      /\ eventq' = Append(eventq, e)
      /\ submits' = submits + 1
      /\ UNCHANGED <<settings, store, conn, reqs, sent>>

\* The connection's task ends, and with it its channels and queries.
Closed(c) ==
  /\ state' = [state EXCEPT ![c] = "closed"]
  /\ subs' = [subs EXCEPT ![c] = {}]
  /\ asking' = [asking EXCEPT ![c] = {}]
  /\ results' = [results EXCEPT ![c] = << >>]
  /\ bcast' = [bcast EXCEPT ![c] = << >>]
  /\ UNCHANGED auth

\* A delegation tag whose signature cannot be parsed panics the task.
event_panics(c, m) ==
  /\ state[c] = "open"
  /\ m.valid /\ Panics(m)
  /\ Closed(c)
  /\ UNCHANGED <<settings, store, eventq, submits, reqs, sent>>

disconnect(c) ==
  /\ state[c] = "open"
  /\ Closed(c)
  /\ UNCHANGED <<settings, store, eventq, submits, reqs, sent>>

\* A connection that never subscribes would take the event and ignore it.
Broadcast(e) ==
  bcast' = [c \in Conns |-> IF state[c] = "open" /\ c \in Readers
                            THEN Append(bcast[c], e) ELSE bcast[c]]

\* db_writer: an ephemeral event is broadcast only, another one when the store
\* reports it as new.
db_writer ==
  /\ eventq # << >>
  /\ eventq' = Tail(eventq)
  /\ LET e == Head(eventq)
     IN  \/ is_ephemeral(e) /\ Broadcast(e) /\ UNCHANGED store
         \/ /\ ~is_ephemeral(e)
            /\ Store!write_event(e)
            /\ IF ~Store!Ignored(e) /\ ~Store!DeletedBefore(Store!RowsAfterInsert(e), e)
               THEN Broadcast(e) ELSE UNCHANGED bcast
  /\ UNCHANGED <<settings, state, auth, subs, asking, results, submits, reqs, sent>>

-------------------------------------------------------------------------------
(* ["REQ", ...] and ["CLOSE", ...] *)

\* A query that is told to stop may finish first: it looks every 100 rows.
Stopping(c) == {{}, asking[c]}

\* What a filter means where its readers agree: whole keys and ids in lower
\* case, tag values, and no odd hex among them.
PlainText(vs) == \A v \in vs : v.form = "lower"
PlainFilter(f) ==
  /\ \A vs \in f.ids \cup f.authors : PlainText(vs)
  /\ \A map \in f.tags : \A c \in DOMAIN map :
       map[c].vals # {} /\ \A v \in map[c].vals : v.form # "odd"

\* History: the gift wraps that the subscriber wrote or that name it, or on a
\* relay without nip42_dms any, of those that it asks for.
Owed(c, fs) ==
  {e \in Store!Visible :
     /\ e.kind = GIFT_WRAP_KIND
     /\ settings.nip42_dms =>
          \E k \in auth[c] : k \in TagVals(e, "p") \/ e.pubkey = k
     /\ \E i \in DOMAIN fs : /\ PlainFilter(fs[i]) /\ fs[i].limit = {}
                             /\ interested_in_event(fs[i], e)}

\* A repeated subscription is ignored, and a scraper gets its EOSE and nothing
\* else; neither changes anything.
req(c, request) ==
  LET fs == dedup(request)
  IN  /\ state[c] = "open" /\ reqs < MaxReqs
      /\ subs[c] # {fs}
      /\ ~(settings.limit_scrapers /\ is_scraper(fs))
      /\ subs' = [subs EXCEPT ![c] = {fs}]
      /\ \E kept \in Stopping(c) :
           asking' = [asking EXCEPT ![c] = kept \cup
             (IF needs_historical_events(fs)
              THEN {[filters |-> fs, begun |-> FALSE, owed |-> Owed(c, fs)]} ELSE {})]
      /\ reqs' = reqs + 1
      /\ UNCHANGED <<settings, store, state, auth, results, bcast, eventq, submits, sent>>

close(c) ==
  /\ state[c] = "open" /\ subs[c] # {}
  /\ subs' = [subs EXCEPT ![c] = {}]
  /\ \E kept \in Stopping(c) : asking' = [asking EXCEPT ![c] = kept]
  /\ UNCHANGED <<settings, store, state, auth, results, bcast, eventq, submits, reqs, sent>>

\* query_subscription: the rows of the next filter.
query_filter(c, q) ==
  /\ q \in asking[c] /\ q.filters # << >>
  /\ \E rows \in Answers(Head(q.filters), Store!Visible) :
       results' = [results EXCEPT ![c] =
         IF rows = {} THEN @ ELSE Append(@, [rows |-> rows, eose |-> FALSE, owed |-> {}])]
  /\ asking' = [asking EXCEPT ![c] = (@ \ {q}) \cup {[q EXCEPT !.filters = Tail(q.filters), !.begun = TRUE]}]
  /\ UNCHANGED <<settings, store, state, auth, subs, bcast, eventq, submits, reqs, sent>>

query_eose(c, q) ==
  /\ q \in asking[c] /\ q.filters = << >>
  /\ results' = [results EXCEPT ![c] =
       Append(@, [rows |-> {}, eose |-> TRUE, owed |-> q.owed])]
  /\ asking' = [asking EXCEPT ![c] = @ \ {q}]
  /\ UNCHANGED <<settings, store, state, auth, subs, bcast, eventq, submits, reqs, sent>>

\* No connection in the pool: no filter is run and EOSE follows all the same.
query_unavailable(c, q) ==
  /\ q \in asking[c] /\ ~q.begun
  /\ results' = [results EXCEPT ![c] = Append(@, [rows |-> {}, eose |-> TRUE, owed |-> {}])]
  /\ asking' = [asking EXCEPT ![c] = @ \ {q}]
  /\ UNCHANGED <<settings, store, state, auth, subs, bcast, eventq, submits, reqs, sent>>

\* A query that gives up, on an error or a slow client, ends without EOSE.
query_stops(c, q) ==
  /\ q \in asking[c]
  /\ asking' = [asking EXCEPT ![c] = @ \ {q}]
  /\ UNCHANGED <<settings, store, state, auth, subs, results, bcast, eventq, submits,
                 reqs, sent>>

-------------------------------------------------------------------------------
(* The connection's task passes events on *)

Send(c, e) == sent' = [sent EXCEPT ![c] = @ \cup {e}]

deliver_result(c) ==
  /\ results[c] # << >>
  /\ LET batch == Head(results[c])
     IN  \/ /\ batch.eose
            /\ results' = [results EXCEPT ![c] = Tail(@)]
            /\ UNCHANGED sent
         \/ \E e \in batch.rows :
              /\ results' = [results EXCEPT ![c] =
                   IF batch.rows = {e} THEN Tail(@)
                   ELSE [results[c] EXCEPT ![1].rows = batch.rows \ {e}]]
              /\ IF allowed_to_send(e, c) THEN Send(c, e) ELSE UNCHANGED sent
  /\ UNCHANGED <<settings, store, state, auth, subs, asking, bcast, eventq, submits, reqs>>

deliver_bcast(c) ==
  /\ bcast[c] # << >>
  /\ bcast' = [bcast EXCEPT ![c] = Tail(@)]
  /\ LET e == Head(bcast[c])
     IN  IF (\E fs \in subs[c] : sub_interested_in_event(fs, e)) /\ allowed_to_send(e, c)
         THEN Send(c, e) ELSE UNCHANGED sent
  /\ UNCHANGED <<settings, store, state, auth, subs, asking, results, eventq, submits, reqs>>

-------------------------------------------------------------------------------
Upkeep ==
  /\ Store!delete_expired \/ Store!Tick
  /\ UNCHANGED <<settings, conn, eventq, submits, reqs, sent>>

Next ==
  \/ \E c \in Conns : connect(c) \/ disconnect(c)
  \/ \E c \in Conns, a \in AuthEvents : authenticate(c, a)
  \/ \E c \in Publishers, m \in Messages : event_msg(c, m) \/ event_panics(c, m)
  \/ db_writer
  \/ \E c \in Readers, fs \in Requests : req(c, fs)
  \/ \E c \in Conns : close(c)
  \/ \E c \in Conns : \E q \in asking[c] :
       query_filter(c, q) \/ query_eose(c, q) \/ query_unavailable(c, q) \/ query_stops(c, q)
  \/ \E c \in Conns : deliver_result(c) \/ deliver_bcast(c)
  \/ Upkeep

Spec == Init /\ [][Next]_vars

-------------------------------------------------------------------------------
(* Properties. *)

\* A connection has a key only on a relay that asks for authentication and can
\* check it, and a closed one leaves no subscription, query or result behind.
TypeOK ==
  /\ settings \in Configs
  /\ Store!TypeOK
  /\ \A c \in Conns :
       /\ state[c] \in {"new", "open", "closed"}
       /\ auth[c] \subseteq Keys /\ Cardinality(auth[c]) <= 1
       /\ auth[c] # {} => settings.nip42_auth /\ settings.relay_url # {} /\ state[c] # "new"
       /\ state[c] # "open" => subs[c] = {} /\ asking[c] = {} /\ results[c] = << >>
       /\ sent[c] \subseteq Events

\* The holder of key k signed the challenge of connection c for this relay.
Proven(c, k) ==
  \E a \in AuthEvents : /\ a.valid /\ a.pubkey = k
                        /\ a.challenge = {c} /\ a.relay = settings.relay_url

\* With nip42_dms a private event is only ever sent over a connection that speaks
\* for its author or its recipient, who signed the challenge of this very
\* connection, and for nobody else later: what the query channel or the broadcast
\* still held when the client authenticated is passed on under the key it keeps.
PrivateToParties ==
  settings.nip42_dms =>
    \A c \in Conns : \A e \in sent[c] :
      Private(e) => \E k \in auth[c] : MaySee(e, k) /\ Proven(c, k)

\* What the documents say of private events, and the code does not do: recipients
\* only.  The gate lets the author through as well.
RecipientsOnly ==
  settings.nip42_dms =>
    \A c \in Conns : \A e \in sent[c] :
      Private(e) => \E k \in auth[c] : k \in TagVals(e, "p")

\* What admission lets in the rest of the relay keeps and hands out.  A gift wrap
\* that the writer reported as saved is in the store and visible for good (it
\* cannot expire or be deleted), and one key, in lower case as clients spell it,
\* passes the read gate for it as its recipient.  When the EOSE of a request that got a database connection is the
\* next message to its client, every gift wrap that was visible when the client
\* asked, that it asked for and that its key entitled it to has been sent.
GiftWrapsReadable ==
  /\ TypeOK
  /\ \A e \in saved : e.kind = GIFT_WRAP_KIND =>
       /\ e \in Store!Visible
       /\ \E k \in Keys : k.form = "lower" /\ TagVals(e, "p") = {k} /\ MaySee(e, k)
  /\ \A c \in Conns :
       results[c] # << >> /\ Head(results[c]).eose => Head(results[c]).owed \subseteq sent[c]

\* An event whose author every reader knows by the same name: spelt in lower case
\* and nobody's delegate.
PlainEvent(e) == e.pubkey.form = "lower" /\ e.delegated_by = {}

\* A filter that PostgreSQL can read: no ids beside tags, and times that are dates.
PgFilter(f) ==
  /\ f.ids = {} \/ f.tags = {}
  /\ \A t \in f.since \cup f.until : t <= ChronoLimit

\* The broadcast, SQLite and PostgreSQL agree on which stored events a plain
\* filter selects, so that a client gets the same events whether it is connected
\* when they arrive or asks later.  What the broadcast passes on, SQLite selects,
\* for every spelling of the author; it selects nothing else, and PostgreSQL the
\* same (a filter that it can read), of the events whose author is spelt plainly.
\* Without limit and tags the two databases answer alike, up to PgLimit rows.
FiltersAgree ==
  \A c \in Conns : \A fs \in subs[c] : \A i \in DOMAIN fs :
    LET f == fs[i]
    IN  PlainFilter(f) =>
          /\ \A e \in stored :
               /\ interested_in_event(f, e) /\ e.delegated_by = {} => sqlite_selects(f, e)
               /\ PlainEvent(e) /\ sqlite_selects(f, e) => interested_in_event(f, e)
               /\ PlainEvent(e) /\ PgFilter(f) /\ e.created_at <= ChronoLimit =>
                    (interested_in_event(f, e) <=> postgres_selects(f, e))
          /\ /\ PgFilter(f) /\ f.limit = {} /\ f.tags = {}
             /\ \A e \in stored : e.delegated_by = {} /\ e.created_at <= ChronoLimit
             /\ Cardinality({e \in stored : sqlite_selects(f, e)}) <= PgLimit
             => PgAnswers(f, stored) = Answers(f, stored)

\* What a reader of filters might expect, and the code does not do: SQLite and the
\* broadcast agree on events that spell their author in upper case.
SpellingIgnored ==
  \A c \in Conns : \A fs \in subs[c] : \A i \in DOMAIN fs : \A e \in stored :
    PlainFilter(fs[i]) /\ e.delegated_by = {} =>
      (interested_in_event(fs[i], e) <=> sqlite_selects(fs[i], e))

\* The values that a condition of a delegation permits, of those up to n.
Permitted(c, n) ==
  CASE c.operator = "=" -> Range(c.values)
    [] c.operator = "!" -> (0..n) \ Range(c.values)
    [] c.operator = "<" /\ Len(c.values) = 1 -> 0..(c.values[1] - 1)
    [] c.operator = ">" /\ Len(c.values) = 1 -> (c.values[1] + 1)..n
    [] OTHER -> {}

\* An event that a client is sent in the name of a delegator lies in the set of
\* kinds and times that the delegator signed for its author.
DelegationHonoured ==
  \A c \in Conns : \A e \in sent[c] : \A k \in e.delegated_by :
    \E d \in Range(e.delegations) :
      /\ d.sig = [by |-> k.txt, to |-> e.pubkey, conds |-> d.conds]
      /\ \A i \in DOMAIN d.conds :
           LET x == ResolvedField(d.conds[i], e) IN x \in Permitted(d.conds[i], x)

===============================================================================
