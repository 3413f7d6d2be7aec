----------------------------- MODULE RelayPipeline -----------------------------
(***************************************************************************)
(* The path of an event through the relay: a connection's task accepts it   *)
(* (nostr_server), the single database writer persists and broadcasts it    *)
(* (db_writer), and each connection's task passes it on to its client, from *)
(* the broadcast channel and from the historical query of a subscription.   *)
(*                                                                         *)
(* A subscription is a record [id, filters, live]: filters is the sequence  *)
(* of the sets of events that its filters match, live says that every one   *)
(* of them has limit 0; other limits are left out.  Of the rules on         *)
(* replaceable and deleted events, which are in EventStore, this module     *)
(* keeps that a write may add nothing (Ignorable); that a write may remove  *)
(* an older event is left out, so stored only grows.  The permits and locks *)
(* of a query are in QueryPipeline.                                        *)
(***************************************************************************)
EXTENDS Naturals, Sequences, FiniteSets, Functions

CONSTANTS
  Conns,       \* websocket connections, each used once
  Events,
  Ephemeral,   \* events that are broadcast and not persisted
  Denied,      \* events that the connection's task refuses (expired, admission)
  Blocked,     \* events that the writer refuses (kinds, authors, NIP-05, gRPC)
  Ignorable,   \* events that the store may leave out: deleted before they arrive,
               \* or older than a version it holds
  Subs,        \* subscriptions that clients request
  MaxSubs,     \* ClientConn.max_subs (32)
  EventCap,    \* limits.event_persist_buffer
  BcastCap,    \* limits.broadcast_buffer
  NoticeCap,   \* capacity of a connection's notice channel (128)
  CheckEvery,  \* rows between two looks at the abandon channel (100)
  Failures,    \* may the database and the query threads fail
  MaxQueries,  \* bound on the number of queries
  MaxSubmits,  \* bound on the number of submitted events
  NoEvent

SubIds == {s.id : s \in Subs}
Wants(s) == UNION {s.filters[k] : k \in DOMAIN s.filters}

ASSUME PipelineAssumption ==
  /\ Ephemeral \subseteq Events /\ Denied \subseteq Events /\ Blocked \subseteq Events
  /\ Ignorable \subseteq Events
  /\ \A s \in Subs : s.filters \in Seq(SUBSET Events) /\ s.live \in BOOLEAN
  /\ {MaxSubs, EventCap, BcastCap, NoticeCap, CheckEvery} \subseteq Nat \ {0}
  /\ {MaxQueries, MaxSubmits} \subseteq Nat
  /\ Failures \in BOOLEAN
  /\ NoEvent \notin Events /\ "EOSE" \notin Events
  /\ Conns \cap (Conns \X SubIds) = {}

VARIABLES
  stored,    \* events in the database
  eventq,    \* the writer's channel: a sequence of <<connection, event>>
  writer,    \* [pc, from, ev]
  state,     \* per connection: "new", "open" or "closed"
  pending,   \* per connection: the event its task is waiting to submit, or NoEvent
  subs,      \* per connection: ClientConn.subscriptions
  running,   \* per connection: running_queries, id -> number of a query, or 0
  bcast,     \* per connection: broadcast messages its receiver has not taken
  results,   \* per connection: the query channel, a sequence of <<id, event or "EOSE">>
  notices,   \* per connection: the notice channel, a sequence of <<event, status>>
  queries,   \* the queries started: a sequence of [conn, sub, pc, k, rows, count, stop]
  submits,   \* number of submitted events
  view,      \* history: per connection and id, what the client saw (see NoView)
  missed,    \* history: connections that lagged, and <<connection, id>> whose
             \* query gave up
  answered   \* history: per connection, the <<event, status>> it was sent

vars == <<stored, eventq, writer, state, pending, subs, running, bcast, results, notices,
          queries, submits, view, missed, answered>>

\* Nothing was requested under an id.  got: events sent since the REQ; base:
\* wanted events that were stored at the REQ; eose: EOSE was sent since.
NoView == [asked |-> FALSE, again |-> FALSE, got |-> {}, base |-> {}, eose |-> FALSE]

Resting == [pc |-> "idle", from |-> NoEvent, ev |-> NoEvent]

Init ==
  /\ stored = {}
  /\ eventq = <<>>
  /\ writer = Resting
  /\ state = [c \in Conns |-> "new"]
  /\ pending = [c \in Conns |-> NoEvent]
  /\ subs = [c \in Conns |-> {}]
  /\ running = [c \in Conns |-> [i \in SubIds |-> 0]]
  /\ bcast = [c \in Conns |-> <<>>]
  /\ results = [c \in Conns |-> <<>>]
  /\ notices = [c \in Conns |-> <<>>]
  /\ queries = <<>>
  /\ submits = 0
  /\ view = [c \in Conns |-> [i \in SubIds |-> NoView]]
  /\ missed = {}
  /\ answered = [c \in Conns |-> {}]

-------------------------------------------------------------------------------
(* Channels *)

\* notice_tx.try_send: lost when the channel is full or its receiver is gone.
Notified(c, e, status) ==
  IF state[c] = "open" /\ Len(notices[c]) < NoticeCap
  THEN [notices EXCEPT ![c] = Append(@, <<e, status>>)]
  ELSE notices

\* A broadcast ring keeps the newest BcastCap messages: a receiver that is
\* further behind has lost the oldest (RecvError::Lagged).
Kept(msgs) == IF Len(msgs) > BcastCap THEN Tail(msgs) ELSE msgs
Lagging(msgs) == Len(msgs) > BcastCap

\* bcast_tx.send
Broadcast(e) ==
  /\ bcast' = [c \in Conns |-> IF state[c] = "open" THEN Kept(Append(bcast[c], e)) ELSE bcast[c]]
  /\ missed' = missed \cup {c \in Conns : state[c] = "open" /\ Lagging(Append(bcast[c], e))}

-------------------------------------------------------------------------------
(* The task of a connection (nostr_server) *)

\* The task is in its select loop, not waiting in event_tx.send.
Looping(c) == state[c] = "open" /\ pending[c] = NoEvent

\* The receiver of the broadcast channel exists from the start.
connect(c) ==
  /\ state[c] = "new"
  /\ state' = [state EXCEPT ![c] = "open"]
  /\ UNCHANGED <<stored, eventq, writer, pending, subs, running, bcast, results, notices,
                 queries, submits, view, missed, answered>>

\* EVENT: refused at once with a notice, or passed to event_tx.send(..).await.
event_msg(c, e) ==
  /\ Looping(c) /\ submits < MaxSubmits
  /\ submits' = submits + 1
  /\ IF e \in Denied
     THEN /\ answered' = [answered EXCEPT ![c] = @ \cup {<<e, "refused">>}]
          /\ UNCHANGED pending
     ELSE /\ pending' = [pending EXCEPT ![c] = e]
          /\ UNCHANGED answered
  /\ UNCHANGED <<stored, eventq, writer, state, subs, running, bcast, results, notices,
                 queries, view, missed>>

\* The channel has room: the await is over.
submit(c) ==
  /\ state[c] = "open" /\ pending[c] # NoEvent
  /\ Len(eventq) < EventCap
  /\ eventq' = Append(eventq, <<c, pending[c]>>)
  /\ pending' = [pending EXCEPT ![c] = NoEvent]
  /\ UNCHANGED <<stored, writer, state, subs, running, bcast, results, notices,
                 queries, submits, view, missed, answered>>

\* The subscriptions of c other than those with the id of s.
Others(c, s) == {t \in subs[c] : t.id # s.id}

NewQuery(c, s) ==
  [conn |-> c, sub |-> s, pc |-> "queued", k |-> 1, rows |-> {}, count |-> 0, stop |-> FALSE]

\* Ask a query to stop: 0 stands for no query.
Stopped(qs, n) == IF n = 0 THEN qs ELSE [qs EXCEPT ![n].stop = TRUE]

\* REQ: register the subscription, so that broadcasts are matched from now on,
\* cancel the query of a subscription that it replaces, start a query.
\* A REQ for an identical subscription, or for one too many, changes nothing.
req(c, s) ==
  /\ Looping(c) /\ s \notin subs[c]
  /\ Cardinality(Others(c, s)) < MaxSubs
  /\ Len(queries) < MaxQueries
  /\ subs' = [subs EXCEPT ![c] = Others(c, s) \cup {s}]
  /\ queries' = LET qs == Stopped(queries, running[c][s.id])
                IN  IF s.live THEN qs ELSE Append(qs, NewQuery(c, s))
  /\ running' = [running EXCEPT ![c][s.id] = IF s.live THEN 0 ELSE Len(queries) + 1]
  /\ view' = [view EXCEPT ![c][s.id] =
       [NoView EXCEPT !.asked = TRUE, !.again = view[c][s.id].asked, !.base = stored \cap Wants(s)]]
  /\ missed' = missed \ {<<c, s.id>>}
  /\ UNCHANGED <<stored, eventq, writer, state, pending, bcast, results, notices,
                 submits, answered>>

\* CLOSE: stop the query and forget the subscription.
close(c, i) ==
  /\ Looping(c) /\ \E s \in subs[c] : s.id = i
  /\ queries' = Stopped(queries, running[c][i])
  /\ running' = [running EXCEPT ![c][i] = 0]
  /\ subs' = [subs EXCEPT ![c] = {s \in @ : s.id # i}]
  /\ UNCHANGED <<stored, eventq, writer, state, pending, bcast, results, notices,
                 submits, view, missed, answered>>

\* The client is sent event e: v is what it saw so far.
Seen(v, e) == [v EXCEPT !.got = @ \cup {e}]

\* An event from the broadcast channel goes to every interested subscription.
deliver_bcast(c) ==
  /\ Looping(c) /\ bcast[c] # <<>>
  /\ bcast' = [bcast EXCEPT ![c] = Tail(@)]
  /\ LET e    == Head(bcast[c])
         hits == {s.id : s \in {t \in subs[c] : e \in Wants(t)}}
     IN  view' = [view EXCEPT ![c] = [i \in SubIds |->
                   IF i \in hits THEN Seen(@[i], e) ELSE @[i]]]
  /\ UNCHANGED <<stored, eventq, writer, state, pending, subs, running, results, notices,
                 queries, submits, missed, answered>>

\* A result of a query is passed on under its id, whether or not there still is
\* a subscription of that id.
deliver_result(c) ==
  /\ Looping(c) /\ results[c] # <<>>
  /\ results' = [results EXCEPT ![c] = Tail(@)]
  /\ LET i == Head(results[c])[1]
         e == Head(results[c])[2]
     IN  view' = [view EXCEPT ![c][i] = IF e = "EOSE" THEN [@ EXCEPT !.eose = TRUE]
                                        ELSE Seen(@, e)]
  /\ UNCHANGED <<stored, eventq, writer, state, pending, subs, running, bcast, notices,
                 queries, submits, missed, answered>>

deliver_notice(c) ==
  /\ Looping(c) /\ notices[c] # <<>>
  /\ notices' = [notices EXCEPT ![c] = Tail(@)]
  /\ answered' = [answered EXCEPT ![c] = @ \cup {Head(notices[c])}]
  /\ UNCHANGED <<stored, eventq, writer, state, pending, subs, running, bcast, results,
                 queries, submits, view, missed>>

\* The loop ends (close, error, silence, failed send): its receivers are gone
\* and every query still known is told to stop.
disconnect(c) ==
  /\ Looping(c)
  /\ state' = [state EXCEPT ![c] = "closed"]
  /\ queries' = [n \in DOMAIN queries |->
       IF \E i \in SubIds : running[c][i] = n THEN [queries[n] EXCEPT !.stop = TRUE] ELSE queries[n]]
  /\ subs' = [subs EXCEPT ![c] = {}]
  /\ running' = [running EXCEPT ![c] = [i \in SubIds |-> 0]]
  /\ bcast' = [bcast EXCEPT ![c] = <<>>]
  /\ results' = [results EXCEPT ![c] = <<>>]
  /\ notices' = [notices EXCEPT ![c] = <<>>]
  /\ UNCHANGED <<stored, eventq, writer, pending, submits, view, missed, answered>>

-------------------------------------------------------------------------------
(* The database writer (db_writer): one event at a time *)

writerOnly == <<state, pending, subs, running, results, queries, submits, view, answered>>

\* Take the next event; one that is refused is answered "blocked", and one whose
\* verification status cannot be read is not answered at all.
writer_recv ==
  /\ writer.pc = "idle" /\ eventq # <<>>
  /\ eventq' = Tail(eventq)
  /\ LET c == Head(eventq)[1]
         e == Head(eventq)[2]
     IN  \/ /\ e \in Blocked
            /\ notices' = Notified(c, e, "blocked")
            /\ UNCHANGED writer
         \/ /\ Failures
            /\ UNCHANGED <<notices, writer>>
         \/ /\ e \notin Blocked
            /\ writer' = [pc |-> IF e \in Ephemeral THEN "bcast" ELSE "write", from |-> c, ev |-> e]
            /\ UNCHANGED notices
  /\ UNCHANGED writerOnly /\ UNCHANGED <<stored, bcast, missed>>

\* Mutant: a failed write is answered like a successful one.
writer_write_errorSaved ==
  /\ writer.pc = "write"
  /\ \/ writer.ev \in stored \cup Ignorable /\ UNCHANGED stored
     \/ writer.ev \notin stored /\ stored' = stored \cup {writer.ev}
     \/ Failures /\ UNCHANGED stored
  /\ writer' = [writer EXCEPT !.pc = "bcast"]
  /\ UNCHANGED writerOnly /\ UNCHANGED <<eventq, notices, bcast, missed>>

\* Mutant: an event that is not added is not answered.
writer_write_silent ==
  /\ writer.pc = "write"
  /\ \/ /\ writer.ev \in stored \cup Ignorable
        /\ writer' = Resting /\ UNCHANGED <<notices, stored>>
     \/ /\ writer.ev \notin stored
        /\ stored' = stored \cup {writer.ev}
        /\ writer' = [writer EXCEPT !.pc = "bcast"] /\ UNCHANGED notices
  /\ UNCHANGED writerOnly /\ UNCHANGED <<eventq, bcast, missed>>

\* repo.write_event: nothing added, one event added, or an error.  Nothing is
\* added when the event is stored already, and also when it is deleted or older
\* than what is stored: the answer is "duplicate" for all of them.
writer_write ==
  /\ writer.pc = "write"
  /\ \/ /\ writer.ev \in stored \cup Ignorable
        /\ notices' = Notified(writer.from, writer.ev, "duplicate")
        /\ writer' = Resting /\ UNCHANGED stored
     \/ /\ writer.ev \notin stored
        /\ stored' = stored \cup {writer.ev}
        /\ writer' = [writer EXCEPT !.pc = "bcast"] /\ UNCHANGED notices
     \/ /\ Failures
        /\ notices' = Notified(writer.from, writer.ev, "error")
        /\ writer' = Resting /\ UNCHANGED stored
  /\ UNCHANGED writerOnly /\ UNCHANGED <<eventq, bcast, missed>>

\* bcast_tx.send, after the commit.
writer_bcast ==
  /\ writer.pc = "bcast"
  /\ Broadcast(writer.ev)
  /\ writer' = [writer EXCEPT !.pc = "notice"]
  /\ UNCHANGED writerOnly /\ UNCHANGED <<stored, eventq, notices>>

writer_notice ==
  /\ writer.pc = "notice"
  /\ notices' = Notified(writer.from, writer.ev, "saved")
  /\ writer' = Resting
  /\ UNCHANGED writerOnly /\ UNCHANGED <<stored, eventq, bcast, missed>>

\* Mutant: an event is broadcast before it is persisted.
Writer_bcastFirst ==
  \/ writer_recv
  \/ /\ writer.pc = "write"
     /\ Broadcast(writer.ev)
     /\ writer' = [writer EXCEPT !.pc = "bcast"]
     /\ UNCHANGED writerOnly /\ UNCHANGED <<stored, eventq, notices>>
  \/ /\ writer.pc = "bcast"
     /\ stored' = stored \cup ({writer.ev} \ Ephemeral)
     /\ writer' = [writer EXCEPT !.pc = "notice"]
     /\ UNCHANGED writerOnly /\ UNCHANGED <<eventq, bcast, missed, notices>>
  \/ writer_notice

Writer == writer_recv \/ writer_write \/ writer_bcast \/ writer_notice

-------------------------------------------------------------------------------
(* A historical query (query_subscription), on a thread of its own *)

queryOnly == <<stored, eventq, writer, state, pending, subs, running, bcast, notices,
               submits, view, answered>>

\* query_tx.blocking_send, which fails when the connection is gone.
Deposited(q, item) ==
  IF state[q.conn] = "open" THEN [results EXCEPT ![q.conn] = Append(@, <<q.sub.id, item>>)]
  ELSE results

\* Query n gives up; only the current query of an id is missed by its client.
GivesUp(n) ==
  LET q == queries[n]
  IN  missed' = IF running[q.conn][q.sub.id] = n THEN missed \cup {<<q.conn, q.sub.id>>} ELSE missed

\* Shed after five seconds in the queue, stopped, or begun; without a database
\* connection no filter is run and EOSE follows.
query_begin(n) ==
  /\ queries[n].pc = "queued"
  /\ \/ /\ Failures /\ GivesUp(n)
        /\ \E pc \in {"done", "eose"} : queries' = [queries EXCEPT ![n].pc = pc]
     \/ /\ queries[n].stop
        /\ queries' = [queries EXCEPT ![n].pc = "done"] /\ UNCHANGED missed
     \/ /\ ~queries[n].stop
        /\ queries' = [queries EXCEPT ![n].pc = "filter"] /\ UNCHANGED missed
  /\ UNCHANGED queryOnly /\ UNCHANGED results

\* Mutant: the last filter is left out.
query_filter_skipsLast(n) ==
  LET q == queries[n]
  IN  /\ q.pc = "filter"
      /\ queries' = [queries EXCEPT ![n] =
           IF q.k < Len(q.sub.filters)
           THEN [@ EXCEPT !.pc = "rows", !.rows = stored \cap q.sub.filters[q.k]]
           ELSE [@ EXCEPT !.pc = "eose"]]
      /\ UNCHANGED queryOnly /\ UNCHANGED <<results, missed>>

\* The statement of the next filter takes its snapshot of the database.
query_filter(n) ==
  LET q == queries[n]
  IN  /\ q.pc = "filter"
      /\ queries' = [queries EXCEPT ![n] =
           IF q.k <= Len(q.sub.filters)
           THEN [@ EXCEPT !.pc = "rows", !.rows = stored \cap q.sub.filters[q.k]]
           ELSE [@ EXCEPT !.pc = "eose"]]
      /\ UNCHANGED queryOnly /\ UNCHANGED <<results, missed>>

\* The next row.  At row 0, 100, 200, ... of the query the oneshot is looked at;
\* a checkpoint, an SQL error or a slow client ends the query anywhere.
query_row(n) ==
  LET q == queries[n]
      looks == q.count % CheckEvery = 0
  IN  /\ q.pc = "rows" /\ q.rows # {}
      /\ \/ /\ looks /\ q.stop
            /\ queries' = [queries EXCEPT ![n].pc = "done", ![n].rows = {}]
            /\ UNCHANGED <<results, missed>>
         \/ /\ Failures /\ GivesUp(n)
            /\ queries' = [queries EXCEPT ![n].pc = "done", ![n].rows = {}]
            /\ UNCHANGED results
         \/ /\ ~(looks /\ q.stop)
            /\ \E e \in q.rows :
                 /\ results' = Deposited(q, e)
                 /\ queries' = [queries EXCEPT ![n].rows = @ \ {e}, ![n].count = @ + 1]
            /\ UNCHANGED missed
      /\ UNCHANGED queryOnly

query_filter_done(n) ==
  /\ queries[n].pc = "rows" /\ queries[n].rows = {}
  /\ queries' = [queries EXCEPT ![n].pc = "filter", ![n].k = @ + 1]
  /\ UNCHANGED queryOnly /\ UNCHANGED <<results, missed>>

query_eose(n) ==
  /\ queries[n].pc = "eose"
  /\ results' = Deposited(queries[n], "EOSE")
  /\ queries' = [queries EXCEPT ![n].pc = "done"]
  /\ UNCHANGED queryOnly /\ UNCHANGED missed

Query(n) ==
  query_begin(n) \/ query_filter(n) \/ query_row(n) \/ query_filter_done(n) \/ query_eose(n)

-------------------------------------------------------------------------------
\* The branches of the select loop that a connection's task can always take.
Deliver(c) == deliver_bcast(c) \/ deliver_result(c) \/ deliver_notice(c)

Next ==
  \/ \E c \in Conns : \/ connect(c) \/ submit(c) \/ Deliver(c) \/ disconnect(c)
                      \/ \E e \in Events : event_msg(c, e)
                      \/ \E s \in Subs : req(c, s)
                      \/ \E i \in SubIds : close(c, i)
  \/ Writer
  \/ \E n \in DOMAIN queries : Query(n)

Spec == Init /\ [][Next]_vars

\* The writer task, the query threads and the connection tasks are scheduled;
\* select! takes its ready branches in a random order, so each gets its turn.
FairSpec ==
  /\ Spec
  /\ WF_vars(Writer)
  /\ \A n \in 1..MaxQueries : WF_vars(n \in DOMAIN queries /\ Query(n))
  /\ \A c \in Conns : /\ WF_vars(submit(c)) /\ WF_vars(deliver_bcast(c))
                      /\ WF_vars(deliver_result(c)) /\ WF_vars(deliver_notice(c))

-------------------------------------------------------------------------------
(* Properties *)

Statuses == {"saved", "duplicate", "blocked", "error", "refused"}

\* Types, and the bounds of the channels.
TypeOK ==
  /\ stored \subseteq Events \ Ephemeral
  /\ eventq \in Seq(Conns \X Events) /\ Len(eventq) <= EventCap
  /\ writer.pc \in {"idle", "write", "bcast", "notice"}
  /\ state \in [Conns -> {"new", "open", "closed"}]
  /\ pending \in [Conns -> Events \cup {NoEvent}]
  /\ subs \in [Conns -> SUBSET Subs]
  /\ \A c \in Conns : Cardinality(subs[c]) <= MaxSubs
  /\ \A c \in Conns : \A s, t \in subs[c] : s.id = t.id => s = t
  /\ \A c \in Conns : bcast[c] \in Seq(Events) /\ Len(bcast[c]) <= BcastCap
  /\ \A c \in Conns : results[c] \in Seq(SubIds \X (Events \cup {"EOSE"}))
  /\ \A c \in Conns : notices[c] \in Seq(Events \X Statuses) /\ Len(notices[c]) <= NoticeCap
  /\ \A n \in DOMAIN queries : queries[n].pc \in {"queued", "filter", "rows", "eose", "done"}
  /\ \A c \in Conns : answered[c] \subseteq Events \X Statuses

\* Query n has yet to find or to send event e.
Ahead(n, e) ==
  LET q == queries[n]
  IN  \/ q.pc = "queued"
      \/ e \in q.rows
      \/ \E k \in DOMAIN q.sub.filters :
           /\ e \in q.sub.filters[k]
           /\ \/ q.pc = "filter" /\ k >= q.k
              \/ q.pc = "rows" /\ k > q.k

\* No event falls between the historical query and the live feed: a stored event
\* that a subscription wants has been sent to the client, or is on its way to it,
\* however the write, the REQ and the query interleave.  Only a client that lags
\* behind the broadcast channel or whose query gave up is excepted.
NoGap ==
  \A c \in Conns : \A s \in subs[c] :
    \A e \in (stored \cap Wants(s)) \ (IF s.live THEN view[c][s.id].base ELSE {}) :
      \/ e \in view[c][s.id].got
      \/ e \in Range(bcast[c])
      \/ <<s.id, e>> \in Range(results[c])
      \/ writer.pc = "bcast" /\ writer.ev = e
      \/ running[c][s.id] # 0 /\ Ahead(running[c][s.id], e)
      \/ c \in missed \/ <<c, s.id>> \in missed

\* When a client is sent EOSE for an id it uses for the first time, it has been
\* sent every wanted event that was stored when it made its request.
EoseComplete ==
  \A c \in Conns : \A s \in subs[c] :
    LET v == view[c][s.id]
    IN  v.eose /\ ~v.again /\ <<c, s.id>> \notin missed => v.base \subseteq v.got

\* The OK message is true: an event answered as saved was put in the database,
\* unless it is ephemeral, though the write may fail and other writes, queries
\* and answers come between.  "duplicate" says less: such an event is in the
\* database or is one that the store left out.
SavedIsStored ==
  /\ TypeOK
  /\ \A c \in Conns : \A e \in Events \ Ephemeral :
       LET told == answered[c] \cup Range(notices[c])
       IN  /\ <<e, "saved">> \in told => e \in stored
           /\ <<e, "duplicate">> \in told => e \in stored \cup Ignorable

\* Every event that a client submits is answered while the client stays (without
\* failures, and with room in its notice channel).
Answered ==
  \A c \in Conns, e \in Events :
    pending[c] = e ~> state[c] = "closed" \/ \E st \in Statuses : <<e, st>> \in answered[c]

\* Every stored event reaches every subscription that wants it, in the end.
Delivered ==
  \A c \in Conns, s \in Subs, e \in Events :
    (s \in subs[c] /\ ~s.live /\ e \in stored \cap Wants(s))
      ~> (s \notin subs[c] \/ e \in view[c][s.id].got \/ c \in missed)

===============================================================================
