-------------------------- MODULE RelayPipelineProofs --------------------------
(* Theorems about RelayPipeline, for any connections, events, subscriptions, *)
(* channel capacities and bounds.                                            *)
EXTENDS RelayPipeline, FiniteSetTheorems, TLAPS

Items == SubIds \X (Events \cup {"EOSE"})
Replies == Events \X Statuses

QueryPCs == {"queued", "filter", "rows", "eose", "done"}

QueryRecs ==
  [conn : Conns, sub : Subs, pc : QueryPCs, k : Nat, rows : SUBSET Events, count : Nat,
   stop : BOOLEAN]

Views ==
  [asked : BOOLEAN, again : BOOLEAN, got : SUBSET Events, base : SUBSET Events, eose : BOOLEAN]

Writers ==
  [pc : {"idle", "write", "bcast", "notice"}, from : Conns \cup {NoEvent},
   ev : Events \cup {NoEvent}]

\* The types of all variables, those of the history included, by component.
WriterType ==
  /\ stored \subseteq Events \ Ephemeral
  /\ eventq \in Seq(Conns \X Events) /\ Len(eventq) <= EventCap
  /\ writer \in Writers
  /\ writer.pc # "idle" => writer.from \in Conns /\ writer.ev \in Events
  /\ writer.pc = "write" => writer.ev \notin Ephemeral

ConnType ==
  /\ state \in [Conns -> {"new", "open", "closed"}]
  /\ pending \in [Conns -> Events \cup {NoEvent}]
  /\ subs \in [Conns -> SUBSET Subs]
  /\ \A c \in Conns : IsFiniteSet(subs[c]) /\ Cardinality(subs[c]) <= MaxSubs
  /\ \A c \in Conns : \A s, t \in subs[c] : s.id = t.id => s = t

BcastType == bcast \in [Conns -> Seq(Events)] /\ \A c \in Conns : Len(bcast[c]) <= BcastCap
ResultsType == results \in [Conns -> Seq(Items)]
NoticesType ==
  /\ notices \in [Conns -> Seq(Replies)] /\ \A c \in Conns : Len(notices[c]) <= NoticeCap
  /\ answered \in [Conns -> SUBSET Replies]

QueryType ==
  /\ running \in [Conns -> [SubIds -> Nat]]
  /\ queries \in Seq(QueryRecs)

ViewType == view \in [Conns -> [SubIds -> Views]]

PipeType ==
  WriterType /\ ConnType /\ BcastType /\ ResultsType /\ NoticesType /\ QueryType /\ ViewType

-------------------------------------------------------------------------------
(* Channels as sequences. *)

\* What a channel holds after a message was put into it.
LEMMA AppendFacts ==
  ASSUME NEW S, NEW q \in Seq(S), NEW x \in S
  PROVE  /\ Append(q, x) \in Seq(S) /\ Len(Append(q, x)) = Len(q) + 1
         /\ DOMAIN Append(q, x) = 1..(Len(q) + 1)
         /\ \A p \in 1..Len(q) : Append(q, x)[p] = q[p]
         /\ Append(q, x)[Len(q) + 1] = x
         /\ Range(Append(q, x)) = Range(q) \cup {x}
<1>1. /\ Append(q, x) \in Seq(S) /\ Len(Append(q, x)) = Len(q) + 1
      /\ DOMAIN Append(q, x) = 1..(Len(q) + 1)
      /\ \A p \in 1..Len(q) : Append(q, x)[p] = q[p]
      /\ Append(q, x)[Len(q) + 1] = x
  OBVIOUS
<1>2. Range(Append(q, x)) = Range(q) \cup {x}
  BY <1>1 DEF Range
<1> QED
  BY <1>1, <1>2

\* What it holds after its first message was taken.
LEMMA TailFacts ==
  ASSUME NEW S, NEW q \in Seq(S), q # <<>>
  PROVE  /\ Tail(q) \in Seq(S) /\ Len(q) \in Nat /\ Len(q) >= 1 /\ Len(Tail(q)) = Len(q) - 1
         /\ \A p \in 1..(Len(q) - 1) : Tail(q)[p] = q[p + 1]
         /\ Head(q) = q[1] /\ Head(q) \in S
         /\ Range(q) = {Head(q)} \cup Range(Tail(q))
<1>1. /\ Tail(q) \in Seq(S) /\ Len(q) \in Nat /\ Len(q) >= 1 /\ Len(Tail(q)) = Len(q) - 1
      /\ \A p \in 1..(Len(q) - 1) : Tail(q)[p] = q[p + 1]
      /\ Head(q) = q[1] /\ Head(q) \in S
      /\ DOMAIN Tail(q) = 1..(Len(q) - 1) /\ DOMAIN q = 1..Len(q)
  OBVIOUS
<1>2. Range(q) \subseteq {Head(q)} \cup Range(Tail(q))
  <2> SUFFICES ASSUME NEW p \in 1..Len(q), p # 1
               PROVE  q[p] \in Range(Tail(q))
    BY <1>1 DEF Range
  <2>1. p - 1 \in 1..(Len(q) - 1) /\ Tail(q)[p - 1] = q[p]
    BY <1>1
  <2> QED
    BY <2>1, <1>1 DEF Range
<1>3. {Head(q)} \cup Range(Tail(q)) \subseteq Range(q)
  BY <1>1 DEF Range
<1> QED
  BY <1>1, <1>2, <1>3

\* A notice is lost or appended.
LEMMA NotifiedFacts ==
  ASSUME NoticesType, NEW c \in Conns, NEW e \in Events, NEW st \in Statuses,
         notices' = Notified(c, e, st), answered' = answered
  PROVE  /\ NoticesType'
         /\ \A d \in Conns : Range(notices'[d]) \subseteq Range(notices[d]) \cup {<<e, st>>}
<1>1. NoticeCap \in Nat
  BY PipelineAssumption
<1>2. notices[c] \in Seq(Replies) /\ <<e, st>> \in Replies
  BY DEF NoticesType, Replies
<1>3. /\ Append(notices[c], <<e, st>>) \in Seq(Replies)
      /\ Len(Append(notices[c], <<e, st>>)) = Len(notices[c]) + 1
      /\ Range(Append(notices[c], <<e, st>>)) = Range(notices[c]) \cup {<<e, st>>}
  BY <1>2, AppendFacts
<1> HIDE DEF Replies
<1>4. CASE state[c] = "open" /\ Len(notices[c]) < NoticeCap
  <2>1. notices' = [notices EXCEPT ![c] = Append(notices[c], <<e, st>>)]
    BY <1>4 DEF Notified
  <2>2. Len(Append(notices[c], <<e, st>>)) <= NoticeCap
    BY <1>1, <1>2, <1>3, <1>4
  <2> QED
    BY <2>1, <2>2, <1>3 DEF NoticesType
<1>5. CASE ~(state[c] = "open" /\ Len(notices[c]) < NoticeCap)
  BY <1>5 DEF Notified, NoticesType
<1> QED
  BY <1>4, <1>5

\* The types above are those of TypeOK.
LEMMA PipeTypeIsTypeOK == PipeType => TypeOK
<1> SUFFICES ASSUME PipeType PROVE TypeOK
  OBVIOUS
<1>1. \A n \in DOMAIN queries : queries[n].pc \in {"queued", "filter", "rows", "eose", "done"}
  <2>1. \A n \in DOMAIN queries : queries[n] \in QueryRecs
    BY DEF PipeType, QueryType
  <2> QED
    BY <2>1 DEF QueryRecs, QueryPCs
<1>2. writer.pc \in {"idle", "write", "bcast", "notice"}
  BY DEF PipeType, WriterType, Writers
<1>3. \A c \in Conns : results[c] \in Seq(SubIds \X (Events \cup {"EOSE"}))
  BY DEF PipeType, ResultsType, Items
<1>4. /\ \A c \in Conns : notices[c] \in Seq(Events \X Statuses) /\ Len(notices[c]) <= NoticeCap
      /\ \A c \in Conns : answered[c] \subseteq Events \X Statuses
  BY DEF PipeType, NoticesType, Replies
<1>5. \A c \in Conns : bcast[c] \in Seq(Events) /\ Len(bcast[c]) <= BcastCap
  BY DEF PipeType, BcastType
<1> QED
  BY <1>1, <1>2, <1>3, <1>4, <1>5 DEF PipeType, WriterType, ConnType, TypeOK

-------------------------------------------------------------------------------
(* Type correctness. *)

\* The initial state is typed.
LEMMA TypeInit == Init => PipeType
<1> SUFFICES ASSUME Init PROVE PipeType
  OBVIOUS
<1>1. WriterType
  BY PipelineAssumption DEF Init, WriterType, Writers, Resting
<1>2. ConnType
  <2>1. \A c \in Conns : subs[c] = {}
    BY DEF Init
  <2>2. IsFiniteSet({}) /\ Cardinality({}) = 0 /\ MaxSubs \in Nat
    BY FS_EmptySet, PipelineAssumption
  <2>3. \A c \in Conns : IsFiniteSet(subs[c]) /\ Cardinality(subs[c]) <= MaxSubs
    BY <2>1, <2>2
  <2> QED
    BY <2>1, <2>3 DEF Init, ConnType
<1>3. BcastType
  BY PipelineAssumption DEF Init, BcastType
<1>4. ResultsType
  BY DEF Init, ResultsType
<1>5. NoticesType
  BY PipelineAssumption DEF Init, NoticesType
<1>6. QueryType
  BY DEF Init, QueryType
<1>7. ViewType
  BY DEF Init, ViewType, Views, NoView
<1> QED
  BY <1>1, <1>2, <1>3, <1>4, <1>5, <1>6, <1>7 DEF PipeType

\* A query that is asked to stop keeps everything else.
LEMMA StoppedFacts ==
  ASSUME QueryType, NEW n \in Nat
  PROVE  /\ Stopped(queries, n) \in Seq(QueryRecs)
         /\ Len(Stopped(queries, n)) = Len(queries)
         /\ \A m \in 1..Len(queries) :
              /\ Stopped(queries, n)[m].conn = queries[m].conn
              /\ Stopped(queries, n)[m].sub = queries[m].sub
              /\ Stopped(queries, n)[m].pc = queries[m].pc
              /\ Stopped(queries, n)[m].k = queries[m].k
              /\ Stopped(queries, n)[m].rows = queries[m].rows
              /\ m # n => Stopped(queries, n)[m] = queries[m]
<1>1. queries \in Seq(QueryRecs)
  BY DEF QueryType
<1>2. CASE n = 0 \/ n \notin 1..Len(queries)
  <2>1. Stopped(queries, n) = queries
    BY <1>1, <1>2 DEF Stopped
  <2> QED
    BY <2>1, <1>1
<1>3. CASE n # 0 /\ n \in 1..Len(queries)
  <2> DEFINE q == [queries[n] EXCEPT !.stop = TRUE]
  <2>1. queries[n] \in QueryRecs
    BY <1>1, <1>3
  <2>2. /\ q \in QueryRecs /\ q.conn = queries[n].conn /\ q.sub = queries[n].sub
        /\ q.pc = queries[n].pc /\ q.k = queries[n].k /\ q.rows = queries[n].rows
    BY <2>1 DEF QueryRecs
  <2>3. Stopped(queries, n) = [queries EXCEPT ![n] = q]
    BY <1>3 DEF Stopped
  <2> HIDE DEF q
  <2> QED
    BY <2>2, <2>3, <1>1, <1>3
<1> QED
  BY <1>2, <1>3

\* REQ replaces a subscription, stops its query and may start another.
LEMMA ReqFacts ==
  ASSUME PipeType, NEW c \in Conns, NEW s \in Subs, req(c, s)
  PROVE  /\ PipeType'
         /\ Len(queries') = IF s.live THEN Len(queries) ELSE Len(queries) + 1
         /\ \A m \in 1..Len(queries) :
              /\ queries'[m].conn = queries[m].conn /\ queries'[m].sub = queries[m].sub
              /\ queries'[m].pc = queries[m].pc /\ queries'[m].k = queries[m].k
              /\ queries'[m].rows = queries[m].rows
              /\ m # running[c][s.id] => queries'[m] = queries[m]
         /\ ~s.live => queries'[Len(queries) + 1] = NewQuery(c, s)
<1> DEFINE n == running[c][s.id]
           qs == Stopped(queries, n)
<1>1. s.id \in SubIds /\ s.live \in BOOLEAN
  BY PipelineAssumption DEF SubIds
<1>2. n \in Nat /\ Len(queries) \in Nat
  BY <1>1 DEF PipeType, QueryType
<1>3. /\ qs \in Seq(QueryRecs) /\ Len(qs) = Len(queries)
      /\ \A m \in 1..Len(queries) :
           /\ qs[m].conn = queries[m].conn /\ qs[m].sub = queries[m].sub
           /\ qs[m].pc = queries[m].pc /\ qs[m].k = queries[m].k
           /\ qs[m].rows = queries[m].rows
           /\ m # n => qs[m] = queries[m]
  BY <1>2, StoppedFacts DEF PipeType
<1>4. queries' = IF s.live THEN qs ELSE Append(qs, NewQuery(c, s))
  BY DEF req
<1>5. NewQuery(c, s) \in QueryRecs
  BY DEF NewQuery, QueryRecs, QueryPCs
<1>6. /\ Append(qs, NewQuery(c, s)) \in Seq(QueryRecs)
      /\ Len(Append(qs, NewQuery(c, s))) = Len(queries) + 1
      /\ \A m \in 1..Len(queries) : Append(qs, NewQuery(c, s))[m] = qs[m]
      /\ Append(qs, NewQuery(c, s))[Len(queries) + 1] = NewQuery(c, s)
  BY <1>3, <1>5, AppendFacts
<1> HIDE DEF qs
<1>7. /\ queries' \in Seq(QueryRecs)
      /\ Len(queries') = IF s.live THEN Len(queries) ELSE Len(queries) + 1
  BY <1>3, <1>4, <1>6
<1>8. \A m \in 1..Len(queries) :
        /\ queries'[m].conn = queries[m].conn /\ queries'[m].sub = queries[m].sub
        /\ queries'[m].pc = queries[m].pc /\ queries'[m].k = queries[m].k
        /\ queries'[m].rows = queries[m].rows
        /\ m # running[c][s.id] => queries'[m] = queries[m]
  BY <1>3, <1>4, <1>6
<1>9. ~s.live => queries'[Len(queries) + 1] = NewQuery(c, s)
  BY <1>4, <1>6
<1>10. running' \in [Conns -> [SubIds -> Nat]]
  BY <1>1, <1>2 DEF req, PipeType, QueryType
<1>11. ConnType'
  <2>1. IsFiniteSet(Others(c, s)) /\ Others(c, s) \subseteq subs[c]
    BY FS_Subset DEF PipeType, ConnType, Others
  <2>2. s \notin Others(c, s)
    BY DEF Others
  <2>3. /\ IsFiniteSet(Others(c, s) \cup {s})
        /\ Cardinality(Others(c, s) \cup {s}) = Cardinality(Others(c, s)) + 1
    BY <2>1, <2>2, FS_AddElement
  <2>4. Cardinality(Others(c, s) \cup {s}) <= MaxSubs
    BY <2>1, <2>3, FS_CardinalityType, PipelineAssumption DEF req
  <2>5. subs' = [subs EXCEPT ![c] = Others(c, s) \cup {s}]
    BY DEF req
  <2>6. \A t, u \in Others(c, s) \cup {s} : t.id = u.id => t = u
    BY <2>1 DEF Others, PipeType, ConnType
  <2>7. subs' \in [Conns -> SUBSET Subs]
    BY <2>1, <2>5 DEF PipeType, ConnType
  <2>8. \A d \in Conns : subs'[d] = IF d = c THEN Others(c, s) \cup {s} ELSE subs[d]
    BY <2>5 DEF PipeType, ConnType
  <2> QED
    BY <2>3, <2>4, <2>6, <2>7, <2>8 DEF req, PipeType, ConnType
<1>12. ViewType'
  <2>1. stored \cap Wants(s) \subseteq Events
    BY DEF PipeType, WriterType
  <2>2. view[c][s.id].asked \in BOOLEAN
    BY <1>1 DEF PipeType, ViewType, Views
  <2>3. [NoView EXCEPT !.asked = TRUE, !.again = view[c][s.id].asked, !.base = stored \cap Wants(s)]
          \in Views
    BY <2>1, <2>2 DEF NoView, Views
  <2> QED
    BY <2>3, <1>1 DEF req, PipeType, ViewType
<1>13. WriterType' /\ BcastType' /\ ResultsType' /\ NoticesType'
  BY DEF req, PipeType, WriterType, BcastType, ResultsType, NoticesType
<1>14. QueryType'
  BY <1>7, <1>10 DEF QueryType
<1> QED
  BY <1>7, <1>8, <1>9, <1>11, <1>12, <1>13, <1>14 DEF PipeType

\* CLOSE stops the query of a subscription and drops the subscription.
LEMMA CloseFacts ==
  ASSUME PipeType, NEW c \in Conns, NEW i \in SubIds, close(c, i)
  PROVE  /\ PipeType'
         /\ Len(queries') = Len(queries)
         /\ \A m \in 1..Len(queries) :
              /\ queries'[m].conn = queries[m].conn /\ queries'[m].sub = queries[m].sub
              /\ queries'[m].pc = queries[m].pc /\ queries'[m].k = queries[m].k
              /\ queries'[m].rows = queries[m].rows
              /\ m # running[c][i] => queries'[m] = queries[m]
<1>1. running[c][i] \in Nat
  BY DEF PipeType, QueryType
<1>2. /\ queries' \in Seq(QueryRecs) /\ Len(queries') = Len(queries)
      /\ \A m \in 1..Len(queries) :
              /\ queries'[m].conn = queries[m].conn /\ queries'[m].sub = queries[m].sub
              /\ queries'[m].pc = queries[m].pc /\ queries'[m].k = queries[m].k
              /\ queries'[m].rows = queries[m].rows
              /\ m # running[c][i] => queries'[m] = queries[m]
  BY <1>1, StoppedFacts DEF PipeType, close
<1>3. running' \in [Conns -> [SubIds -> Nat]]
  BY DEF close, PipeType, QueryType
<1>4. ConnType'
  <2> DEFINE rest == {s \in subs[c] : s.id # i}
  <2>1. IsFiniteSet(subs[c]) /\ rest \subseteq subs[c]
    BY DEF PipeType, ConnType
  <2>2. /\ IsFiniteSet(rest) /\ Cardinality(rest) <= Cardinality(subs[c])
        /\ Cardinality(rest) \in Nat /\ Cardinality(subs[c]) \in Nat
    BY <2>1, FS_Subset, FS_CardinalityType
  <2>3. Cardinality(rest) <= MaxSubs
    BY <2>2, PipelineAssumption DEF PipeType, ConnType
  <2>4. \A d \in Conns : subs'[d] = IF d = c THEN rest ELSE subs[d]
    BY DEF close, PipeType, ConnType
  <2>5. subs' \in [Conns -> SUBSET Subs]
    BY DEF close, PipeType, ConnType
  <2>6. \A s, t \in rest : s.id = t.id => s = t
    BY DEF PipeType, ConnType
  <2> HIDE DEF rest
  <2> QED
    BY <2>2, <2>3, <2>4, <2>5, <2>6 DEF close, PipeType, ConnType
<1>5. WriterType' /\ BcastType' /\ ResultsType' /\ NoticesType' /\ ViewType'
  BY DEF close, PipeType, WriterType, BcastType, ResultsType, NoticesType, ViewType
<1> QED
  BY <1>2, <1>3, <1>4, <1>5 DEF PipeType, QueryType

\* A connection that ends forgets its subscriptions and stops their queries.
LEMMA DisconnectFacts ==
  ASSUME PipeType, NEW c \in Conns, disconnect(c)
  PROVE  /\ PipeType'
         /\ Len(queries') = Len(queries)
         /\ \A m \in 1..Len(queries) :
              /\ queries'[m].conn = queries[m].conn /\ queries'[m].sub = queries[m].sub
              /\ queries'[m].pc = queries[m].pc /\ queries'[m].k = queries[m].k
              /\ queries'[m].rows = queries[m].rows
              /\ (\A i \in SubIds : running[c][i] # m) => queries'[m] = queries[m]
<1> DEFINE Told(m) == [queries[m] EXCEPT !.stop = TRUE]
<1>1. queries \in Seq(QueryRecs) /\ Len(queries) \in Nat /\ DOMAIN queries = 1..Len(queries)
  BY DEF PipeType, QueryType
<1>2. \A m \in 1..Len(queries) : queries[m] \in QueryRecs
  BY <1>1
<1>3. \A m \in 1..Len(queries) :
        /\ Told(m) \in QueryRecs
        /\ Told(m).conn = queries[m].conn /\ Told(m).sub = queries[m].sub
        /\ Told(m).pc = queries[m].pc /\ Told(m).k = queries[m].k
        /\ Told(m).rows = queries[m].rows
  BY <1>2 DEF QueryRecs
<1>4. queries' = [m \in 1..Len(queries) |->
                    IF \E i \in SubIds : running[c][i] = m THEN Told(m) ELSE queries[m]]
  BY <1>1 DEF disconnect
<1> HIDE DEF Told
<1>5. queries' \in Seq(QueryRecs) /\ Len(queries') = Len(queries)
  BY <1>1, <1>2, <1>3, <1>4
<1>6. \A m \in 1..Len(queries) :
              /\ queries'[m].conn = queries[m].conn /\ queries'[m].sub = queries[m].sub
              /\ queries'[m].pc = queries[m].pc /\ queries'[m].k = queries[m].k
              /\ queries'[m].rows = queries[m].rows
              /\ (\A i \in SubIds : running[c][i] # m) => queries'[m] = queries[m]
  BY <1>3, <1>4
<1>7. ConnType'
  <2>1. IsFiniteSet({}) /\ Cardinality({}) = 0 /\ MaxSubs \in Nat
    BY FS_EmptySet, PipelineAssumption
  <2>2. \A d \in Conns : subs'[d] = IF d = c THEN {} ELSE subs[d]
    BY DEF disconnect, PipeType, ConnType
  <2>3. \A d \in Conns : IsFiniteSet(subs'[d]) /\ Cardinality(subs'[d]) <= MaxSubs
    BY <2>1, <2>2 DEF PipeType, ConnType
  <2>4. /\ state' \in [Conns -> {"new", "open", "closed"}]
        /\ pending' \in [Conns -> Events \cup {NoEvent}]
        /\ subs' \in [Conns -> SUBSET Subs]
        /\ \A d \in Conns : \A s, t \in subs'[d] : s.id = t.id => s = t
    BY <2>2 DEF disconnect, PipeType, ConnType
  <2> QED
    BY <2>3, <2>4 DEF ConnType
<1>8. BcastType' /\ ResultsType'
  BY PipelineAssumption DEF disconnect, PipeType, BcastType, ResultsType
<1>9. NoticesType'
  BY PipelineAssumption DEF disconnect, PipeType, NoticesType
<1>10. QueryType'
  BY <1>5 DEF disconnect, PipeType, QueryType
<1>11. WriterType' /\ ViewType'
  BY DEF disconnect, PipeType, WriterType, ViewType
<1> QED
  BY <1>5, <1>6, <1>7, <1>8, <1>9, <1>10, <1>11 DEF PipeType

\* The steps of query n, by what becomes of its fields, its results and missed.
Begins(n) ==
  /\ queries[n].pc = "queued" /\ results' = results
  /\ queries'[n].k = queries[n].k /\ queries'[n].rows = queries[n].rows
  /\ \/ queries'[n].pc \in {"done", "eose"} /\ GivesUp(n)
     \/ queries'[n].pc = "done" /\ queries[n].stop /\ missed' = missed
     \/ queries'[n].pc = "filter" /\ missed' = missed

Selects(n) ==
  /\ queries[n].pc = "filter" /\ results' = results /\ missed' = missed
  /\ queries'[n].k = queries[n].k
  /\ \/ /\ queries'[n].pc = "rows" /\ queries[n].k <= Len(queries[n].sub.filters)
        /\ queries'[n].rows = stored \cap queries[n].sub.filters[queries[n].k]
     \/ /\ queries'[n].pc = "eose" /\ queries[n].k > Len(queries[n].sub.filters)
        /\ queries'[n].rows = queries[n].rows

Breaks(n) ==
  /\ queries[n].pc = "rows" /\ queries'[n].pc = "done"
  /\ queries'[n].rows = {} /\ queries'[n].k = queries[n].k /\ results' = results
  /\ \/ queries[n].stop /\ missed' = missed
     \/ GivesUp(n)

Sends(n, e) ==
  /\ queries[n].pc = "rows" /\ e \in queries[n].rows /\ queries'[n].pc = "rows"
  /\ queries'[n].rows = queries[n].rows \ {e} /\ queries'[n].k = queries[n].k
  /\ results' = Deposited(queries[n], e) /\ missed' = missed

Advances(n) ==
  /\ queries[n].pc = "rows" /\ queries[n].rows = {} /\ queries'[n].pc = "filter"
  /\ queries'[n].rows = {} /\ queries'[n].k = queries[n].k + 1
  /\ results' = results /\ missed' = missed

Ends(n) ==
  /\ queries[n].pc = "eose" /\ queries'[n].pc = "done"
  /\ queries'[n].rows = queries[n].rows /\ queries'[n].k = queries[n].k
  /\ results' = Deposited(queries[n], "EOSE") /\ missed' = missed

Moves(n) ==
  Begins(n) \/ Selects(n) \/ Breaks(n) \/ (\E e \in queries[n].rows : Sends(n, e)) \/ Advances(n) \/ Ends(n)

\* What is true of the queries whichever of them takes a step.
Kin(n) ==
  /\ queries' \in Seq(QueryRecs) /\ Len(queries') = Len(queries)
  /\ \A m \in 1..Len(queries) : m # n => queries'[m] = queries[m]
  /\ queries'[n].conn = queries[n].conn /\ queries'[n].sub = queries[n].sub
  /\ queries'[n].stop = queries[n].stop

\* Replacing query n by one of the same connection, subscription and stop flag.
LEMMA QuerySet ==
  ASSUME QueryType, NEW n \in DOMAIN queries, NEW r \in QueryRecs,
         queries' = [queries EXCEPT ![n] = r],
         r.conn = queries[n].conn, r.sub = queries[n].sub, r.stop = queries[n].stop
  PROVE  Kin(n) /\ queries'[n] = r
<1>1. queries \in Seq(QueryRecs) /\ n \in 1..Len(queries)
  BY DEF QueryType
<1>2. queries' \in Seq(QueryRecs) /\ Len(queries') = Len(queries) /\ queries'[n] = r
  BY <1>1
<1>3. \A m \in 1..Len(queries) : m # n => queries'[m] = queries[m]
  BY <1>1
<1> QED
  BY <1>2, <1>3 DEF Kin

\* A step of a query is one of these.
LEMMA QueryMoves ==
  ASSUME PipeType, NEW n \in DOMAIN queries, Query(n)
  PROVE  Kin(n) /\ Moves(n) /\ UNCHANGED queryOnly
<1> DEFINE q == queries[n]
<1>1. queries \in Seq(QueryRecs) /\ q \in QueryRecs /\ QueryType
  BY DEF PipeType, QueryType
<1>2. /\ q.conn \in Conns /\ q.sub \in Subs /\ q.pc \in QueryPCs /\ q.k \in Nat
      /\ q.rows \subseteq Events /\ q.count \in Nat /\ q.stop \in BOOLEAN
  BY <1>1 DEF QueryRecs
<1>3. q.sub.filters \in Seq(SUBSET Events)
  BY <1>2, PipelineAssumption
<1>4. CASE query_begin(n)
  <2>1. PICK pc \in {"done", "eose", "filter"} :
          /\ queries' = [queries EXCEPT ![n].pc = pc]
          /\ \/ pc \in {"done", "eose"} /\ GivesUp(n)
             \/ pc = "done" /\ queries[n].stop /\ missed' = missed
             \/ pc = "filter" /\ missed' = missed
    BY <1>4 DEF query_begin
  <2> DEFINE r == [q EXCEPT !.pc = pc]
  <2>2. /\ r \in QueryRecs /\ r.conn = q.conn /\ r.sub = q.sub /\ r.stop = q.stop
        /\ r.pc = pc /\ r.k = q.k /\ r.rows = q.rows
    BY <1>1 DEF QueryRecs, QueryPCs
  <2>3. queries' = [queries EXCEPT ![n] = r]
    BY <2>1
  <2> HIDE DEF r
  <2>4. Kin(n) /\ queries'[n] = r
    BY <2>2, <2>3, <1>1, QuerySet
  <2> QED
    BY <2>1, <2>2, <2>4, <1>4 DEF query_begin, Moves, Begins
<1>5. CASE query_filter(n)
  <2> DEFINE r == IF q.k <= Len(q.sub.filters)
                  THEN [q EXCEPT !.pc = "rows", !.rows = stored \cap q.sub.filters[q.k]]
                  ELSE [q EXCEPT !.pc = "eose"]
  <2>1. stored \cap q.sub.filters[q.k] \subseteq Events
    BY DEF PipeType, WriterType
  <2>2. /\ r \in QueryRecs /\ r.conn = q.conn /\ r.sub = q.sub /\ r.stop = q.stop
        /\ r.k = q.k
    BY <1>1, <2>1 DEF QueryRecs, QueryPCs
  <2>3. /\ q.k <= Len(q.sub.filters) => r.pc = "rows" /\ r.rows = stored \cap q.sub.filters[q.k]
        /\ ~(q.k <= Len(q.sub.filters)) => r.pc = "eose" /\ r.rows = q.rows
    BY <1>1 DEF QueryRecs
  <2>4. queries' = [queries EXCEPT ![n] = r]
    BY <1>5 DEF query_filter
  <2> HIDE DEF r
  <2>5. Kin(n) /\ queries'[n] = r
    BY <2>2, <2>4, <1>1, QuerySet
  <2>6. ~(q.k <= Len(q.sub.filters)) => q.k > Len(q.sub.filters)
    BY <1>2, <1>3
  <2>7. Selects(n)
    BY <2>2, <2>3, <2>5, <2>6, <1>5 DEF query_filter, Selects
  <2> QED
    BY <2>5, <2>7, <1>5 DEF query_filter, Moves
<1>6. CASE query_row(n)
  <2> DEFINE r == [q EXCEPT !.pc = "done", !.rows = {}]
  <2>1. /\ r \in QueryRecs /\ r.conn = q.conn /\ r.sub = q.sub /\ r.stop = q.stop
        /\ r.k = q.k /\ r.pc = "done" /\ r.rows = {}
    BY <1>1 DEF QueryRecs, QueryPCs
  <2>2. CASE /\ queries' = [queries EXCEPT ![n].pc = "done", ![n].rows = {}]
             /\ results' = results
             /\ (q.stop /\ missed' = missed) \/ GivesUp(n)
    <3>1. queries' = [queries EXCEPT ![n] = r]
      BY <2>2, <1>1
    <3> HIDE DEF r
    <3>2. Kin(n) /\ queries'[n] = r
      BY <2>1, <3>1, <1>1, QuerySet
    <3>3. Breaks(n)
      BY <2>1, <2>2, <3>2, <1>6 DEF query_row, Breaks
    <3> QED
      BY <3>2, <3>3, <1>6 DEF query_row, Moves
  <2>3. ASSUME NEW e \in q.rows, results' = Deposited(q, e), missed' = missed,
               queries' = [queries EXCEPT ![n].rows = @ \ {e}, ![n].count = @ + 1]
        PROVE  Kin(n) /\ Moves(n) /\ UNCHANGED queryOnly
    <3> DEFINE u == [q EXCEPT !.rows = q.rows \ {e}, !.count = q.count + 1]
    <3>1. /\ u \in QueryRecs /\ u.conn = q.conn /\ u.sub = q.sub /\ u.stop = q.stop
          /\ u.k = q.k /\ u.pc = q.pc /\ u.rows = q.rows \ {e}
      <4>1. q.count + 1 \in Nat /\ q.rows \ {e} \in SUBSET Events
        BY <1>2
      <4> QED
        BY <4>1, <1>1 DEF QueryRecs
    <3>2. queries' = [queries EXCEPT ![n] = u]
      BY <2>3, <1>1
    <3> HIDE DEF u
    <3>3. Kin(n) /\ queries'[n] = u
      BY <3>1, <3>2, <1>1, QuerySet
    <3>4. Sends(n, e)
      BY <2>3, <3>1, <3>3, <1>6 DEF query_row, Sends
    <3> QED
      BY <3>3, <3>4, <1>6 DEF query_row, Moves
  <2> QED
    BY <2>2, <2>3, <1>6 DEF query_row
<1>7. CASE query_filter_done(n)
  <2> DEFINE r == [q EXCEPT !.pc = "filter", !.k = q.k + 1]
  <2>1. /\ r \in QueryRecs /\ r.conn = q.conn /\ r.sub = q.sub /\ r.stop = q.stop
        /\ r.k = q.k + 1 /\ r.pc = "filter" /\ r.rows = q.rows
    <3>1. q.k + 1 \in Nat
      BY <1>2
    <3> QED
      BY <3>1, <1>1 DEF QueryRecs, QueryPCs
  <2>2. queries' = [queries EXCEPT ![n] = r]
    BY <1>7, <1>1 DEF query_filter_done
  <2> HIDE DEF r
  <2>3. Kin(n) /\ queries'[n] = r
    BY <2>1, <2>2, <1>1, QuerySet
  <2> QED
    BY <2>1, <2>3, <1>7 DEF query_filter_done, Moves, Advances
<1>8. CASE query_eose(n)
  <2> DEFINE r == [q EXCEPT !.pc = "done"]
  <2>1. /\ r \in QueryRecs /\ r.conn = q.conn /\ r.sub = q.sub /\ r.stop = q.stop
        /\ r.k = q.k /\ r.pc = "done" /\ r.rows = q.rows
    BY <1>1 DEF QueryRecs, QueryPCs
  <2>2. queries' = [queries EXCEPT ![n] = r]
    BY <1>8 DEF query_eose
  <2> HIDE DEF r
  <2>3. Kin(n) /\ queries'[n] = r
    BY <2>1, <2>2, <1>1, QuerySet
  <2> QED
    BY <2>1, <2>3, <1>8 DEF query_eose, Moves, Ends
<1> QED
  BY <1>4, <1>5, <1>6, <1>7, <1>8 DEF Query

\* A result is appended to the channel of the query's connection, if it is open.
LEMMA DepositedFacts ==
  ASSUME PipeType, NEW n \in DOMAIN queries, NEW x \in Events \cup {"EOSE"},
         results' = Deposited(queries[n], x)
  PROVE  LET c == queries[n].conn
             i == queries[n].sub.id
         IN  /\ ResultsType' /\ c \in Conns /\ i \in SubIds
             /\ \A d \in Conns : Range(results[d]) \subseteq Range(results'[d])
             /\ \A d \in Conns : d # c => results'[d] = results[d]
             /\ IF state[c] = "open" THEN results'[c] = Append(results[c], <<i, x>>)
                                     ELSE results'[c] = results[c]
             /\ state[c] = "open" => <<i, x>> \in Range(results'[c])
<1> DEFINE c == queries[n].conn
           i == queries[n].sub.id
<1>1. c \in Conns /\ i \in SubIds
  <2>1. queries[n] \in QueryRecs
    BY DEF PipeType, QueryType
  <2> QED
    BY <2>1 DEF QueryRecs, SubIds
<1>2. results \in [Conns -> Seq(Items)] /\ <<i, x>> \in Items
  BY <1>1 DEF PipeType, ResultsType, Items
<1>3. results' = IF state[c] = "open" THEN [results EXCEPT ![c] = Append(results[c], <<i, x>>)]
                 ELSE results
  BY DEF Deposited
<1> HIDE DEF c, i, Items
<1>4. /\ Append(results[c], <<i, x>>) \in Seq(Items)
      /\ Range(Append(results[c], <<i, x>>)) = Range(results[c]) \cup {<<i, x>>}
  BY <1>1, <1>2, AppendFacts
<1>5. /\ ResultsType'
      /\ \A d \in Conns : Range(results[d]) \subseteq Range(results'[d])
      /\ \A d \in Conns : d # c => results'[d] = results[d]
      /\ IF state[c] = "open" THEN results'[c] = Append(results[c], <<i, x>>)
                              ELSE results'[c] = results[c]
      /\ state[c] = "open" => <<i, x>> \in Range(results'[c])
  BY <1>1, <1>2, <1>3, <1>4 DEF ResultsType
<1> QED
  BY <1>1, <1>5 DEF c, i

\* What a client saw, after one more event and after EOSE.
LEMMA SeenFacts ==
  ASSUME NEW v \in Views, NEW e \in Events
  PROVE  /\ Seen(v, e) \in Views /\ Seen(v, e).asked = v.asked /\ Seen(v, e).again = v.again
         /\ Seen(v, e).base = v.base /\ Seen(v, e).eose = v.eose
         /\ Seen(v, e).got = v.got \cup {e}
<1>1. v.got \cup {e} \in SUBSET Events
  BY DEF Views
<1> QED
  BY <1>1 DEF Seen, Views

LEMMA EndedFacts ==
  ASSUME NEW v \in Views
  PROVE  LET w == [v EXCEPT !.eose = TRUE]
         IN  /\ w \in Views /\ w.asked = v.asked /\ w.again = v.again
             /\ w.base = v.base /\ w.got = v.got
BY DEF Views

\* Passing a broadcast event on adds it to what the interested ids have got.
LEMMA DeliverBcastFacts ==
  ASSUME PipeType, NEW c \in Conns, deliver_bcast(c)
  PROVE  /\ PipeType'
         /\ Head(bcast[c]) \in Events
         /\ Range(bcast[c]) = {Head(bcast[c])} \cup Range(bcast'[c])
         /\ \A d \in Conns : d # c => bcast'[d] = bcast[d] /\ view'[d] = view[d]
         /\ \A d \in Conns, i \in SubIds :
              /\ view'[d][i].asked = view[d][i].asked /\ view'[d][i].again = view[d][i].again
              /\ view'[d][i].base = view[d][i].base /\ view'[d][i].eose = view[d][i].eose
              /\ view[d][i].got \subseteq view'[d][i].got
         /\ \A s \in subs[c] : Head(bcast[c]) \in Wants(s) => Head(bcast[c]) \in view'[c][s.id].got
<1> DEFINE e == Head(bcast[c])
           hits == {s.id : s \in {t \in subs[c] : e \in Wants(t)}}
<1>1. bcast[c] \in Seq(Events) /\ bcast[c] # <<>> /\ Len(bcast[c]) <= BcastCap /\ BcastCap \in Nat
  BY PipelineAssumption DEF deliver_bcast, PipeType, BcastType
<1>2. /\ Tail(bcast[c]) \in Seq(Events) /\ Len(Tail(bcast[c])) <= BcastCap
      /\ e \in Events /\ Range(bcast[c]) = {e} \cup Range(Tail(bcast[c]))
  BY <1>1, TailFacts
<1>3. bcast' = [bcast EXCEPT ![c] = Tail(bcast[c])]
  BY DEF deliver_bcast
<1>4. BcastType'
  BY <1>2, <1>3 DEF PipeType, BcastType
<1>5. /\ Range(bcast[c]) = {e} \cup Range(bcast'[c])
      /\ \A d \in Conns : d # c => bcast'[d] = bcast[d]
  BY <1>2, <1>3 DEF PipeType, BcastType
<1>6. view \in [Conns -> [SubIds -> Views]]
  BY DEF PipeType, ViewType
<1>7. \A i \in SubIds :
        /\ Seen(view[c][i], e) \in Views /\ Seen(view[c][i], e).asked = view[c][i].asked
        /\ Seen(view[c][i], e).again = view[c][i].again /\ Seen(view[c][i], e).base = view[c][i].base
        /\ Seen(view[c][i], e).eose = view[c][i].eose /\ Seen(view[c][i], e).got = view[c][i].got \cup {e}
  BY <1>6, <1>2, SeenFacts
<1>8. view' = [view EXCEPT ![c] = [i \in SubIds |-> IF i \in hits THEN Seen(view[c][i], e) ELSE view[c][i]]]
  BY DEF deliver_bcast
<1>9. \A s \in subs[c] : s.id \in SubIds /\ (e \in Wants(s) => s.id \in hits)
  BY DEF PipeType, ConnType, SubIds
<1> HIDE DEF hits
<1>10. ViewType'
  BY <1>6, <1>7, <1>8 DEF ViewType
<1>11. /\ \A d \in Conns : d # c => view'[d] = view[d]
       /\ \A i \in SubIds : view'[c][i] = IF i \in hits THEN Seen(view[c][i], e) ELSE view[c][i]
  BY <1>6, <1>8
<1>12. \A d \in Conns, i \in SubIds :
              /\ view'[d][i].asked = view[d][i].asked /\ view'[d][i].again = view[d][i].again
              /\ view'[d][i].base = view[d][i].base /\ view'[d][i].eose = view[d][i].eose
              /\ view[d][i].got \subseteq view'[d][i].got
  BY <1>7, <1>11
<1>13. \A s \in subs[c] : e \in Wants(s) => e \in view'[c][s.id].got
  BY <1>7, <1>9, <1>11
<1>14. WriterType' /\ ConnType' /\ ResultsType' /\ NoticesType' /\ QueryType'
  BY DEF deliver_bcast, PipeType, WriterType, ConnType, ResultsType, NoticesType, QueryType
<1> QED
  BY <1>2, <1>4, <1>5, <1>10, <1>11, <1>12, <1>13, <1>14 DEF PipeType

\* Passing a result on marks its id: EOSE seen, or one more event got.
LEMMA DeliverResultFacts ==
  ASSUME PipeType, NEW c \in Conns, deliver_result(c)
  PROVE  /\ PipeType'
         /\ Head(results[c]) = results[c][1] /\ Len(results[c]) \in Nat /\ Len(results[c]) >= 1
         /\ Head(results[c])[1] \in SubIds /\ Head(results[c])[2] \in Events \cup {"EOSE"}
         /\ Head(results[c]) = <<Head(results[c])[1], Head(results[c])[2]>>
         /\ Range(results[c]) = {Head(results[c])} \cup Range(results'[c])
         /\ Len(results'[c]) = Len(results[c]) - 1
         /\ \A p \in 1..(Len(results[c]) - 1) : results'[c][p] = results[c][p + 1]
         /\ \A d \in Conns : d # c => results'[d] = results[d] /\ view'[d] = view[d]
         /\ \A d \in Conns, i \in SubIds :
              /\ view'[d][i].asked = view[d][i].asked /\ view'[d][i].again = view[d][i].again
              /\ view'[d][i].base = view[d][i].base
              /\ view[d][i].got \subseteq view'[d][i].got
         /\ \A i \in SubIds :
              IF i # Head(results[c])[1] THEN view'[c][i] = view[c][i]
              ELSE IF Head(results[c])[2] = "EOSE" THEN view'[c][i].got = view[c][i].got
              ELSE /\ Head(results[c])[2] \in view'[c][i].got
                   /\ view'[c][i].eose = view[c][i].eose
<1> DEFINE i == Head(results[c])[1]
           e == Head(results[c])[2]
           v == IF e = "EOSE" THEN [view[c][i] EXCEPT !.eose = TRUE]
                ELSE Seen(view[c][i], e)
<1>1. results[c] \in Seq(Items) /\ results[c] # <<>>
  BY DEF deliver_result, PipeType, ResultsType
<1>2. /\ Tail(results[c]) \in Seq(Items) /\ Head(results[c]) \in Items
      /\ Head(results[c]) = results[c][1] /\ Len(results[c]) \in Nat /\ Len(results[c]) >= 1
      /\ Range(results[c]) = {Head(results[c])} \cup Range(Tail(results[c]))
      /\ Len(Tail(results[c])) = Len(results[c]) - 1
      /\ \A p \in 1..(Len(results[c]) - 1) : Tail(results[c])[p] = results[c][p + 1]
  BY <1>1, TailFacts
<1>3. i \in SubIds /\ e \in Events \cup {"EOSE"} /\ Head(results[c]) = <<i, e>>
  BY <1>2 DEF Items
<1>4. results' = [results EXCEPT ![c] = Tail(results[c])]
  BY DEF deliver_result
<1>5. ResultsType'
  BY <1>2, <1>4 DEF PipeType, ResultsType
<1>6. results'[c] = Tail(results[c]) /\ \A d \in Conns : d # c => results'[d] = results[d]
  BY <1>4 DEF PipeType, ResultsType
<1>7. view \in [Conns -> [SubIds -> Views]]
  BY DEF PipeType, ViewType
<1>8. /\ v \in Views /\ v.asked = view[c][i].asked /\ v.again = view[c][i].again
      /\ v.base = view[c][i].base /\ view[c][i].got \subseteq v.got
      /\ IF e = "EOSE" THEN v.got = view[c][i].got ELSE e \in v.got /\ v.eose = view[c][i].eose
  BY <1>7, <1>3, SeenFacts, EndedFacts
<1>9. view' = [view EXCEPT ![c][i] = v]
  BY DEF deliver_result
<1> HIDE DEF v, i, e
<1>10. ViewType'
  BY <1>3, <1>7, <1>8, <1>9 DEF ViewType
<1>11. /\ \A d \in Conns : d # c => view'[d] = view[d]
       /\ \A j \in SubIds : view'[c][j] = IF j = i THEN v ELSE view[c][j]
  BY <1>3, <1>7, <1>9
<1>12. \A d \in Conns, j \in SubIds :
              /\ view'[d][j].asked = view[d][j].asked /\ view'[d][j].again = view[d][j].again
              /\ view'[d][j].base = view[d][j].base
              /\ view[d][j].got \subseteq view'[d][j].got
  BY <1>8, <1>11
<1>13. \A j \in SubIds : IF j # i THEN view'[c][j] = view[c][j]
              ELSE IF e = "EOSE" THEN view'[c][j].got = view[c][j].got
              ELSE e \in view'[c][j].got /\ view'[c][j].eose = view[c][j].eose
  BY <1>8, <1>11
<1>14. WriterType' /\ ConnType' /\ BcastType' /\ NoticesType' /\ QueryType'
  BY DEF deliver_result, PipeType, WriterType, ConnType, BcastType, NoticesType, QueryType
<1> QED
  BY <1>2, <1>3, <1>5, <1>6, <1>10, <1>11, <1>12, <1>13, <1>14 DEF PipeType, i, e

\* The broadcast of an event reaches a receiver, or the receiver lags.
LEMMA BroadcastFacts ==
  ASSUME PipeType, NEW e \in Events, Broadcast(e)
  PROVE  /\ BcastType'
         /\ missed \subseteq missed'
         /\ \A c \in Conns : /\ c \in missed' \/ Range(bcast[c]) \subseteq Range(bcast'[c])
                             /\ state[c] = "open" /\ c \notin missed' => e \in Range(bcast'[c])
<1> SUFFICES ASSUME NEW c \in Conns
             PROVE  /\ bcast'[c] \in Seq(Events) /\ Len(bcast'[c]) <= BcastCap
                    /\ c \in missed' \/ Range(bcast[c]) \subseteq Range(bcast'[c])
                    /\ state[c] = "open" /\ c \notin missed' => e \in Range(bcast'[c])
  BY DEF Broadcast, BcastType
<1>1. bcast[c] \in Seq(Events) /\ Len(bcast[c]) <= BcastCap /\ BcastCap \in Nat /\ BcastCap >= 1
  BY PipelineAssumption DEF PipeType, BcastType
<1> DEFINE more == Append(bcast[c], e)
<1>2. /\ more \in Seq(Events) /\ Len(more) = Len(bcast[c]) + 1 /\ more # <<>>
      /\ Range(more) = Range(bcast[c]) \cup {e} /\ Len(bcast[c]) \in Nat
  BY <1>1, AppendFacts
<1>3. bcast'[c] = IF state[c] = "open" THEN Kept(more) ELSE bcast[c]
  BY DEF Broadcast
<1>4. missed' = missed \cup {d \in Conns : state[d] = "open" /\ Lagging(Append(bcast[d], e))}
  BY DEF Broadcast
<1>5. state[c] = "open" /\ Lagging(more) => c \in missed'
  BY <1>4
<1> HIDE DEF more
<1>6. Tail(more) \in Seq(Events) /\ Len(Tail(more)) = Len(more) - 1
  BY <1>2, TailFacts
<1>7. CASE state[c] # "open"
  BY <1>1, <1>3, <1>7
<1>8. CASE state[c] = "open" /\ Lagging(more)
  BY <1>1, <1>2, <1>3, <1>5, <1>6, <1>8 DEF Kept, Lagging
<1>9. CASE state[c] = "open" /\ ~Lagging(more)
  BY <1>1, <1>2, <1>3, <1>9 DEF Kept, Lagging
<1> QED
  BY <1>7, <1>8, <1>9

\* An event that the writer took from its channel.
LEMMA RecvFacts ==
  ASSUME PipeType, writer_recv
  PROVE  PipeType'
<1> DEFINE c == Head(eventq)[1]
           e == Head(eventq)[2]
<1>1. eventq \in Seq(Conns \X Events) /\ eventq # <<>> /\ Len(eventq) <= EventCap /\ EventCap \in Nat
  BY PipelineAssumption DEF writer_recv, PipeType, WriterType
<1> DEFINE CE == Conns \X Events
<1> HIDE DEF CE
<1>2. /\ Tail(eventq) \in Seq(CE) /\ Len(Tail(eventq)) <= EventCap /\ Head(eventq) \in CE
  BY <1>1, TailFacts DEF CE
<1>3. c \in Conns /\ e \in Events /\ eventq' = Tail(eventq)
  BY <1>2 DEF CE, writer_recv
<1> HIDE DEF c, e
<1>4. eventq' \in Seq(Conns \X Events) /\ Len(eventq') <= EventCap
  BY <1>2, <1>3 DEF CE
<1>5. writer \in Writers /\ writer.pc = "idle"
  BY DEF writer_recv, PipeType, WriterType
<1>6. /\ writer' \in Writers
      /\ writer'.pc # "idle" => writer'.from \in Conns /\ writer'.ev \in Events
      /\ writer'.pc = "write" => writer'.ev \notin Ephemeral
  <2>1. \/ writer' = writer
        \/ writer' = [pc |-> IF e \in Ephemeral THEN "bcast" ELSE "write", from |-> c, ev |-> e]
    BY DEF writer_recv, c, e
  <2>2. [pc |-> IF e \in Ephemeral THEN "bcast" ELSE "write", from |-> c, ev |-> e] \in Writers
    BY <1>3 DEF Writers
  <2> QED
    BY <2>1, <2>2, <1>3, <1>5
<1>7. WriterType'
  BY <1>4, <1>6 DEF writer_recv, PipeType, WriterType
<1>8. NoticesType'
  <2>1. answered' = answered
    BY DEF writer_recv, writerOnly
  <2>2. notices' = notices \/ notices' = Notified(c, e, "blocked")
    BY DEF writer_recv, c, e
  <2>3. CASE notices' = notices
    BY <2>1, <2>3 DEF PipeType, NoticesType
  <2>4. CASE notices' = Notified(c, e, "blocked")
    BY <2>1, <2>4, <1>3, NotifiedFacts DEF PipeType, Statuses
  <2> QED
    BY <2>2, <2>3, <2>4
<1>9. ConnType' /\ BcastType' /\ ResultsType' /\ QueryType' /\ ViewType'
  BY DEF writer_recv, writerOnly, PipeType, ConnType, BcastType, ResultsType, QueryType, ViewType
<1> QED
  BY <1>7, <1>8, <1>9 DEF PipeType

\* The other steps of the writer.
LEMMA WriterFacts ==
  ASSUME PipeType, writer_write \/ writer_bcast \/ writer_notice
  PROVE  PipeType'
<1>1. writer \in Writers /\ writer.from \in Conns /\ writer.ev \in Events
  BY DEF PipeType, WriterType, writer_write, writer_bcast, writer_notice
<1>2. writer' = Resting \/ writer' = [writer EXCEPT !.pc = "bcast"]
                        \/ writer' = [writer EXCEPT !.pc = "notice"]
  BY DEF writer_write, writer_bcast, writer_notice
<1>3. /\ writer' \in Writers /\ writer'.pc # "write"
      /\ writer'.pc # "idle" => writer'.from \in Conns /\ writer'.ev \in Events
  BY <1>1, <1>2 DEF Writers, Resting
<1>4. stored' \subseteq Events \ Ephemeral /\ eventq' = eventq
  BY <1>1 DEF PipeType, WriterType, writer_write, writer_bcast, writer_notice
<1>5. WriterType'
  BY <1>3, <1>4 DEF PipeType, WriterType
<1>6. NoticesType'
  <2>1. answered' = answered
    BY DEF writer_write, writer_bcast, writer_notice, writerOnly
  <2>2. \/ notices' = notices
        \/ \E st \in Statuses : notices' = Notified(writer.from, writer.ev, st)
    BY DEF writer_write, writer_bcast, writer_notice, Statuses
  <2>3. CASE notices' = notices
    BY <2>1, <2>3 DEF PipeType, NoticesType
  <2>4. CASE \E st \in Statuses : notices' = Notified(writer.from, writer.ev, st)
    BY <2>1, <2>4, <1>1, NotifiedFacts DEF PipeType
  <2> QED
    BY <2>2, <2>3, <2>4
<1>7. BcastType'
  <2>1. CASE writer_bcast
    BY <2>1, <1>1, BroadcastFacts DEF writer_bcast
  <2>2. CASE writer_write \/ writer_notice
    BY <2>2 DEF writer_write, writer_notice, PipeType, BcastType
  <2> QED
    BY <2>1, <2>2
<1>8. UNCHANGED writerOnly
  BY DEF writer_write, writer_bcast, writer_notice
<1>9. ConnType' /\ ResultsType' /\ QueryType' /\ ViewType'
  BY <1>8 DEF writerOnly, PipeType, ConnType, ResultsType, QueryType, ViewType
<1> QED
  BY <1>5, <1>6, <1>7, <1>9 DEF PipeType

\* The steps of a query.
LEMMA QueryFacts ==
  ASSUME PipeType, NEW n \in DOMAIN queries, Query(n)
  PROVE  PipeType'
<1>1. Kin(n) /\ Moves(n) /\ UNCHANGED queryOnly
  BY QueryMoves
<1>2. ResultsType'
  <2>1. \/ results' = results
        \/ \E x \in queries[n].rows \cup {"EOSE"} : results' = Deposited(queries[n], x)
    BY <1>1 DEF Moves, Begins, Selects, Breaks, Sends, Advances, Ends
  <2>2. queries[n].rows \subseteq Events
    <3>1. queries[n] \in QueryRecs
      BY DEF PipeType, QueryType
    <3> QED
      BY <3>1 DEF QueryRecs
  <2>3. CASE results' = results
    BY <2>3 DEF PipeType, ResultsType
  <2>4. CASE \E x \in queries[n].rows \cup {"EOSE"} : results' = Deposited(queries[n], x)
    <3>1. PICK x \in Events \cup {"EOSE"} : results' = Deposited(queries[n], x)
      BY <2>2, <2>4
    <3> QED
      BY <3>1, DepositedFacts
  <2> QED
    BY <2>1, <2>3, <2>4
<1>3. QueryType'
  BY <1>1 DEF Kin, queryOnly, PipeType, QueryType
<1>4. WriterType' /\ ConnType' /\ BcastType' /\ NoticesType' /\ ViewType'
  BY <1>1 DEF queryOnly, PipeType, WriterType, ConnType, BcastType, NoticesType, ViewType
<1> QED
  BY <1>2, <1>3, <1>4 DEF PipeType

\* The steps of a connection's task that touch no subscription.
LEMMA TaskFacts ==
  ASSUME PipeType, NEW c \in Conns,
         connect(c) \/ submit(c) \/ deliver_notice(c) \/ \E e \in Events : event_msg(c, e)
  PROVE  PipeType'
<1>1. CASE connect(c)
  <2>1. ConnType'
    BY <1>1 DEF connect, PipeType, ConnType
  <2> QED
    BY <1>1, <2>1 DEF connect, PipeType, WriterType, BcastType, ResultsType, NoticesType, QueryType,
                      ViewType
<1>2. CASE submit(c)
  <2>1. eventq \in Seq(Conns \X Events) /\ <<c, pending[c]>> \in Conns \X Events /\ EventCap \in Nat
    BY <1>2, PipelineAssumption DEF submit, PipeType, WriterType, ConnType
  <2>2. eventq' \in Seq(Conns \X Events) /\ Len(eventq') <= EventCap
    BY <1>2, <2>1, AppendFacts DEF submit
  <2>3. WriterType'
    BY <1>2, <2>2 DEF submit, PipeType, WriterType
  <2>4. ConnType'
    BY <1>2 DEF submit, PipeType, ConnType
  <2> QED
    BY <1>2, <2>3, <2>4 DEF submit, PipeType, BcastType, ResultsType, NoticesType, QueryType, ViewType
<1>3. CASE deliver_notice(c)
  <2>1. /\ notices[c] \in Seq(Replies) /\ notices[c] # <<>> /\ Len(notices[c]) <= NoticeCap
        /\ NoticeCap \in Nat
    BY <1>3, PipelineAssumption DEF deliver_notice, PipeType, NoticesType
  <2>2. /\ Tail(notices[c]) \in Seq(Replies) /\ Len(Tail(notices[c])) <= NoticeCap
        /\ Head(notices[c]) \in Replies
    BY <2>1, TailFacts
  <2>3. NoticesType'
    BY <1>3, <2>2 DEF deliver_notice, PipeType, NoticesType
  <2> QED
    BY <1>3, <2>3 DEF deliver_notice, PipeType, WriterType, ConnType, BcastType, ResultsType,
                      QueryType, ViewType
<1>4. ASSUME NEW e \in Events, event_msg(c, e)
      PROVE  PipeType'
  <2>1. ConnType'
    BY <1>4 DEF event_msg, PipeType, ConnType
  <2>2. NoticesType'
    <3>1. <<e, "refused">> \in Replies
      BY DEF Replies, Statuses
    <3>2. answered \in [Conns -> SUBSET Replies] /\ notices' = notices
      BY <1>4 DEF event_msg, PipeType, NoticesType
    <3>3. answered' = answered \/ answered' = [answered EXCEPT ![c] = answered[c] \cup {<<e, "refused">>}]
      BY <1>4 DEF event_msg
    <3>4. answered' \in [Conns -> SUBSET Replies]
      BY <3>1, <3>2, <3>3
    <3> QED
      BY <3>2, <3>4 DEF PipeType, NoticesType
  <2> QED
    BY <1>4, <2>1, <2>2 DEF event_msg, PipeType, WriterType, BcastType, ResultsType, QueryType, ViewType
<1> QED
  BY <1>1, <1>2, <1>3, <1>4

\* Every step keeps the types.
LEMMA TypeStep == PipeType /\ [Next]_vars => PipeType'
<1> SUFFICES ASSUME PipeType, [Next]_vars PROVE PipeType'
  OBVIOUS
<1>1. CASE UNCHANGED vars
  BY <1>1 DEF vars, PipeType, WriterType, ConnType, BcastType, ResultsType, NoticesType, QueryType,
              ViewType
<1>2. ASSUME NEW c \in Conns,
             connect(c) \/ submit(c) \/ deliver_notice(c) \/ \E e \in Events : event_msg(c, e)
      PROVE  PipeType'
  BY <1>2, TaskFacts
<1>3. ASSUME NEW c \in Conns, deliver_bcast(c) PROVE PipeType'
  BY <1>3, DeliverBcastFacts
<1>4. ASSUME NEW c \in Conns, deliver_result(c) PROVE PipeType'
  BY <1>4, DeliverResultFacts
<1>5. ASSUME NEW c \in Conns, disconnect(c) PROVE PipeType'
  BY <1>5, DisconnectFacts
<1>6. ASSUME NEW c \in Conns, NEW s \in Subs, req(c, s) PROVE PipeType'
  BY <1>6, ReqFacts
<1>7. ASSUME NEW c \in Conns, NEW i \in SubIds, close(c, i) PROVE PipeType'
  BY <1>7, CloseFacts
<1>8. CASE Writer
  BY <1>8, RecvFacts, WriterFacts DEF Writer
<1>9. ASSUME NEW n \in DOMAIN queries, Query(n) PROVE PipeType'
  BY <1>9, QueryFacts
<1> QED
  BY <1>1, <1>2, <1>3, <1>4, <1>5, <1>6, <1>7, <1>8, <1>9 DEF Next, Deliver

-------------------------------------------------------------------------------
(* The OK message is true. *)

\* The event that the writer has written, or need not write, and has yet to
\* broadcast or to report.
SavedInv == writer.pc \in {"bcast", "notice"} => writer.ev \in stored \cup Ephemeral

\* A reply is true now.
TrueReply(e, st) ==
  /\ st = "saved" => e \in stored \cup Ephemeral
  /\ st = "duplicate" => e \in stored \cup Ignorable \cup Ephemeral

\* The second conjunct of SavedIsStored.
SavedMeansStored ==
  \A c \in Conns : \A e \in Events, st \in {"saved", "duplicate"} :
    <<e, st>> \in answered[c] \cup Range(notices[c]) => TrueReply(e, st)

\* Replies that were there before stay true, since the database only grows, and
\* a new one must be true when it is sent.
LEMMA ReplyStep ==
  ASSUME PipeType, SavedMeansStored, stored \subseteq stored',
         NEW f \in Events, NEW st \in Statuses,
         TrueReply(f, st)',
         \A c \in Conns : answered'[c] \cup Range(notices'[c])
                            \subseteq answered[c] \cup Range(notices[c]) \cup {<<f, st>>}
  PROVE  SavedMeansStored'
<1> SUFFICES ASSUME NEW c \in Conns, NEW e \in Events, NEW w \in {"saved", "duplicate"},
                    <<e, w>> \in answered'[c] \cup Range(notices'[c])
             PROVE  TrueReply(e, w)'
  BY DEF SavedMeansStored
<1>1. CASE <<e, w>> = <<f, st>>
  BY <1>1
<1>2. CASE <<e, w>> \in answered[c] \cup Range(notices[c])
  BY <1>2 DEF SavedMeansStored, TrueReply
<1> QED
  BY <1>1, <1>2

\* A step that sends no reply.
LEMMA NoReplyStep ==
  ASSUME SavedMeansStored, stored \subseteq stored',
         \A c \in Conns : answered'[c] \cup Range(notices'[c]) \subseteq answered[c] \cup Range(notices[c])
  PROVE  SavedMeansStored'
BY DEF SavedMeansStored, TrueReply

\* Every step keeps the replies true.
LEMMA SavedStep ==
  ASSUME PipeType, SavedInv, SavedMeansStored, [Next]_vars
  PROVE  SavedInv' /\ SavedMeansStored'
<1>1. CASE UNCHANGED <<stored, writer, notices, answered>>
  BY <1>1 DEF SavedInv, SavedMeansStored, TrueReply
<1>2. ASSUME NEW c \in Conns, NEW e \in Events, event_msg(c, e)
      PROVE  SavedInv' /\ SavedMeansStored'
  <2>1. UNCHANGED <<stored, writer, notices>>
    BY <1>2 DEF event_msg
  <2>2. \A d \in Conns : answered'[d] \subseteq answered[d] \cup {<<e, "refused">>}
    <3>1. answered' = answered \/ answered' = [answered EXCEPT ![c] = answered[c] \cup {<<e, "refused">>}]
      BY <1>2 DEF event_msg
    <3> QED
      BY <3>1 DEF PipeType, NoticesType
  <2>3. SavedMeansStored'
    BY <2>1, <2>2, ReplyStep DEF Statuses, TrueReply
  <2> QED
    BY <2>1, <2>3 DEF SavedInv
<1>3. ASSUME NEW c \in Conns, deliver_notice(c)
      PROVE  SavedInv' /\ SavedMeansStored'
  <2>1. UNCHANGED <<stored, writer>>
    BY <1>3 DEF deliver_notice
  <2>2. Range(notices[c]) = {Head(notices[c])} \cup Range(Tail(notices[c]))
    BY <1>3, TailFacts DEF deliver_notice, PipeType, NoticesType
  <2>3. \A d \in Conns : answered'[d] \cup Range(notices'[d]) \subseteq answered[d] \cup Range(notices[d])
    BY <1>3, <2>2 DEF deliver_notice, PipeType, NoticesType
  <2> QED
    BY <2>1, <2>3, NoReplyStep DEF SavedInv
<1>4. ASSUME NEW c \in Conns, disconnect(c)
      PROVE  SavedInv' /\ SavedMeansStored'
  <2>1. UNCHANGED <<stored, writer, answered>>
    BY <1>4 DEF disconnect
  <2>2. \A d \in Conns : Range(notices'[d]) \subseteq Range(notices[d])
    <3>1. Range(<<>>) = {}
      BY DEF Range
    <3> QED
      BY <1>4, <3>1 DEF disconnect, PipeType, NoticesType
  <2> QED
    BY <2>1, <2>2, NoReplyStep DEF SavedInv
<1>5. CASE writer_recv
  <2>1. /\ stored' = stored /\ answered' = answered
        /\ Head(eventq)[1] \in Conns /\ Head(eventq)[2] \in Events
    <3> DEFINE CE == Conns \X Events
    <3>1. eventq \in Seq(CE) /\ eventq # <<>>
      BY <1>5 DEF writer_recv, PipeType, WriterType
    <3> HIDE DEF CE
    <3>2. Head(eventq) \in CE
      BY <3>1, TailFacts
    <3> QED
      BY <1>5, <3>2 DEF CE, writer_recv, writerOnly
  <2>2. SavedInv'
    BY <1>5, <2>1 DEF writer_recv, SavedInv
  <2>3. CASE notices' = notices
    BY <2>1, <2>2, <2>3, NoReplyStep
  <2>4. CASE notices' = Notified(Head(eventq)[1], Head(eventq)[2], "blocked")
    <3>1. \A d \in Conns : Range(notices'[d]) \subseteq Range(notices[d]) \cup {<<Head(eventq)[2], "blocked">>}
      BY <2>1, <2>4, NotifiedFacts DEF PipeType, Statuses
    <3> QED
      BY <2>1, <2>2, <3>1, ReplyStep DEF Statuses, TrueReply
  <2> QED
    BY <1>5, <2>3, <2>4 DEF writer_recv
<1>6. CASE writer_write \/ writer_bcast \/ writer_notice
  <2>1. writer.from \in Conns /\ writer.ev \in Events /\ writer \in Writers
    BY <1>6 DEF PipeType, WriterType, writer_write, writer_bcast, writer_notice
  <2>2. answered' = answered /\ stored \subseteq stored'
    BY <1>6 DEF writer_write, writer_bcast, writer_notice, writerOnly
  <2>3. SavedInv'
    <3>1. \/ writer' = Resting
          \/ writer' = [writer EXCEPT !.pc = "bcast"] /\ writer.ev \in stored'
          \/ writer' = [writer EXCEPT !.pc = "notice"] /\ writer.ev \in stored \cup Ephemeral
      BY <1>6 DEF writer_write, writer_bcast, writer_notice, SavedInv
    <3>2. writer'.pc # "idle" => writer'.ev = writer.ev
      BY <3>1, <2>1 DEF Writers, Resting
    <3> QED
      BY <3>1, <3>2, <2>1, <2>2 DEF SavedInv, Resting
  <2>4. PICK f \in Events : f = writer.ev
    BY <2>1
  <2>5. CASE notices' = notices
    BY <2>2, <2>3, <2>5, NoReplyStep
  <2>6. ASSUME NEW st \in Statuses, notices' = Notified(writer.from, f, st), TrueReply(f, st)'
        PROVE  SavedInv' /\ SavedMeansStored'
    <3>1. \A d \in Conns : Range(notices'[d]) \subseteq Range(notices[d]) \cup {<<f, st>>}
      BY <2>6, <2>1, <2>2, NotifiedFacts DEF PipeType
    <3> QED
      BY <2>1, <2>2, <2>3, <2>6, <3>1, ReplyStep
  <2>7. \/ notices' = notices
        \/ \E st \in Statuses : notices' = Notified(writer.from, f, st) /\ TrueReply(f, st)'
    BY <1>6, <2>4 DEF writer_write, writer_bcast, writer_notice, Statuses, SavedInv, TrueReply
  <2> QED
    BY <2>5, <2>6, <2>7
<1>7. \/ UNCHANGED <<stored, writer, notices, answered>>
      \/ \E c \in Conns : deliver_notice(c) \/ disconnect(c) \/ \E e \in Events : event_msg(c, e)
      \/ writer_recv \/ writer_write \/ writer_bcast \/ writer_notice
  BY ZenonT(40) DEF Next, Deliver, Writer, vars, connect, submit, deliver_bcast, deliver_result, req, close,
         Query, query_begin, query_filter, query_row, query_filter_done, query_eose, queryOnly
<1> QED
  BY <1>1, <1>2, <1>3, <1>4, <1>5, <1>6, <1>7

\* Types, the bounds of the channels, and the truth of every OK message hold in
\* every state: an event reported as saved was put in the database unless it is
\* ephemeral, and one reported as a duplicate is there or is one that the store
\* may leave out, though the report is sent after the write, through a channel
\* that may be full or gone.
THEOREM SavedIsTrue == Spec => []SavedIsStored
<1>1. Init => PipeType /\ SavedInv /\ SavedMeansStored
  <2> SUFFICES ASSUME Init PROVE SavedInv /\ SavedMeansStored
    BY TypeInit
  <2>1. Range(<<>>) = {}
    BY DEF Range
  <2> QED
    BY <2>1 DEF Init, SavedInv, SavedMeansStored, TrueReply, Resting
<1>2. PipeType /\ SavedInv /\ SavedMeansStored /\ [Next]_vars => (PipeType /\ SavedInv /\ SavedMeansStored)'
  BY TypeStep, SavedStep
<1>3. PipeType /\ SavedMeansStored => SavedIsStored
  BY PipeTypeIsTypeOK DEF SavedIsStored, SavedMeansStored, TrueReply
<1> QED
  BY <1>1, <1>2, <1>3, PTL DEF Spec

-------------------------------------------------------------------------------
(* Queries and the subscriptions they serve. *)

\* A connection with subscriptions is open.
OpenInv == \A c \in Conns : subs[c] # {} => state[c] = "open"

\* Where a query stands: rows only while a statement is read, filters from 1.
CursorInv ==
  \A n \in 1..Len(queries) :
    /\ queries[n].pc # "rows" => queries[n].rows = {}
    /\ queries[n].pc = "queued" => queries[n].k = 1
    /\ queries[n].k >= 1

\* The query in running_queries is one of its subscription, still wanted and
\* not yet told to stop.
RunningInv ==
  \A c \in Conns, i \in SubIds :
    running[c][i] # 0 =>
      /\ running[c][i] \in 1..Len(queries)
      /\ queries[running[c][i]].conn = c
      /\ queries[running[c][i]].sub.id = i
      /\ queries[running[c][i]].sub \in subs[c]
      /\ ~queries[running[c][i]].stop

QueriesInv == OpenInv /\ CursorInv /\ RunningInv

\* A query keeps its subscription alive as long as it is the current one.
LEMMA ReqQueriesStep ==
  ASSUME PipeType, QueriesInv, NEW c \in Conns, NEW s \in Subs, req(c, s)
  PROVE  QueriesInv'
<1>0. s.id \in SubIds /\ s.live \in BOOLEAN /\ Len(queries) \in Nat
  BY PipelineAssumption DEF SubIds, PipeType, QueryType
<1>1. /\ Len(queries') = IF s.live THEN Len(queries) ELSE Len(queries) + 1
      /\ \A m \in 1..Len(queries) :
           /\ queries'[m].conn = queries[m].conn /\ queries'[m].sub = queries[m].sub
           /\ queries'[m].pc = queries[m].pc /\ queries'[m].k = queries[m].k
           /\ queries'[m].rows = queries[m].rows
           /\ m # running[c][s.id] => queries'[m] = queries[m]
      /\ ~s.live => queries'[Len(queries) + 1] = NewQuery(c, s)
  BY ReqFacts
<1>2. \A d \in Conns : subs'[d] = IF d = c THEN Others(c, s) \cup {s} ELSE subs[d]
  BY DEF req, PipeType, ConnType
<1>3. \A d \in Conns, j \in SubIds :
        running'[d][j] = IF d = c /\ j = s.id THEN (IF s.live THEN 0 ELSE Len(queries) + 1)
                         ELSE running[d][j]
  BY <1>0 DEF req, PipeType, QueryType
<1>4. OpenInv'
  BY <1>2 DEF OpenInv, QueriesInv, req, Looping
<1>5. CursorInv'
  <2> SUFFICES ASSUME NEW m \in 1..Len(queries')
               PROVE  /\ queries'[m].pc # "rows" => queries'[m].rows = {}
                      /\ queries'[m].pc = "queued" => queries'[m].k = 1
                      /\ queries'[m].k >= 1
    BY DEF CursorInv
  <2>1. CASE m \in 1..Len(queries)
    BY <2>1, <1>1 DEF QueriesInv, CursorInv
  <2>2. CASE m \notin 1..Len(queries)
    <3>1. ~s.live /\ m = Len(queries) + 1
      BY <2>2, <1>0, <1>1
    <3> QED
      BY <3>1, <1>1 DEF NewQuery
  <2> QED
    BY <2>1, <2>2
<1>6. RunningInv'
  <2> SUFFICES ASSUME NEW d \in Conns, NEW j \in SubIds, running'[d][j] # 0
               PROVE  /\ running'[d][j] \in 1..Len(queries')
                      /\ queries'[running'[d][j]].conn = d
                      /\ queries'[running'[d][j]].sub.id = j
                      /\ queries'[running'[d][j]].sub \in subs'[d]
                      /\ ~queries'[running'[d][j]].stop
    BY DEF RunningInv
  <2>1. CASE d = c /\ j = s.id
    <3>1. ~s.live /\ running'[d][j] = Len(queries) + 1
      BY <2>1, <1>3
    <3> QED
      BY <2>1, <3>1, <1>0, <1>1, <1>2 DEF NewQuery
  <2>2. CASE ~(d = c /\ j = s.id)
    <3> DEFINE m == running[d][j]
    <3>1. running'[d][j] = m
      BY <2>2, <1>3
    <3>2. /\ m \in 1..Len(queries) /\ queries[m].conn = d /\ queries[m].sub.id = j
          /\ queries[m].sub \in subs[d] /\ ~queries[m].stop
      BY <3>1 DEF QueriesInv, RunningInv
    <3>3. m # running[c][s.id]
      BY <2>2, <3>2, <1>0 DEF QueriesInv, RunningInv
    <3> HIDE DEF m
    <3>4. queries'[m] = queries[m] /\ m \in 1..Len(queries')
      BY <3>2, <3>3, <1>0, <1>1
    <3>5. queries[m].sub \in subs'[d]
      BY <2>2, <3>2, <1>2 DEF Others
    <3> QED
      BY <3>1, <3>2, <3>4, <3>5
  <2> QED
    BY <2>1, <2>2
<1> QED
  BY <1>4, <1>5, <1>6 DEF QueriesInv

LEMMA CloseQueriesStep ==
  ASSUME PipeType, QueriesInv, NEW c \in Conns, NEW i \in SubIds, close(c, i)
  PROVE  QueriesInv'
<1>1. /\ Len(queries') = Len(queries)
      /\ \A m \in 1..Len(queries) :
           /\ queries'[m].conn = queries[m].conn /\ queries'[m].sub = queries[m].sub
           /\ queries'[m].pc = queries[m].pc /\ queries'[m].k = queries[m].k
           /\ queries'[m].rows = queries[m].rows
           /\ m # running[c][i] => queries'[m] = queries[m]
  BY CloseFacts
<1>2. \A d \in Conns : subs'[d] = IF d = c THEN {s \in subs[c] : s.id # i} ELSE subs[d]
  BY DEF close, PipeType, ConnType
<1>3. \A d \in Conns, j \in SubIds :
        running'[d][j] = IF d = c /\ j = i THEN 0 ELSE running[d][j]
  BY DEF close, PipeType, QueryType
<1>4. OpenInv'
  BY <1>2 DEF OpenInv, QueriesInv, close, Looping
<1>5. CursorInv'
  BY <1>1 DEF CursorInv, QueriesInv
<1>6. RunningInv'
  <2> SUFFICES ASSUME NEW d \in Conns, NEW j \in SubIds, running'[d][j] # 0
               PROVE  /\ running'[d][j] \in 1..Len(queries')
                      /\ queries'[running'[d][j]].conn = d
                      /\ queries'[running'[d][j]].sub.id = j
                      /\ queries'[running'[d][j]].sub \in subs'[d]
                      /\ ~queries'[running'[d][j]].stop
    BY DEF RunningInv
  <2> DEFINE m == running[d][j]
  <2>1. running'[d][j] = m /\ ~(d = c /\ j = i)
    BY <1>3
  <2>2. /\ m \in 1..Len(queries) /\ queries[m].conn = d /\ queries[m].sub.id = j
        /\ queries[m].sub \in subs[d] /\ ~queries[m].stop
    BY <2>1 DEF QueriesInv, RunningInv
  <2>3. m # running[c][i]
    BY <2>1, <2>2 DEF QueriesInv, RunningInv
  <2> HIDE DEF m
  <2>4. queries'[m] = queries[m] /\ m \in 1..Len(queries')
    BY <2>2, <2>3, <1>1
  <2>5. queries[m].sub \in subs'[d]
    BY <2>1, <2>2, <1>2
  <2> QED
    BY <2>1, <2>2, <2>4, <2>5
<1> QED
  BY <1>4, <1>5, <1>6 DEF QueriesInv

LEMMA DisconnectQueriesStep ==
  ASSUME PipeType, QueriesInv, NEW c \in Conns, disconnect(c)
  PROVE  QueriesInv'
<1>1. /\ Len(queries') = Len(queries)
      /\ \A m \in 1..Len(queries) :
           /\ queries'[m].conn = queries[m].conn /\ queries'[m].sub = queries[m].sub
           /\ queries'[m].pc = queries[m].pc /\ queries'[m].k = queries[m].k
           /\ queries'[m].rows = queries[m].rows
           /\ (\A i \in SubIds : running[c][i] # m) => queries'[m] = queries[m]
  BY DisconnectFacts
<1>2. \A d \in Conns : subs'[d] = IF d = c THEN {} ELSE subs[d]
  BY DEF disconnect, PipeType, ConnType
<1>3. \A d \in Conns, j \in SubIds : running'[d][j] = IF d = c THEN 0 ELSE running[d][j]
  BY DEF disconnect, PipeType, QueryType
<1>4. OpenInv'
  BY <1>2 DEF OpenInv, QueriesInv, disconnect, PipeType, ConnType
<1>5. CursorInv'
  BY <1>1 DEF CursorInv, QueriesInv
<1>6. RunningInv'
  <2> SUFFICES ASSUME NEW d \in Conns, NEW j \in SubIds, running'[d][j] # 0
               PROVE  /\ running'[d][j] \in 1..Len(queries')
                      /\ queries'[running'[d][j]].conn = d
                      /\ queries'[running'[d][j]].sub.id = j
                      /\ queries'[running'[d][j]].sub \in subs'[d]
                      /\ ~queries'[running'[d][j]].stop
    BY DEF RunningInv
  <2> DEFINE m == running[d][j]
  <2>1. running'[d][j] = m /\ d # c
    BY <1>3
  <2>2. /\ m \in 1..Len(queries) /\ queries[m].conn = d /\ queries[m].sub.id = j
        /\ queries[m].sub \in subs[d] /\ ~queries[m].stop
    BY <2>1 DEF QueriesInv, RunningInv
  <2>3. \A i \in SubIds : running[c][i] # m
    BY <2>1, <2>2 DEF QueriesInv, RunningInv
  <2> HIDE DEF m
  <2>4. queries'[m] = queries[m] /\ m \in 1..Len(queries')
    BY <2>2, <2>3, <1>1
  <2> QED
    BY <2>1, <2>2, <2>4, <1>2
<1> QED
  BY <1>4, <1>5, <1>6 DEF QueriesInv

LEMMA QueryQueriesStep ==
  ASSUME PipeType, QueriesInv, NEW n \in DOMAIN queries, Query(n)
  PROVE  QueriesInv'
<1>1. Kin(n) /\ Moves(n) /\ UNCHANGED queryOnly
  BY QueryMoves
<1>2. n \in 1..Len(queries) /\ Len(queries') = Len(queries)
  BY <1>1 DEF Kin, PipeType, QueryType
<1>3. queries[n].k \in Nat
  <2>1. queries[n] \in QueryRecs
    BY DEF PipeType, QueryType
  <2> QED
    BY <2>1 DEF QueryRecs
<1>4. /\ queries[n].pc # "rows" => queries[n].rows = {}
      /\ queries[n].pc = "queued" => queries[n].k = 1
      /\ queries[n].k >= 1
  BY <1>2 DEF QueriesInv, CursorInv
<1>5. /\ queries'[n].pc # "rows" => queries'[n].rows = {}
      /\ queries'[n].pc = "queued" => queries'[n].k = 1
      /\ queries'[n].k >= 1
  BY <1>1, <1>3, <1>4 DEF Moves, Begins, Selects, Breaks, Sends, Advances, Ends
<1>6. CursorInv'
  BY <1>1, <1>2, <1>5 DEF CursorInv, QueriesInv, Kin
<1>7. OpenInv'
  BY <1>1 DEF OpenInv, QueriesInv, queryOnly
<1>8. RunningInv'
  <2>1. running' = running /\ subs' = subs
    BY <1>1 DEF queryOnly
  <2>2. \A m \in 1..Len(queries) :
          /\ queries'[m].conn = queries[m].conn /\ queries'[m].sub = queries[m].sub
          /\ queries'[m].stop = queries[m].stop
    BY <1>1 DEF Kin
  <2> QED
    BY <2>1, <2>2, <1>2 DEF RunningInv, QueriesInv
<1> QED
  BY <1>6, <1>7, <1>8 DEF QueriesInv

\* Every step keeps the queries and the subscriptions they serve in order.
LEMMA QueriesStep ==
  ASSUME PipeType, QueriesInv, [Next]_vars
  PROVE  QueriesInv'
<1>1. CASE UNCHANGED <<queries, running, subs, state>>
  BY <1>1 DEF QueriesInv, OpenInv, CursorInv, RunningInv
<1>2. ASSUME NEW c \in Conns, connect(c)
      PROVE  QueriesInv'
  <2>1. OpenInv'
    BY <1>2 DEF connect, QueriesInv, OpenInv, PipeType, ConnType
  <2> QED
    BY <1>2, <2>1 DEF connect, QueriesInv, CursorInv, RunningInv
<1>3. \/ UNCHANGED <<queries, running, subs, state>>
      \/ \E c \in Conns : \/ connect(c) \/ disconnect(c)
                          \/ \E s \in Subs : req(c, s)
                          \/ \E i \in SubIds : close(c, i)
      \/ \E n \in DOMAIN queries : Query(n)
  BY DEF Next, Deliver, Writer, vars, submit, event_msg, deliver_bcast, deliver_result, deliver_notice,
         writer_recv, writer_write, writer_bcast, writer_notice, writerOnly
<1> QED
  BY <1>1, <1>2, <1>3, ReqQueriesStep, CloseQueriesStep, DisconnectQueriesStep, QueryQueriesStep

-------------------------------------------------------------------------------
(* No event falls between the historical query and the live feed. *)

\* A query that is only told to stop, if anything, has the same events ahead.
LEMMA AheadSame ==
  ASSUME NEW m, NEW e, Ahead(m, e),
         queries'[m].sub = queries[m].sub, queries'[m].pc = queries[m].pc,
         queries'[m].k = queries[m].k, queries'[m].rows = queries[m].rows
  PROVE  Ahead(m, e)'
BY DEF Ahead

\* A stored event that the current query of a subscription has ahead of it is
\* still ahead after a step of any query, or has been sent, or the query gave up.
LEMMA AheadStep ==
  ASSUME PipeType, QueriesInv, NEW n \in DOMAIN queries, Query(n),
         NEW c \in Conns, NEW s \in subs[c], NEW e \in stored \cap Wants(s),
         NEW m, m = running[c][s.id], m # 0, Ahead(m, e)
  PROVE  Ahead(m, e)' \/ <<s.id, e>> \in Range(results'[c]) \/ <<c, s.id>> \in missed'
<1>1. Kin(n) /\ Moves(n) /\ UNCHANGED queryOnly
  BY QueryMoves
<1>2. s \in Subs /\ s.id \in SubIds /\ state[c] = "open"
  BY DEF PipeType, ConnType, SubIds, QueriesInv, OpenInv
<1>3. /\ m \in 1..Len(queries) /\ queries[m].conn = c /\ queries[m].sub.id = s.id
      /\ queries[m].sub \in subs[c] /\ ~queries[m].stop
  BY <1>2 DEF QueriesInv, RunningInv
<1>4. queries[m].sub = s
  BY <1>3 DEF PipeType, ConnType
<1>5. CASE m # n
  <2>1. queries'[m] = queries[m]
    BY <1>1, <1>3, <1>5 DEF Kin
  <2> QED
    BY <2>1, AheadSame
<1>6. CASE m = n
  <2>1. queries'[m].sub = s
    BY <1>1, <1>4, <1>6 DEF Kin
  <2>2. /\ queries[m].pc # "rows" => queries[m].rows = {}
        /\ queries[m].pc = "queued" => queries[m].k = 1
    BY <1>3 DEF QueriesInv, CursorInv
  <2>3. queries[m].k \in Nat
    <3>1. queries[m] \in QueryRecs
      BY <1>6 DEF PipeType, QueryType
    <3> QED
      BY <3>1 DEF QueryRecs
  <2>4. s.filters \in Seq(SUBSET Events) /\ DOMAIN s.filters = 1..Len(s.filters)
        /\ Len(s.filters) \in Nat
    BY <1>2, PipelineAssumption
  <2>5. GivesUp(n) => <<c, s.id>> \in missed'
    BY <1>3, <1>6 DEF GivesUp
  <2>6. CASE Begins(n)
    <3>1. PICK k \in DOMAIN s.filters : e \in s.filters[k]
      BY DEF Wants
    <3>2. k >= 1 /\ k \in Nat
      BY <2>4
    <3>3. queries'[m].pc = "filter" => queries'[m].k = 1
      BY <2>6, <2>2, <1>6 DEF Begins
    <3>4. queries'[m].pc = "filter" => Ahead(m, e)'
      BY <2>1, <3>1, <3>2, <3>3 DEF Ahead
    <3> QED
      BY <2>5, <2>6, <3>4, <1>3, <1>6 DEF Begins
  <2>7. CASE Selects(n)
    <3>1. PICK k \in DOMAIN s.filters : e \in s.filters[k] /\ k >= queries[m].k
      BY <2>2, <2>7, <1>4, <1>6 DEF Ahead, Selects
    <3>2. queries[m].k <= Len(s.filters)
      BY <3>1, <2>3, <2>4
    <3>3. /\ queries'[m].pc = "rows" /\ queries'[m].k = queries[m].k
          /\ queries'[m].rows = stored \cap s.filters[queries[m].k]
      BY <2>3, <2>4, <2>7, <3>2, <1>4, <1>6 DEF Selects
    <3>4. CASE k = queries[m].k
      BY <3>1, <3>3, <3>4 DEF Ahead
    <3>5. CASE k > queries[m].k
      BY <2>1, <3>1, <3>3, <3>5 DEF Ahead
    <3> QED
      BY <2>3, <2>4, <3>1, <3>4, <3>5
  <2>8. CASE Breaks(n)
    BY <2>5, <2>8, <1>3, <1>6 DEF Breaks
  <2>9. ASSUME NEW x \in queries[n].rows, Sends(n, x)
        PROVE  Ahead(m, e)' \/ <<s.id, e>> \in Range(results'[c])
    <3>1. x \in Events
      <4>1. queries[n] \in QueryRecs
        BY DEF PipeType, QueryType
      <4> QED
        BY <4>1 DEF QueryRecs
    <3>2. <<s.id, x>> \in Range(results'[c])
      BY <2>9, <3>1, <1>2, <1>3, <1>6, DepositedFacts DEF Sends
    <3>3. CASE e = x
      BY <3>2, <3>3
    <3>4. CASE e # x
      BY <2>1, <2>9, <3>4, <1>4, <1>6 DEF Sends, Ahead
    <3> QED
      BY <3>3, <3>4
  <2>10. CASE Advances(n)
    <3>1. PICK k \in DOMAIN s.filters : e \in s.filters[k] /\ k > queries[m].k
      BY <2>10, <1>4, <1>6 DEF Ahead, Advances
    <3>2. k >= queries[m].k + 1
      BY <3>1, <2>3, <2>4
    <3> QED
      BY <2>1, <2>10, <3>1, <3>2, <1>6 DEF Ahead, Advances
  <2>11. CASE Ends(n)
    BY <2>2, <2>11, <1>6 DEF Ahead, Ends
  <2> QED
    BY <1>1, <2>6, <2>7, <2>8, <2>9, <2>10, <2>11 DEF Moves
<1> QED
  BY <1>5, <1>6

\* A query takes nothing back: neither results nor the mark of having given up.
LEMMA QueryGrows ==
  ASSUME PipeType, NEW n \in DOMAIN queries, Query(n)
  PROVE  /\ \A c \in Conns : Range(results[c]) \subseteq Range(results'[c])
         /\ missed \subseteq missed'
<1>1. Kin(n) /\ Moves(n) /\ UNCHANGED queryOnly
  BY QueryMoves
<1>2. missed \subseteq missed'
  BY <1>1 DEF Moves, Begins, Selects, Breaks, Sends, Advances, Ends, GivesUp
<1>3. queries[n].rows \subseteq Events
  <2>1. queries[n] \in QueryRecs
    BY DEF PipeType, QueryType
  <2> QED
    BY <2>1 DEF QueryRecs
<1>4. CASE results' = results
  BY <1>2, <1>4
<1>5. ASSUME NEW x \in queries[n].rows \cup {"EOSE"}, results' = Deposited(queries[n], x)
      PROVE  \A c \in Conns : Range(results[c]) \subseteq Range(results'[c])
  BY <1>3, <1>5, DepositedFacts
<1>6. \/ results' = results
      \/ \E x \in queries[n].rows \cup {"EOSE"} : results' = Deposited(queries[n], x)
  BY <1>1 DEF Moves, Begins, Selects, Breaks, Sends, Advances, Ends
<1> QED
  BY <1>2, <1>4, <1>5, <1>6

\* What NoGap promises for one event: it reached the client or is on its way.
Reached(c, s, e) ==
  \/ e \in view[c][s.id].got
  \/ e \in Range(bcast[c])
  \/ <<s.id, e>> \in Range(results[c])
  \/ writer.pc = "bcast" /\ writer.ev = e
  \/ running[c][s.id] # 0 /\ Ahead(running[c][s.id], e)
  \/ c \in missed \/ <<c, s.id>> \in missed

Owed(c, s) == (stored \cap Wants(s)) \ (IF s.live THEN view[c][s.id].base ELSE {})

\* Nothing is taken from a client by a step that leaves its subscription, its
\* channels and its query as they are or adds to them.
LEMMA GapSame ==
  ASSUME NEW c \in Conns, NEW s \in subs[c], NEW e, Reached(c, s, e),
         view[c][s.id].got \subseteq view'[c][s.id].got,
         Range(bcast[c]) \subseteq Range(bcast'[c]),
         Range(results[c]) \subseteq Range(results'[c]),
         writer.pc = "bcast" => writer' = writer,
         running'[c][s.id] = running[c][s.id],
         running[c][s.id] # 0 /\ Ahead(running[c][s.id], e) => Ahead(running[c][s.id], e)',
         c \in missed => c \in missed', <<c, s.id>> \in missed => <<c, s.id>> \in missed'
  PROVE  Reached(c, s, e)'
BY DEF Reached

\* The writer: a written event is about to be broadcast, and a broadcast one is
\* in the channel of every open connection that does not lag.
LEMMA WriterGap ==
  ASSUME PipeType, QueriesInv, NoGap, Writer
  PROVE  NoGap'
<1> SUFFICES ASSUME NEW c \in Conns, NEW s \in subs'[c], NEW e \in Owed(c, s)'
             PROVE  Reached(c, s, e)'
  BY DEF NoGap, Owed, Reached
<1>1. UNCHANGED writerOnly
  BY DEF Writer, writer_recv, writer_write, writer_bcast, writer_notice
<1>2. s \in subs[c] /\ state[c] = "open" /\ s.id \in SubIds
  BY <1>1 DEF writerOnly, QueriesInv, OpenInv, PipeType, ConnType, SubIds
<1>3. e \in Owed(c, s) => Reached(c, s, e)
  BY <1>2 DEF NoGap, Owed, Reached
<1>4. Ahead(running[c][s.id], e) => Ahead(running[c][s.id], e)'
  BY <1>1 DEF writerOnly, Ahead
<1>5. CASE writer_recv \/ writer_notice
  <2>1. UNCHANGED <<stored, bcast, missed>> /\ writer.pc # "bcast"
    BY <1>5 DEF writer_recv, writer_notice
  <2>2. e \in Owed(c, s)
    BY <1>1, <2>1 DEF Owed, writerOnly
  <2> QED
    BY <1>1, <1>2, <1>3, <1>4, <2>1, <2>2, GapSame DEF writerOnly
<1>6. CASE writer_write
  <2>1. UNCHANGED <<bcast, missed>> /\ writer.pc # "bcast" /\ writer \in Writers
    BY <1>6 DEF writer_write, PipeType, WriterType
  <2>2. CASE e \in Owed(c, s)
    BY <1>1, <1>2, <1>3, <1>4, <2>1, <2>2, GapSame DEF writerOnly
  <2>3. CASE e \notin Owed(c, s)
    <3>1. stored' # stored /\ e = writer.ev /\ writer' = [writer EXCEPT !.pc = "bcast"]
      BY <1>1, <1>6, <2>3 DEF Owed, writerOnly, writer_write
    <3>2. writer'.pc = "bcast" /\ writer'.ev = e
      BY <3>1, <2>1 DEF Writers
    <3> QED
      BY <3>2 DEF Reached
  <2> QED
    BY <2>2, <2>3
<1>7. CASE writer_bcast
  <2>1. writer.ev \in Events /\ stored' = stored /\ Broadcast(writer.ev)
    BY <1>7 DEF writer_bcast, PipeType, WriterType
  <2>2. /\ missed \subseteq missed'
        /\ c \in missed' \/ Range(bcast[c]) \subseteq Range(bcast'[c])
        /\ c \in missed' \/ writer.ev \in Range(bcast'[c])
    BY <2>1, <1>2, BroadcastFacts
  <2>3. Reached(c, s, e)
    BY <1>1, <1>3, <2>1 DEF Owed, writerOnly
  <2>4. CASE c \in missed'
    BY <2>4 DEF Reached
  <2>5. CASE c \notin missed' /\ e = writer.ev
    BY <2>2, <2>5 DEF Reached
  <2>6. CASE c \notin missed' /\ e # writer.ev
    BY <1>1, <1>4, <2>2, <2>3, <2>6 DEF Reached, writerOnly
  <2> QED
    BY <2>4, <2>5, <2>6
<1> QED
  BY <1>5, <1>6, <1>7 DEF Writer

\* Deliveries move an event from a channel to the client.
LEMMA DeliverGap ==
  ASSUME PipeType, QueriesInv, NoGap, NEW d \in Conns, deliver_bcast(d) \/ deliver_result(d)
  PROVE  NoGap'
<1> SUFFICES ASSUME NEW c \in Conns, NEW s \in subs'[c], NEW e \in Owed(c, s)'
             PROVE  Reached(c, s, e)'
  BY DEF NoGap, Owed, Reached
<1>1. UNCHANGED <<stored, writer, subs, running, queries, missed>>
  BY DEF deliver_bcast, deliver_result
<1>2. s \in subs[c] /\ s.id \in SubIds
  BY <1>1 DEF PipeType, ConnType, SubIds
<1>3. Ahead(running[c][s.id], e) => Ahead(running[c][s.id], e)'
  BY <1>1 DEF Ahead
<1>4. e \in Events /\ e \in Wants(s)
  BY <1>1 DEF Owed, PipeType, WriterType
<1>5. CASE deliver_bcast(d)
  <2>1. results' = results /\ view'[c][s.id].base = view[c][s.id].base
        /\ view[c][s.id].got \subseteq view'[c][s.id].got
    BY <1>2, <1>5, DeliverBcastFacts DEF deliver_bcast
  <2>2. Reached(c, s, e)
    BY <1>1, <1>2, <2>1 DEF NoGap, Owed, Reached
  <2>3. CASE c # d
    <3>1. bcast'[c] = bcast[c]
      BY <1>5, <2>3, DeliverBcastFacts
    <3> QED
      BY <1>1, <1>2, <1>3, <2>1, <2>2, <3>1, GapSame
  <2>4. CASE c = d
    <3>1. /\ Range(bcast[c]) = {Head(bcast[c])} \cup Range(bcast'[c])
          /\ Head(bcast[c]) \in Wants(s) => Head(bcast[c]) \in view'[c][s.id].got
      BY <1>2, <1>5, <2>4, DeliverBcastFacts
    <3> QED
      BY <1>1, <1>3, <1>4, <2>1, <2>2, <3>1 DEF Reached
  <2> QED
    BY <2>3, <2>4
<1>6. CASE deliver_result(d)
  <2>1. bcast' = bcast /\ view'[c][s.id].base = view[c][s.id].base
        /\ view[c][s.id].got \subseteq view'[c][s.id].got
    <3>1. bcast' = bcast
      BY <1>6 DEF deliver_result
    <3> QED
      BY <1>2, <1>6, <3>1, DeliverResultFacts
  <2>2. Reached(c, s, e)
    BY <1>1, <1>2, <2>1 DEF NoGap, Owed, Reached
  <2>3. CASE c # d
    <3>1. results'[c] = results[c]
      BY <1>6, <2>3, DeliverResultFacts
    <3> QED
      BY <1>1, <1>2, <1>3, <2>1, <2>2, <3>1, GapSame
  <2>4. CASE c = d
    <3>1. Range(results[c]) = {Head(results[c])} \cup Range(results'[c])
      BY <1>6, <2>4, DeliverResultFacts
    <3>2. Head(results[c]) = <<s.id, e>> => e \in view'[c][s.id].got
      <4>1. e # "EOSE"
        BY <1>4, PipelineAssumption
      <4> QED
        BY <1>2, <1>6, <2>4, <4>1, DeliverResultFacts
    <3> QED
      BY <1>1, <1>3, <2>1, <2>2, <3>1, <3>2 DEF Reached
  <2> QED
    BY <2>3, <2>4
<1> QED
  BY <1>5, <1>6

\* REQ: its own subscription is served by the query that it starts, or is owed
\* nothing that was stored before; the other subscriptions keep their queries.
LEMMA ReqGap ==
  ASSUME PipeType, QueriesInv, NoGap, NEW d \in Conns, NEW t \in Subs, req(d, t)
  PROVE  NoGap'
<1> SUFFICES ASSUME NEW c \in Conns, NEW s \in subs'[c], NEW e \in Owed(c, s)'
             PROVE  Reached(c, s, e)'
  BY DEF NoGap, Owed, Reached
<1>0. t.id \in SubIds /\ t.live \in BOOLEAN /\ Len(queries) \in Nat
  BY PipelineAssumption DEF SubIds, PipeType, QueryType
<1>1. UNCHANGED <<stored, writer, bcast, results>>
  BY DEF req
<1>2. subs'[c] = IF c = d THEN Others(d, t) \cup {t} ELSE subs[c]
  BY DEF req, PipeType, ConnType
<1>3. \A i \in SubIds :
        /\ running'[c][i] = IF c = d /\ i = t.id THEN (IF t.live THEN 0 ELSE Len(queries) + 1)
                            ELSE running[c][i]
        /\ ~(c = d /\ i = t.id) => view'[c][i] = view[c][i]
  BY <1>0 DEF req, PipeType, QueryType, ViewType
<1>4. s \in Subs /\ s.id \in SubIds
  BY <1>2 DEF Others, PipeType, ConnType, SubIds
<1>5. CASE c = d /\ s = t
  <2>1. CASE s.live
    <3>1. view'[d][t.id].base = stored \cap Wants(t)
      BY <1>0 DEF req, PipeType, ViewType, NoView
    <3> QED
      BY <1>1, <1>5, <2>1, <3>1 DEF Owed
  <2>2. CASE ~s.live
    <3>1. running'[c][s.id] = Len(queries) + 1 /\ queries'[Len(queries) + 1] = NewQuery(d, t)
      BY <1>0, <1>3, <1>5, <2>2, ReqFacts
    <3>2. queries'[Len(queries) + 1].pc = "queued"
      BY <3>1 DEF NewQuery
    <3>3. Ahead(running[c][s.id], e)'
      BY <3>1, <3>2 DEF Ahead
    <3> QED
      BY <3>1, <3>3, <1>0 DEF Reached
  <2> QED
    BY <2>1, <2>2
<1>6. CASE ~(c = d /\ s = t)
  <2>1. s \in subs[c] /\ ~(c = d /\ s.id = t.id)
    BY <1>2, <1>6 DEF Others
  <2>2. running'[c][s.id] = running[c][s.id] /\ view'[c][s.id] = view[c][s.id]
    BY <1>3, <1>4, <2>1
  <2>3. Reached(c, s, e)
    BY <1>1, <2>1, <2>2 DEF NoGap, Owed, Reached
  <2>4. running[c][s.id] # 0 /\ Ahead(running[c][s.id], e) => Ahead(running[c][s.id], e)'
    <3> SUFFICES ASSUME NEW m, m = running[c][s.id], m # 0, Ahead(m, e)
                 PROVE  Ahead(m, e)'
      BY <2>2
    <3>1. m \in 1..Len(queries)
      BY <1>4 DEF QueriesInv, RunningInv
    <3>2. /\ queries'[m].sub = queries[m].sub /\ queries'[m].pc = queries[m].pc
          /\ queries'[m].k = queries[m].k /\ queries'[m].rows = queries[m].rows
      BY <3>1, ReqFacts
    <3> QED
      BY <3>2, AheadSame
  <2>5. missed' = missed \ {<<d, t.id>>}
    BY DEF req
  <2>6. c # <<d, t.id>> /\ <<c, s.id>> # <<d, t.id>>
    BY <2>1, <1>0, PipelineAssumption
  <2> QED
    BY <1>1, <2>1, <2>2, <2>3, <2>4, <2>5, <2>6, GapSame
<1> QED
  BY <1>5, <1>6

\* The subscriptions that CLOSE and the end of a connection leave alone.
LEMMA DropKeeps ==
  ASSUME PipeType, NEW d \in Conns, disconnect(d) \/ \E i \in SubIds : close(d, i)
  PROVE  /\ UNCHANGED <<stored, writer, view, missed>>
         /\ Len(queries') = Len(queries)
         /\ \A m \in 1..Len(queries) :
              /\ queries'[m].conn = queries[m].conn /\ queries'[m].sub = queries[m].sub
              /\ queries'[m].pc = queries[m].pc /\ queries'[m].k = queries[m].k
              /\ queries'[m].rows = queries[m].rows
         /\ \A c \in Conns : \A s \in subs'[c] :
              /\ s \in subs[c] /\ s.id \in SubIds /\ running'[c][s.id] = running[c][s.id]
              /\ bcast'[c] = bcast[c] /\ results'[c] = results[c]
<1>1. UNCHANGED <<stored, writer, view, missed>>
  BY DEF disconnect, close
<1>2. /\ Len(queries') = Len(queries)
      /\ \A m \in 1..Len(queries) :
           /\ queries'[m].conn = queries[m].conn /\ queries'[m].sub = queries[m].sub
           /\ queries'[m].pc = queries[m].pc /\ queries'[m].k = queries[m].k
           /\ queries'[m].rows = queries[m].rows
  BY DisconnectFacts, CloseFacts
<1>3. ASSUME NEW c \in Conns, NEW s \in subs'[c]
      PROVE  /\ s \in subs[c] /\ s.id \in SubIds /\ running'[c][s.id] = running[c][s.id]
             /\ bcast'[c] = bcast[c] /\ results'[c] = results[c]
  <2>1. CASE disconnect(d)
    <3>1. c # d /\ s \in subs[c]
      BY <2>1, <1>3 DEF disconnect, PipeType, ConnType
    <3>2. s.id \in SubIds
      BY <3>1 DEF PipeType, ConnType, SubIds
    <3> QED
      BY <2>1, <3>1, <3>2 DEF disconnect, PipeType, QueryType, BcastType, ResultsType
  <2>2. ASSUME NEW i \in SubIds, close(d, i)
        PROVE  s \in subs[c] /\ s.id \in SubIds /\ running'[c][s.id] = running[c][s.id]
               /\ bcast'[c] = bcast[c] /\ results'[c] = results[c]
    <3>1. s \in subs[c] /\ ~(c = d /\ s.id = i)
      BY <2>2, <1>3 DEF close, PipeType, ConnType
    <3>2. s.id \in SubIds
      BY <3>1 DEF PipeType, ConnType, SubIds
    <3> QED
      BY <2>2, <3>1, <3>2 DEF close, PipeType, QueryType
  <2> QED
    BY <2>1, <2>2
<1> QED
  BY <1>1, <1>2, <1>3

\* CLOSE and the end of a connection drop subscriptions; the others keep theirs.
LEMMA DropGap ==
  ASSUME PipeType, QueriesInv, NoGap, NEW d \in Conns,
         disconnect(d) \/ \E i \in SubIds : close(d, i)
  PROVE  NoGap'
<1> SUFFICES ASSUME NEW c \in Conns, NEW s \in subs'[c], NEW e \in Owed(c, s)'
             PROVE  Reached(c, s, e)'
  BY DEF NoGap, Owed, Reached
<1>1. UNCHANGED <<stored, writer, view, missed>>
  BY DropKeeps
<1>2. s \in subs[c] /\ s.id \in SubIds /\ running'[c][s.id] = running[c][s.id]
      /\ bcast'[c] = bcast[c] /\ results'[c] = results[c]
  BY DropKeeps
<1>3. Reached(c, s, e)
  BY <1>1, <1>2 DEF NoGap, Owed, Reached
<1>4. running[c][s.id] # 0 /\ Ahead(running[c][s.id], e) => Ahead(running[c][s.id], e)'
  <2> SUFFICES ASSUME NEW m, m = running[c][s.id], m # 0, Ahead(m, e)
               PROVE  Ahead(m, e)'
    BY <1>2
  <2>1. m \in 1..Len(queries)
    BY <1>2 DEF QueriesInv, RunningInv
  <2>2. /\ queries'[m].sub = queries[m].sub /\ queries'[m].pc = queries[m].pc
        /\ queries'[m].k = queries[m].k /\ queries'[m].rows = queries[m].rows
    BY <2>1, DropKeeps
  <2> QED
    BY <2>2, AheadSame
<1> QED
  BY <1>1, <1>2, <1>3, <1>4, GapSame

\* A query sends what it had ahead, or gives up.
LEMMA QueryGap ==
  ASSUME PipeType, QueriesInv, NoGap, NEW n \in DOMAIN queries, Query(n)
  PROVE  NoGap'
<1> SUFFICES ASSUME NEW c \in Conns, NEW s \in subs'[c], NEW e \in Owed(c, s)'
             PROVE  Reached(c, s, e)'
  BY DEF NoGap, Owed, Reached
<1>1. Kin(n) /\ Moves(n) /\ UNCHANGED queryOnly
  BY QueryMoves
<1>2. s \in subs[c]
  BY <1>1 DEF queryOnly
<1>3. e \in Owed(c, s) /\ Reached(c, s, e) /\ e \in stored \cap Wants(s)
  BY <1>1, <1>2 DEF queryOnly, NoGap, Owed, Reached
<1>4. Range(results[c]) \subseteq Range(results'[c]) /\ missed \subseteq missed'
  BY QueryGrows
<1>5. running[c][s.id] # 0 /\ Ahead(running[c][s.id], e) =>
        \/ Ahead(running[c][s.id], e)' \/ <<s.id, e>> \in Range(results'[c])
        \/ <<c, s.id>> \in missed'
  <2> SUFFICES ASSUME NEW m, m = running[c][s.id], m # 0, Ahead(m, e)
               PROVE  Ahead(m, e)' \/ <<s.id, e>> \in Range(results'[c]) \/ <<c, s.id>> \in missed'
    BY <1>1 DEF queryOnly
  <2> QED
    BY <1>2, <1>3, AheadStep
<1> QED
  BY <1>1, <1>3, <1>4, <1>5 DEF Reached, queryOnly

\* Every step keeps NoGap.
LEMMA GapStep ==
  ASSUME PipeType, QueriesInv, NoGap, [Next]_vars
  PROVE  NoGap'
<1>1. CASE UNCHANGED <<stored, writer, subs, running, bcast, results, queries, view, missed>>
  <2>1. \A m, e : Ahead(m, e) => Ahead(m, e)'
    BY <1>1 DEF Ahead
  <2> SUFFICES ASSUME NEW c \in Conns, NEW s \in subs'[c], NEW e \in Owed(c, s)'
               PROVE  Reached(c, s, e)'
    BY DEF NoGap, Owed, Reached
  <2>2. s \in subs[c] /\ Reached(c, s, e)
    BY <1>1 DEF NoGap, Owed, Reached
  <2> QED
    BY <1>1, <2>1, <2>2 DEF Reached
<1>2. \/ UNCHANGED <<stored, writer, subs, running, bcast, results, queries, view, missed>>
      \/ \E c \in Conns : \/ deliver_bcast(c) \/ deliver_result(c) \/ disconnect(c)
                          \/ \E s \in Subs : req(c, s)
                          \/ \E i \in SubIds : close(c, i)
      \/ Writer
      \/ \E n \in DOMAIN queries : Query(n)
  BY DEF Next, Deliver, vars, connect, submit, event_msg, deliver_notice
<1> QED
  BY <1>1, <1>2, WriterGap, DeliverGap, ReqGap, DropGap, QueryGap

\* No event falls between the historical query and the live feed: a stored event
\* that a subscription wants has reached the client or is on its way, in every
\* interleaving of the writer, the REQ and the query, unless the client lags
\* behind the broadcast channel or its query gave up.
THEOREM GapNever == Spec => []NoGap
<1>1. Init => PipeType /\ QueriesInv /\ NoGap
  <2> SUFFICES ASSUME Init PROVE QueriesInv /\ NoGap
    BY TypeInit
  <2>1. OpenInv /\ CursorInv /\ RunningInv
    BY DEF Init, OpenInv, CursorInv, RunningInv
  <2>2. NoGap
    BY DEF Init, NoGap
  <2> QED
    BY <2>1, <2>2 DEF QueriesInv
<1>2. PipeType /\ QueriesInv /\ NoGap /\ [Next]_vars => (PipeType /\ QueriesInv /\ NoGap)'
  BY TypeStep, QueriesStep, GapStep
<1> QED
  BY <1>1, <1>2, PTL DEF Spec

-------------------------------------------------------------------------------
(* EOSE comes after the stored events. *)

\* Nothing is known of an id that was never requested: no query, no result.
FirstUse ==
  \A c \in Conns, i \in SubIds :
    /\ ~view[c][i].asked =>
         /\ ~view[c][i].again
         /\ \A n \in 1..Len(queries) : ~(queries[n].conn = c /\ queries[n].sub.id = i)
         /\ \A x \in Range(results[c]) : x[1] # i
    /\ \A s \in subs[c] : s.id = i => view[c][i].asked

\* An id in its first use has no query but the one in running_queries, and was
\* promised only events that are stored and wanted.
UniqueInv ==
  \A c \in Conns : \A s \in subs[c] :
    /\ view[c][s.id].base \subseteq stored \cap Wants(s)
    /\ ~view[c][s.id].again =>
         \A m \in 1..Len(queries) : queries[m].conn = c /\ queries[m].sub.id = s.id => m = running[c][s.id]

\* Event e is sent to the client before position p of its results.
Before(c, s, e, p) ==
  e \in view[c][s.id].got \/ \E r \in 1..(p - 1) : results[c][r] = <<s.id, e>>

\* Where the events stored at the REQ are when EOSE was sent, is in the channel,
\* or is still to come.
Complete(c, s) ==
  /\ view[c][s.id].eose => view[c][s.id].base \subseteq view[c][s.id].got
  /\ \A p \in 1..Len(results[c]) :
       results[c][p] = <<s.id, "EOSE">> => \A e \in view[c][s.id].base : Before(c, s, e, p)
  /\ running[c][s.id] # 0 =>
       \A e \in view[c][s.id].base : \/ e \in view[c][s.id].got
                                     \/ <<s.id, e>> \in Range(results[c])
                                     \/ Ahead(running[c][s.id], e)

CompleteInv ==
  \A c \in Conns : \A s \in subs[c] :
    ~view[c][s.id].again /\ <<c, s.id>> \notin missed => Complete(c, s)

EoseInv == FirstUse /\ UniqueInv /\ CompleteInv

\* What a REQ does to the history of its id, and to that of the others.
LEMMA ReqViews ==
  ASSUME PipeType, NEW d \in Conns, NEW t \in Subs, req(d, t)
  PROVE  /\ view'[d][t.id].asked /\ view'[d][t.id].again = view[d][t.id].asked
         /\ view'[d][t.id].got = {} /\ view'[d][t.id].base = stored \cap Wants(t)
         /\ ~view'[d][t.id].eose
         /\ \A c \in Conns, i \in SubIds : ~(c = d /\ i = t.id) => view'[c][i] = view[c][i]
<1>1. t.id \in SubIds
  BY DEF SubIds
<1> DEFINE w == [NoView EXCEPT !.asked = TRUE, !.again = view[d][t.id].asked, !.base = stored \cap Wants(t)]
<1>2. view' = [view EXCEPT ![d][t.id] = w]
  BY DEF req
<1>3. /\ w.asked = TRUE /\ w.again = view[d][t.id].asked /\ w.got = {} /\ w.base = stored \cap Wants(t)
      /\ w.eose = FALSE
  BY DEF NoView
<1> HIDE DEF w
<1>4. /\ view'[d][t.id] = w
      /\ \A c \in Conns, i \in SubIds : ~(c = d /\ i = t.id) => view'[c][i] = view[c][i]
  BY <1>1, <1>2 DEF PipeType, ViewType
<1> QED
  BY <1>3, <1>4

\* Steps that add neither queries nor results and take no request back.
LEMMA FirstUseSame ==
  ASSUME FirstUse,
         \A c \in Conns : subs'[c] \subseteq subs[c] /\ Range(results'[c]) \subseteq Range(results[c]),
         Len(queries') = Len(queries),
         \A m \in 1..Len(queries) :
           queries'[m].conn = queries[m].conn /\ queries'[m].sub = queries[m].sub,
         \A c \in Conns, i \in SubIds :
           view'[c][i].asked = view[c][i].asked /\ view'[c][i].again = view[c][i].again
  PROVE  FirstUse'
<1> SUFFICES ASSUME NEW c \in Conns, NEW i \in SubIds
             PROVE  /\ ~view'[c][i].asked =>
                         /\ ~view'[c][i].again
                         /\ \A n \in 1..Len(queries') : ~(queries'[n].conn = c /\ queries'[n].sub.id = i)
                         /\ \A x \in Range(results'[c]) : x[1] # i
                    /\ \A s \in subs'[c] : s.id = i => view'[c][i].asked
  BY DEF FirstUse
<1>1. /\ ~view[c][i].asked =>
           /\ ~view[c][i].again
           /\ \A n \in 1..Len(queries) : ~(queries[n].conn = c /\ queries[n].sub.id = i)
           /\ \A x \in Range(results[c]) : x[1] # i
      /\ \A s \in subs[c] : s.id = i => view[c][i].asked
  BY DEF FirstUse
<1>2. view'[c][i].asked = view[c][i].asked /\ view'[c][i].again = view[c][i].again
  OBVIOUS
<1>3. ~view'[c][i].asked => \A n \in 1..Len(queries') : ~(queries'[n].conn = c /\ queries'[n].sub.id = i)
  BY <1>1, <1>2
<1>4. ~view'[c][i].asked => \A x \in Range(results'[c]) : x[1] # i
  BY <1>1, <1>2
<1>5. \A s \in subs'[c] : s.id = i => view'[c][i].asked
  BY <1>1, <1>2
<1> QED
  BY <1>1, <1>2, <1>3, <1>4, <1>5

LEMMA FirstUseStep ==
  ASSUME PipeType, FirstUse, [Next]_vars
  PROVE  FirstUse'
<1>1. CASE UNCHANGED <<subs, results, queries, view>>
  BY <1>1, FirstUseSame
<1>2. ASSUME NEW d \in Conns, deliver_bcast(d)
      PROVE  FirstUse'
  <2>1. UNCHANGED <<subs, results, queries>>
    BY <1>2 DEF deliver_bcast
  <2> QED
    BY <1>2, <2>1, DeliverBcastFacts, FirstUseSame
<1>3. ASSUME NEW d \in Conns, deliver_result(d)
      PROVE  FirstUse'
  <2>1. UNCHANGED <<subs, queries>>
    BY <1>3 DEF deliver_result
  <2>2. \A c \in Conns : Range(results'[c]) \subseteq Range(results[c])
    BY <1>3, DeliverResultFacts
  <2>3. \A c \in Conns, i \in SubIds :
           view'[c][i].asked = view[c][i].asked /\ view'[c][i].again = view[c][i].again
    BY <1>3, DeliverResultFacts
  <2> QED
    BY <2>1, <2>2, <2>3, FirstUseSame
<1>4. ASSUME NEW d \in Conns, disconnect(d)
      PROVE  FirstUse'
  <2>1. view' = view /\ \A c \in Conns : subs'[c] \subseteq subs[c]
    BY <1>4 DEF disconnect, PipeType, ConnType
  <2>2. \A c \in Conns : Range(results'[c]) \subseteq Range(results[c])
    <3>1. Range(<<>>) = {}
      BY DEF Range
    <3> QED
      BY <1>4, <3>1 DEF disconnect, PipeType, ResultsType
  <2>3. /\ Len(queries') = Len(queries)
        /\ \A m \in 1..Len(queries) :
             queries'[m].conn = queries[m].conn /\ queries'[m].sub = queries[m].sub
    BY <1>4, DisconnectFacts
  <2> QED
    BY <2>1, <2>2, <2>3, FirstUseSame
<1>5. ASSUME NEW d \in Conns, NEW i \in SubIds, close(d, i)
      PROVE  FirstUse'
  <2>1. view' = view /\ results' = results /\ \A c \in Conns : subs'[c] \subseteq subs[c]
    BY <1>5 DEF close, PipeType, ConnType
  <2>2. /\ Len(queries') = Len(queries)
        /\ \A m \in 1..Len(queries) :
             queries'[m].conn = queries[m].conn /\ queries'[m].sub = queries[m].sub
    BY <1>5, CloseFacts
  <2> QED
    BY <2>1, <2>2, FirstUseSame
<1>6. ASSUME NEW d \in Conns, NEW t \in Subs, req(d, t)
      PROVE  FirstUse'
  <2> SUFFICES ASSUME NEW c \in Conns, NEW i \in SubIds
               PROVE  /\ ~view'[c][i].asked =>
                           /\ ~view'[c][i].again
                           /\ \A n \in 1..Len(queries') : ~(queries'[n].conn = c /\ queries'[n].sub.id = i)
                           /\ \A x \in Range(results'[c]) : x[1] # i
                      /\ \A s \in subs'[c] : s.id = i => view'[c][i].asked
    BY DEF FirstUse
  <2>1. CASE c = d /\ i = t.id
    BY <2>1, <1>6, ReqViews
  <2>2. CASE ~(c = d /\ i = t.id)
    <3>1. view'[c][i] = view[c][i] /\ results' = results
      <4>1. results' = results
        BY <1>6 DEF req
      <4> QED
        BY <2>2, <1>6, <4>1, ReqViews
    <3>2. \A s \in subs'[c] : s.id = i => s \in subs[c]
      BY <2>2, <1>6 DEF req, PipeType, ConnType, Others
    <3>3. \A n \in 1..Len(queries') :
            \/ n \in 1..Len(queries) /\ queries'[n].conn = queries[n].conn /\ queries'[n].sub = queries[n].sub
            \/ queries'[n].conn = d /\ queries'[n].sub = t
      <4>1. Len(queries) \in Nat /\ t.live \in BOOLEAN
        BY PipelineAssumption DEF PipeType, QueryType
      <4>2. ~t.live => queries'[Len(queries) + 1].conn = d /\ queries'[Len(queries) + 1].sub = t
        <5>1. ~t.live => queries'[Len(queries) + 1] = NewQuery(d, t)
          BY <1>6, ReqFacts
        <5> QED
          BY <5>1 DEF NewQuery
      <4>3. /\ Len(queries') = IF t.live THEN Len(queries) ELSE Len(queries) + 1
            /\ \A m \in 1..Len(queries) :
                 queries'[m].conn = queries[m].conn /\ queries'[m].sub = queries[m].sub
        BY <1>6, ReqFacts
      <4> QED
        BY <4>1, <4>2, <4>3
    <3> QED
      BY <2>2, <3>1, <3>2, <3>3 DEF FirstUse
  <2> QED
    BY <2>1, <2>2
<1>7. ASSUME NEW n \in DOMAIN queries, Query(n)
      PROVE  FirstUse'
  <2>1. Kin(n) /\ Moves(n) /\ UNCHANGED queryOnly
    BY <1>7, QueryMoves
  <2>2. n \in 1..Len(queries) /\ queries[n].rows \subseteq Events
    <3>1. queries[n] \in QueryRecs /\ n \in 1..Len(queries)
      BY DEF PipeType, QueryType
    <3> QED
      BY <3>1 DEF QueryRecs
  <2>3. \A c \in Conns : \A x \in Range(results'[c]) :
          x \in Range(results[c]) \/ (queries[n].conn = c /\ x[1] = queries[n].sub.id)
    <3>1. \/ results' = results
          \/ \E x \in Events \cup {"EOSE"} : results' = Deposited(queries[n], x)
      BY <2>1, <2>2 DEF Moves, Begins, Selects, Breaks, Sends, Advances, Ends
    <3>2. ASSUME NEW x \in Events \cup {"EOSE"}, results' = Deposited(queries[n], x), NEW c \in Conns
          PROVE  \/ Range(results'[c]) = Range(results[c])
                 \/ queries[n].conn = c /\ Range(results'[c]) = Range(results[c]) \cup {<<queries[n].sub.id, x>>}
      <4>1. \/ results'[c] = results[c]
            \/ queries[n].conn = c /\ results'[c] = Append(results[c], <<queries[n].sub.id, x>>)
        BY <3>2, DepositedFacts
      <4>2. results[c] \in Seq(Items) /\ <<queries[n].sub.id, x>> \in Items
        BY <3>2, DepositedFacts DEF PipeType, ResultsType, Items
      <4>3. Range(Append(results[c], <<queries[n].sub.id, x>>)) = Range(results[c]) \cup {<<queries[n].sub.id, x>>}
        BY <4>2, AppendFacts
      <4> QED
        BY <4>1, <4>3
    <3> QED
      BY <3>1, <3>2
  <2>4. view' = view /\ subs' = subs
    BY <2>1 DEF queryOnly
  <2>5. /\ Len(queries') = Len(queries)
        /\ \A m \in 1..Len(queries) :
             queries'[m].conn = queries[m].conn /\ queries'[m].sub = queries[m].sub
    BY <2>1 DEF Kin
  <2> QED
    BY <2>2, <2>3, <2>4, <2>5 DEF FirstUse
<1>8. \/ UNCHANGED <<subs, results, queries, view>>
      \/ \E c \in Conns : \/ deliver_bcast(c) \/ deliver_result(c) \/ disconnect(c)
                          \/ \E s \in Subs : req(c, s)
                          \/ \E i \in SubIds : close(c, i)
      \/ \E n \in DOMAIN queries : Query(n)
  BY DEF Next, Deliver, vars, connect, submit, event_msg, deliver_notice, Writer, writer_recv,
         writer_write, writer_bcast, writer_notice, writerOnly
<1> QED
  BY <1>1, <1>2, <1>3, <1>4, <1>5, <1>6, <1>7, <1>8

\* A step that keeps a subscription, its history and its current query.
LEMMA UniqueSame ==
  ASSUME UniqueInv, stored \subseteq stored',
         Len(queries') = Len(queries),
         \A m \in 1..Len(queries) :
           queries'[m].conn = queries[m].conn /\ queries'[m].sub = queries[m].sub,
         \A c \in Conns : \A s \in subs'[c] :
           /\ s \in subs[c] /\ running'[c][s.id] = running[c][s.id]
           /\ view'[c][s.id].base = view[c][s.id].base
           /\ view'[c][s.id].again = view[c][s.id].again
  PROVE  UniqueInv'
<1> SUFFICES ASSUME NEW c \in Conns, NEW s \in subs'[c]
             PROVE  /\ view'[c][s.id].base \subseteq stored' \cap Wants(s)
                    /\ ~view'[c][s.id].again =>
                         \A m \in 1..Len(queries') :
                           queries'[m].conn = c /\ queries'[m].sub.id = s.id => m = running'[c][s.id]
  BY DEF UniqueInv
<1>1. /\ s \in subs[c] /\ running'[c][s.id] = running[c][s.id]
      /\ view'[c][s.id].base = view[c][s.id].base
      /\ view'[c][s.id].again = view[c][s.id].again
  OBVIOUS
<1>2. /\ view[c][s.id].base \subseteq stored \cap Wants(s)
      /\ ~view[c][s.id].again =>
           \A m \in 1..Len(queries) :
             queries[m].conn = c /\ queries[m].sub.id = s.id => m = running[c][s.id]
  BY <1>1 DEF UniqueInv
<1> QED
  BY <1>1, <1>2

\* A REQ for another id, or of another connection, keeps a subscription too.
LEMMA ReqKeeps ==
  ASSUME PipeType, NEW d \in Conns, NEW t \in Subs, req(d, t),
         NEW c \in Conns, NEW s \in subs'[c], c # d \/ s # t
  PROVE  /\ s \in subs[c] /\ s.id \in SubIds /\ (c # d \/ s.id # t.id)
         /\ running'[c][s.id] = running[c][s.id] /\ view'[c][s.id] = view[c][s.id]
<1>1. s \in subs[c] /\ (c # d \/ s.id # t.id)
  BY DEF req, PipeType, ConnType, Others
<1>2. s.id \in SubIds /\ t.id \in SubIds
  BY <1>1 DEF PipeType, ConnType, SubIds
<1>3. running'[c][s.id] = running[c][s.id]
  BY <1>1, <1>2 DEF req, PipeType, QueryType
<1>4. view'[c][s.id] = view[c][s.id]
  BY <1>1, <1>2, ReqViews
<1> QED
  BY <1>1, <1>2, <1>3, <1>4

LEMMA UniqueStep ==
  ASSUME PipeType, FirstUse, UniqueInv, [Next]_vars
  PROVE  UniqueInv'
<1>1. CASE UNCHANGED <<subs, running, queries, view>> /\ stored \subseteq stored'
  BY <1>1, UniqueSame
<1>2. ASSUME NEW d \in Conns, deliver_bcast(d) \/ deliver_result(d)
      PROVE  UniqueInv'
  <2>1. UNCHANGED <<stored, subs, running, queries>>
    BY <1>2 DEF deliver_bcast, deliver_result
  <2>2. \A c \in Conns, i \in SubIds :
          view'[c][i].base = view[c][i].base /\ view'[c][i].again = view[c][i].again
    BY <1>2, DeliverBcastFacts, DeliverResultFacts
  <2>3. \A c \in Conns : \A s \in subs[c] : s.id \in SubIds
    BY DEF PipeType, ConnType, SubIds
  <2> QED
    BY <2>1, <2>2, <2>3, UniqueSame
<1>3. ASSUME NEW d \in Conns, disconnect(d) \/ \E i \in SubIds : close(d, i)
      PROVE  UniqueInv'
  BY <1>3, DropKeeps, UniqueSame
<1>4. ASSUME NEW n \in DOMAIN queries, Query(n)
      PROVE  UniqueInv'
  <2>1. Kin(n) /\ UNCHANGED queryOnly
    BY <1>4, QueryMoves
  <2>2. /\ Len(queries') = Len(queries)
        /\ \A m \in 1..Len(queries) :
             queries'[m].conn = queries[m].conn /\ queries'[m].sub = queries[m].sub
    BY <2>1 DEF Kin
  <2> QED
    BY <2>1, <2>2, UniqueSame DEF queryOnly
<1>5. ASSUME NEW d \in Conns, NEW t \in Subs, req(d, t)
      PROVE  UniqueInv'
  <2> SUFFICES ASSUME NEW c \in Conns, NEW s \in subs'[c]
               PROVE  /\ view'[c][s.id].base \subseteq stored' \cap Wants(s)
                      /\ ~view'[c][s.id].again =>
                           \A m \in 1..Len(queries') :
                             queries'[m].conn = c /\ queries'[m].sub.id = s.id => m = running'[c][s.id]
    BY DEF UniqueInv
  <2>1. stored' = stored /\ t.id \in SubIds /\ Len(queries) \in Nat /\ t.live \in BOOLEAN
    BY <1>5, PipelineAssumption DEF req, SubIds, PipeType, QueryType
  <2>2. /\ Len(queries') = IF t.live THEN Len(queries) ELSE Len(queries) + 1
        /\ \A m \in 1..Len(queries) :
             queries'[m].conn = queries[m].conn /\ queries'[m].sub = queries[m].sub
        /\ ~t.live => queries'[Len(queries) + 1] = NewQuery(d, t)
    BY <1>5, ReqFacts
  <2>3. CASE c = d /\ s = t
    <3>1. view'[c][s.id].again = view[c][s.id].asked /\ view'[c][s.id].base = stored \cap Wants(s)
      BY <1>5, <2>3, ReqViews
    <3>2. ~view'[c][s.id].again =>
            \A m \in 1..Len(queries) : ~(queries'[m].conn = c /\ queries'[m].sub.id = s.id)
      BY <2>1, <2>2, <2>3, <3>1 DEF FirstUse
    <3>3. ~t.live => running'[c][s.id] = Len(queries) + 1
      BY <1>5, <2>1, <2>3 DEF req, PipeType, QueryType
    <3> QED
      BY <2>1, <2>2, <3>1, <3>2, <3>3
  <2>4. CASE ~(c = d /\ s = t)
    <3>1. /\ s \in subs[c] /\ ~(c = d /\ s.id = t.id)
          /\ running'[c][s.id] = running[c][s.id] /\ view'[c][s.id] = view[c][s.id]
      BY <1>5, <2>4, ReqKeeps
    <3>2. \A m \in 1..Len(queries') :
            queries'[m].conn = c /\ queries'[m].sub.id = s.id => m \in 1..Len(queries)
      <4>1. ~t.live => queries'[Len(queries) + 1].conn = d /\ queries'[Len(queries) + 1].sub = t
        BY <2>2 DEF NewQuery
      <4> QED
        BY <2>1, <2>2, <3>1, <4>1
    <3> QED
      BY <2>1, <2>2, <3>1, <3>2 DEF UniqueInv
  <2> QED
    BY <2>3, <2>4
<1>6. \/ UNCHANGED <<subs, running, queries, view>> /\ stored \subseteq stored'
      \/ \E c \in Conns : \/ deliver_bcast(c) \/ deliver_result(c) \/ disconnect(c)
                          \/ \E s \in Subs : req(c, s)
                          \/ \E i \in SubIds : close(c, i)
      \/ \E n \in DOMAIN queries : Query(n)
  BY DEF Next, Deliver, vars, connect, submit, event_msg, deliver_notice, Writer, writer_recv,
         writer_write, writer_bcast, writer_notice, writerOnly
<1> QED
  BY <1>1, <1>2, <1>3, <1>4, <1>5, <1>6

\* A step that leaves the results of a connection as they are.
LEMMA CompleteSame ==
  ASSUME NEW c \in Conns, NEW s \in Subs, Complete(c, s),
         view'[c][s.id].base = view[c][s.id].base,
         view'[c][s.id].eose = view[c][s.id].eose,
         view[c][s.id].got \subseteq view'[c][s.id].got,
         results'[c] = results[c], running'[c][s.id] = running[c][s.id],
         \A e \in view[c][s.id].base :
           running[c][s.id] # 0 /\ Ahead(running[c][s.id], e) => Ahead(running[c][s.id], e)'
  PROVE  Complete(c, s)'
<1>1. view'[c][s.id].eose => view'[c][s.id].base \subseteq view'[c][s.id].got
  BY DEF Complete
<1>2. \A p \in 1..Len(results'[c]) :
        results'[c][p] = <<s.id, "EOSE">> => \A e \in view'[c][s.id].base : Before(c, s, e, p)'
  BY DEF Complete, Before
<1>3. running'[c][s.id] # 0 =>
        \A e \in view'[c][s.id].base : \/ e \in view'[c][s.id].got
                                       \/ <<s.id, e>> \in Range(results'[c])
                                       \/ Ahead(running[c][s.id], e)'
  BY DEF Complete
<1> QED
  BY <1>1, <1>2, <1>3 DEF Complete

\* The steps that only add to what a client has got, or to the database.
LEMMA CompleteQuiet ==
  ASSUME PipeType, QueriesInv, CompleteInv,
         UNCHANGED <<subs, running, queries>>, missed \subseteq missed',
         \A c \in Conns : \A s \in subs[c] :
           /\ view'[c][s.id].base = view[c][s.id].base /\ view'[c][s.id].eose = view[c][s.id].eose
           /\ view'[c][s.id].again = view[c][s.id].again
           /\ view[c][s.id].got \subseteq view'[c][s.id].got
           /\ results'[c] = results[c]
  PROVE  CompleteInv'
<1> SUFFICES ASSUME NEW c \in Conns, NEW s \in subs'[c], ~view'[c][s.id].again, <<c, s.id>> \notin missed'
             PROVE  Complete(c, s)'
  BY DEF CompleteInv
<1>1. s \in subs[c] /\ s \in Subs
  BY DEF PipeType, ConnType
<1>2. Complete(c, s)
  BY <1>1 DEF CompleteInv
<1>3. \A e : Ahead(running[c][s.id], e) => Ahead(running[c][s.id], e)'
  BY DEF Ahead
<1> QED
  BY <1>1, <1>2, <1>3, CompleteSame

\* The client takes the first result: an EOSE at position 1 has all the events
\* of base before it, that is, in what the client has got.
LEMMA CompleteDeliver ==
  ASSUME PipeType, UniqueInv, CompleteInv, NEW d \in Conns, deliver_result(d)
  PROVE  CompleteInv'
<1> SUFFICES ASSUME NEW c \in Conns, NEW s \in subs'[c], ~view'[c][s.id].again, <<c, s.id>> \notin missed'
             PROVE  Complete(c, s)'
  BY DEF CompleteInv
<1>1. UNCHANGED <<stored, subs, running, queries, missed>>
  BY DEF deliver_result
<1>2. s \in subs[c] /\ s \in Subs /\ s.id \in SubIds
  BY <1>1 DEF PipeType, ConnType, SubIds
<1>3. /\ view'[c][s.id].again = view[c][s.id].again /\ view'[c][s.id].base = view[c][s.id].base
      /\ view[c][s.id].got \subseteq view'[c][s.id].got
  BY <1>2, DeliverResultFacts
<1>4. Complete(c, s)
  BY <1>1, <1>2, <1>3 DEF CompleteInv
<1>5. \A e : Ahead(running[c][s.id], e) => Ahead(running[c][s.id], e)'
  BY <1>1 DEF Ahead
<1>6. CASE c # d
  <2>1. results'[c] = results[c] /\ view'[c] = view[c]
    BY <1>6, DeliverResultFacts
  <2> QED
    BY <1>1, <1>2, <1>3, <1>4, <1>5, <2>1, CompleteSame
<1>7. CASE c = d
  <2> DEFINE h == Head(results[c])
             L == Len(results[c])
             v == view[c][s.id]
             w == view'[c][s.id]
  <2>1. /\ h = results[c][1] /\ L \in Nat /\ L >= 1 /\ h = <<h[1], h[2]>> /\ h[1] \in SubIds
        /\ Range(results[c]) = {h} \cup Range(results'[c]) /\ Len(results'[c]) = L - 1
        /\ \A p \in 1..(L - 1) : results'[c][p] = results[c][p + 1]
    BY <1>7, DeliverResultFacts
  <2>2. IF s.id # h[1] THEN w = v
        ELSE IF h[2] = "EOSE" THEN w.got = v.got
        ELSE h[2] \in w.got /\ w.eose = v.eose
    BY <1>2, <1>7, DeliverResultFacts
  <2>3. \A e \in v.base : e # "EOSE"
    BY <1>2, PipelineAssumption DEF UniqueInv, PipeType, WriterType
  <2>4. \A e \in v.base : h = <<s.id, e>> => e \in w.got
    BY <2>1, <2>2, <2>3
  <2>5. w.eose => w.base \subseteq w.got
    <3>1. CASE h = <<s.id, "EOSE">>
      <4>1. \A e \in v.base : Before(c, s, e, 1)
        BY <1>4, <2>1, <3>1 DEF Complete
      <4>2. v.base \subseteq v.got
        BY <4>1 DEF Before
      <4> QED
        BY <1>3, <4>2
    <3>2. CASE h # <<s.id, "EOSE">>
      <4>1. w.eose = v.eose
        BY <2>1, <2>2, <3>2
      <4> QED
        BY <1>3, <1>4, <4>1 DEF Complete
    <3> QED
      BY <3>1, <3>2
  <2>6. ASSUME NEW p \in 1..Len(results'[c]), results'[c][p] = <<s.id, "EOSE">>, NEW e \in w.base
        PROVE  Before(c, s, e, p)'
    <3>1. p \in 1..(L - 1) /\ p + 1 \in 1..L /\ p \in Nat /\ results[c][p + 1] = <<s.id, "EOSE">>
      BY <2>1, <2>6
    <3>2. Before(c, s, e, p + 1)
      BY <1>3, <1>4, <2>6, <3>1 DEF Complete
    <3>3. CASE e \in v.got
      BY <1>3, <3>3 DEF Before
    <3>4. ASSUME NEW r \in 1..((p + 1) - 1), results[c][r] = <<s.id, e>>
          PROVE  Before(c, s, e, p)'
      <4>1. CASE r = 1
        BY <1>3, <2>1, <2>4, <2>6, <3>4, <4>1 DEF Before
      <4>2. CASE r # 1
        <5>1. r - 1 \in 1..(p - 1) /\ r - 1 \in 1..(L - 1) /\ (r - 1) + 1 = r
          BY <3>1, <2>1, <4>2
        <5>2. results'[c][r - 1] = <<s.id, e>>
          BY <2>1, <3>4, <5>1
        <5> QED
          BY <5>1, <5>2 DEF Before
      <4> QED
        BY <4>1, <4>2
    <3> QED
      BY <3>2, <3>3, <3>4 DEF Before
  <2>7. running'[c][s.id] # 0 =>
          \A e \in w.base : \/ e \in w.got \/ <<s.id, e>> \in Range(results'[c])
                            \/ Ahead(running[c][s.id], e)'
    BY <1>1, <1>3, <1>4, <1>5, <2>1, <2>4 DEF Complete
  <2> QED
    BY <2>5, <2>6, <2>7 DEF Complete
<1> QED
  BY <1>6, <1>7

\* A new subscription under an id of its own has its query ahead of everything;
\* it has no result in the channel.
LEMMA CompleteReq ==
  ASSUME PipeType, QueriesInv, FirstUse, CompleteInv, NEW d \in Conns, NEW t \in Subs, req(d, t)
  PROVE  CompleteInv'
<1> SUFFICES ASSUME NEW c \in Conns, NEW s \in subs'[c], ~view'[c][s.id].again, <<c, s.id>> \notin missed'
             PROVE  Complete(c, s)'
  BY DEF CompleteInv
<1>1. results' = results /\ t.id \in SubIds /\ Len(queries) \in Nat /\ t.live \in BOOLEAN
  BY PipelineAssumption DEF req, SubIds, PipeType, QueryType
<1>2. CASE c = d /\ s = t
  <2>1. view'[c][s.id].again = view[c][s.id].asked /\ ~view'[c][s.id].eose
    BY <1>2, ReqViews
  <2>2. \A x \in Range(results[c]) : x[1] # s.id
    BY <1>1, <1>2, <2>1 DEF FirstUse
  <2>3. \A p \in 1..Len(results'[c]) : results'[c][p] # <<s.id, "EOSE">>
    <3>1. results[c] \in Seq(Items)
      BY DEF PipeType, ResultsType
    <3>2. \A p \in 1..Len(results[c]) : results[c][p] \in Range(results[c])
      BY <3>1 DEF Range
    <3> QED
      BY <1>1, <2>2, <3>2
  <2>4. running'[c][s.id] # 0 => \A e : Ahead(running[c][s.id], e)'
    <3>1. running'[c][s.id] = IF t.live THEN 0 ELSE Len(queries) + 1
      BY <1>1, <1>2 DEF req, PipeType, QueryType
    <3>2. ~t.live => queries'[Len(queries) + 1] = NewQuery(d, t)
      BY ReqFacts
    <3>3. ~t.live => queries'[Len(queries) + 1].pc = "queued"
      BY <3>2 DEF NewQuery
    <3> QED
      BY <3>1, <3>3 DEF Ahead
  <2> QED
    BY <2>1, <2>3, <2>4 DEF Complete
<1>3. CASE c # d \/ s # t
  <2>1. /\ s \in subs[c] /\ s.id \in SubIds /\ (c # d \/ s.id # t.id)
        /\ running'[c][s.id] = running[c][s.id] /\ view'[c][s.id] = view[c][s.id]
    BY <1>3, ReqKeeps
  <2>2. <<c, s.id>> \notin missed
    <3>1. missed' = missed \ {<<d, t.id>>}
      BY DEF req
    <3> QED
      BY <2>1, <3>1
  <2>3. Complete(c, s) /\ s \in Subs
    BY <2>1, <2>2 DEF CompleteInv, PipeType, ConnType
  <2>4. \A e \in view[c][s.id].base :
          running[c][s.id] # 0 /\ Ahead(running[c][s.id], e) => Ahead(running[c][s.id], e)'
    <3> SUFFICES ASSUME NEW m, m = running[c][s.id], m # 0, NEW e, Ahead(m, e)
                 PROVE  Ahead(m, e)'
      BY <2>1
    <3>1. m \in 1..Len(queries)
      BY <2>1 DEF QueriesInv, RunningInv
    <3>2. /\ queries'[m].sub = queries[m].sub /\ queries'[m].pc = queries[m].pc
          /\ queries'[m].k = queries[m].k /\ queries'[m].rows = queries[m].rows
      BY <3>1, ReqFacts
    <3> QED
      BY <3>2, AheadSame
  <2> QED
    BY <1>1, <2>1, <2>3, <2>4, CompleteSame
<1> QED
  BY <1>2, <1>3

LEMMA CompleteDrop ==
  ASSUME PipeType, QueriesInv, CompleteInv, NEW d \in Conns,
         disconnect(d) \/ \E i \in SubIds : close(d, i)
  PROVE  CompleteInv'
<1> SUFFICES ASSUME NEW c \in Conns, NEW s \in subs'[c], ~view'[c][s.id].again, <<c, s.id>> \notin missed'
             PROVE  Complete(c, s)'
  BY DEF CompleteInv
<1>1. view' = view /\ missed' = missed
  BY DropKeeps
<1>2. /\ s \in subs[c] /\ s.id \in SubIds /\ running'[c][s.id] = running[c][s.id]
      /\ results'[c] = results[c]
  BY DropKeeps
<1>3. Complete(c, s) /\ s \in Subs
  BY <1>1, <1>2 DEF CompleteInv, PipeType, ConnType
<1>4. \A e \in view[c][s.id].base :
        running[c][s.id] # 0 /\ Ahead(running[c][s.id], e) => Ahead(running[c][s.id], e)'
  <2> SUFFICES ASSUME NEW m, m = running[c][s.id], m # 0, NEW e, Ahead(m, e)
               PROVE  Ahead(m, e)'
    BY <1>2
  <2>1. m \in 1..Len(queries)
    BY <1>2 DEF QueriesInv, RunningInv
  <2>2. /\ queries'[m].sub = queries[m].sub /\ queries'[m].pc = queries[m].pc
        /\ queries'[m].k = queries[m].k /\ queries'[m].rows = queries[m].rows
    BY <2>1, DropKeeps
  <2> QED
    BY <2>2, AheadSame
<1> QED
  BY <1>1, <1>2, <1>3, <1>4, CompleteSame

\* A query sends EOSE last: the only query of the id has nothing ahead of it
\* when it does, so every event of base is in the channel before, or was got.
LEMMA CompleteQuery ==
  ASSUME PipeType, QueriesInv, UniqueInv, CompleteInv, NEW n \in DOMAIN queries, Query(n)
  PROVE  CompleteInv'
<1> SUFFICES ASSUME NEW c \in Conns, NEW s \in subs'[c], ~view'[c][s.id].again, <<c, s.id>> \notin missed'
             PROVE  Complete(c, s)'
  BY DEF CompleteInv
<1>1. Kin(n) /\ Moves(n) /\ UNCHANGED queryOnly
  BY QueryMoves
<1>2. /\ UNCHANGED <<stored, subs, running, view>> /\ s \in subs[c] /\ s \in Subs /\ s.id \in SubIds
  BY <1>1 DEF queryOnly, PipeType, ConnType, SubIds
<1>3. Range(results[c]) \subseteq Range(results'[c]) /\ <<c, s.id>> \notin missed
  BY QueryGrows
<1>4. Complete(c, s)
  BY <1>2, <1>3 DEF CompleteInv
<1>5. \A e \in view[c][s.id].base : e \in stored \cap Wants(s)
  BY <1>2 DEF UniqueInv
<1>6. running'[c][s.id] # 0 =>
        \A e \in view'[c][s.id].base : \/ e \in view'[c][s.id].got
                                       \/ <<s.id, e>> \in Range(results'[c])
                                       \/ Ahead(running[c][s.id], e)'
  <2> SUFFICES ASSUME NEW m, m = running[c][s.id], m # 0, NEW e \in view[c][s.id].base
               PROVE  \/ e \in view[c][s.id].got \/ <<s.id, e>> \in Range(results'[c])
                      \/ Ahead(m, e)'
    BY <1>2
  <2>1. e \in view[c][s.id].got \/ <<s.id, e>> \in Range(results[c]) \/ Ahead(m, e)
    BY <1>4 DEF Complete
  <2>2. CASE Ahead(m, e)
    BY <1>2, <1>5, <2>2, AheadStep
  <2> QED
    BY <1>3, <2>1, <2>2
<1> DEFINE L == Len(results[c])
<1>7. results[c] \in Seq(Items) /\ L \in Nat
  BY DEF PipeType, ResultsType
<1>8. ASSUME NEW p \in 1..L, results[c][p] = <<s.id, "EOSE">>, NEW e \in view[c][s.id].base,
             \A r \in 1..L : results'[c][r] = results[c][r]
      PROVE  Before(c, s, e, p)'
  <2>1. Before(c, s, e, p)
    BY <1>4, <1>8 DEF Complete
  <2>2. \A r \in 1..(p - 1) : r \in 1..L
    BY <1>7
  <2> QED
    BY <1>2, <1>8, <2>1, <2>2 DEF Before
<1>9. \A p \in 1..Len(results'[c]) :
        results'[c][p] = <<s.id, "EOSE">> => \A e \in view'[c][s.id].base : Before(c, s, e, p)'
  <2>1. CASE results'[c] = results[c]
    BY <1>2, <1>8, <2>1
  <2>2. ASSUME NEW x \in Events \cup {"EOSE"}, results' = Deposited(queries[n], x),
               results'[c] # results[c],
               x = "EOSE" => queries[n].pc = "eose"
        PROVE  \A p \in 1..Len(results'[c]) :
                 results'[c][p] = <<s.id, "EOSE">> => \A e \in view'[c][s.id].base : Before(c, s, e, p)'
    <3> DEFINE y == <<queries[n].sub.id, x>>
    <3>1. c = queries[n].conn /\ results'[c] = Append(results[c], y) /\ y \in Items
      BY <2>2, DepositedFacts DEF Items
    <3>2. /\ Len(results'[c]) = L + 1 /\ results'[c][L + 1] = y
          /\ \A r \in 1..L : results'[c][r] = results[c][r]
      BY <1>7, <3>1, AppendFacts
    <3>3. ASSUME NEW p \in 1..Len(results'[c]), results'[c][p] = <<s.id, "EOSE">>,
                 NEW e \in view'[c][s.id].base
          PROVE  Before(c, s, e, p)'
      <4>1. CASE p \in 1..L
        BY <1>2, <1>8, <3>2, <3>3, <4>1
      <4>2. CASE p \notin 1..L
        <5>1. p = L + 1 /\ y = <<s.id, "EOSE">>
          BY <1>7, <3>2, <3>3, <4>2
        <5>2. x = "EOSE" /\ queries[n].sub.id = s.id /\ queries[n].pc = "eose"
          BY <2>2, <5>1
        <5>3. n \in 1..Len(queries)
          BY DEF PipeType, QueryType
        <5>4. n = running[c][s.id] /\ n # 0
          BY <1>2, <3>1, <5>2, <5>3 DEF UniqueInv
        <5>5. queries[n].rows = {}
          BY <5>2, <5>3 DEF QueriesInv, CursorInv
        <5>6. ~Ahead(n, e)
          BY <5>2, <5>5 DEF Ahead
        <5>7. e \in view[c][s.id].got \/ <<s.id, e>> \in Range(results[c])
          BY <1>2, <1>4, <3>3, <5>4, <5>6 DEF Complete
        <5>8. <<s.id, e>> \in Range(results[c]) => \E r \in 1..L : results[c][r] = <<s.id, e>>
          BY <1>7 DEF Range
        <5>9. (L + 1) - 1 = L
          BY <1>7
        <5> QED
          BY <1>2, <3>2, <5>1, <5>7, <5>8, <5>9 DEF Before
      <4> QED
        BY <4>1, <4>2
    <3> QED
      BY <3>3
  <2>3. \/ results' = results
        \/ \E x \in Events \cup {"EOSE"} : results' = Deposited(queries[n], x)
                                           /\ (x = "EOSE" => queries[n].pc = "eose")
    <3>1. queries[n].rows \subseteq Events /\ "EOSE" \notin Events
      <4>1. queries[n] \in QueryRecs
        BY DEF PipeType, QueryType
      <4> QED
        BY <4>1, PipelineAssumption DEF QueryRecs
    <3> QED
      BY <1>1, <3>1 DEF Moves, Begins, Selects, Breaks, Sends, Advances, Ends
  <2> QED
    BY <2>1, <2>2, <2>3
<1>10. view'[c][s.id].eose => view'[c][s.id].base \subseteq view'[c][s.id].got
  BY <1>2, <1>4 DEF Complete
<1> QED
  BY <1>6, <1>9, <1>10 DEF Complete

\* Every step keeps the promise of EOSE.
LEMMA CompleteStep ==
  ASSUME PipeType, QueriesInv, EoseInv, [Next]_vars
  PROVE  CompleteInv'
<1>1. CASE UNCHANGED <<subs, running, queries, view, results>> /\ missed \subseteq missed'
  BY <1>1, CompleteQuiet DEF EoseInv
<1>2. ASSUME NEW d \in Conns, deliver_bcast(d)
      PROVE  CompleteInv'
  <2>1. UNCHANGED <<subs, running, queries, results, missed>>
    BY <1>2 DEF deliver_bcast
  <2>2. \A c \in Conns : \A s \in subs[c] : s.id \in SubIds
    BY DEF PipeType, ConnType, SubIds
  <2>3. \A c \in Conns : \A s \in subs[c] :
           /\ view'[c][s.id].base = view[c][s.id].base /\ view'[c][s.id].eose = view[c][s.id].eose
           /\ view'[c][s.id].again = view[c][s.id].again
           /\ view[c][s.id].got \subseteq view'[c][s.id].got
    BY <1>2, <2>2, DeliverBcastFacts
  <2> QED
    BY <2>1, <2>3, CompleteQuiet DEF EoseInv
<1>3. \/ UNCHANGED <<subs, running, queries, view, results>> /\ missed \subseteq missed'
      \/ \E c \in Conns : \/ deliver_bcast(c) \/ deliver_result(c) \/ disconnect(c)
                          \/ \E s \in Subs : req(c, s)
                          \/ \E i \in SubIds : close(c, i)
      \/ \E n \in DOMAIN queries : Query(n)
  BY DEF Next, Deliver, vars, connect, submit, event_msg, deliver_notice, Writer, writer_recv,
         writer_write, writer_bcast, writer_notice, writerOnly, Broadcast
<1> QED
  BY <1>1, <1>2, <1>3, CompleteDeliver, CompleteReq, CompleteDrop, CompleteQuery DEF EoseInv

\* When a client is sent EOSE for an id it uses for the first time, it was sent
\* every wanted event that was stored when it made its request: the results of
\* the query are in the channel before EOSE, whatever the writer, the other
\* queries and the broadcasts do meanwhile.
THEOREM EoseIsComplete == Spec => []EoseComplete
<1> DEFINE Inv == PipeType /\ QueriesInv /\ EoseInv
<1>1. Init => Inv
  <2> SUFFICES ASSUME Init PROVE QueriesInv /\ EoseInv
    BY TypeInit
  <2>1. OpenInv /\ CursorInv /\ RunningInv
    BY DEF Init, OpenInv, CursorInv, RunningInv
  <2>2. FirstUse
    <3>1. Range(<<>>) = {}
      BY DEF Range
    <3> QED
      BY <3>1 DEF Init, FirstUse, NoView
  <2>3. UniqueInv /\ CompleteInv
    BY DEF Init, UniqueInv, CompleteInv
  <2> QED
    BY <2>1, <2>2, <2>3 DEF QueriesInv, EoseInv
<1>2. Inv /\ [Next]_vars => Inv'
  BY TypeStep, QueriesStep, FirstUseStep, UniqueStep, CompleteStep DEF EoseInv
<1>3. Inv => EoseComplete
  BY DEF EoseInv, CompleteInv, Complete, EoseComplete
<1> QED
  BY <1>1, <1>2, <1>3, PTL DEF Spec

================================================================================
