----------------------------- MODULE QueryPipeline -----------------------------
(***************************************************************************)
(* Historical queries of the SQLite repository: the reader permits, the     *)
(* checkpoint lock and the bounded channel that the queries of a connection *)
(* share.                                                                  *)
(*                                                                         *)
(* A connection's task issues a query from its REQ handler, and it waits    *)
(* there for a reader permit; while it waits it reads no result.  It reads  *)
(* none either while a message to its client waits to be written, which is  *)
(* for as long as the client does not read.  The query runs on a blocking   *)
(* thread of its own (SqliteRepo::query_subscription).                     *)
(***************************************************************************)
EXTENDS Naturals, FiniteSets

CONSTANTS
  Conns,       \* client connections
  Queries,     \* the queries they may issue
  ConnOf,      \* the connection that issues a query
  Rows,        \* rows that a query finds
  Permits,     \* reader_threads_ready: database.max_conn
  QueryCap,    \* capacity of the query_tx channel of a connection (20_000)
  CheckEvery,  \* rows between two checks for a checkpoint or a CLOSE (100)
  Checkpoints, \* bound on the number of blocking checkpoints
  Nobody

ASSUME QueryAssumption ==
  /\ IsFiniteSet(Queries)
  /\ ConnOf \in [Queries -> Conns]
  /\ Rows \in [Queries -> Nat]
  /\ {Permits, QueryCap, CheckEvery} \subseteq Nat \ {0}
  /\ Checkpoints \in Nat
  /\ Nobody \notin Queries \cup {"checkpoint"} /\ "checkpoint" \notin Queries

VARIABLES
  conn,       \* per connection: "loop", "sending" (in ws_stream.send().await),
              \* "closed" or the query waiting for a permit
  permits,    \* permits available
  chan,       \* per connection: results in the channel
  query,      \* per query: [pc, left, count]
  abandoned,  \* queries whose oneshot holds the request to stop
  lock,       \* holder of checkpoint_in_progress, or Nobody
  runs        \* blocking checkpoints so far

vars == <<conn, permits, chan, query, abandoned, lock, runs>>

\* Program points at which a query holds a permit.
Holding == {"spawned", "gate", "queued", "rows", "probe", "capacity", "stall", "send"}
PCs == Holding \cup {"new", "permit", "eose", "done"}

At(q, pc) == query[q].pc = pc
Goto(q, pc) == query' = [query EXCEPT ![q].pc = pc]
Open(q) == conn[ConnOf[q]] # "closed"
Full(q) == Open(q) /\ chan[ConnOf[q]] >= QueryCap

Init ==
  /\ conn = [c \in Conns |-> "loop"]
  /\ permits = Permits
  /\ chan = [c \in Conns |-> 0]
  /\ query = [q \in Queries |-> [pc |-> "new", left |-> Rows[q], count |-> 0]]
  /\ abandoned = {}
  /\ lock = Nobody
  /\ runs = 0

-------------------------------------------------------------------------------
(* The connection's task *)

\* REQ: query_subscription first waits for a permit, inside the handler.
issue(q) ==
  /\ At(q, "new") /\ conn[ConnOf[q]] = "loop"
  /\ conn' = [conn EXCEPT ![ConnOf[q]] = q]
  /\ Goto(q, "permit")
  /\ UNCHANGED <<permits, chan, abandoned, lock, runs>>

\* acquire_owned().await succeeds and the blocking task is spawned.
acquire(q) ==
  /\ At(q, "permit") /\ permits > 0
  /\ permits' = permits - 1
  /\ conn' = [conn EXCEPT ![ConnOf[q]] = "loop"]
  /\ Goto(q, "spawned")
  /\ UNCHANGED <<chan, abandoned, lock, runs>>

\* query_rx.recv() in the select loop: the result is written to the client, or
\* waits until the client reads.
drain(c) ==
  /\ conn[c] = "loop" /\ chan[c] > 0
  /\ chan' = [chan EXCEPT ![c] = @ - 1]
  /\ \E at \in {"loop", "sending"} : conn' = [conn EXCEPT ![c] = at]
  /\ UNCHANGED <<permits, query, abandoned, lock, runs>>

\* A ping, a notice or a broadcast event waits until the client reads.
block(c) ==
  /\ conn[c] = "loop"
  /\ conn' = [conn EXCEPT ![c] = "sending"]
  /\ UNCHANGED <<permits, chan, query, abandoned, lock, runs>>

\* The client reads, and the message is written.
sent(c) ==
  /\ conn[c] = "sending"
  /\ conn' = [conn EXCEPT ![c] = "loop"]
  /\ UNCHANGED <<permits, chan, query, abandoned, lock, runs>>

\* CLOSE, or a REQ that reuses the id, tells a query to stop.
abandon(q) ==
  /\ conn[ConnOf[q]] = "loop"
  /\ query[q].pc \notin {"new", "done"} /\ q \notin abandoned
  /\ abandoned' = abandoned \cup {q}
  /\ UNCHANGED <<conn, permits, chan, query, lock, runs>>

\* The connection ends, perhaps because a message cannot be written: its receiver
\* goes away, its queries are told to stop.
disconnect(c) ==
  /\ conn[c] \in {"loop", "sending"}
  /\ conn' = [conn EXCEPT ![c] = "closed"]
  /\ chan' = [chan EXCEPT ![c] = 0]
  /\ abandoned' = abandoned \cup {q \in Queries : ConnOf[q] = c /\ query[q].pc # "new"}
  /\ UNCHANGED <<permits, query, lock, runs>>

-------------------------------------------------------------------------------
(* The blocking task of a query *)

\* Mutant: the permit is not given back when a query stops early.
Stop_leaksPermit(q) ==
  /\ Goto(q, "done")
  /\ UNCHANGED permits

\* return Ok(()): the permit is dropped with the closure, no EOSE is sent.
Stop(q) ==
  /\ Goto(q, "done")
  /\ permits' = permits + 1

\* checkpoint_in_progress.blocking_lock(), for as long as it takes to get it ...
gate_lock(q) ==
  /\ At(q, "spawned") /\ lock = Nobody
  /\ lock' = q
  /\ Goto(q, "gate")
  /\ UNCHANGED <<conn, permits, chan, abandoned, runs>>

\* ... and the guard is dropped at once.
gate_unlock(q) ==
  /\ At(q, "gate")
  /\ lock' = Nobody
  /\ Goto(q, "queued")
  /\ UNCHANGED <<conn, permits, chan, abandoned, runs>>

\* Stopped (five seconds in the queue are over, or it was abandoned), or off we
\* go.  When there is no connection to be had the query finds no rows.
begin(q) ==
  /\ At(q, "queued")
  /\ UNCHANGED <<conn, chan, abandoned, lock, runs>>
  /\ \/ Stop(q)
     \/ /\ q \notin abandoned
        /\ \/ Goto(q, "rows")
           \/ query' = [query EXCEPT ![q].pc = "rows", ![q].left = 0]
        /\ UNCHANGED permits

\* A statement cannot be prepared or run, or its next row cannot be read.
fail(q) ==
  /\ At(q, "rows")
  /\ Stop(q)
  /\ UNCHANGED <<conn, chan, abandoned, lock, runs>>

\* The next row: at row 0, 100, 200, ... look for a checkpoint first.
row(q) ==
  /\ At(q, "rows") /\ query[q].left > 0
  /\ Goto(q, IF query[q].count % CheckEvery = 0 THEN "probe" ELSE "capacity")
  /\ UNCHANGED <<conn, permits, chan, abandoned, lock, runs>>

\* try_lock() fails whoever holds the lock, and the query is over.
probe_held(q) ==
  /\ At(q, "probe") /\ lock \notin {Nobody, q}
  /\ Stop(q)
  /\ UNCHANGED <<conn, chan, abandoned, lock, runs>>

\* try_lock() succeeds: for a moment this query is the holder.
probe_lock(q) ==
  /\ At(q, "probe") /\ lock = Nobody
  /\ lock' = q
  /\ UNCHANGED <<conn, permits, chan, query, abandoned, runs>>

\* The guard is dropped; then the check of the oneshot and row.get, which may fail.
probe_unlock(q) ==
  /\ At(q, "probe") /\ lock = q
  /\ lock' = Nobody
  /\ \/ Stop(q)
     \/ q \notin abandoned /\ Goto(q, "capacity") /\ UNCHANGED permits
  /\ UNCHANGED <<conn, chan, abandoned, runs>>

\* query_tx.capacity() != 0
room(q) ==
  /\ At(q, "capacity") /\ ~Full(q)
  /\ Goto(q, "send")
  /\ UNCHANGED <<conn, permits, chan, abandoned, lock, runs>>

\* The channel has been full for two seconds since the last row.
cutoff(q) ==
  /\ At(q, "capacity") /\ Full(q)
  /\ Stop(q)
  /\ UNCHANGED <<conn, chan, abandoned, lock, runs>>

\* The channel is full: look for a checkpoint, sleep and look again.
stall(q) ==
  /\ At(q, "capacity") /\ Full(q)
  /\ \/ lock # Nobody /\ Stop(q) /\ UNCHANGED lock
     \/ lock = Nobody /\ lock' = q /\ Goto(q, "stall") /\ UNCHANGED permits
  /\ UNCHANGED <<conn, chan, abandoned, runs>>

unstall(q) ==
  /\ At(q, "stall")
  /\ lock' = Nobody
  /\ Goto(q, "capacity")
  /\ UNCHANGED <<conn, permits, chan, abandoned, runs>>

\* blocking_send: waits for room without limit, or fails when the receiver is
\* gone.
Deposit(q) ==
  /\ ~Full(q)
  /\ chan' = IF Open(q) THEN [chan EXCEPT ![ConnOf[q]] = @ + 1] ELSE chan

send(q) ==
  /\ At(q, "send") /\ Deposit(q)
  /\ query' = [query EXCEPT ![q] = [pc |-> "rows", left |-> @.left - 1, count |-> @.count + 1]]
  /\ UNCHANGED <<conn, permits, abandoned, lock, runs>>

\* No more rows: drop(sem) comes before EOSE is sent.
finish(q) ==
  /\ At(q, "rows") /\ query[q].left = 0
  /\ permits' = permits + 1
  /\ Goto(q, "eose")
  /\ UNCHANGED <<conn, chan, abandoned, lock, runs>>

send_eose(q) ==
  /\ At(q, "eose") /\ Deposit(q)
  /\ Goto(q, "done")
  /\ UNCHANGED <<conn, permits, abandoned, lock, runs>>

-------------------------------------------------------------------------------
(* db_checkpoint_task, when the WAL has grown past its threshold *)

checkpoint_lock ==
  /\ runs < Checkpoints /\ lock = Nobody
  /\ lock' = "checkpoint"
  /\ runs' = runs + 1
  /\ UNCHANGED <<conn, permits, chan, query, abandoned>>

checkpoint_unlock ==
  /\ lock = "checkpoint"
  /\ lock' = Nobody
  /\ UNCHANGED <<conn, permits, chan, query, abandoned, runs>>

-------------------------------------------------------------------------------
Reader(q) ==
  \/ gate_lock(q) \/ gate_unlock(q) \/ begin(q) \/ row(q) \/ fail(q)
  \/ probe_held(q) \/ probe_lock(q) \/ probe_unlock(q)
  \/ room(q) \/ cutoff(q) \/ stall(q) \/ unstall(q)
  \/ send(q) \/ finish(q) \/ send_eose(q)

Next ==
  \/ \E q \in Queries : issue(q) \/ acquire(q) \/ abandon(q) \/ Reader(q)
  \/ \E c \in Conns : drain(c) \/ block(c) \/ sent(c) \/ disconnect(c)
  \/ checkpoint_lock \/ checkpoint_unlock

Spec == Init /\ [][Next]_vars

\* The steps of a query that wait for something to become free, or, for cutoff,
\* for two seconds to pass; no two of them are possible at one program point.
Waiting(q) == acquire(q) \/ gate_lock(q) \/ cutoff(q) \/ send(q) \/ send_eose(q)

\* Threads and tasks that can go on do go on; a semaphore, a mutex and a channel
\* of tokio serve their waiters in turn, so what is free again and again is got;
\* two seconds pass in the end; a select loop takes each of its ready branches.
\* Nothing is assumed of clients: one may never read again.
FairSpec ==
  /\ Spec
  /\ \A q \in Queries : WF_vars(Reader(q)) /\ SF_vars(Waiting(q))
  /\ \A c \in Conns : SF_vars(drain(c))
  /\ WF_vars(checkpoint_unlock)

-------------------------------------------------------------------------------
(* Properties *)

\* Types; a query holds a permit exactly at the points named in Holding, and the
\* lock at the points where it has a guard.
TypeOK ==
  /\ conn \in [Conns -> {"loop", "sending", "closed"} \cup Queries]
  /\ permits \in 0..Permits
  /\ chan \in [Conns -> 0..QueryCap]
  /\ query \in [Queries -> [pc : PCs, left : Nat, count : Nat]]
  /\ abandoned \subseteq Queries
  /\ lock \in Queries \cup {"checkpoint", Nobody}
  /\ lock \in Queries => query[lock].pc \in {"gate", "probe", "stall"}
  /\ runs \in 0..Checkpoints

\* No permit is lost or invented, on any of the early returns of a query: the
\* readers that hold one and the permits left add up to database.max_conn.
PermitsConserved ==
  TypeOK /\ permits + Cardinality({q \in Queries : query[q].pc \in Holding}) = Permits

\* The task of c is held up: its client does not read, or it waits for a permit
\* while the results of its own queries fill its channel.
HeldUp(c) == conn[c] = "sending" \/ (conn[c] \in Queries /\ chan[c] = QueryCap)

\* Every query that is issued ends, with EOSE or without, of whichever connection
\* and in whichever order the queries get permit, lock and room, provided that no
\* connection is held up for ever: one that is may keep a permit from all others,
\* since blocking_send has no limit.
QueriesEnd ==
  (\A c \in Conns : []<>~HeldUp(c)) => \A q \in Queries : At(q, "permit") ~> At(q, "done")

\* A query whose client does not take its results does not stay on its thread
\* for ever ("any client that doesn't cause us to generate new rows in 2 seconds
\* gets dropped").
SlowClientDropped ==
  \A q \in Queries : query[q].pc \in {"capacity", "stall", "send"}
                      ~> query[q].pc \notin {"capacity", "stall", "send"}

===============================================================================
