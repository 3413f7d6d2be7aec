----------------------------- MODULE PostgresStore -----------------------------
(***************************************************************************)
(* The event store on PostgreSQL.  PostgresRepo::write_event runs the same  *)
(* rules as the SQLite store as a transaction of several statements at the  *)
(* default isolation, READ COMMITTED, and nothing like the SQLite write     *)
(* guard keeps two of them apart: the database writer, the NIP-05 verifier  *)
(* and the payment task (direct messages only, which replace nothing) write *)
(* through their own connections.  Each statement sees what is committed    *)
(* when it begins and what its own transaction did; a                       *)
(* statement that wants a row another transaction has changed, or an id     *)
(* another one has inserted or is deleting, waits for that transaction to   *)
(* end.  A DELETE or UPDATE of several rows locks them one after the other, *)
(* in an order its plan decides, and waits for one while it holds the       *)
(* others; PostgreSQL aborts a transaction in a circle of such waits.       *)
(*                                                                         *)
(* Events, and the rules on their kinds, are those of EventStore.           *)
(***************************************************************************)
EXTENDS Integers, Sequences, FiniteSets

CONSTANTS
  Events,
  MaxTime,
  Writers,   \* tasks that call write_event
  Offers,    \* Offers[w]: the events that task w writes
  Cleanup,   \* the task that deletes expired events
  NoEvent

ASSUME WritersAssumption ==
  /\ IsFiniteSet(Writers) /\ MaxTime \in Nat
  /\ \A w \in Writers : Offers[w] \subseteq Events
  /\ NoEvent \notin Events /\ Cleanup \notin Writers
  /\ \A e \in Events :
       /\ e.kind \in Nat /\ e.created_at \in Nat /\ e.expiration \in Nat \cup {-1}
       /\ e.dtags \in Seq(STRING)

VARIABLES
  stored, hidden, now, received, saved,  \* committed rows and histories, as in EventStore
  tx,   \* per writer: [pc, ev, victims, gone, hid], and as history saw: the rows that
        \* were committed when the UPDATE of a deletion began
  sweep \* the transaction of the cleanup task: [on, victims, gone]

rows == <<stored, hidden, received, saved>>
vars == <<stored, hidden, now, received, saved, tx, sweep>>

\* Between transactions; victims are the rows a statement has chosen and not reached.
Idle == [pc |-> "idle", ev |-> NoEvent, victims |-> {}, gone |-> {}, hid |-> {}, saw |-> {}]
Asleep == [on |-> FALSE, victims |-> {}, gone |-> {}]

Init ==
  /\ stored = {} /\ hidden = {} /\ received = {} /\ saved = {}
  /\ now = 0
  /\ tx = [w \in Writers |-> Idle]
  /\ sweep = Asleep

-------------------------------------------------------------------------------
(* What a statement sees, and what it waits for *)

Inserted(w) == tx[w].pc \notin {"idle", "insert"}
Rows(w) == (stored \cup (IF Inserted(w) THEN {tx[w].ev} ELSE {})) \ tx[w].gone

\* The rules of the event store over the rows that w sees.
Sees(w) == INSTANCE EventStore WITH stored <- Rows(w)

\* Rows that the transactions of other writers, and of the cleanup, have changed.
Locked(w) == sweep.gone \cup UNION {tx[v].gone \cup tx[v].hid : v \in Writers \ {w}}

\* Transactions that wait in a circle: all that one of them has yet to lock, others
\* of them hold.
Transactions == Writers \cup {Cleanup}
Held(t)  == IF t = Cleanup THEN sweep.gone ELSE tx[t].gone \cup tx[t].hid
Wants(t) == IF t = Cleanup THEN sweep.victims ELSE tx[t].victims
Deadlocked(t) ==
  \E C \in SUBSET Transactions :
    /\ t \in C
    /\ \A u \in C : Wants(u) # {} /\ Wants(u) \subseteq UNION {Held(v) : v \in C \ {u}}

Step(w, t) == tx' = [tx EXCEPT ![w] = t] /\ UNCHANGED <<now, sweep>>

\* write_event returns Ok(0): the transaction is dropped and rolls back.
Ignore(w, e) ==
  /\ Step(w, Idle)
  /\ received' = received \cup {e}
  /\ UNCHANGED <<stored, hidden, saved>>

-------------------------------------------------------------------------------
(* PostgresRepo::write_event *)

\* Is there a version for the same place that is as new?
Shadowed(w, e) == Sees(w)!NewerReplaceable(e) \/ Sees(w)!NewerParamReplaceable(e)

begin(w, e) ==
  /\ tx[w].pc = "idle"
  /\ IF Shadowed(w, e) THEN Ignore(w, e)
     ELSE Step(w, [Idle EXCEPT !.pc = "insert", !.ev = e]) /\ UNCHANGED rows

\* Mutant: after its lookups the transaction wants the table for itself.
Contended_table(w, e) == \E v \in Writers \ {w} : tx[v].pc # "idle"

\* INSERT waits for a transaction that has inserted the same id or is deleting it.
Contended(w, e) ==
  \/ e \in sweep.gone
  \/ \E v \in Writers \ {w} : e \in tx[v].gone \/ (Inserted(v) /\ tx[v].ev = e)

\* INSERT ... ON CONFLICT (id) DO NOTHING, and the tag rows.
insert(w) ==
  LET e == tx[w].ev IN
  /\ tx[w].pc = "insert" /\ ~Contended(w, e)
  /\ IF e \in stored THEN Ignore(w, e)
     ELSE Step(w, [tx[w] EXCEPT !.pc = "older"]) /\ UNCHANGED rows

\* Mutant: older versions stay.
OlderVersions_none(w, e) == {}

\* Mutant: a purge takes every row of the author and kind but the new one, newer ones too.
OlderVersions_others(w, e) == {f \in Rows(w) : Sees(w)!SameAuthorKind(e, f) /\ Sees(w)!is_replaceable(e)} \ {e}

OlderVersions(w, e) ==
  Sees(w)!OlderReplaceable(Rows(w), e) \cup Sees(w)!OlderParamReplaceable(Rows(w), e)

\* DELETE of the older versions: the rows are chosen when it begins ...
older(w) ==
  /\ tx[w].pc = "older"
  /\ Step(w, [tx[w] EXCEPT !.pc = "purge", !.victims = OlderVersions(w, tx[w].ev)])
  /\ UNCHANGED rows

\* ... and locked and deleted one by one: each that is still there when no other
\* transaction has changed it.
purge(w) ==
  /\ tx[w].pc = "purge"
  /\ \/ /\ tx[w].victims = {}
        /\ Step(w, [tx[w] EXCEPT !.pc = "mark"])
     \/ \E f \in tx[w].victims \ Locked(w) :
          Step(w, [tx[w] EXCEPT !.victims = @ \ {f}, !.gone = @ \cup {f}])
  /\ UNCHANGED rows

\* A tag value in lower-case hex is kept decoded in column value_hex and its
\* column value is NULL; any other value is kept as text in column value.
ValueColumn(r) == IF r.lower THEN <<"null">> ELSE <<"text", r.id>>

\* SELECT ... t.value = id_blob: the decoded id is looked for in column value.
DeletionOnRecord(w, e) ==
  \E d \in Rows(w) : /\ d.author = e.author /\ d.kind = 5
                     /\ \E r \in d.refs : ValueColumn(r) = <<"bytes", e.id>>

\* Mutant: only events that are newer than the deletion are hidden.
Hides_newer(w, d) == {f \in Sees(w)!HiddenByDeletion(Rows(w), d) : f.created_at > d.created_at}

\* UPDATE "event" SET hidden ... WHERE id IN (...)
Hides(w, d) == Sees(w)!HiddenByDeletion(Rows(w), d)

\* A deletion hides what it names (without a valid id the list is empty, which
\* is a syntax error and ends the transaction); any other event looks for a
\* deletion that names it.
mark(w) ==
  LET e == tx[w].ev IN
  /\ tx[w].pc = "mark"
  /\ Step(w, IF e.kind = 5
             THEN IF e.refs = {} THEN Idle
                  ELSE [tx[w] EXCEPT !.pc = "hide", !.victims = Hides(w, e), !.saw = stored]
             ELSE IF Sees(w)!deletable(e) /\ DeletionOnRecord(w, e)
                  THEN [tx[w] EXCEPT !.pc = "commit", !.hid = {e}]
                  ELSE [tx[w] EXCEPT !.pc = "commit"])
  /\ UNCHANGED rows

\* The rows of the UPDATE, one by one.
hide(w) ==
  /\ tx[w].pc = "hide"
  /\ \/ /\ tx[w].victims = {}
        /\ Step(w, [tx[w] EXCEPT !.pc = "commit"])
     \/ \E f \in tx[w].victims \ Locked(w) :
          Step(w, [tx[w] EXCEPT !.victims = @ \ {f}, !.hid = @ \cup {f}])
  /\ UNCHANGED rows

\* A statement that waits for a row finds it gone, also when its id is inserted
\* again in the meantime.
Forget(S) == [v \in Writers |-> [tx[v] EXCEPT !.victims = @ \ S, !.saw = @ \ S]]

\* The caller is told of a new event, unless a deletion was on record.
commit(w) ==
  LET e == tx[w].ev IN
  /\ tx[w].pc = "commit"
  /\ stored' = Rows(w)
  /\ hidden' = (hidden \cup tx[w].hid) \cap stored'
  /\ received' = received \cup {e}
  /\ saved' = IF e \in tx[w].hid THEN saved ELSE saved \cup {e}
  /\ tx' = [Forget(tx[w].gone) EXCEPT ![w] = Idle]
  /\ sweep' = [sweep EXCEPT !.victims = @ \ tx[w].gone]
  /\ UNCHANGED now

\* The connection or a statement fails, or PostgreSQL ends the transaction to break a
\* deadlock: everything is rolled back.
fail(w) ==
  /\ tx[w].pc # "idle"
  /\ Step(w, Idle)
  /\ UNCHANGED rows

Write(w) == insert(w) \/ older(w) \/ purge(w) \/ mark(w) \/ hide(w) \/ commit(w)

-------------------------------------------------------------------------------
Expired == {e \in stored : e.expiration >= 0 /\ e.expiration <= now}

\* The cleanup task: a transaction of one statement, which chooses its rows, locks
\* and deletes them one by one, and commits; or fails.
delete_expired ==
  /\ ~sweep.on
  /\ sweep' = [on |-> TRUE, victims |-> Expired, gone |-> {}]
  /\ UNCHANGED <<rows, now, tx>>

sweep_row ==
  /\ \E f \in sweep.victims \ UNION {Held(w) : w \in Writers} :
       sweep' = [sweep EXCEPT !.victims = @ \ {f}, !.gone = @ \cup {f}]
  /\ UNCHANGED <<rows, now, tx>>

sweep_commit ==
  /\ sweep.on /\ sweep.victims = {}
  /\ stored' = stored \ sweep.gone
  /\ hidden' = hidden \ sweep.gone
  /\ tx' = Forget(sweep.gone)
  /\ sweep' = Asleep
  /\ UNCHANGED <<now, received, saved>>

sweep_fail == sweep.on /\ sweep' = Asleep /\ UNCHANGED <<rows, now, tx>>

Sweep == sweep_row \/ sweep_commit

Tick ==
  /\ now < MaxTime
  /\ now' = now + 1
  /\ UNCHANGED <<rows, tx, sweep>>

Next ==
  \/ \E w \in Writers : Write(w) \/ fail(w) \/ \E e \in Offers[w] : begin(w, e)
  \/ delete_expired \/ Sweep \/ sweep_fail
  \/ Tick

Spec == Init /\ [][Next]_vars

\* A transaction that can go on does, PostgreSQL serves those that wait for another in
\* the order they came, and its deadlock detector finds every circle of waits.
FairSpec ==
  /\ Spec
  /\ \A w \in Writers : SF_vars(Write(w)) /\ WF_vars(Deadlocked(w) /\ fail(w))
  /\ SF_vars(Sweep) /\ WF_vars(Deadlocked(Cleanup) /\ sweep_fail)

-------------------------------------------------------------------------------
(* Properties *)

\* The committed rows and histories are those of EventStore; a transaction
\* changes rows only after its insert.
TypeOK ==
  /\ stored \subseteq received /\ received \subseteq Events
  /\ hidden \subseteq stored /\ saved \subseteq received
  /\ now \in 0..MaxTime
  /\ \A w \in Writers :
       /\ tx[w].pc \in {"idle", "insert", "older", "purge", "mark", "hide", "commit"}
       /\ tx[w].ev \in Offers[w] \cup {NoEvent}
       /\ ~Inserted(w) => tx[w].gone = {} /\ tx[w].hid = {}
  /\ sweep.victims \cup sweep.gone \subseteq stored

All == INSTANCE EventStore

\* Two transactions may each keep a version of a replaceable event that the
\* other does not see.  There is never more than one version per writer: the
\* next write of either removes what it left behind.
VersionsBounded ==
  /\ TypeOK
  /\ \A e \in stored : Cardinality({f \in stored : All!SameSlot(e, f)})
                         <= Cardinality({w \in Writers : \E f \in Offers[w] : All!SameSlot(e, f)})

\* Whatever the transactions of several writers do to each other, an event that was
\* reported as added is there until it expires or a version as new is received,
\* and a gift wrap moreover stays visible.
NothingLost ==
  \A e \in saved :
    \/ e \in stored /\ (e.kind = 1059 => e \notin hidden)
    \/ All!is_expired(e)
    \/ \E f \in received \ {e} : All!SameSlot(e, f) /\ f.created_at >= e.created_at

\* When a deletion commits, every event of its author that it names and that was
\* committed when its UPDATE began is hidden or gone, gift wraps excepted.
DeletionHides ==
  \A w \in Writers :
    LET d == tx[w].ev IN
    tx[w].pc = "commit" /\ d.kind = 5
      => \A f \in tx[w].saw \cap stored :
           All!deletable(f) /\ f.author = d.author /\ (\E r \in d.refs : r.id = f.id) => f \in tx[w].hid

\* Every write ends: whoever waits for whom, in the end with a commit, with nothing
\* new, or with an error for a transaction that PostgreSQL chose to abort.
WritesEnd == \A w \in Writers : tx[w].pc # "idle" ~> tx[w].pc = "idle"

\* An event that its author's deletion already names is hidden when it arrives
\* (the comments in write_event say so); the lookup misses, so it is not.
DeletionOnRecordHonoured ==
  \A d, e \in stored :
    (/\ d.kind = 5 /\ All!deletable(e) /\ d.author = e.author
     /\ \E r \in d.refs : r.lower /\ r.id = e.id) => e \in hidden

\* Two transactions never wait for each other's rows.  They do: nothing orders the
\* rows that a purge, a deletion and the cleanup lock, and write_event fails with the
\* database's error, which loses the event of a client that was told nothing.
NoDeadlock == \A t \in Transactions : ~Deadlocked(t)
===============================================================================
