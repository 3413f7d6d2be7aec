------------------------------ MODULE EventStore ------------------------------
(***************************************************************************)
(* The relay's SQLite event store: the transaction of                      *)
(* SqliteRepo::persist_event, its retrying caller write_event, the expiry   *)
(* sweep delete_expired, and what a subscription query may return.  Every   *)
(* write runs in one SQLite transaction, so one write is one step.          *)
(*                                                                         *)
(* An event is a record                                                    *)
(*   [id, author, kind, created_at, expiration, dtags, refs]               *)
(* where dtags is the sequence of its "d" tags (the value of each, or Bare  *)
(* for a tag with no value) and refs the event ids named by its "e" tags,   *)
(* each with the case its hex was written in.                              *)
(***************************************************************************)
EXTENDS Integers, Sequences, FiniteSets

CONSTANTS
  Events,    \* the events that clients publish
  MaxTime    \* bound on the clock

NoExpiration == -1     \* the event carries no usable "expiration" tag
Bare         == "bare" \* a "d" tag of length one: it never reaches the tag table
EmptyParam   == ""     \* the parameter of an event without a "d" value

ASSUME EventsAssumption ==
  /\ \A e \in Events :
       /\ e.kind \in Nat
       /\ e.created_at \in Nat
       /\ e.expiration \in Nat \cup {NoExpiration}
       /\ e.dtags \in Seq(STRING)
       /\ \A r \in e.refs : r.lower \in BOOLEAN
  /\ \A e, f \in Events : e.id = f.id => e = f

ASSUME MaxTimeAssumption == MaxTime \in Nat

VARIABLES
  stored,    \* rows of table event (their tag rows live and die with them)
  hidden,    \* the rows whose column hidden is TRUE
  now,       \* unix_time()
  received,  \* history: every event that a completed write_event looked at
  saved      \* history: every event for which write_event returned a count > 0

vars == <<stored, hidden, now, received, saved>>

-------------------------------------------------------------------------------
(* Classification of events (event.rs). *)

is_replaceable(e) ==
  e.kind \in {0, 3, 41} \/ (e.kind >= 10000 /\ e.kind < 20000)

is_param_replaceable(e) == e.kind >= 30000 /\ e.kind < 40000

distinct_param(e) ==
  IF e.dtags = <<>> \/ Head(e.dtags) = Bare THEN EmptyParam ELSE Head(e.dtags)

is_expired(e) == e.expiration # NoExpiration /\ e.expiration <= now

SameAuthorKind(e, f) == e.author = f.author /\ e.kind = f.kind

\* The indices of the tag rows ('d', v) that belong to event f.
DRows(f, v) == {i \in DOMAIN f.dtags : f.dtags[i] = v /\ v # Bare}

-------------------------------------------------------------------------------
(* Early returns of persist_event. *)

\* Mutant: rows that a deletion has hidden no longer block an older version.
NewerReplaceable_ignoresHidden(e) ==
  /\ is_replaceable(e)
  /\ \E f \in stored \ hidden :
       SameAuthorKind(e, f) /\ f.created_at >= e.created_at

NewerReplaceable(e) ==
  /\ is_replaceable(e)
  /\ \E f \in stored : SameAuthorKind(e, f) /\ f.created_at >= e.created_at

NewerParamReplaceable(e) ==
  /\ is_param_replaceable(e)
  /\ \E f \in stored : /\ SameAuthorKind(e, f)
                       /\ DRows(f, distinct_param(e)) # {}
                       /\ f.created_at >= e.created_at

\* Nothing is inserted: a newer version exists, or the row itself does.
Ignored(e) == NewerReplaceable(e) \/ NewerParamReplaceable(e) \/ e \in stored

-------------------------------------------------------------------------------
(* Rows that the insertion of e removes from rows, which already has e. *)

\* SELECT id ... WHERE kind AND author ORDER BY created_at DESC LIMIT 1
NewestRow(rows, e) ==
  CHOOSE g \in rows : /\ SameAuthorKind(g, e)
                      /\ \A f \in rows : SameAuthorKind(f, e)
                                           => f.created_at <= g.created_at

\* Mutant: the backward delete is forgotten.
OlderReplaceable_none(rows, e) == {}

OlderReplaceable(rows, e) ==
  IF is_replaceable(e)
  THEN {f \in rows : SameAuthorKind(f, e)} \ {NewestRow(rows, e)}
  ELSE {}

\* Mutant: the parameter is left out of the WHERE clause.
ParamRows_anyParam(rows, e) ==
  UNION {{<<f, i>> : i \in DOMAIN f.dtags} :
           f \in {g \in rows : SameAuthorKind(g, e)}}

\* The join of event and tag restricted to e's author, kind and parameter.
ParamRows(rows, e) ==
  UNION {{<<f, i>> : i \in DRows(f, distinct_param(e))} :
           f \in {g \in rows : SameAuthorKind(g, e)}}

\* Mutant: the join is ordered oldest first.
FirstParamRow_ascending(rows, e) ==
  CHOOSE r \in ParamRows(rows, e) :
    \A q \in ParamRows(rows, e) : q[1].created_at >= r[1].created_at

\* ORDER BY t.created_at DESC
FirstParamRow(rows, e) ==
  CHOOSE r \in ParamRows(rows, e) :
    \A q \in ParamRows(rows, e) : q[1].created_at <= r[1].created_at

\* LIMIT -1 OFFSET 1: every row of the join but the first names a victim.
OlderParamReplaceable(rows, e) ==
  IF is_param_replaceable(e)
  THEN {r[1] : r \in {q \in ParamRows(rows, e) : q # FirstParamRow(rows, e)}}
  ELSE {}

RowsAfterInsert(e) ==
  LET inserted == stored \cup {e}
      newest   == inserted \ OlderReplaceable(inserted, e)
  IN  newest \ OlderParamReplaceable(newest, e)

-------------------------------------------------------------------------------
(* NIP-09 deletion. *)

deletable(f) == f.kind # 5 /\ f.kind # 1059

\* Mutant: a deletion hides gift wraps like any other event.
HiddenByDeletion_giftWraps(rows, d) ==
  {f \in rows : /\ f.kind # 5
                /\ f.author = d.author
                /\ \E r \in d.refs : r.id = f.id}

\* Mutant: a deletion hides what it names whoever wrote it.
HiddenByDeletion_anyAuthor(rows, d) ==
  {f \in rows : deletable(f) /\ \E r \in d.refs : r.id = f.id}

\* Rows that deletion d hides: hex in either case decodes to the event hash.
HiddenByDeletion(rows, d) ==
  {f \in rows : /\ deletable(f)
                /\ f.author = d.author
                /\ \E r \in d.refs : r.id = f.id}

\* Mutant: an earlier deletion is not looked up.
DeletedBefore_never(rows, e) == FALSE

\* A deletion naming e is in the store already: tag values compare as text,
\* and the id of a valid event is lower-case hex.
DeletedBefore(rows, e) ==
  /\ deletable(e)
  /\ \E d \in rows : /\ d.author = e.author
                     /\ d.kind = 5
                     /\ \E r \in d.refs : r.lower /\ r.id = e.id

HiddenAfterInsert(rows, e) ==
  (hidden \cap rows) \cup (IF e.kind = 5 THEN HiddenByDeletion(rows, e)
                           ELSE IF DeletedBefore(rows, e) THEN {e} \cap rows
                           ELSE {})

-------------------------------------------------------------------------------
Init ==
  /\ stored = {} /\ hidden = {}
  /\ now = 0
  /\ received = {} /\ saved = {}

\* persist_event returns 0 before or at the insert; the transaction rolls back.
WriteIgnored(e) ==
  /\ Ignored(e)
  /\ received' = received \cup {e}
  /\ UNCHANGED <<stored, hidden, now, saved>>

\* persist_event commits.  The caller learns of a new event only when no
\* earlier deletion covers it.
WriteInserted(e) ==
  LET rows == RowsAfterInsert(e)
  IN  /\ ~Ignored(e)
      /\ stored' = rows
      /\ hidden' = HiddenAfterInsert(rows, e)
      /\ received' = received \cup {e}
      /\ saved' = IF DeletedBefore(rows, e) THEN saved ELSE saved \cup {e}
      /\ UNCHANGED now

\* Ten attempts ending in an SqliteFailure roll back and change nothing, which
\* is a stuttering step of this specification.
write_event(e) == WriteIgnored(e) \/ WriteInserted(e)

\* DELETE FROM event WHERE expires_at <= now; NULL never compares.
delete_expired ==
  /\ stored' = {e \in stored : ~is_expired(e)}
  /\ hidden' = hidden \cap stored'
  /\ UNCHANGED <<now, received, saved>>

Tick ==
  /\ now < MaxTime
  /\ now' = now + 1
  /\ UNCHANGED <<stored, hidden, received, saved>>

Next ==
  \/ \E e \in Events : write_event(e)
  \/ delete_expired
  \/ Tick

Spec == Init /\ [][Next]_vars

\* What a subscription may be sent from the store.
Visible == {e \in stored \ hidden : ~is_expired(e)}

-------------------------------------------------------------------------------
(* Properties. *)

\* The store holds published events, and the hidden flag is a column of a row:
\* it goes when persist_event or delete_expired removes the row.
TypeOK ==
  /\ stored \subseteq Events
  /\ hidden \subseteq stored
  /\ now \in 0..MaxTime
  /\ received \subseteq Events
  /\ stored \subseteq received
  /\ saved \subseteq received

\* Two events that compete for one place: same author and kind, and for the
\* parameterized kinds the same distinct_param.
SameSlot(e, f) ==
  /\ SameAuthorKind(e, f)
  /\ \/ is_replaceable(e)
     \/ is_param_replaceable(e) /\ distinct_param(e) = distinct_param(f)

\* A replaceable or parameterized replaceable event has at most one version in
\* the store, in whatever order persist_event sees the versions.
SlotUnique == \A e, f \in stored : SameSlot(e, f) => e = f

\* An event that write_event reported as added is still stored unless its
\* expiration has passed or a newer version for the same place was received:
\* no deletion of older versions takes an unrelated event with it.
NothingLost ==
  \A e \in saved :
    \/ e \in stored
    \/ is_expired(e)
    \/ \E f \in received : SameSlot(e, f) /\ f.created_at > e.created_at

\* When write_event reports an event as added, which is what the writer
\* broadcasts to live subscribers, a query run at that moment finds the row.
SavedIsVisible == [][\A e \in saved' \ saved : e \in stored' \ hidden']_vars

\* While a deletion is stored, every stored event it names by canonical id and
\* that has its author is hidden, whichever of the two came first.
DeletionHonoured ==
  \A d, e \in stored :
    (/\ d.kind = 5 /\ deletable(e) /\ d.author = e.author
     /\ \E r \in d.refs : r.lower /\ r.id = e.id) => e \in hidden

\* An event is hidden only because its own author published a deletion for it.
HiddenJustified ==
  \A e \in hidden : \E d \in received :
    d.kind = 5 /\ d.author = e.author /\ \E r \in d.refs : r.id = e.id

\* A gift wrap (kind 1059) that was reported as added stays visible until it
\* expires: no deletion, by anybody, takes a payment envelope away.
GiftWrapsDurable ==
  \A e \in saved : (e.kind = 1059 /\ ~is_expired(e)) => e \in Visible

\* A parameterized event carries one "d" tag, and that has a value.
TidyParam(e) ==
  is_param_replaceable(e) => Len(e.dtags) = 1 /\ e.dtags[1] # Bare

\* What was received neither expires nor uses tags in unusual ways.
Settled ==
  \A e \in received : /\ e.expiration = NoExpiration
                      /\ TidyParam(e)
                      /\ \A r \in e.refs : r.lower

Deleted(e) ==
  /\ deletable(e)
  /\ \E d \in received : /\ d.kind = 5 /\ d.author = e.author
                         /\ \E r \in d.refs : r.id = e.id

\* No version received for e's place is newer (strictly: no other is as new).
Latest(e)       == \A f \in received : SameSlot(e, f) => f.created_at <= e.created_at
StrictlyLatest(e) == \A f \in received \ {e} : SameSlot(e, f) => f.created_at < e.created_at

\* What a query can return is a function of what was received and not of the
\* order of arrival: visible events are the latest of their place and not
\* deleted, and such an event is visible unless it shares its timestamp with a
\* rival for the place.
Converged ==
  Settled =>
    /\ \A e \in Visible : Latest(e) /\ ~Deleted(e)
    /\ \A e \in received : (StrictlyLatest(e) /\ ~Deleted(e)) => e \in Visible

===============================================================================
