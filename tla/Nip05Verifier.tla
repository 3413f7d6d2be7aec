----------------------------- MODULE Nip05Verifier -----------------------------
(***************************************************************************)
(* NIP-05 verification of authors: the database writer looks an author's    *)
(* verification up before it persists an event and forwards metadata events *)
(* to the verifier; the verifier is one task that asks the domain of a name *)
(* whether it belongs to the author, keeps the user_verification table, and *)
(* asks again on a timer.                                                   *)
(*                                                                         *)
(* Time is kept as ages.  An age says for how many units a timestamp has    *)
(* been past (a jittered timestamp in the future has a negative age) and    *)
(* stops at Old, beyond every limit the code compares with; a NULL          *)
(* timestamp has age Old too.  A row of the table is found under its        *)
(* metadata event, whose author and name it has.                            *)
(***************************************************************************)
EXTENDS Integers, Sequences, FiniteSets, Functions

CONSTANTS
  Metadata,     \* kind 0 events: [id, author, name or NoName, created_at]
  Notes,        \* other events: [id, author]
  DeniedNames,  \* names in a domain that white- or blacklist refuse
  Expiration,   \* verify_expiration
  Frequency,    \* verify_update_frequency
  MaxFailures,  \* max_consecutive_failures
  Jitter,       \* what now_jitter may add
  RingCap,      \* capacity of the metadata channel (4096)
  Replies,      \* what a domain may do with a request
  Failures,     \* may the verifier's lookups and updates of its table fail
  Grpc,         \* is there a gRPC service, which may refuse any event
  NoName,
  NoEvent

Events == Metadata \cup Notes
Authors == {e.author : e \in Events}
Old == IF Expiration + Jitter > Frequency THEN Expiration + Jitter ELSE Frequency + 1

ASSUME VerifierAssumption ==
  /\ {Expiration, Frequency, RingCap} \subseteq Nat \ {0}
  /\ {MaxFailures, Jitter} \subseteq Nat
  /\ Replies \subseteq {"timeout", "error", "refused", "garbled", "listed", "not_listed"}
  /\ Grpc \in BOOLEAN /\ Failures \in BOOLEAN
  /\ NoEvent \notin Events

VARIABLES
  mode,       \* verified_users.mode of the running process
  stored,     \* events in the database
  records,    \* user_verification: metadata event -> [success, failure, fails]
  ring,       \* metadata events the verifier has not received
  writer,     \* db_writer: [pc, ev, found]
  verifier,   \* Verifier: [pc, ev, answer]
  confirmed   \* history: age of the last confirmation of an author by a domain

vars == <<mode, stored, records, ring, writer, verifier, confirmed>>

AtRest   == [pc |-> "idle", ev |-> NoEvent, found |-> "none"]
Awaiting == [pc |-> "idle", ev |-> NoEvent, answer |-> "none"]
Hanging  == [pc |-> "hanging", ev |-> NoEvent, answer |-> "none"]

Init ==
  /\ mode \in {"passive", "enabled"}
  /\ stored = {}
  /\ records = << >>
  /\ ring = << >>
  /\ writer = AtRest
  /\ verifier = Awaiting
  /\ confirmed = [a \in Authors |-> Old]

-------------------------------------------------------------------------------
(* The database *)

\* What is left of the table when the rows of S go.
Without(S) == [e \in DOMAIN records \ S |-> records[e]]

\* Metadata is replaceable: the stored event of the author that is as new.
Superseded(e) ==
  e \in Metadata /\ \E f \in stored \cap Metadata : f.author = e.author /\ f.created_at >= e.created_at
Replaced(e) ==
  {f \in stored \cap Metadata : e \in Metadata /\ f.author = e.author}

\* Mutant: write_event, rows of a replaced metadata event stay.
KeepRows(e) == records

\* ON DELETE CASCADE: the rows of the replaced event go with it.
RowsAfterWrite(e) == Without(Replaced(e))

\* repo.write_event: a duplicate or older event changes nothing and is not
\* broadcast; it may also fail.
write_event(e, ok) ==
  IF ok /\ e \notin stored /\ ~Superseded(e)
  THEN /\ stored' = (stored \ Replaced(e)) \cup {e}
       /\ records' = RowsAfterWrite(e)
  ELSE UNCHANGED <<stored, records>>

\* get_latest_user_verification: the row of the author's newest metadata event.
Latest(a) ==
  {e \in DOMAIN records : e.author = a
     /\ \A f \in DOMAIN records : f.author = a => f.created_at <= e.created_at}

is_domain_allowed(name) == name \notin DeniedNames

\* VerificationRecord::is_valid; last_success > now - verify_expiration.
is_valid(e) == records[e].success < Expiration /\ is_domain_allowed(e.name)

\* create_verification_record: all other rows of the name go, whoever holds it.
SameName(e) == {f \in DOMAIN records : f.name = e.name} \ {e}

Row(success, failure, fails) == [success |-> success, failure |-> failure, fails |-> fails]

-------------------------------------------------------------------------------
(* The database writer *)

\* An event arrives and the author's verification is looked up; the lookup may
\* fail.  In passive mode only the gRPC service is told of the result.
lookup(e) ==
  LET status == IF Latest(e.author) = {} THEN {"no_rows"}
                ELSE {IF is_valid(f) THEN "valid" ELSE "invalid" : f \in Latest(e.author)}
  IN
  /\ writer.pc = "idle"
  /\ \E found \in IF mode = "enabled" THEN status \cup {"error"} ELSE {"not_used"} :
       writer' = [pc |-> "looked", ev |-> e, found |-> found]
  /\ UNCHANGED <<mode, stored, records, ring, verifier, confirmed>>

\* Mutant: any row will do, however old.
Rejects_no_rows_only == mode = "enabled" /\ writer.found = "no_rows"

\* The event is refused (with a notice, except when the lookup failed).
Rejects == mode = "enabled" /\ writer.found # "valid"

\* The ring keeps the newest RingCap events; a receiver that is further behind
\* loses the oldest.
Forwarded(e) ==
  IF e \notin Metadata THEN ring
  ELSE IF Len(ring) < RingCap THEN Append(ring, e) ELSE Append(Tail(ring), e)

\* The NIP-05 check, the gRPC check, and only then metadata_tx.send.
decide ==
  /\ writer.pc = "looked"
  /\ \/ /\ Rejects \/ Grpc
        /\ writer' = AtRest
        /\ UNCHANGED ring
     \/ /\ ~Rejects
        /\ ring' = Forwarded(writer.ev)
        /\ writer' = [writer EXCEPT !.pc = "write"]
  /\ UNCHANGED <<mode, stored, records, verifier, confirmed>>

\* write_event; RelayPipeline has the broadcast of an event that was inserted.
persist ==
  /\ writer.pc = "write"
  /\ \E ok \in BOOLEAN : write_event(writer.ev, ok)
  /\ writer' = AtRest
  /\ UNCHANGED <<mode, ring, verifier, confirmed>>

Writer == (\E e \in Events : lookup(e)) \/ decide \/ persist

-------------------------------------------------------------------------------
(* The verifier *)

\* How an access to the table may end: TRUE if it succeeds.
Outcomes == IF Failures THEN BOOLEAN ELSE {TRUE}

\* run_internal, a metadata event: ignored without a name, and when it is not
\* newer than the event of the author's row.  A lookup that fails counts as one
\* that finds no row.
receive ==
  /\ verifier.pc = "idle" /\ ring # << >>
  /\ ring' = Tail(ring)
  /\ LET e == Head(ring)
         known == \E f \in Latest(e.author) : e.created_at <= f.created_at
     IN  \E ok \in Outcomes :
           verifier' = IF e.name = NoName \/ (ok /\ known) THEN verifier
                       ELSE [pc |-> "new", ev |-> e, answer |-> "none"]
  /\ UNCHANGED <<mode, stored, records, writer, confirmed>>

\* Both timestamps are further back than the update frequency.
Due(e) == records[e].success > Frequency /\ records[e].failure > Frequency

\* get_oldest_user_verification
Oldest(e) ==
  /\ Due(e)
  /\ \A f \in DOMAIN records : Due(f) =>
       \/ records[f].success < records[e].success
       \/ records[f].success = records[e].success /\ records[f].failure <= records[e].failure

\* do_reverify, on a tick of reverify_interval; without a due row the interval
\* starts again later.
reverify(e) ==
  /\ verifier.pc = "idle"
  /\ e \in DOMAIN records /\ Oldest(e)
  /\ verifier' = [pc |-> "again", ev |-> e, answer |-> "none"]
  /\ UNCHANGED <<mode, stored, records, ring, writer, confirmed>>

\* get_web_verification_res and body_contains_user: a refused domain is not
\* asked; a timeout, a transport error, a status other than 200, a missing or
\* too large content length and a document without a map of names say nothing.
WebStatus(name, reply) ==
  CASE ~is_domain_allowed(name) -> "DomainNotAllowed"
    [] is_domain_allowed(name) /\ reply = "listed" -> "Verified"
    [] is_domain_allowed(name) /\ reply = "not_listed" -> "Unverified"
    [] OTHER -> "Unknown"

Asking == verifier.pc \in {"new", "again"} /\ verifier.answer = "none"

\* The head of a response comes within the five seconds and its body never does:
\* hyper::body::to_bytes has no limit of time, and the task waits for ever.
hang ==
  /\ Asking /\ is_domain_allowed(verifier.ev.name)
  /\ verifier' = Hanging
  /\ UNCHANGED <<mode, stored, records, ring, writer, confirmed>>

\* The domain answers, however late, or the request is given up.
answer(reply) ==
  LET status == WebStatus(verifier.ev.name, reply) IN
  /\ Asking
  /\ verifier' = [verifier EXCEPT !.answer = status]
  /\ confirmed' = IF status = "Verified" THEN [confirmed EXCEPT ![verifier.ev.author] = 0] ELSE confirmed
  /\ UNCHANGED <<mode, stored, records, ring, writer>>

\* create_new_verified_user, first half: in enabled mode the verifier writes
\* the event itself, and goes on when that fails.  Without a confirmation the
\* event is forgotten.
conclude_new ==
  /\ verifier.pc = "new" /\ ~Asking
  /\ IF verifier.answer = "Verified"
     THEN /\ verifier' = [verifier EXCEPT !.pc = "record"]
          /\ IF mode = "enabled" THEN \E ok \in BOOLEAN : write_event(verifier.ev, ok)
             ELSE UNCHANGED <<stored, records>>
     ELSE /\ verifier' = Awaiting
          /\ UNCHANGED <<stored, records>>
  /\ UNCHANGED <<mode, ring, writer, confirmed>>

\* Second half, create_verification_record: metadata_event is NOT NULL, so there
\* is no row for an event that is not in the database.  It may fail.
create_record ==
  LET e == verifier.ev IN
  /\ verifier.pc = "record"
  /\ \/ /\ Failures \/ e \notin stored
        /\ UNCHANGED records
     \/ /\ e \in stored
        /\ records' = [f \in (DOMAIN records \ SameName(e)) \cup {e} |->
                        IF f = e THEN Row(0, Old, 0) ELSE records[f]]
  /\ verifier' = Awaiting
  /\ UNCHANGED <<mode, stored, ring, writer, confirmed>>

\* Mutant: a failed check renews the verification too.
RenewAlways(r, status, j) ==
  IF status = "Verified" THEN Row(-j, r.failure, 0) ELSE Row(-j, -j, r.fails + 1)

\* Mutant: failures are not counted.
NeverGiveUp(r, status, j) ==
  IF status = "Verified" THEN Row(-j, r.failure, 0) ELSE Row(r.success, -j, r.fails)

\* update_verification_timestamp and fail_verification
Renewed(r, status, j) ==
  IF status = "Verified" THEN Row(-j, r.failure, 0) ELSE Row(r.success, -j, r.fails + 1)

\* delete_verification: the domain denies the name, or was asked in vain too often.
\* The row was read before the request and may be gone by now.  An error of the
\* database leaves the row as it is: run_internal returns and is called again.
conclude_again(ok) ==
  LET e == verifier.ev IN
  /\ verifier.pc = "again" /\ ~Asking
  /\ IF ~ok \/ e \notin DOMAIN records THEN UNCHANGED records
     ELSE IF \/ verifier.answer = "Unverified"
             \/ verifier.answer \in {"Unknown", "DomainNotAllowed"} /\ records[e].fails >= MaxFailures
          THEN records' = Without({e})
          ELSE \E j \in 0..Jitter : records' = [records EXCEPT ![e] = Renewed(@, verifier.answer, j)]
  /\ verifier' = Awaiting
  /\ UNCHANGED <<mode, stored, ring, writer, confirmed>>

\* The task is at work on a name.
Working ==
  \/ conclude_new \/ create_record \/ \E ok \in Outcomes : conclude_again(ok)
  \/ \E reply \in Replies : answer(reply)

Verifier == receive \/ Working \/ hang \/ \E e \in Metadata : reverify(e)

-------------------------------------------------------------------------------
(* Time and restarts *)

Older(age) == IF age < Old THEN age + 1 ELSE Old

\* A unit of time is long compared with what the verifier does after an answer.
tick ==
  /\ verifier.answer = "none"
  /\ records' = [e \in DOMAIN records |->
                   Row(Older(records[e].success), Older(records[e].failure), records[e].fails)]
  /\ confirmed' = [a \in Authors |-> Older(confirmed[a])]
  /\ UNCHANGED <<mode, stored, ring, writer, verifier>>

\* The relay stops, or crashes, and is started again, perhaps in the other mode.
restart ==
  /\ mode' \in {"passive", "enabled"}
  /\ ring' = << >>
  /\ writer' = AtRest
  /\ verifier' = Awaiting
  /\ UNCHANGED <<stored, records, confirmed>>

Next == Writer \/ Verifier \/ tick \/ restart

Spec == Init /\ [][Next]_vars

\* The relay stays up in the end.  Time passes, and a request without a response
\* ends (timeout of 5 seconds), but the body of a response need not.  select!
\* takes its ready branches in random order, so a due row gets its turn: the
\* timestamps in the table grow for ever, which ages do not, and a row that waits
\* becomes the oldest.
FairSpec ==
  /\ Spec
  /\ <>[][~restart]_vars
  /\ SF_vars(tick)
  /\ WF_vars(Working)
  /\ \A e \in Metadata : SF_vars(reverify(e))

-------------------------------------------------------------------------------
(* Properties *)

Ages == -Jitter..Old

\* Types; failures are counted up to the limit only.
TypeOK ==
  /\ mode \in {"passive", "enabled"}
  /\ stored \subseteq Events
  /\ DOMAIN records \subseteq Metadata
  /\ \A e \in DOMAIN records : records[e] \in [success : Ages, failure : Ages, fails : 0..MaxFailures]
  /\ ring \in Seq(Metadata) /\ Len(ring) <= RingCap
  /\ writer.pc \in {"idle", "looked", "write"} /\ writer.ev \in Events \cup {NoEvent}
  /\ verifier.pc \in {"idle", "new", "again", "record", "hanging"} /\ verifier.ev \in Metadata \cup {NoEvent}
  /\ confirmed \in [Authors -> Ages]

\* A name verifies one author and an author has one name at a time, each by a
\* metadata event that is in the database, although writer and verifier replace
\* metadata events behind each other's back.
RecordsUnique ==
  /\ TypeOK
  /\ DOMAIN records \subseteq stored
  /\ \A e, f \in DOMAIN records : e # f => e.name # f.name /\ e.author # f.author

\* An author whom the writer treats as verified was confirmed by a domain no
\* longer ago than the expiration and the jitter of the timestamp.
FreshlyConfirmed ==
  [][writer.pc = "idle" /\ writer'.pc = "looked" /\ writer'.found = "valid"
       => confirmed[writer'.ev.author] < Expiration + Jitter]_vars

\* In enabled mode nothing is stored for an author no domain ever confirmed:
\* whatever is new in the database comes from an author with a row when the
\* writer looked, or whom the verifier has just confirmed.
StoredForVerified ==
  [][mode = "enabled" =>
       \A e \in stored' \ stored :
         \/ writer.ev = e /\ writer.found = "valid"
         \/ verifier.ev = e /\ verifier.answer = "Verified"]_vars

\* A row does not stay on an old confirmation for ever: it is confirmed again and
\* again, or it goes (do_reverify gives up after max_consecutive_failures).  The one
\* way out is a domain that sends a head and never the body: it holds the only
\* verifier for ever, and with it the rows of all other domains.
RowsRenewedOrDropped ==
  \/ <>[](verifier = Hanging)
  \/ \A e \in Metadata : []<>(e \notin DOMAIN records)
                         \/ []<>(verifier.ev = e /\ verifier.answer = "Verified")

\* Every metadata event that the writer decides on (a failed lookup apart) is
\* forwarded to the verifier, whatever the author's status (docs/user-verification-nip05.md).  In enabled
\* mode it is not: decide rejects the event of an unverified author first, so
\* nobody becomes verified in that mode.
MetadataForwarded ==
  [][decide /\ writer.ev \in Metadata /\ writer.found # "error" => writer.ev \in Range(ring')]_vars
===============================================================================
