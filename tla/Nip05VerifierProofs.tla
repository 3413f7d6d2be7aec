-------------------------- MODULE Nip05VerifierProofs --------------------------
(* Theorems about Nip05Verifier, for any events, names, limits and replies. *)
EXTENDS Nip05Verifier, TLAPS

-------------------------------------------------------------------------------
(* The invariant. *)

\* What writer and verifier know at each of their steps.  In enabled mode the
\* writer goes on to write only for an author it found verified, and between an
\* answer and its record no time passes, so that the confirmation is fresh.
TasksInv ==
  /\ writer \in [pc : {"idle", "looked", "write"}, ev : Events \cup {NoEvent},
                 found : {"none", "no_rows", "valid", "invalid", "error", "not_used"}]
  /\ writer.pc # "idle" => writer.ev \in Events
  /\ mode = "enabled" /\ writer.pc = "write" => writer.found = "valid"
  /\ verifier \in [pc : {"idle", "new", "again", "record", "hanging"}, ev : Metadata \cup {NoEvent},
                   answer : {"none", "Verified", "Unverified", "Unknown", "DomainNotAllowed"}]
  /\ verifier.pc \notin {"idle", "hanging"} => verifier.ev \in Metadata
  /\ verifier.pc = "record" => verifier.answer = "Verified"
  /\ verifier.answer # "none" => verifier.pc \notin {"idle", "hanging"}
  /\ verifier.answer = "Verified" => confirmed[verifier.ev.author] = 0

\* A row belongs to a stored event, no two rows have a name in common and no two
\* stored metadata events an author, and a row does not claim a confirmation
\* that is younger than the last one, jitter apart.
RowsInv ==
  /\ DOMAIN records \subseteq stored
  /\ \A e, f \in stored \cap Metadata : e.author = f.author => e = f
  /\ \A e, f \in DOMAIN records : e # f => e.name # f.name
  /\ \A e \in DOMAIN records : confirmed[e.author] <= records[e].success + Jitter

\* The inductive invariant of the verifier and the writer.
VerifierInv == TypeOK /\ TasksInv /\ RowsInv

-------------------------------------------------------------------------------
(* Ages and rows. *)

\* Ages: time makes them older up to Old, which is beyond every limit, and keeps
\* a confirmation within the jitter of the timestamp that stands for it.
LEMMA AgesGrow ==
  /\ Jitter \in Nat /\ Old \in Nat /\ MaxFailures \in Nat
  /\ 0 \in Ages /\ Old \in Ages
  /\ \A j \in 0..Jitter : -j \in Ages
  /\ \A a \in Ages : Older(a) \in Ages
  /\ \A c, s \in Ages : c <= s + Jitter => Older(c) <= Older(s) + Jitter
BY VerifierAssumption DEF Old, Ages, Older

\* write_event adds at most the event, takes the rows of the metadata event that
\* it replaces with it, and leaves one metadata event per author.
LEMMA WriteKeeps ==
  ASSUME VerifierInv, NEW e \in Events, NEW ok, write_event(e, ok)
  PROVE  /\ stored' \subseteq Events
         /\ stored' \ stored \subseteq {e}
         /\ DOMAIN records' \subseteq DOMAIN records
         /\ \A f \in DOMAIN records' : records'[f] = records[f]
         /\ DOMAIN records' \subseteq stored'
         /\ \A f, g \in stored' \cap Metadata : f.author = g.author => f = g
<1>1. CASE /\ stored' = (stored \ Replaced(e)) \cup {e}
           /\ records' = RowsAfterWrite(e)
  <2>1. DOMAIN records' = DOMAIN records \ Replaced(e)
    BY <1>1 DEF RowsAfterWrite, Without
  <2>2. \A f \in DOMAIN records' : records'[f] = records[f]
    BY <1>1, <2>1 DEF RowsAfterWrite, Without
  <2>3. ASSUME NEW f \in stored' \cap Metadata, NEW g \in stored' \cap Metadata, f.author = g.author
        PROVE  f = g
    <3>1. \A h \in stored' \cap Metadata : h = e \/ h \in (stored \cap Metadata) \ Replaced(e)
      BY <1>1
    <3>2. \A h \in (stored \cap Metadata) \ Replaced(e) : e \in Metadata => h.author # e.author
      BY DEF Replaced
    <3> QED
      BY <2>3, <3>1, <3>2 DEF VerifierInv, RowsInv
  <2> QED
    BY <1>1, <2>1, <2>2, <2>3 DEF VerifierInv, TypeOK, RowsInv
<1>2. CASE UNCHANGED <<stored, records>>
  BY <1>2 DEF VerifierInv, TypeOK, RowsInv
<1> QED
  BY <1>1, <1>2 DEF write_event

\* A step that leaves time alone and does to the tables at most what write_event
\* does keeps the invariant, if the tasks do.
LEMMA TablesKept ==
  ASSUME VerifierInv, UNCHANGED confirmed,
         mode' \in {"passive", "enabled"},
         stored' \subseteq Events,
         DOMAIN records' \subseteq DOMAIN records,
         \A f \in DOMAIN records' : records'[f] = records[f],
         DOMAIN records' \subseteq stored',
         \A f, g \in stored' \cap Metadata : f.author = g.author => f = g,
         ring' \in Seq(Metadata) /\ Len(ring') <= RingCap,
         TasksInv'
  PROVE  VerifierInv'
<1>1. RowsInv'
  BY DEF VerifierInv, RowsInv
<1>2. TypeOK'
  BY DEF VerifierInv, TypeOK, TasksInv
<1> QED
  BY <1>1, <1>2 DEF VerifierInv

-------------------------------------------------------------------------------
(* The steps. *)

\* The relay starts with empty tables.
LEMMA VerifierInit == Init => VerifierInv
<1> SUFFICES ASSUME Init
             PROVE  VerifierInv
  OBVIOUS
<1>1. DOMAIN records = {} /\ stored = {} /\ ring \in Seq(Metadata) /\ Len(ring) <= RingCap
  BY VerifierAssumption DEF Init
<1>2. confirmed \in [Authors -> Ages]
  BY AgesGrow DEF Init
<1>3. TasksInv
  BY DEF Init, TasksInv, AtRest, Awaiting
<1> QED
  BY <1>1, <1>2, <1>3 DEF Init, VerifierInv, TypeOK, TasksInv, RowsInv

\* What the writer finds about an author is one of the cases it tells apart.
LEMMA LookupKeeps ==
  ASSUME VerifierInv, NEW e \in Events, lookup(e)
  PROVE  VerifierInv'
<1>1. writer' \in [pc : {"idle", "looked", "write"}, ev : Events \cup {NoEvent},
                   found : {"none", "no_rows", "valid", "invalid", "error", "not_used"}]
  BY DEF lookup
<1>2. writer'.pc = "looked" /\ writer'.ev = e
  BY DEF lookup
<1>3. UNCHANGED <<mode, stored, records, ring, verifier, confirmed>>
  BY DEF lookup
<1>4. TasksInv'
  BY <1>1, <1>2, <1>3 DEF VerifierInv, TasksInv
<1> QED
  BY <1>3, <1>4, TablesKept DEF VerifierInv, TypeOK, RowsInv

\* decide forwards metadata to the ring, and goes on only for whom it may.
LEMMA DecideKeeps == VerifierInv /\ decide => VerifierInv'
<1> SUFFICES ASSUME VerifierInv, decide
             PROVE  VerifierInv'
  OBVIOUS
<1>1. UNCHANGED <<mode, stored, records, verifier, confirmed>> /\ writer.ev \in Events
  BY DEF decide, VerifierInv, TasksInv
<1>2. ring' \in Seq(Metadata) /\ Len(ring') <= RingCap
  <2>1. ring \in Seq(Metadata) /\ Len(ring) <= RingCap /\ RingCap \in Nat \ {0}
    BY VerifierAssumption DEF VerifierInv, TypeOK
  <2>2. ASSUME NEW e \in Metadata, ~(Len(ring) < RingCap)
        PROVE  Append(Tail(ring), e) \in Seq(Metadata) /\ Len(Append(Tail(ring), e)) <= RingCap
    <3>1. ring # << >>
      BY <2>1, <2>2
    <3>2. Tail(ring) \in Seq(Metadata) /\ Len(Tail(ring)) = Len(ring) - 1
      BY <2>1, <3>1
    <3> QED
      BY <2>1, <2>2, <3>2
  <2>3. ASSUME NEW e \in Metadata, Len(ring) < RingCap
        PROVE  Append(ring, e) \in Seq(Metadata) /\ Len(Append(ring, e)) <= RingCap
    BY <2>1, <2>3
  <2> QED
    BY <2>1, <2>2, <2>3 DEF decide, Forwarded
<1>3. TasksInv'
  <2>1. CASE writer' = AtRest
    BY <1>1, <2>1 DEF VerifierInv, TasksInv, AtRest
  <2>2. CASE ~Rejects /\ writer' = [writer EXCEPT !.pc = "write"]
    <3>1. /\ writer' \in [pc : {"idle", "looked", "write"}, ev : Events \cup {NoEvent},
                          found : {"none", "no_rows", "valid", "invalid", "error", "not_used"}]
          /\ writer'.ev = writer.ev /\ writer'.found = writer.found
      BY <2>2 DEF VerifierInv, TasksInv
    <3>2. mode = "enabled" => writer.found = "valid"
      BY <2>2 DEF Rejects
    <3> QED
      BY <1>1, <3>1, <3>2 DEF VerifierInv, TasksInv
  <2> QED
    BY <2>1, <2>2 DEF decide
<1> QED
  BY <1>1, <1>2, <1>3, TablesKept DEF VerifierInv, TypeOK, RowsInv

\* The writer's write.
LEMMA PersistKeeps == VerifierInv /\ persist => VerifierInv'
<1> SUFFICES ASSUME VerifierInv, persist
             PROVE  VerifierInv'
  OBVIOUS
<1>1. UNCHANGED <<mode, ring, verifier, confirmed>> /\ writer' = AtRest /\ writer.ev \in Events
  BY DEF persist, VerifierInv, TasksInv
<1>2. PICK ok \in BOOLEAN : write_event(writer.ev, ok)
  BY DEF persist
<1>3. TasksInv'
  BY <1>1 DEF VerifierInv, TasksInv, AtRest
<1> QED
  BY <1>1, <1>2, <1>3, WriteKeeps, TablesKept DEF VerifierInv, TypeOK

\* The verifier takes a metadata event, or a row that is due.
LEMMA TakeKeeps ==
  ASSUME VerifierInv, receive \/ \E e \in Metadata : reverify(e)
  PROVE  VerifierInv'
<1>1. UNCHANGED <<mode, stored, records, writer, confirmed>>
  BY DEF receive, reverify
<1>2. ring' \in Seq(Metadata) /\ Len(ring') <= RingCap
  <2>1. ring \in Seq(Metadata) /\ Len(ring) <= RingCap /\ RingCap \in Nat
    BY VerifierAssumption DEF VerifierInv, TypeOK
  <2>2. CASE receive
    BY <2>1, <2>2 DEF receive
  <2>3. CASE \E e \in Metadata : reverify(e)
    BY <2>1, <2>3 DEF reverify
  <2> QED
    BY <2>2, <2>3
<1>3. \/ verifier' = verifier
      \/ \E e \in Metadata, p \in {"new", "again"} :
           verifier' = [pc |-> p, ev |-> e, answer |-> "none"]
  <2>1. CASE receive
    <3>1. Head(ring) \in Metadata
      BY <2>1 DEF receive, VerifierInv, TypeOK
    <3> QED
      BY <2>1, <3>1 DEF receive, Outcomes
  <2>2. CASE \E e \in Metadata : reverify(e)
    BY <2>2 DEF reverify
  <2> QED
    BY <2>1, <2>2
<1>4. TasksInv'
  BY <1>1, <1>3 DEF VerifierInv, TasksInv
<1> QED
  BY <1>1, <1>2, <1>4, TablesKept DEF VerifierInv, TypeOK, RowsInv

\* A verifier that waits for ever leaves everything else as it is.
LEMMA HangKeeps == VerifierInv /\ hang => VerifierInv'
<1> SUFFICES ASSUME VerifierInv, hang
             PROVE  VerifierInv'
  OBVIOUS
<1>1. UNCHANGED <<mode, stored, records, ring, writer, confirmed>>
  BY DEF hang
<1>2. TasksInv'
  BY <1>1 DEF hang, Hanging, VerifierInv, TasksInv
<1> QED
  BY <1>1, <1>2, TablesKept DEF VerifierInv, TypeOK, RowsInv

\* An answer that confirms the name makes the confirmation new.
LEMMA AnswerKeeps ==
  ASSUME VerifierInv, NEW reply \in Replies, answer(reply)
  PROVE  VerifierInv'
<1> DEFINE status == WebStatus(verifier.ev.name, reply)
<1>1. status \in {"Verified", "Unverified", "Unknown", "DomainNotAllowed"}
  BY DEF WebStatus
<1>2. UNCHANGED <<mode, stored, records, ring, writer>>
  BY DEF answer
<1>3. verifier.pc \in {"new", "again"} /\ verifier.ev \in Metadata
  BY DEF answer, Asking, VerifierInv, TasksInv
<1>4. /\ verifier' \in [pc : {"idle", "new", "again", "record", "hanging"}, ev : Metadata \cup {NoEvent},
                        answer : {"none", "Verified", "Unverified", "Unknown", "DomainNotAllowed"}]
      /\ verifier'.pc = verifier.pc /\ verifier'.ev = verifier.ev /\ verifier'.answer = status
  <2>1. verifier' = [verifier EXCEPT !.answer = status]
    BY DEF answer
  <2> HIDE DEF status
  <2> QED
    BY <1>1, <2>1 DEF VerifierInv, TasksInv
<1>5. verifier.ev.author \in Authors
  BY <1>3 DEF Authors, Events
<1>6. /\ confirmed' \in [Authors -> Ages]
      /\ \A a \in Authors : confirmed'[a] \in {confirmed[a], 0}
      /\ status = "Verified" => confirmed'[verifier.ev.author] = 0
  <2>1. confirmed' = IF status = "Verified" THEN [confirmed EXCEPT ![verifier.ev.author] = 0] ELSE confirmed
    BY DEF answer
  <2> HIDE DEF status
  <2> QED
    BY <1>5, <2>1, AgesGrow DEF VerifierInv, TypeOK
<1> HIDE DEF status
<1>7. TasksInv'
  BY <1>2, <1>3, <1>4, <1>6 DEF VerifierInv, TasksInv
<1>8. RowsInv'
  <2>1. ASSUME NEW e \in DOMAIN records
        PROVE  confirmed'[e.author] <= records[e].success + Jitter
    <3>1. e \in Metadata /\ e.author \in Authors
      BY DEF VerifierInv, TypeOK, Authors, Events
    <3>2. records[e].success \in Ages /\ confirmed[e.author] <= records[e].success + Jitter
      BY DEF VerifierInv, TypeOK, RowsInv
    <3>3. 0 <= records[e].success + Jitter
      BY <3>2, AgesGrow DEF Ages
    <3> QED
      BY <1>6, <3>1, <3>2, <3>3
  <2> QED
    BY <1>2, <2>1 DEF VerifierInv, RowsInv
<1> QED
  BY <1>2, <1>6, <1>7, <1>8 DEF VerifierInv, TypeOK, TasksInv

\* The verifier goes to rest, or from an answer to its record, without touching
\* what it knows of the event.
LEMMA ConcludeNewKeeps == VerifierInv /\ conclude_new => VerifierInv'
<1> SUFFICES ASSUME VerifierInv, conclude_new
             PROVE  VerifierInv'
  OBVIOUS
<1>1. UNCHANGED <<mode, ring, writer, confirmed>> /\ verifier.ev \in Events
  BY DEF conclude_new, VerifierInv, TasksInv, Events
<1>2. UNCHANGED <<stored, records>> \/ \E ok \in BOOLEAN : write_event(verifier.ev, ok)
  BY DEF conclude_new
<1>3. TasksInv'
  <2>1. CASE verifier' = Awaiting
    BY <1>1, <2>1 DEF VerifierInv, TasksInv, Awaiting
  <2>2. CASE verifier.answer = "Verified" /\ verifier' = [verifier EXCEPT !.pc = "record"]
    <3>1. /\ verifier' \in [pc : {"idle", "new", "again", "record", "hanging"}, ev : Metadata \cup {NoEvent},
                            answer : {"none", "Verified", "Unverified", "Unknown", "DomainNotAllowed"}]
          /\ verifier'.pc = "record" /\ verifier'.ev = verifier.ev /\ verifier'.answer = "Verified"
      BY <2>2 DEF VerifierInv, TasksInv
    <3> QED
      BY <1>1, <2>2, <3>1 DEF conclude_new, VerifierInv, TasksInv
  <2> QED
    BY <2>1, <2>2 DEF conclude_new
<1>4. /\ stored' \subseteq Events
      /\ DOMAIN records' \subseteq DOMAIN records
      /\ \A f \in DOMAIN records' : records'[f] = records[f]
      /\ DOMAIN records' \subseteq stored'
      /\ \A f, g \in stored' \cap Metadata : f.author = g.author => f = g
  <2>1. CASE UNCHANGED <<stored, records>>
    BY <2>1 DEF VerifierInv, TypeOK, RowsInv
  <2>2. CASE \E ok \in BOOLEAN : write_event(verifier.ev, ok)
    BY <1>1, <2>2, WriteKeeps
  <2> QED
    BY <1>2, <2>1, <2>2
<1> QED
  BY <1>1, <1>3, <1>4, TablesKept DEF VerifierInv, TypeOK

\* A new row takes the name from every other row and is as fresh as the answer.
LEMMA CreateRecordKeeps == VerifierInv /\ create_record => VerifierInv'
<1> SUFFICES ASSUME VerifierInv, create_record
             PROVE  VerifierInv'
  OBVIOUS
<1> DEFINE e == verifier.ev
<1>1. /\ UNCHANGED <<mode, stored, ring, writer, confirmed>>
      /\ e \in Metadata /\ confirmed[e.author] = 0
  BY DEF create_record, VerifierInv, TasksInv
<1>2. TasksInv'
  BY <1>1 DEF create_record, VerifierInv, TasksInv, Awaiting
<1>3. CASE records' = records
  BY <1>1, <1>2, <1>3, TablesKept DEF create_record, VerifierInv, TypeOK, RowsInv
<1>4. CASE /\ e \in stored
           /\ records' = [f \in (DOMAIN records \ SameName(e)) \cup {e} |->
                            IF f = e THEN Row(0, Old, 0) ELSE records[f]]
  <2>1. /\ DOMAIN records' = (DOMAIN records \ SameName(e)) \cup {e}
        /\ \A f \in DOMAIN records' : records'[f] = IF f = e THEN Row(0, Old, 0) ELSE records[f]
    BY <1>4
  <2>2. Row(0, Old, 0) \in [success : Ages, failure : Ages, fails : 0..MaxFailures]
    BY AgesGrow DEF Row
  <2>3. TypeOK'
    <3>1. DOMAIN records' \subseteq Metadata
      BY <1>1, <2>1 DEF VerifierInv, TypeOK
    <3>2. \A f \in DOMAIN records' :
            records'[f] \in [success : Ages, failure : Ages, fails : 0..MaxFailures]
      BY <2>1, <2>2 DEF VerifierInv, TypeOK
    <3> QED
      BY <1>1, <1>2, <3>1, <3>2 DEF VerifierInv, TypeOK, TasksInv
  <2>4. \A f, g \in DOMAIN records' : f # g => f.name # g.name
    <3>1. \A f \in DOMAIN records' : f # e => f \in DOMAIN records /\ f.name # e.name
      BY <2>1 DEF SameName
    <3> QED
      BY <3>1 DEF VerifierInv, RowsInv
  <2>5. \A f \in DOMAIN records' : confirmed[f.author] <= records'[f].success + Jitter
    <3>1. ASSUME NEW f \in DOMAIN records', f # e
          PROVE  confirmed[f.author] <= records'[f].success + Jitter
      BY <2>1, <3>1 DEF VerifierInv, RowsInv
    <3>2. confirmed[e.author] <= records'[e].success + Jitter
      BY <1>1, <2>1, AgesGrow DEF Row
    <3> QED
      BY <3>1, <3>2
  <2>6. DOMAIN records' \subseteq stored'
    BY <1>1, <1>4, <2>1 DEF VerifierInv, RowsInv
  <2> QED
    BY <1>1, <1>2, <2>3, <2>4, <2>5, <2>6 DEF VerifierInv, RowsInv
<1> QED
  BY <1>3, <1>4 DEF create_record

\* A row is renewed, counts a failure below the limit, or goes.
LEMMA ConcludeAgainKeeps == \A ok \in BOOLEAN : VerifierInv /\ conclude_again(ok) => VerifierInv'
<1> SUFFICES ASSUME NEW ok \in BOOLEAN, VerifierInv, conclude_again(ok)
             PROVE  VerifierInv'
  OBVIOUS
<1> DEFINE e == verifier.ev
<1>1. /\ UNCHANGED <<mode, stored, ring, writer, confirmed>>
      /\ verifier.answer \in {"Verified", "Unverified", "Unknown", "DomainNotAllowed"}
  BY DEF conclude_again, VerifierInv, TasksInv, Asking
<1>2. TasksInv'
  BY <1>1 DEF conclude_again, VerifierInv, TasksInv, Awaiting
<1>3. CASE ~ok \/ e \notin DOMAIN records \/ records' = Without({e})
  <2>1. /\ DOMAIN records' \subseteq DOMAIN records
        /\ \A f \in DOMAIN records' : records'[f] = records[f]
    BY <1>3 DEF conclude_again, Without
  <2> QED
    BY <1>1, <1>2, <2>1, TablesKept DEF VerifierInv, TypeOK, RowsInv
<1>4. CASE /\ e \in DOMAIN records
           /\ ~\/ verifier.answer = "Unverified"
               \/ verifier.answer \in {"Unknown", "DomainNotAllowed"} /\ records[e].fails >= MaxFailures
           /\ \E j \in 0..Jitter : records' = [records EXCEPT ![e] = Renewed(@, verifier.answer, j)]
  <2>1. PICK j \in 0..Jitter : records' = [records EXCEPT ![e] = Renewed(@, verifier.answer, j)]
    BY <1>4
  <2>2. /\ DOMAIN records' = DOMAIN records
        /\ \A f \in DOMAIN records : f # e => records'[f] = records[f]
        /\ records'[e] = Renewed(records[e], verifier.answer, j)
    BY <1>4, <2>1
  <2>3. records[e] \in [success : Ages, failure : Ages, fails : 0..MaxFailures] /\ -j \in Ages
    BY <1>4, AgesGrow DEF VerifierInv, TypeOK
  <2>4. /\ records'[e] \in [success : Ages, failure : Ages, fails : 0..MaxFailures]
        /\ records'[e].success = IF verifier.answer = "Verified" THEN -j ELSE records[e].success
    <3>1. CASE verifier.answer = "Verified"
      BY <2>2, <2>3, <3>1, AgesGrow DEF Renewed, Row
    <3>2. CASE verifier.answer # "Verified"
      <4>1. records[e].fails + 1 \in 0..MaxFailures
        BY <1>1, <1>4, <2>3, <3>2, AgesGrow
      <4> QED
        BY <2>2, <2>3, <3>2, <4>1 DEF Renewed, Row
    <3> QED
      BY <3>1, <3>2
  <2>5. TypeOK'
    <3>1. \A f \in DOMAIN records' :
            records'[f] \in [success : Ages, failure : Ages, fails : 0..MaxFailures]
      BY <2>2, <2>4 DEF VerifierInv, TypeOK
    <3> QED
      BY <1>1, <1>2, <2>2, <3>1 DEF VerifierInv, TypeOK, TasksInv
  <2>6. confirmed[e.author] <= records'[e].success + Jitter
    <3>1. CASE verifier.answer = "Verified"
      <4>1. confirmed[e.author] = 0
        BY <3>1 DEF VerifierInv, TasksInv
      <4> QED
        BY <2>4, <3>1, <4>1, AgesGrow
    <3>2. CASE verifier.answer # "Verified"
      BY <1>4, <2>4, <3>2 DEF VerifierInv, RowsInv
    <3> QED
      BY <3>1, <3>2
  <2>7. RowsInv'
    BY <1>1, <2>2, <2>6 DEF VerifierInv, RowsInv
  <2> QED
    BY <1>2, <2>5, <2>7 DEF VerifierInv
<1> QED
  BY <1>3, <1>4 DEF conclude_again

\* Time passes for rows and confirmations alike.
LEMMA TickKeeps == VerifierInv /\ tick => VerifierInv'
<1> SUFFICES ASSUME VerifierInv, tick
             PROVE  VerifierInv'
  OBVIOUS
<1>1. UNCHANGED <<mode, stored, ring, writer, verifier>> /\ verifier.answer = "none"
  BY DEF tick
<1>2. /\ DOMAIN records' = DOMAIN records
      /\ \A e \in DOMAIN records : records'[e] =
           Row(Older(records[e].success), Older(records[e].failure), records[e].fails)
  BY DEF tick
<1>3. /\ confirmed' \in [Authors -> Ages]
      /\ \A a \in Authors : confirmed'[a] = Older(confirmed[a]) /\ confirmed[a] \in Ages
  BY AgesGrow DEF tick, VerifierInv, TypeOK
<1>4. ASSUME NEW e \in DOMAIN records
      PROVE  /\ records'[e] \in [success : Ages, failure : Ages, fails : 0..MaxFailures]
             /\ confirmed'[e.author] <= records'[e].success + Jitter
  <2>1. /\ records[e] \in [success : Ages, failure : Ages, fails : 0..MaxFailures]
        /\ confirmed[e.author] <= records[e].success + Jitter
        /\ e.author \in Authors
    BY DEF VerifierInv, TypeOK, RowsInv, Authors, Events
  <2>2. Older(records[e].success) \in Ages /\ Older(records[e].failure) \in Ages
    BY <2>1, AgesGrow
  <2>3. records'[e].success = Older(records[e].success)
    BY <1>2 DEF Row
  <2>4. Older(confirmed[e.author]) <= Older(records[e].success) + Jitter
    BY <1>3, <2>1, AgesGrow
  <2> QED
    BY <1>2, <1>3, <2>1, <2>2, <2>3, <2>4 DEF Row
<1>5. TasksInv'
  BY <1>1 DEF VerifierInv, TasksInv
<1>6. TypeOK'
  BY <1>1, <1>2, <1>3, <1>4, <1>5 DEF VerifierInv, TypeOK, TasksInv
<1>7. RowsInv'
  BY <1>1, <1>2, <1>4 DEF VerifierInv, RowsInv
<1> QED
  BY <1>5, <1>6, <1>7 DEF VerifierInv

\* Every step keeps the invariant.
LEMMA VerifierStep == VerifierInv /\ [Next]_vars => VerifierInv'
<1> SUFFICES ASSUME VerifierInv, [Next]_vars
             PROVE  VerifierInv'
  OBVIOUS
<1>1. CASE Writer
  BY <1>1, LookupKeeps, DecideKeeps, PersistKeeps DEF Writer
<1>2. CASE Verifier
  BY <1>2, TakeKeeps, AnswerKeeps, HangKeeps, ConcludeNewKeeps, CreateRecordKeeps, ConcludeAgainKeeps
     DEF Verifier, Working, Outcomes
<1>3. CASE tick
  BY <1>3, TickKeeps
<1>4. CASE restart
  <2>1. UNCHANGED <<stored, records, confirmed>> /\ mode' \in {"passive", "enabled"}
    BY <1>4 DEF restart
  <2>2. ring' \in Seq(Metadata) /\ Len(ring') <= RingCap
    BY <1>4, VerifierAssumption DEF restart
  <2>3. TasksInv'
    BY <1>4 DEF restart, TasksInv, AtRest, Awaiting
  <2> QED
    BY <2>1, <2>2, <2>3, TablesKept DEF VerifierInv, TypeOK, RowsInv
<1>5. CASE UNCHANGED vars
  BY <1>5 DEF vars, VerifierInv, TypeOK, TasksInv, RowsInv
<1> QED
  BY <1>1, <1>2, <1>3, <1>4, <1>5 DEF Next

\* The invariant holds in every reachable state.
LEMMA VerifierInvariant == Spec => []VerifierInv
  BY VerifierInit, VerifierStep, PTL DEF Spec

-------------------------------------------------------------------------------
(* The theorems. *)

\* A name verifies one author, an author has one name, and each row belongs to
\* an event that is in the database, whatever writer and verifier do to each
\* other's metadata events, and across restarts into the other mode.
THEOREM RowsAreUnique == Spec => []RecordsUnique
<1>1. VerifierInv => RecordsUnique
  BY DEF VerifierInv, TypeOK, RowsInv, RecordsUnique
<1> QED
  BY <1>1, VerifierInvariant, PTL

\* An author whom the writer treats as verified was confirmed by a domain within
\* the expiration and the jitter of the timestamp.
THEOREM ConfirmationIsFresh == Spec => FreshlyConfirmed
<1> DEFINE Fresh == writer.pc = "idle" /\ writer'.pc = "looked" /\ writer'.found = "valid"
                      => confirmed[writer'.ev.author] < Expiration + Jitter
<1>1. VerifierInv /\ [Next]_vars => Fresh
  <2> SUFFICES ASSUME VerifierInv, [Next]_vars,
                      writer.pc = "idle", writer'.pc = "looked", writer'.found = "valid"
               PROVE  confirmed[writer'.ev.author] < Expiration + Jitter
    OBVIOUS
  <2>1. PICK e \in Events : lookup(e)
    BY DEF Next, Writer, decide, persist, Verifier, Working, receive, reverify, answer, hang,
           conclude_new, create_record, conclude_again, tick, restart, AtRest, vars
  <2>2. PICK f \in Latest(e.author) : is_valid(f)
    BY <2>1 DEF lookup
  <2>3. /\ f \in DOMAIN records /\ f.author = e.author /\ writer'.ev = e
        /\ records[f].success < Expiration
    BY <2>1, <2>2 DEF Latest, lookup, is_valid
  <2>4. /\ confirmed[f.author] <= records[f].success + Jitter
        /\ records[f].success \in Int /\ confirmed[f.author] \in Int
    <3>1. f.author \in Authors
      BY <2>3 DEF VerifierInv, TypeOK, Authors, Events
    <3>2. records[f].success \in Ages /\ confirmed[f.author] \in Ages
      BY <2>3, <3>1 DEF VerifierInv, TypeOK
    <3>3. \A a \in Ages : a \in Int
      BY AgesGrow DEF Ages
    <3> QED
      BY <2>3, <3>2, <3>3 DEF VerifierInv, RowsInv
  <2> QED
    BY <2>3, <2>4, VerifierAssumption
<1>2. [Next]_vars /\ VerifierInv => [Fresh]_vars
  BY <1>1
<1> QED
  BY <1>2, VerifierInvariant, PTL DEF Spec, FreshlyConfirmed

\* In enabled mode nothing enters the database but the events of an author whose
\* row was valid when the writer looked, or whose name a domain has just confirmed.
THEOREM StoredIsVerified == Spec => StoredForVerified
<1> DEFINE Vouched == mode = "enabled" =>
             \A e \in stored' \ stored : \/ writer.ev = e /\ writer.found = "valid"
                                         \/ verifier.ev = e /\ verifier.answer = "Verified"
<1>1. ASSUME VerifierInv, [Next]_vars
      PROVE  Vouched
  <2> SUFFICES ASSUME mode = "enabled", NEW e \in stored' \ stored
               PROVE  \/ writer.ev = e /\ writer.found = "valid"
                      \/ verifier.ev = e /\ verifier.answer = "Verified"
    OBVIOUS
  <2>1. persist \/ conclude_new
    BY <1>1 DEF Next, Writer, lookup, decide, Verifier, Working, receive, reverify, answer, hang,
           create_record, conclude_again, tick, restart, vars
  <2>2. CASE persist
    <3>1. writer.ev \in Events /\ writer.found = "valid"
      BY <1>1, <2>2 DEF persist, VerifierInv, TasksInv
    <3> QED
      BY <1>1, <2>2, <3>1, WriteKeeps DEF persist
  <2>3. CASE conclude_new
    <3>1. verifier.ev \in Events
      BY <1>1, <2>3 DEF conclude_new, VerifierInv, TasksInv, Events
    <3>2. verifier.answer = "Verified" /\ \E ok \in BOOLEAN : write_event(verifier.ev, ok)
      BY <2>3 DEF conclude_new
    <3> QED
      BY <1>1, <3>1, <3>2, WriteKeeps
  <2> QED
    BY <2>1, <2>2, <2>3
<1>2. [Next]_vars /\ VerifierInv => [Vouched]_vars
  BY <1>1
<1> QED
  BY <1>2, VerifierInvariant, PTL DEF Spec, StoredForVerified

===============================================================================
