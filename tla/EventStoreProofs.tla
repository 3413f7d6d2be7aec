--------------------------- MODULE EventStoreProofs ---------------------------
(* Theorems about the SQLite database: EventStore for every catalogue of events,
   and the upgrade of Migrations for every old database. *)
EXTENDS EventStore, Migrations, FiniteSetTheorems, WellFoundedInduction, TLAPS

-------------------------------------------------------------------------------
(* The rows a write leaves behind. *)

\* A write adds at most the written event, and removes only rows of its author
\* and kind, and those only when its kind is replaceable.
LEMMA RowsBounds ==
  ASSUME NEW e \in Events
  PROVE  /\ RowsAfterInsert(e) \subseteq stored \cup {e}
         /\ \A f \in stored : \/ f \in RowsAfterInsert(e)
                              \/ /\ SameAuthorKind(f, e)
                                 /\ is_replaceable(e) \/ is_param_replaceable(e)
<1>1. \A rows : OlderReplaceable(rows, e) # {} => is_replaceable(e)
  BY DEF OlderReplaceable
<1>2. \A rows, f : f \in OlderReplaceable(rows, e) => SameAuthorKind(f, e)
  BY DEF OlderReplaceable
<1>3. \A rows : OlderParamReplaceable(rows, e) # {} => is_param_replaceable(e)
  BY DEF OlderParamReplaceable
<1>4. ASSUME NEW rows, NEW f \in OlderParamReplaceable(rows, e)
      PROVE  SameAuthorKind(f, e)
  <2>1. PICK r \in ParamRows(rows, e) : r[1] = f
    BY <1>4 DEF OlderParamReplaceable
  <2>2. PICK g \in rows : /\ SameAuthorKind(g, e)
                          /\ r \in {<<g, i>> : i \in DRows(g, distinct_param(e))}
    BY <2>1 DEF ParamRows
  <2> QED
    BY <2>1, <2>2
<1> QED
  BY <1>1, <1>2, <1>3, <1>4 DEF RowsAfterInsert

\* The empty database is well typed.
LEMMA TypeInit == Init => TypeOK
  BY MaxTimeAssumption DEF Init, TypeOK

\* Every step leaves the state well typed.
LEMMA TypeStep == TypeOK /\ [Next]_vars => TypeOK'
<1> SUFFICES ASSUME TypeOK, [Next]_vars
             PROVE  TypeOK'
  OBVIOUS
<1> USE DEF TypeOK
<1>1. ASSUME NEW e \in Events, WriteIgnored(e)
      PROVE  TypeOK'
  BY <1>1 DEF WriteIgnored
<1>2. ASSUME NEW e \in Events, WriteInserted(e)
      PROVE  TypeOK'
  <2>1. stored' \subseteq stored \cup {e}
    BY <1>2, RowsBounds DEF WriteInserted
  <2>2. hidden' \subseteq stored'
    BY <1>2 DEF WriteInserted, HiddenAfterInsert, HiddenByDeletion
  <2> QED
    BY <1>2, <2>1, <2>2 DEF WriteInserted
<1>3. CASE delete_expired
  BY <1>3 DEF delete_expired
<1>4. CASE Tick
  BY <1>4, MaxTimeAssumption DEF Tick
<1>5. CASE UNCHANGED vars
  BY <1>5 DEF vars
<1> QED
  BY <1>1, <1>2, <1>3, <1>4, <1>5 DEF Next, write_event

\* Type correctness: persist_event, delete_expired and the clock keep the rows,
\* the hidden flags and the histories well formed.
THEOREM TypeCorrect == Spec => []TypeOK
  BY TypeInit, TypeStep, PTL DEF Spec

-------------------------------------------------------------------------------
(* Deletions. *)

\* An event is hidden only when its kind can be deleted, and a stored deletion
\* has hidden what it names.
DeletionInv ==
  /\ TypeOK
  /\ DeletionHonoured
  /\ HiddenJustified
  /\ \A e \in hidden : deletable(e)

\* Every step keeps the invariant on deletions and hidden rows.
LEMMA DeletionStep == DeletionInv /\ [Next]_vars => DeletionInv'
<1> SUFFICES ASSUME DeletionInv, [Next]_vars, TypeOK'
             PROVE  DeletionInv'
  BY TypeStep DEF DeletionInv
<1>1. ASSUME NEW e \in Events, WriteIgnored(e)
      PROVE  DeletionInv'
  BY <1>1 DEF WriteIgnored, DeletionInv, DeletionHonoured, HiddenJustified
<1>2. ASSUME NEW e \in Events, WriteInserted(e)
      PROVE  DeletionInv'
  <2>1. stored' \subseteq stored \cup {e}
    BY <1>2, RowsBounds DEF WriteInserted
  <2>2. DeletionHonoured'
    <3> SUFFICES ASSUME NEW d \in stored', NEW f \in stored',
                        d.kind = 5, deletable(f), d.author = f.author,
                        \E r \in d.refs : r.lower /\ r.id = f.id
                 PROVE  f \in hidden'
      BY DEF DeletionHonoured
    <3>1. CASE d \in stored /\ f \in stored
      BY <1>2, <3>1 DEF DeletionInv, DeletionHonoured, WriteInserted, HiddenAfterInsert
    <3>2. CASE d = e
      BY <1>2, <3>2 DEF WriteInserted, HiddenAfterInsert, HiddenByDeletion
    <3>3. CASE f = e
      <4>1. DeletedBefore(stored', e)
        BY <3>3 DEF DeletedBefore
      <4> QED
        BY <1>2, <3>3, <4>1 DEF WriteInserted, HiddenAfterInsert, deletable
    <3> QED
      BY <2>1, <3>1, <3>2, <3>3
  <2>3. \A f \in hidden' :
           \/ f \in hidden
           \/ e.kind = 5 /\ f \in HiddenByDeletion(stored', e)
           \/ f = e /\ DeletedBefore(stored', e)
    BY <1>2 DEF WriteInserted, HiddenAfterInsert
  <2>4. HiddenJustified'
    <3> SUFFICES ASSUME NEW f \in hidden'
                 PROVE  \E d \in received' : /\ d.kind = 5 /\ d.author = f.author
                                             /\ \E r \in d.refs : r.id = f.id
      BY DEF HiddenJustified
    <3>1. received' = received \cup {e}
      BY <1>2 DEF WriteInserted
    <3>2. CASE f \in hidden
      BY <3>1, <3>2 DEF DeletionInv, HiddenJustified
    <3>3. CASE e.kind = 5 /\ f \in HiddenByDeletion(stored', e)
      BY <3>1, <3>3 DEF HiddenByDeletion
    <3>4. CASE f = e /\ DeletedBefore(stored', e)
      BY <3>1, <3>4, <2>1 DEF DeletedBefore, DeletionInv, TypeOK
    <3> QED
      BY <2>3, <3>2, <3>3, <3>4
  <2>5. \A f \in hidden' : deletable(f)
    BY <2>3 DEF DeletionInv, HiddenByDeletion, DeletedBefore
  <2> QED
    BY <2>2, <2>4, <2>5 DEF DeletionInv, deletable
<1>3. CASE delete_expired
  BY <1>3 DEF delete_expired, DeletionInv, DeletionHonoured, HiddenJustified, TypeOK
<1>4. CASE Tick
  BY <1>4 DEF Tick, DeletionInv, DeletionHonoured, HiddenJustified
<1>5. CASE UNCHANGED vars
  BY <1>5 DEF vars, DeletionInv, DeletionHonoured, HiddenJustified
<1> QED
  BY <1>1, <1>2, <1>3, <1>4, <1>5 DEF Next, write_event

\* DeletionInv holds in every reachable state.
LEMMA DeletionInvariant == Spec => []DeletionInv
<1>1. Init => DeletionInv
  BY TypeInit DEF Init, DeletionInv, DeletionHonoured, HiddenJustified
<1> QED
  BY <1>1, DeletionStep, PTL DEF Spec

\* A stored deletion hides the stored events of its author that it names,
\* whichever of the two persist_event saw first.
THEOREM DeletionsAreHonoured == Spec => []DeletionHonoured
<1>1. DeletionInv => DeletionHonoured
  BY DEF DeletionInv
<1> QED
  BY <1>1, DeletionInvariant, PTL

\* Only a deletion published by its own author hides an event.
THEOREM HidingIsJustified == Spec => []HiddenJustified
<1>1. DeletionInv => HiddenJustified
  BY DEF DeletionInv
<1> QED
  BY <1>1, DeletionInvariant, PTL

-------------------------------------------------------------------------------
(* Gift wraps. *)

GiftWrapInv ==
  /\ DeletionInv
  /\ \A e \in saved : e.kind = 1059 => e \in stored \/ is_expired(e)

\* An expired event stays expired: the clock does not go back.
LEMMA ExpiryIsMonotone ==
  ASSUME TypeOK, [Next]_vars, NEW e \in Events, is_expired(e)
  PROVE  is_expired(e)'
<1>1. now' \in Nat /\ now \in Nat /\ now' >= now
  BY MaxTimeAssumption
     DEF Next, write_event, WriteIgnored, WriteInserted, delete_expired, Tick, vars, TypeOK
<1> QED
  BY <1>1, EventsAssumption DEF is_expired, NoExpiration

\* Every step keeps the gift wraps that were added.
LEMMA GiftWrapStep == GiftWrapInv /\ [Next]_vars => GiftWrapInv'
<1> SUFFICES ASSUME GiftWrapInv, [Next]_vars, DeletionInv',
                    NEW g \in saved', g.kind = 1059
             PROVE  g \in stored' \/ is_expired(g)'
  BY DeletionStep DEF GiftWrapInv
<1>0. TypeOK /\ TypeOK'
  BY DEF GiftWrapInv, DeletionInv
<1>1. g \in Events
  BY <1>0 DEF TypeOK
<1>2. CASE g \in saved /\ is_expired(g)
  BY <1>0, <1>1, <1>2, ExpiryIsMonotone
<1>3. CASE g \in saved /\ g \in stored
  <2>1. ASSUME NEW e \in Events, WriteInserted(e)
        PROVE  g \in stored'
    BY <1>3, <2>1, RowsBounds
       DEF WriteInserted, SameAuthorKind, is_replaceable, is_param_replaceable
  <2>2. ASSUME delete_expired
        PROVE  g \in stored' \/ is_expired(g)'
    BY <1>3, <2>2 DEF delete_expired, is_expired
  <2> QED
    BY <1>3, <2>1, <2>2 DEF Next, write_event, WriteIgnored, Tick, vars
<1>4. CASE g \notin saved
  <2>1. PICK e \in Events : WriteInserted(e)
    BY <1>4 DEF Next, write_event, WriteIgnored, delete_expired, Tick, vars
  <2>2. g = e
    BY <1>4, <2>1 DEF WriteInserted
  <2>3. e \in RowsAfterInsert(e)
    <3>1. ~is_replaceable(e) /\ ~is_param_replaceable(e)
      BY <2>2 DEF is_replaceable, is_param_replaceable
    <3> QED
      BY <3>1 DEF RowsAfterInsert, OlderReplaceable, OlderParamReplaceable
  <2> QED
    BY <2>1, <2>2, <2>3 DEF WriteInserted
<1> QED
  BY <1>2, <1>3, <1>4 DEF GiftWrapInv

\* A gift wrap that write_event reported as added stays visible until its
\* expiration, whatever else is written, deleted or swept.
THEOREM GiftWrapsAreDurable == Spec => []GiftWrapsDurable
<1>1. Init => GiftWrapInv
  BY TypeInit DEF Init, GiftWrapInv, DeletionInv, DeletionHonoured, HiddenJustified
<1>2. GiftWrapInv => GiftWrapsDurable
  BY DEF GiftWrapInv, DeletionInv, GiftWrapsDurable, Visible, deletable
<1> QED
  BY <1>1, <1>2, GiftWrapStep, PTL DEF Spec

-------------------------------------------------------------------------------
(* One version per place. *)

\* Being versions of one place is symmetric and transitive.
LEMMA SlotEquivalence ==
  ASSUME NEW e, NEW f, NEW g
  PROVE  /\ SameSlot(e, f) => SameSlot(f, e)
         /\ SameSlot(e, f) /\ SameSlot(f, g) => SameSlot(e, g)
  BY DEF SameSlot, SameAuthorKind, is_replaceable, is_param_replaceable

\* When neither e nor a stored event uses its "d" tags in an unusual way, a
\* write that is not ignored replaces exactly the versions for e's place, all
\* of them strictly older.
LEMMA RowsTidy ==
  ASSUME NEW e \in Events, stored \subseteq Events, ~Ignored(e),
         \A f \in stored \cup {e} : TidyParam(f)
  PROVE  /\ RowsAfterInsert(e) = {f \in stored : ~SameSlot(e, f)} \cup {e}
         /\ \A f \in stored : SameSlot(e, f) => f.created_at < e.created_at
         /\ e \notin stored
<1> DEFINE inserted == stored \cup {e}
<1>0. \A f \in inserted : f.created_at \in Nat /\ f.kind \in Nat /\ f.dtags \in Seq(STRING)
  BY EventsAssumption
<1>1. e \notin stored /\ SameAuthorKind(e, e)
  BY DEF Ignored, SameAuthorKind
<1>2. CASE is_replaceable(e)
  <2>1. \A f \in stored : SameAuthorKind(e, f) => f.created_at < e.created_at
    BY <1>0, <1>2 DEF Ignored, NewerReplaceable
  <2>2. \A g \in inserted :
          (/\ SameAuthorKind(g, e)
           /\ \A f \in inserted : SameAuthorKind(f, e) => f.created_at <= g.created_at)
          <=> g = e
    BY <1>0, <1>1, <2>1 DEF SameAuthorKind
  <2>3. NewestRow(inserted, e) = e
    BY <1>1, <2>2 DEF NewestRow
  <2>4. ~is_param_replaceable(e)
    BY <1>0, <1>2 DEF is_replaceable, is_param_replaceable
  <2> QED
    BY <1>1, <1>2, <2>1, <2>3, <2>4
       DEF RowsAfterInsert, OlderReplaceable, OlderParamReplaceable, SameSlot, SameAuthorKind
<1>3. CASE is_param_replaceable(e)
  <2>0. ~is_replaceable(e)
    BY <1>0, <1>3 DEF is_replaceable, is_param_replaceable
  <2> DEFINE v == distinct_param(e)
  <2>1. ASSUME NEW f \in inserted, SameAuthorKind(f, e)
        PROVE  /\ DOMAIN f.dtags = {1}
               /\ f.dtags[1] # Bare
               /\ distinct_param(f) = f.dtags[1]
    <3>1. Len(f.dtags) = 1 /\ f.dtags[1] # Bare
      BY <1>3, <2>1 DEF TidyParam, SameAuthorKind, is_param_replaceable
    <3> QED
      BY <1>0, <3>1 DEF distinct_param
  <2>2. v # Bare /\ v = e.dtags[1]
    BY <1>1, <2>1
  <2>3. \A f \in inserted :
          SameAuthorKind(f, e) => DRows(f, v) = IF SameSlot(e, f) THEN {1} ELSE {}
    <3> SUFFICES ASSUME NEW f \in inserted, SameAuthorKind(f, e)
                 PROVE  DRows(f, v) = IF SameSlot(e, f) THEN {1} ELSE {}
      OBVIOUS
    <3>1. SameSlot(e, f) <=> f.dtags[1] = v
      BY <1>3, <2>0, <2>1 DEF SameSlot, SameAuthorKind
    <3> QED
      BY <2>1, <2>2, <3>1 DEF DRows
  <2>4. ParamRows(inserted, e) = {<<f, 1>> : f \in {g \in inserted : SameSlot(e, g)}}
    BY <2>3 DEF ParamRows, SameSlot, SameAuthorKind
  <2>5. \A f \in stored : SameSlot(e, f) => f.created_at < e.created_at
    <3> SUFFICES ASSUME NEW f \in stored, SameSlot(e, f)
                 PROVE  f.created_at < e.created_at
      OBVIOUS
    <3>1. SameAuthorKind(e, f) /\ SameAuthorKind(f, e)
      BY DEF SameSlot, SameAuthorKind
    <3>2. DRows(f, v) # {}
      BY <2>3, <3>1
    <3> QED
      BY <1>0, <1>3, <3>1, <3>2 DEF Ignored, NewerParamReplaceable
  <2>6. SameSlot(e, e)
    BY <1>3 DEF SameSlot, SameAuthorKind
  <2>7. FirstParamRow(inserted, e) = <<e, 1>>
    <3>1. ASSUME NEW r \in ParamRows(inserted, e),
                 \A q \in ParamRows(inserted, e) : q[1].created_at <= r[1].created_at
          PROVE  r = <<e, 1>>
      <4>1. PICK f \in inserted : SameSlot(e, f) /\ r = <<f, 1>>
        BY <2>4
      <4>2. <<e, 1>> \in ParamRows(inserted, e)
        BY <2>4, <2>6
      <4>3. e.created_at <= f.created_at
        BY <3>1, <4>1, <4>2
      <4> QED
        BY <1>0, <2>5, <4>1, <4>3
    <3>3. ASSUME NEW q \in ParamRows(inserted, e)
          PROVE  q[1].created_at <= e.created_at
      <4>1. PICK f \in inserted : SameSlot(e, f) /\ q = <<f, 1>>
        BY <2>4
      <4> QED
        BY <1>0, <2>5, <4>1
    <3>2. <<e, 1>> \in ParamRows(inserted, e)
      BY <2>4, <2>6
    <3> QED
      BY <3>1, <3>2, <3>3 DEF FirstParamRow
  <2>8. OlderParamReplaceable(inserted, e) = {f \in inserted : SameSlot(e, f)} \ {e}
    <3> DEFINE others == {q \in ParamRows(inserted, e) : q # <<e, 1>>}
    <3>1. OlderParamReplaceable(inserted, e) = {r[1] : r \in others}
      BY <1>3, <2>7 DEF OlderParamReplaceable
    <3>2. ASSUME NEW f \in inserted, SameSlot(e, f), f # e
          PROVE  f \in {r[1] : r \in others}
      <4>1. <<f, 1>> \in others
        BY <2>4, <3>2
      <4> QED
        BY <4>1
    <3>3. ASSUME NEW r \in others
          PROVE  r[1] \in inserted /\ SameSlot(e, r[1]) /\ r[1] # e
      BY <2>4, <3>3
    <3> QED
      BY <3>1, <3>2, <3>3
  <2> QED
    BY <1>1, <2>0, <2>5, <2>6, <2>8 DEF RowsAfterInsert, OlderReplaceable
<1>4. CASE ~is_replaceable(e) /\ ~is_param_replaceable(e)
  BY <1>1, <1>4 DEF RowsAfterInsert, OlderReplaceable, OlderParamReplaceable, SameSlot
<1> QED
  BY <1>2, <1>3, <1>4

\* Every parameterized event of the catalogue has one "d" tag with a value.
TidyEvents == \A e \in Events : TidyParam(e)

StoreInv == DeletionInv /\ SlotUnique /\ NothingLost

\* Every step keeps one version per place and every event that must stay.
LEMMA StoreStep == TidyEvents /\ StoreInv /\ [Next]_vars => StoreInv'
<1> SUFFICES ASSUME TidyEvents, StoreInv, [Next]_vars
             PROVE  StoreInv'
  OBVIOUS
<1>0. TypeOK /\ TypeOK' /\ DeletionInv'
  BY DeletionStep DEF StoreInv, DeletionInv
<1>1. ASSUME NEW e \in Events, WriteIgnored(e)
      PROVE  SlotUnique' /\ NothingLost'
  BY <1>1 DEF WriteIgnored, StoreInv, SlotUnique, NothingLost, is_expired
<1>2. ASSUME NEW e \in Events, WriteInserted(e)
      PROVE  SlotUnique' /\ NothingLost'
  <2>1. /\ stored' = {f \in stored : ~SameSlot(e, f)} \cup {e}
        /\ \A f \in stored : SameSlot(e, f) => f.created_at < e.created_at
    BY <1>0, <1>2, RowsTidy DEF WriteInserted, TidyEvents, TypeOK
  <2>2. SlotUnique'
    BY <2>1, SlotEquivalence DEF StoreInv, SlotUnique
  <2>3. ASSUME NEW f \in saved'
        PROVE  \/ f \in stored'
               \/ is_expired(f)'
               \/ \E g \in received' : SameSlot(f, g) /\ g.created_at > f.created_at
    <3>1. received' = received \cup {e} /\ now' = now /\ saved' \subseteq saved \cup {e}
      BY <1>2 DEF WriteInserted
    <3>2. CASE f \in saved /\ f \in stored /\ SameSlot(e, f)
      <4>1. SameSlot(f, e) /\ f.created_at \in Nat /\ e.created_at \in Nat
        BY <1>0, <3>2, SlotEquivalence, EventsAssumption DEF TypeOK
      <4> QED
        BY <2>1, <3>1, <3>2, <4>1
    <3> QED
      BY <2>1, <3>1, <3>2 DEF StoreInv, NothingLost, is_expired
  <2> QED
    BY <2>2, <2>3 DEF NothingLost
<1>3. ASSUME delete_expired
      PROVE  SlotUnique' /\ NothingLost'
  BY <1>3 DEF delete_expired, StoreInv, SlotUnique, NothingLost, is_expired
<1>4. ASSUME Tick
      PROVE  SlotUnique' /\ NothingLost'
  <2>1. \A e \in saved : is_expired(e) => is_expired(e)'
    BY <1>0, ExpiryIsMonotone DEF TypeOK
  <2> QED
    BY <1>4, <2>1 DEF Tick, StoreInv, SlotUnique, NothingLost
<1>5. ASSUME UNCHANGED vars
      PROVE  SlotUnique' /\ NothingLost'
  BY <1>5 DEF vars, StoreInv, SlotUnique, NothingLost, is_expired
<1> QED
  BY <1>0, <1>1, <1>2, <1>3, <1>4, <1>5 DEF Next, write_event, StoreInv

\* StoreInv holds in every reachable state, for events with ordinary "d" tags.
LEMMA StoreInvariant ==
  ASSUME TidyEvents
  PROVE  Spec => []StoreInv
<1>1. Init => StoreInv
  BY TypeInit DEF Init, StoreInv, DeletionInv, DeletionHonoured, HiddenJustified,
                  SlotUnique, NothingLost
<1>2. StoreInv /\ [Next]_vars => StoreInv'
  BY StoreStep
<1> QED
  BY <1>1, <1>2, PTL DEF Spec

\* For events with ordinary "d" tags, persist_event keeps one version per place.
THEOREM OneVersionPerPlace ==
  ASSUME TidyEvents
  PROVE  Spec => []SlotUnique
<1>1. StoreInv => SlotUnique
  BY DEF StoreInv
<1> QED
  BY <1>1, StoreInvariant, PTL

\* For events with ordinary "d" tags, an event reported as added leaves the
\* store only by expiring or by a newer version for its place.
THEOREM AddedEventsAreDurable ==
  ASSUME TidyEvents
  PROVE  Spec => []NothingLost
<1>1. StoreInv => NothingLost
  BY DEF StoreInv
<1> QED
  BY <1>1, StoreInvariant, PTL

\* For events with ordinary "d" tags, an event is in the store and not hidden
\* at the moment write_event reports it as added.
THEOREM AddedEventsAreVisible ==
  ASSUME TidyEvents
  PROVE  Spec => SavedIsVisible
<1>1. StoreInv /\ [Next]_vars => [\A e \in saved' \ saved : e \in stored' \ hidden']_vars
  <2> SUFFICES ASSUME StoreInv, [Next]_vars, NEW f \in saved' \ saved
               PROVE  f \in stored' \ hidden'
    OBVIOUS
  <2>1. PICK e \in Events : WriteInserted(e)
    BY DEF Next, write_event, WriteIgnored, delete_expired, Tick, vars
  <2>2. f = e /\ ~DeletedBefore(stored', e)
    BY <2>1 DEF WriteInserted
  <2>3. e \in stored' /\ e \notin stored
    BY <2>1, RowsTidy DEF WriteInserted, TidyEvents, StoreInv, DeletionInv, TypeOK
  <2>4. e \notin hidden'
    BY <2>1, <2>2, <2>3
       DEF WriteInserted, HiddenAfterInsert, HiddenByDeletion, deletable,
           StoreInv, DeletionInv, TypeOK
  <2> QED
    BY <2>2, <2>3, <2>4
<1> QED
  BY <1>1, StoreInvariant, PTL DEF Spec, SavedIsVisible

-------------------------------------------------------------------------------
(* Convergence. *)

\* While nothing unusual was received, every received event is in the store or
\* has a rival there that is at least as new, and the hidden rows are exactly
\* the deleted ones.
ConvergenceInv ==
  /\ DeletionInv
  /\ Settled =>
       /\ SlotUnique
       /\ \A e \in received : \E f \in stored :
            f = e \/ (SameSlot(e, f) /\ f.created_at >= e.created_at)
       /\ \A e \in stored : Deleted(e) => e \in hidden

\* A deletion is replaceable by nothing: no other event has its place.
LEMMA KindFiveHasNoSlot ==
  ASSUME NEW e, NEW f, e.kind = 5
  PROVE  ~SameSlot(e, f)
  BY DEF SameSlot, is_replaceable, is_param_replaceable

\* Every step keeps the invariant from which convergence follows.
LEMMA ConvergenceStep == ConvergenceInv /\ [Next]_vars => ConvergenceInv'
<1> SUFFICES ASSUME ConvergenceInv, [Next]_vars, Settled'
             PROVE  /\ SlotUnique'
                    /\ \A e \in received' : \E f \in stored' :
                         f = e \/ (SameSlot(e, f) /\ f.created_at >= e.created_at)
                    /\ \A e \in stored' : Deleted(e)' => e \in hidden'
  BY DeletionStep DEF ConvergenceInv
<1>0. /\ TypeOK /\ TypeOK' /\ DeletionInv
      /\ \A f \in received' : f.created_at \in Nat
  BY DeletionStep, EventsAssumption DEF ConvergenceInv, DeletionInv, TypeOK
<1>1. received \subseteq received'
  BY DEF Next, write_event, WriteIgnored, WriteInserted, delete_expired, Tick, vars
<1>2. /\ Settled /\ SlotUnique
      /\ \A e \in received : \E f \in stored :
           f = e \/ (SameSlot(e, f) /\ f.created_at >= e.created_at)
      /\ \A e \in stored : Deleted(e) => e \in hidden
  <2>1. Settled
    BY <1>1 DEF Settled
  <2> QED
    BY <2>1 DEF ConvergenceInv
<1>3. \A d \in received : d.kind = 5 => d \in stored
  BY <1>2, KindFiveHasNoSlot
<1>4. ASSUME NEW e \in Events, WriteIgnored(e)
      PROVE  /\ SlotUnique'
             /\ \A g \in received' : \E f \in stored' :
                  f = g \/ (SameSlot(g, f) /\ f.created_at >= g.created_at)
             /\ \A g \in stored' : Deleted(g)' => g \in hidden'
  <2>1. stored' = stored /\ hidden' = hidden /\ received' = received \cup {e}
    BY <1>4 DEF WriteIgnored
  <2>2. \E f \in stored : f = e \/ (SameSlot(e, f) /\ f.created_at >= e.created_at)
    <3>1. CASE NewerReplaceable(e)
      BY <3>1 DEF NewerReplaceable, SameSlot
    <3>2. CASE NewerParamReplaceable(e)
      <4>1. PICK f \in stored : /\ SameAuthorKind(e, f)
                                /\ DRows(f, distinct_param(e)) # {}
                                /\ f.created_at >= e.created_at
        BY <3>2 DEF NewerParamReplaceable
      <4>2. is_param_replaceable(e) /\ is_param_replaceable(f)
        BY <3>2, <4>1 DEF NewerParamReplaceable, SameAuthorKind, is_param_replaceable
      <4>3. /\ f \in received' /\ f.dtags \in Seq(STRING)
            /\ Len(f.dtags) = 1 /\ f.dtags[1] # Bare
        BY <1>0, <2>1, <4>2, EventsAssumption DEF Settled, TidyParam, TypeOK
      <4>4. distinct_param(f) = f.dtags[1] /\ DOMAIN f.dtags = {1}
        BY <4>3 DEF distinct_param
      <4>5. distinct_param(e) = distinct_param(f)
        BY <4>1, <4>4 DEF DRows
      <4> QED
        BY <4>1, <4>2, <4>5 DEF SameSlot
    <3>3. CASE e \in stored
      BY <3>3
    <3> QED
      BY <1>4, <3>1, <3>2, <3>3 DEF WriteIgnored, Ignored
  <2>3. e.kind = 5 => e \in received
    BY <1>0, <2>2, KindFiveHasNoSlot DEF TypeOK
  <2>4. \A g : Deleted(g)' => Deleted(g)
    BY <2>1, <2>3 DEF Deleted
  <2> QED
    BY <1>2, <2>1, <2>2, <2>4 DEF SlotUnique
<1>5. ASSUME NEW e \in Events, WriteInserted(e)
      PROVE  /\ SlotUnique'
             /\ \A g \in received' : \E f \in stored' :
                  f = g \/ (SameSlot(g, f) /\ f.created_at >= g.created_at)
             /\ \A g \in stored' : Deleted(g)' => g \in hidden'
  <2>1. received' = received \cup {e} /\ stored' = RowsAfterInsert(e) /\ ~Ignored(e)
    BY <1>5 DEF WriteInserted
  <2>2. \A f \in stored \cup {e} : TidyParam(f)
    BY <1>0, <2>1 DEF Settled, TypeOK
  <2>3. /\ stored' = {f \in stored : ~SameSlot(e, f)} \cup {e}
        /\ \A f \in stored : SameSlot(e, f) => f.created_at < e.created_at
    BY <1>0, <2>1, <2>2, RowsTidy DEF TypeOK
  <2>4. SlotUnique'
    BY <1>2, <2>3, SlotEquivalence DEF SlotUnique
  <2>5. ASSUME NEW g \in received'
        PROVE  \E f \in stored' : f = g \/ (SameSlot(g, f) /\ f.created_at >= g.created_at)
    <3>1. CASE g = e
      BY <2>3, <3>1
    <3>2. CASE g \in received
      <4>1. PICK f \in stored : f = g \/ (SameSlot(g, f) /\ f.created_at >= g.created_at)
        BY <1>2, <3>2
      <4>2. CASE SameSlot(e, f)
        <5>1. SameSlot(g, e)
          BY <4>1, <4>2, SlotEquivalence
        <5>2. f.created_at \in Nat /\ g.created_at \in Nat /\ e.created_at \in Nat
          BY <1>0, <1>1, <2>1, <3>2 DEF TypeOK
        <5> QED
          BY <2>3, <4>1, <4>2, <5>1, <5>2
      <4>3. CASE ~SameSlot(e, f)
        BY <2>3, <4>1, <4>3
      <4> QED
        BY <4>2, <4>3
    <3> QED
      BY <2>1, <3>1, <3>2
  <2>6. ASSUME NEW g \in stored', Deleted(g)'
        PROVE  g \in hidden'
    <3>1. PICK d \in received' : /\ d.kind = 5 /\ d.author = g.author
                                 /\ \E r \in d.refs : r.id = g.id
      BY <2>6 DEF Deleted
    <3>2. deletable(g) /\ \A r \in d.refs : r.lower
      BY <2>6, <3>1 DEF Deleted, Settled
    <3>3. d \in stored'
      BY <1>3, <2>1, <2>3, <3>1, SlotEquivalence, KindFiveHasNoSlot
    <3>4. DeletionHonoured'
      BY <1>0, DeletionStep DEF DeletionInv
    <3> QED
      BY <3>1, <3>2, <3>3, <3>4 DEF DeletionHonoured
  <2> QED
    BY <2>4, <2>5, <2>6
<1>6. CASE delete_expired
  <2>1. stored' = stored
    BY <1>0, <1>2, <1>6 DEF delete_expired, Settled, is_expired, TypeOK
  <2>2. hidden' = hidden /\ received' = received
    BY <1>0, <1>6, <2>1 DEF delete_expired, TypeOK
  <2> QED
    BY <1>2, <2>1, <2>2 DEF SlotUnique, Deleted
<1>7. CASE Tick \/ UNCHANGED vars
  BY <1>2, <1>7 DEF Tick, vars, SlotUnique, Deleted
<1> QED
  BY <1>4, <1>5, <1>6, <1>7 DEF Next, write_event

\* What a query can return depends on the events received and not on the order
\* in which persist_event saw them.
THEOREM StoreConverges == Spec => []Converged
<1>1. Init => ConvergenceInv
  BY TypeInit DEF Init, ConvergenceInv, DeletionInv, DeletionHonoured, HiddenJustified,
                  SlotUnique
<1>2. ConvergenceInv => Converged
  <2> SUFFICES ASSUME ConvergenceInv, Settled
               PROVE  /\ \A e \in Visible : Latest(e) /\ ~Deleted(e)
                      /\ \A e \in received :
                           (StrictlyLatest(e) /\ ~Deleted(e)) => e \in Visible
    BY DEF Converged
  <2>0. TypeOK /\ \A f \in received : f.created_at \in Nat
    BY EventsAssumption DEF ConvergenceInv, DeletionInv, TypeOK
  <2>1. ASSUME NEW e \in Visible
        PROVE  Latest(e) /\ ~Deleted(e)
    <3>1. e \in stored /\ e \notin hidden
      BY DEF Visible
    <3>2. ASSUME NEW f \in received, SameSlot(e, f)
          PROVE  f.created_at <= e.created_at
      <4>1. PICK g \in stored : g = f \/ (SameSlot(f, g) /\ g.created_at >= f.created_at)
        BY DEF ConvergenceInv
      <4>2. SameSlot(e, g)
        BY <3>2, <4>1, SlotEquivalence
      <4>3. g = e
        BY <3>1, <4>2 DEF ConvergenceInv, SlotUnique
      <4> QED
        BY <2>0, <3>1, <4>1, <4>3 DEF TypeOK
    <3> QED
      BY <3>1, <3>2 DEF ConvergenceInv, Latest
  <2>2. ASSUME NEW e \in received, StrictlyLatest(e), ~Deleted(e)
        PROVE  e \in Visible
    <3>1. e \in stored
      <4>1. PICK f \in stored : f = e \/ (SameSlot(e, f) /\ f.created_at >= e.created_at)
        BY DEF ConvergenceInv
      <4> QED
        BY <2>0, <2>2, <4>1 DEF StrictlyLatest, TypeOK
    <3>2. e \notin hidden
      BY <2>2 DEF ConvergenceInv, DeletionInv, HiddenJustified, Deleted
    <3> QED
      BY <3>1, <3>2 DEF Visible, Settled, is_expired
  <2> QED
    BY <2>1, <2>2
<1> QED
  BY <1>1, <1>2, ConvergenceStep, PTL DEF Spec

-------------------------------------------------------------------------------
(***************************************************************************)
(* Migrations: the SQLite database is upgraded, whatever events the old one *)
(* has, through whatever earlier releases, and wherever crashes cut the     *)
(* scripts.                                                                *)
(***************************************************************************)

OldDatabases == IsFiniteSet(Rows) /\ \A r \in Rows : r.created_at \in Nat

\* A nonempty set of natural numbers has a least element.
LEMMA LeastNatural ==
  ASSUME NEW T \in SUBSET Nat, T # {}
  PROVE  \E x \in T : \A y \in T : x <= y
<1> DEFINE R == OpToRel(<, Nat)
<1>1. \A x, y \in Nat : <<y, x>> \in R <=> y < x
  BY DEF OpToRel
<1>2. IsWellFoundedOn(R, Nat)
  BY NatLessThanWellFounded
<1> HIDE DEF R
<1>3. PICK x \in T : \A y \in T : ~(<<y, x>> \in R)
  BY <1>2, WFMin
<1>4. ASSUME NEW y \in T PROVE x <= y
  <2>1. x \in Nat /\ y \in Nat
    OBVIOUS
  <2>2. ~(y < x)
    BY <1>1, <1>3, <2>1
  <2> QED
    BY <2>1, <2>2
<1> QED
  BY <1>4

\* Some element of a finite set is the greatest by a measure: otherwise a
\* smallest subset without such an element would have a smaller one.
LEMMA FiniteMax ==
  ASSUME NEW S, IsFiniteSet(S), S # {}, NEW h \in [S -> Nat]
  PROVE  \E x \in S : \A y \in S : h[y] <= h[x]
<1> DEFINE HasMax(U) == \E x \in U : \A y \in U : h[y] <= h[x]
           T == {n \in Nat : \E U \in SUBSET S : U # {} /\ Cardinality(U) = n /\ ~HasMax(U)}
<1>1. \A U \in SUBSET S : IsFiniteSet(U) /\ Cardinality(U) \in Nat
  BY FS_Subset, FS_CardinalityType
<1>2. ASSUME T # {} PROVE FALSE
  <2>1. PICK n \in T : \A m \in T : n <= m
    <3> HIDE DEF T
    <3>1. T \in SUBSET Nat
      BY DEF T
    <3> QED
      BY <1>2, <3>1, LeastNatural
  <2>2. PICK U \in SUBSET S : U # {} /\ Cardinality(U) = n /\ ~HasMax(U)
    OBVIOUS
  <2>3. PICK u \in U : TRUE
    BY <2>2
  <2>4. u \in S /\ h[u] \in Nat
    OBVIOUS
  <2>5. PICK V : V = U \ {u}
    OBVIOUS
  <2>6. V \in SUBSET S /\ Cardinality(V) = n - 1 /\ Cardinality(V) \in Nat
    BY <1>1, <2>2, <2>3, <2>5, FS_RemoveElement
  <2>7. CASE V = {}
    <3>1. U = {u}
      BY <2>3, <2>5, <2>7
    <3>2. h[u] <= h[u]
      BY <2>4
    <3> QED
      BY <2>2, <3>1, <3>2
  <2>8. CASE V # {}
    <3>1. HasMax(V)
      <4>1. SUFFICES ASSUME ~HasMax(V) PROVE FALSE
        OBVIOUS
      <4>2. Cardinality(V) \in T
        BY <2>6, <2>8, <4>1
      <4>3. n <= n - 1
        BY <2>1, <2>6, <4>2
      <4>4. n \in Nat
        OBVIOUS
      <4> HIDE DEF T, HasMax
      <4> QED
        BY <4>3, <4>4
    <3>2. PICK x \in V : \A y \in V : h[y] <= h[x]
      BY <3>1
    <3>3. x \in U /\ x \in S /\ h[x] \in Nat /\ \A y \in U : y \in V \/ y = u
      BY <2>5, <2>6, <3>2
    <3>4. CASE h[u] <= h[x]
      BY <2>2, <3>2, <3>3, <3>4
    <3>5. CASE h[x] <= h[u]
      <4>1. \A y \in U : h[y] <= h[u]
        <5> SUFFICES ASSUME NEW y \in U PROVE h[y] <= h[u]
          OBVIOUS
        <5>1. h[y] \in Nat /\ (y = u \/ h[y] <= h[x])
          BY <3>2, <3>3
        <5> QED
          BY <2>4, <3>3, <3>5, <5>1
      <4> QED
        BY <2>2, <2>3, <4>1
    <3> QED
      BY <2>4, <3>3, <3>4, <3>5
  <2> QED
    BY <2>7, <2>8
<1>3. Cardinality(S) \in Nat /\ Cardinality(S) \notin T
  BY <1>1, <1>2
<1>4. S \in SUBSET S
  OBVIOUS
<1> QED
  BY <1>3, <1>4

\* The column that script v adds, and the versions that add one.
Adding == {1, 6, 16}
Column(v) == IF v = 1 THEN "hidden" ELSE IF v = 6 THEN "delegated_by" ELSE "expires_at"

\* What version v has that the relay needs and version v - 1 has not.
NewAt(v) ==
  CASE v = 1 -> {"event", "event_hash_index", "author_index"}
    [] v = 2 -> {"hidden"}
    [] v = 3 -> {"tag"}
    [] v = 4 -> {"user_verification"}
    [] v = 7 -> {"delegated_by"}
    [] v = 14 -> {"kind_created_at_index"}
    [] v = 15 -> {"author_created_at_index", "author_kind_index"}
    [] v = 16 -> {"tag.kind"}
    [] v = 17 -> {"expires_at"}
    [] v = 18 -> {"account", "invoice"}
    [] v = 19 -> {"name_claims", "name_claims_active_pubkey"}
    [] OTHER -> {}

\* What is used of a statement of script v.
Ordered(v, s) ==
  /\ s.version \in {0, Reached(v)}
  /\ s.do = "add" => v \in Adding /\ s.on = {Column(v)}
  /\ s.do = "create" /\ v # 0 => s.on \cap {"hidden", "delegated_by", "expires_at"} = {}
  /\ s.do = "drop" => s.on \cap Required = {}
  /\ s.do = "show_all" => v = 1
  /\ s.do = "hide_superseded" => v = 11
  /\ s.do \in {"copy_refs", "split_tags"} => v \in {2, 5}
  /\ v = 15 <=> s.do = "text_tags"
  /\ s.do = "delete_hidden" => v = 14
  /\ v = 0 => s.do \in {"create", "version"}

\* Statement k makes item, and the version is not yet set.
MakesFirst(sc, k, item) ==
  /\ sc[k].do \in {"create", "add"} /\ item \in sc[k].on
  /\ \A j \in 1..k : sc[j].version = 0

\* What is used of script v as a whole.  Only a first statement can fail, the
\* version is set, and what it stands for is made before it is set; INIT_SQL sets
\* the version first and makes everything that the relay needs.
Good(v, sc) ==
  /\ Len(sc) \in Nat /\ Len(sc) >= 1
  /\ \A k \in 1..Len(sc) : Ordered(v, sc[k])
  /\ \A k \in 1..Len(sc) : sc[k].do = "add" => k = 1 /\ Len(sc) > 1
  /\ v = 11 => Len(sc) = 1
  /\ \E k \in 1..Len(sc) : sc[k].version # 0
  /\ v \notin {0, 15} => \A item \in NewAt(v + 1) :
                           \E k \in 1..Len(sc) : MakesFirst(sc, k, item)
  /\ v = 0 => sc[1].version # 0
  /\ v = 0 => \A item \in Required :
                \E k \in 1..Len(sc) : sc[k].do = "create" /\ item \in sc[k].on

\* Every script of upgrade_db is as described.
LEMMA ScriptsGood == \A v \in 0..18 : Good(v, Script(v))
<1>1. /\ Good(0, INIT_SQL)
      /\ Good(1, mig_1_to_2)
      /\ Good(2, mig_2_to_3)
      /\ Good(3, mig_3_to_4)
      /\ Good(4, mig_4_to_5)
      /\ Good(5, mig_5_to_6)
      /\ Good(6, mig_6_to_7)
      /\ Good(7, mig_7_to_8)
      /\ Good(8, mig_8_to_9)
      /\ Good(9, mig_9_to_10)
      /\ Good(10, mig_10_to_11)
      /\ Good(11, mig_11_to_12)
      /\ Good(12, mig_12_to_13)
      /\ Good(13, mig_13_to_14)
      /\ Good(14, mig_14_to_15)
      /\ Good(15, mig_15_to_16)
      /\ Good(16, mig_16_to_17)
      /\ Good(17, mig_17_to_18)
      /\ Good(18, mig_18_to_19)
  <2> USE DEF Good, Ordered, MakesFirst, Column, Adding, NewAt,
              Reached, DB_VERSION, Required,
              Create, AddColumn, Drop, Version, Data, Atomically
  <2>0. Good(0, INIT_SQL)
    BY SMTT(40) DEF INIT_SQL
  <2>1. Good(1, mig_1_to_2)
    BY DEF mig_1_to_2
  <2>2. Good(2, mig_2_to_3)
    BY DEF mig_2_to_3
  <2>3. Good(3, mig_3_to_4)
    BY DEF mig_3_to_4
  <2>4. Good(4, mig_4_to_5)
    BY DEF mig_4_to_5
  <2>5. Good(5, mig_5_to_6)
    BY DEF mig_5_to_6
  <2>6. Good(6, mig_6_to_7)
    BY DEF mig_6_to_7
  <2>7. Good(7, mig_7_to_8)
    BY DEF mig_7_to_8
  <2>8. Good(8, mig_8_to_9)
    BY DEF mig_8_to_9
  <2>9. Good(9, mig_9_to_10)
    BY DEF mig_9_to_10
  <2>10. Good(10, mig_10_to_11)
    BY DEF mig_10_to_11
  <2>11. Good(11, mig_11_to_12)
    BY DEF mig_11_to_12
  <2>12. Good(12, mig_12_to_13)
    BY DEF mig_12_to_13
  <2>13. Good(13, mig_13_to_14)
    BY DEF mig_13_to_14
  <2>14. Good(14, mig_14_to_15)
    BY DEF mig_14_to_15
  <2>15. Good(15, mig_15_to_16)
    BY DEF mig_15_to_16
  <2>16. Good(16, mig_16_to_17)
    BY DEF mig_16_to_17
  <2>17. Good(17, mig_17_to_18)
    BY DEF mig_17_to_18
  <2>18. Good(18, mig_18_to_19)
    BY DEF mig_18_to_19
  <2> HIDE DEF Good
  <2> QED
    BY <2>0, <2>1, <2>2, <2>3, <2>4, <2>5, <2>6, <2>7, <2>8, <2>9, <2>10, <2>11, <2>12,
       <2>13, <2>14, <2>15, <2>16, <2>17, <2>18
<1>2. \A v \in 1..18 : Script(v) = Upgrades[v]
  BY DEF Script
<1>3. Script(0) = INIT_SQL
  BY DEF Script
<1>4. /\ Upgrades[1] = mig_1_to_2
      /\ Upgrades[2] = mig_2_to_3
      /\ Upgrades[3] = mig_3_to_4
      /\ Upgrades[4] = mig_4_to_5
      /\ Upgrades[5] = mig_5_to_6
      /\ Upgrades[6] = mig_6_to_7
      /\ Upgrades[7] = mig_7_to_8
      /\ Upgrades[8] = mig_8_to_9
      /\ Upgrades[9] = mig_9_to_10
      /\ Upgrades[10] = mig_10_to_11
      /\ Upgrades[11] = mig_11_to_12
      /\ Upgrades[12] = mig_12_to_13
      /\ Upgrades[13] = mig_13_to_14
      /\ Upgrades[14] = mig_14_to_15
      /\ Upgrades[15] = mig_15_to_16
      /\ Upgrades[16] = mig_16_to_17
      /\ Upgrades[17] = mig_17_to_18
      /\ Upgrades[18] = mig_18_to_19
  BY DEF Upgrades
<1> QED
  BY <1>1, <1>2, <1>3, <1>4

-------------------------------------------------------------------------------
(* The version on disk. *)

\* One of the first n - 1 statements of script v sets the version.
VersionSet(v, n) == \E k \in 1..(n - 1) : Script(v)[k].version # 0

\* The version on disk is the one that the statements run so far have left.
VersionInv ==
  /\ UpgradeOK
  /\ pc = "migrating" =>
       db.version = IF VersionSet(curr_version, next)
                    THEN Reached(curr_version) ELSE curr_version
  /\ pc = "migrating" => Reached(curr_version) \in 1..release
  /\ pc = "serving" => db.version = release
  /\ db.version \in {0, DB_VERSION + 1} => release = DB_VERSION
  /\ db.version \in 0..release \cup {DB_VERSION + 1}

\* A statement that does not fail, field by field.
Runs(v, n, s) ==
  /\ pc = "migrating" /\ curr_version = v /\ next = n
  /\ v \in 0..18 /\ n \in 1..Len(Script(v)) /\ s = Script(v)[n]
  /\ Good(v, Script(v)) /\ Ordered(v, s)
  /\ ~Fails(s, db)
  /\ db'.version = (IF s.version = 0 THEN db.version ELSE s.version)
  /\ db'.items = ItemsAfter(s, db.items)
  /\ db'.tags = TagsAfter(s, db.tags)
  /\ db'.rows = RowsAfter(s, db.rows)
  /\ UNCHANGED <<release, crashes, interrupted, original, hiddenBefore>>
  /\ release \in 1..19 /\ release \in Releases /\ Reached(v) \in 1..release
  /\ db.version = (IF VersionSet(v, n) THEN Reached(v) ELSE v)
  /\ db'.version = (IF VersionSet(v, n + 1) THEN Reached(v) ELSE v)
  /\ \/ n < Len(Script(v)) /\ next' = n + 1 /\ curr_version' = v /\ pc' = "migrating"
     \/ /\ n = Len(Script(v)) /\ next' = 1 /\ curr_version' = Reached(v)
        /\ pc' = (IF Reached(v) = release THEN "serving" ELSE "migrating")
        /\ db'.version = Reached(v)

\* Versions below a release's are versions below this release's.
LEMMA ReleaseBounds ==
  \A r \in 1..19 : /\ \A v \in 0..(r - 1) : v \in 0..18
                   /\ \A v \in 1..(r - 1) : v \in 1..18
                   /\ \A v \in 1..r : v \in 0..20 /\ v \in 0..r /\ v # 0 /\ v # 20
OBVIOUS

\* Every script has a first statement.
LEMMA ScriptsBegin == \A v \in 0..18 : 1 \in 1..Len(Script(v))
<1> SUFFICES ASSUME NEW v \in 0..18 PROVE 1 \in 1..Len(Script(v))
  OBVIOUS
<1>1. Len(Script(v)) \in Nat /\ Len(Script(v)) >= 1
  BY ScriptsGood DEF Good
<1> QED
  BY <1>1

\* A migrate step runs statement s, number n of script v.
LEMMA StatementRuns ==
  ASSUME VersionInv, migrate
  PROVE  \E v, n, s : Runs(v, n, s)
<1>1. PICK v, n, s : v = curr_version /\ n = next /\ s = Script(v)[n]
  OBVIOUS
<1>0. release \in 1..19 /\ release \in Releases
  BY MigrationsAssumption DEF VersionInv, UpgradeOK, DB_VERSION
<1>2. /\ pc = "migrating" /\ v \in 0..18 /\ n \in 1..Len(Script(v))
      /\ Reached(v) \in 1..release
  <2>1. /\ pc = "migrating" /\ v \in 0..(release - 1) /\ n \in 1..Len(Script(v))
        /\ Reached(v) \in 1..release
    BY <1>1 DEF migrate, VersionInv, UpgradeOK
  <2> QED
    BY <1>0, <2>1, ReleaseBounds
<1>3. Good(v, Script(v)) /\ Ordered(v, s) /\ Len(Script(v)) \in Nat
  BY <1>1, <1>2, ScriptsGood DEF Good
<1>4. /\ ~Fails(s, db)
      /\ db'.version = (IF s.version = 0 THEN db.version ELSE s.version)
      /\ db'.items = ItemsAfter(s, db.items)
      /\ db'.tags = TagsAfter(s, db.tags)
      /\ db'.rows = RowsAfter(s, db.rows)
      /\ UNCHANGED <<release, crashes, interrupted, original, hiddenBefore>>
  BY <1>1 DEF migrate, After
<1>5. db.version = (IF VersionSet(v, n) THEN Reached(v) ELSE v)
  BY <1>1, <1>2 DEF VersionInv
<1>6. db'.version = (IF VersionSet(v, n + 1) THEN Reached(v) ELSE v)
  <2>1. VersionSet(v, n + 1) <=> VersionSet(v, n) \/ s.version # 0
    BY <1>1, <1>2, <1>3 DEF VersionSet
  <2>2. s.version \in {0, Reached(v)}
    BY <1>3 DEF Ordered
  <2> QED
    BY <1>4, <1>5, <2>1, <2>2
<1>7. n = Len(Script(v)) => VersionSet(v, n + 1)
  BY <1>2, <1>3 DEF Good, VersionSet
<1>8. \/ n < Len(Script(v)) /\ next' = n + 1 /\ curr_version' = v /\ pc' = "migrating"
      \/ /\ n = Len(Script(v)) /\ next' = 1 /\ curr_version' = Reached(v)
         /\ pc' = (IF Reached(v) = release THEN "serving" ELSE "migrating")
  BY <1>1, <1>2, <1>3 DEF migrate
<1>9. Runs(v, n, s)
  BY <1>0, <1>1, <1>2, <1>3, <1>4, <1>5, <1>6, <1>7, <1>8 DEF Runs
<1> QED
  BY <1>9

\* Every step leaves the version on disk where the script has brought it.
LEMMA VersionStep == OldDatabases /\ VersionInv /\ [UpgradeNext]_upgradeVars => VersionInv'
<1> SUFFICES ASSUME OldDatabases, VersionInv, [UpgradeNext]_upgradeVars PROVE VersionInv'
  OBVIOUS
<1>0. /\ release \in 1..19 /\ release \in Releases
      /\ db.version \in 0..20
      /\ db.version \in 0..release \cup {20}
      /\ db.version \in {0, 20} => release = 19
  BY MigrationsAssumption DEF VersionInv, UpgradeOK, DB_VERSION
<1>1. CASE start
  <2>1. db' = db /\ next' = 1 /\ curr_version' = db.version /\ release' = release
    BY <1>1 DEF start
  <2>2. ~VersionSet(curr_version, next)'
    BY <2>1 DEF VersionSet
  <2>3. /\ pc' \in {"migrating", "serving", "panicked"} /\ crashes' = crashes
        /\ pc' = "migrating" => db.version \in 0..(release - 1) /\ db.version \in 0..18
        /\ pc' = "serving" => db.version = release
    BY <1>0, <1>1 DEF start
  <2>4. pc' = "migrating" => 1 \in 1..Len(Script(db.version))
    BY <2>3, ScriptsBegin
  <2>5. pc' = "migrating" => Reached(db.version) \in 1..release
    BY <1>0, <2>3 DEF Reached, DB_VERSION
  <2> QED
    BY <1>0, <2>1, <2>2, <2>3, <2>4, <2>5 DEF VersionInv, UpgradeOK, DB_VERSION
<1>2. CASE migrate
  <2>1. PICK v, n, s : Runs(v, n, s)
    BY <1>2, StatementRuns
  <2>2. /\ Reached(v) \in 1..release /\ release' = release
        /\ Reached(v) # release => v # 0 /\ Reached(v) \in 1..(release - 1) /\ Reached(v) = v + 1
    BY <1>0, <2>1 DEF Runs, Reached, DB_VERSION
  <2>3. /\ Len(Script(v)) \in Nat /\ n \in 1..Len(Script(v)) /\ v \in 0..18
        /\ v \in 0..(release - 1)
    <3>1. Len(Script(v)) \in Nat /\ n \in 1..Len(Script(v)) /\ v \in 0..18
      BY <2>1 DEF Runs, Good
    <3> QED
      BY <1>0, <2>2, <3>1 DEF Reached, DB_VERSION
  <2>4. db'.version \in {v, Reached(v)} /\ crashes' = crashes
    BY <2>1 DEF Runs
  <2>0. /\ db'.version \in 0..20
        /\ db'.version \in 0..release \cup {20}
        /\ db'.version \in {0, 20} => release = 19
    <3>1. v = 0 => release = 19
      BY <1>0, <2>2 DEF Reached, DB_VERSION
    <3>2. /\ Reached(v) \in 0..20 /\ Reached(v) \in 0..release
          /\ Reached(v) # 0 /\ Reached(v) # 20
      BY <1>0, <2>2, ReleaseBounds
    <3>3. v \in 0..20 /\ v \in 0..release /\ v # 20
      BY <1>0, <2>3
    <3> QED
      BY <2>4, <3>1, <3>2, <3>3
  <2>5. CASE n < Len(Script(v)) /\ next' = n + 1 /\ curr_version' = v /\ pc' = "migrating"
    <3>1. db'.version = IF VersionSet(v, n + 1) THEN Reached(v) ELSE v
      BY <2>1 DEF Runs
    <3>2. n + 1 \in 1..Len(Script(v))
      BY <2>3, <2>5
    <3>3. VersionSet(curr_version, next)' <=> VersionSet(v, n + 1)
      BY <2>5 DEF VersionSet
    <3> QED
      BY <1>0, <2>0, <2>2, <2>3, <2>4, <2>5, <3>1, <3>2, <3>3
      DEF VersionInv, UpgradeOK, DB_VERSION
  <2>6. CASE /\ n = Len(Script(v)) /\ next' = 1 /\ curr_version' = Reached(v)
             /\ pc' = (IF Reached(v) = release THEN "serving" ELSE "migrating")
             /\ db'.version = Reached(v)
    <3>1. ~VersionSet(curr_version, next)'
      BY <2>6 DEF VersionSet
    <3>2. pc' = "migrating" => Reached(v) \in 1..(release - 1) /\ Reached(v) \in 1..18
      <4>1. pc' = "migrating" => Reached(v) \in 1..(release - 1)
        BY <2>2, <2>6
      <4> QED
        BY <1>0, <4>1, ReleaseBounds
    <3>3. pc' = "migrating" => 1 \in 1..Len(Script(Reached(v)))
      <4>1. \A u \in 1..18 : u \in 0..18
        OBVIOUS
      <4> QED
        BY <3>2, <4>1, ScriptsBegin
    <3>4. pc' = "migrating" => Reached(Reached(v)) \in 1..release
      <4>1. \A u \in 1..18 : Reached(u) = u + 1
        BY DEF Reached
      <4> QED
        BY <1>0, <3>2, <4>1
    <3> QED
      BY <1>0, <2>0, <2>2, <2>4, <2>6, <3>1, <3>2, <3>3, <3>4
      DEF VersionInv, UpgradeOK, DB_VERSION
  <2> QED
    BY <2>1, <2>5, <2>6 DEF Runs
<1>3. CASE panic \/ crash \/ restart
  <2>1. /\ db' = db /\ pc' \in {"down", "panicked"} /\ crashes' \in 0..MaxCrashes
        /\ release' = release
    BY <1>3, MigrationsAssumption DEF panic, crash, restart, VersionInv, UpgradeOK
  <2> QED
    BY <2>1 DEF VersionInv, UpgradeOK
<1>4. CASE \E r \in Rows : hide_event(r)
  <2>1. /\ db'.version = db.version
        /\ UNCHANGED <<pc, curr_version, next, release, crashes>> /\ pc = "serving"
    BY <1>4 DEF hide_event
  <2> QED
    BY <2>1 DEF VersionInv, UpgradeOK
<1>5. CASE \E m \in Releases : install(m)
  <2>1. PICK m \in Releases : install(m)
    BY <1>5
  <2>2. /\ db' = db /\ pc' = "down" /\ release' = m /\ m > release /\ m \in 1..19
        /\ crashes' = crashes
    BY <2>1, MigrationsAssumption DEF install, DB_VERSION
  <2>3. db.version \in {0, 20} => m = 19
    BY <1>0, <2>2
  <2>4. db.version \in 0..m \cup {20}
    BY <1>0, <2>2
  <2> QED
    BY <2>2, <2>3, <2>4 DEF VersionInv, UpgradeOK, DB_VERSION
<1>6. CASE UNCHANGED upgradeVars
  BY <1>6 DEF upgradeVars, VersionInv, UpgradeOK, VersionSet
<1> QED
  BY <1>1, <1>2, <1>3, <1>4, <1>5, <1>6 DEF UpgradeNext

-------------------------------------------------------------------------------
(* Columns are added once. *)

\* A database of version v or before has the column that script v adds only when
\* this script was cut short, or while it runs.
ColumnInv ==
  \A v \in Adding :
    Column(v) \in db.items /\ db.version \in 1..v =>
      v \in interrupted \/ (pc = "migrating" /\ curr_version = v /\ next > 1)

\* No step adds a column that the database may already have, unless the script that
\* adds it was cut short before: ALTER TABLE ADD fails for no other reason.
LEMMA ColumnStep ==
  VersionInv /\ ColumnInv /\ PanicJustified /\ [UpgradeNext]_upgradeVars
    => (ColumnInv /\ PanicJustified)'
<1> SUFFICES ASSUME VersionInv, ColumnInv, PanicJustified, [UpgradeNext]_upgradeVars
             PROVE  ColumnInv' /\ PanicJustified'
  OBVIOUS
<1>1. CASE start
  <2>1. pc = "down" /\ UNCHANGED <<db, interrupted>> /\ db.version \in 0..20
    BY <1>1 DEF start, VersionInv, UpgradeOK, DB_VERSION
  <2>2. pc' = "panicked" => db.version > DB_VERSION
    <3>1. release \in 1..19 /\ db.version \in 0..release \cup {20}
      BY MigrationsAssumption DEF VersionInv, UpgradeOK, DB_VERSION
    <3> QED
      BY <1>1, <2>1, <3>1 DEF start, DB_VERSION
  <2> QED
    BY <2>1, <2>2 DEF ColumnInv, PanicJustified
<1>2. CASE migrate
  <2>1. PICK v, n, s : Runs(v, n, s)
    BY <1>2, StatementRuns
  <2>2. /\ pc' # "panicked" /\ interrupted' = interrupted
        /\ pc = "migrating" /\ curr_version = v /\ next = n
    BY <2>1 DEF Runs
  <2>3. PanicJustified'
    BY <2>2 DEF PanicJustified
  <2>4. /\ v \in 0..18 /\ Len(Script(v)) \in Nat
        /\ n \in 1..Len(Script(v)) /\ Ordered(v, s)
    BY <2>1 DEF Runs, Good
  <2>5. CASE v = 0
    <3>1. Script(0)[1].version # 0
      BY <2>1, <2>5 DEF Runs, Good
    <3>2. VersionSet(0, n + 1)
      BY <2>4, <3>1 DEF VersionSet
    <3>3. db'.version = 19
      BY <2>1, <2>5, <3>2 DEF Runs, Reached, DB_VERSION
    <3> QED
      BY <2>3, <3>3 DEF ColumnInv, Adding
  <2>6. CASE v # 0
    <3> SUFFICES ASSUME NEW u \in Adding, Column(u) \in db'.items, db'.version \in 1..u
                 PROVE  \/ u \in interrupted
                        \/ pc' = "migrating" /\ curr_version' = v /\ v = u /\ next' > 1
      BY <2>2, <2>3 DEF ColumnInv
    <3>0. u \in {1, 6, 16} /\ Reached(v) = v + 1
      BY <2>6 DEF Adding, Reached
    <3>1. db.version \in {v, v + 1} /\ db'.version \in {v, v + 1} /\ db.version <= db'.version
      <4>1. VersionSet(v, n) => VersionSet(v, n + 1)
        BY <2>4 DEF VersionSet
      <4>2. /\ db.version = (IF VersionSet(v, n) THEN v + 1 ELSE v)
            /\ db'.version = (IF VersionSet(v, n + 1) THEN v + 1 ELSE v)
        BY <2>1, <3>0 DEF Runs
      <4>3. v \in Nat
        BY <2>4
      <4> QED
        BY <4>1, <4>2, <4>3
    <3>2. db.version \in 1..u
      BY <2>4, <2>6, <3>0, <3>1
    <3>3. CASE Column(u) \in db.items
      <4>1. u \in interrupted \/ (v = u /\ n > 1)
        BY <2>2, <3>2, <3>3 DEF ColumnInv
      <4>2. v = u => /\ n < Len(Script(v)) /\ next' = n + 1
                     /\ curr_version' = v /\ pc' = "migrating"
        BY <2>1, <2>4, <3>0 DEF Runs
      <4> QED
        BY <2>4, <4>1, <4>2
    <3>4. CASE Column(u) \notin db.items
      <4>1. db'.items = ItemsAfter(s, db.items)
        BY <2>1 DEF Runs
      <4>2. Column(u) \in {"hidden", "delegated_by", "expires_at"}
        BY DEF Column
      <4>3. s.do \in {"create", "add"} /\ Column(u) \in s.on
        BY <3>4, <4>1, <4>2 DEF ItemsAfter, NewTagTable, OldTagTable
      <4>4. s.do = "add" /\ v \in Adding /\ s.on = {Column(v)}
        BY <2>4, <2>6, <4>2, <4>3 DEF Ordered
      <4>5. u = v
        BY <3>0, <4>3, <4>4 DEF Column, Adding
      <4>6. n = 1 /\ Len(Script(v)) > 1
        BY <2>1, <2>4, <4>4 DEF Runs, Good
      <4>7. next' = 2 /\ curr_version' = v /\ pc' = "migrating"
        <5>0. \A l \in Nat : l > 1 => 1 # l
          OBVIOUS
        <5>3. n # Len(Script(v))
          BY <2>4, <4>6, <5>0, Zenon
        <5>4. 1 + 1 = 2
          OBVIOUS
        <5>1. n # Len(Script(v)) /\ n + 1 = 2
          BY <4>6, <5>3, <5>4, Zenon
        <5>2. next' = n + 1 /\ curr_version' = v /\ pc' = "migrating"
          BY <2>1, <5>1 DEF Runs
        <5> QED
          BY <5>1, <5>2
      <4> QED
        BY <4>5, <4>7
    <3> QED
      BY <3>3, <3>4
  <2> QED
    BY <2>5, <2>6
<1>3. CASE panic
  <2>1. PICK v, n, s : v = curr_version /\ n = next /\ s = Script(v)[n]
    OBVIOUS
  <2>2. /\ pc = "migrating" /\ v \in 0..18 /\ n \in 1..Len(Script(v))
        /\ Fails(s, db) /\ UNCHANGED <<db, interrupted>>
    <3>1. v \in 0..(release - 1) /\ release \in 1..19
      BY <1>3, <2>1, MigrationsAssumption DEF panic, VersionInv, UpgradeOK, DB_VERSION
    <3>2. v \in 0..18
      BY <3>1, ReleaseBounds
    <3> QED
      BY <1>3, <2>1, <3>2 DEF panic, VersionInv, UpgradeOK
  <2>3. Good(v, Script(v)) /\ Ordered(v, s)
    BY <2>1, <2>2, ScriptsGood DEF Good
  <2>4. n = 1 /\ v \in Adding /\ s.on = {Column(v)} /\ Column(v) \in db.items
    BY <2>1, <2>2, <2>3 DEF Fails, Good, Ordered
  <2>5. db.version = v
    BY <2>1, <2>2, <2>4 DEF VersionInv, VersionSet
  <2>6. v \in interrupted
    BY <2>1, <2>4, <2>5 DEF ColumnInv, Adding
  <2>7. ColumnInv'
    <3>1. ~(next > 1)
      BY <2>1, <2>4
    <3> QED
      BY <2>2, <3>1 DEF ColumnInv
  <2> QED
    BY <2>2, <2>4, <2>6, <2>7 DEF PanicJustified, Adding
<1>4. CASE crash
  <2>1. /\ db' = db /\ pc' = "down" /\ interrupted \subseteq interrupted'
        /\ pc = "migrating" /\ next > 1 => curr_version \in interrupted'
    BY <1>4 DEF crash
  <2> QED
    BY <2>1 DEF ColumnInv, PanicJustified
<1>5. CASE restart \/ \E m \in Releases : install(m)
  <2>1. /\ pc # "migrating" /\ pc' = "down"
        /\ db' = db /\ interrupted' = interrupted
    BY <1>5 DEF restart, install
  <2> QED
    BY <2>1 DEF ColumnInv, PanicJustified
<1>6. CASE \E r \in Rows : hide_event(r)
  <2>1. /\ db'.version = db.version /\ db'.items = db.items
        /\ UNCHANGED <<pc, curr_version, next, interrupted>> /\ pc = "serving"
    BY <1>6 DEF hide_event
  <2> QED
    BY <2>1 DEF ColumnInv, PanicJustified
<1>7. CASE UNCHANGED upgradeVars
  BY <1>7 DEF upgradeVars, ColumnInv, PanicJustified
<1> QED
  BY <1>1, <1>2, <1>3, <1>4, <1>5, <1>6, <1>7 DEF UpgradeNext

-------------------------------------------------------------------------------
(* What the relay needs is there. *)

\* What the relay needs and versions up to v have brought.
Have(v) == {x \in Required : \E u \in 1..v : x \in NewAt(u)}

\* A database has what its version stands for, unless its creation was cut short;
\* while a script runs, what its statements made so far is there too.
Made(v, n, items) ==
  \A k \in 1..(n - 1) :
    LET s == Script(v)[k]
    IN  s.do \in {"create", "add"} => s.on \cap Required \subseteq items
Whole(d) == Have(d.version) \subseteq d.items /\ (d.version >= 16 => d.tags = "text")
ItemsInv ==
  /\ pc = "migrating" => Made(curr_version, next, db.items)
  /\ db.version = 0 \/ (pc = "migrating" /\ curr_version = 0) => db.tags = "text"
  /\ db.version \in 1..19 /\ 0 \notin interrupted /\ ~(pc = "migrating" /\ curr_version = 0)
       => Whole(db)

\* Everything that the relay needs came with one of the versions.
LEMMA HaveAll == Have(19) = Required
<1>1. \A x \in Required : \E u \in 1..19 : x \in NewAt(u)
  BY DEF Required, NewAt
<1> QED
  BY <1>1 DEF Have

\* Every step leaves the database with what its version stands for.
LEMMA ItemsStep == VersionInv /\ ItemsInv /\ [UpgradeNext]_upgradeVars => ItemsInv'
<1> SUFFICES ASSUME VersionInv, ItemsInv, [UpgradeNext]_upgradeVars PROVE ItemsInv'
  OBVIOUS
<1>1. CASE start
  <2>1. pc = "down" /\ UNCHANGED <<db, interrupted>> /\ next' = 1 /\ curr_version' = db.version
    BY <1>1 DEF start
  <2>2. Made(curr_version, next, db.items)'
    BY <2>1 DEF Made
  <2> QED
    BY <2>1, <2>2 DEF ItemsInv, Whole
<1>2. CASE migrate
  <2>1. PICK v, n, s : Runs(v, n, s)
    BY <1>2, StatementRuns
  <2>2. interrupted' = interrupted /\ pc = "migrating" /\ curr_version = v /\ next = n
    BY <2>1 DEF Runs
  <2>3. /\ v \in 0..18 /\ Len(Script(v)) \in Nat
        /\ n \in 1..Len(Script(v)) /\ Ordered(v, s) /\ s = Script(v)[n]
    BY <2>1 DEF Runs, Good
  <2>4. /\ db.items \cap Required \subseteq db'.items
        /\ s.do \in {"create", "add"} => s.on \subseteq db'.items
        /\ s.do = "text_tags" => "tag.kind" \in db'.items
    <3>1. db'.items = ItemsAfter(s, db.items)
      BY <2>1 DEF Runs
    <3>2. OldTagTable \cap Required = {}
      BY DEF OldTagTable, Required
    <3>3. s.do = "drop" => s.on \cap Required = {}
      BY <2>3 DEF Ordered
    <3> QED
      BY <3>1, <3>2, <3>3 DEF ItemsAfter, NewTagTable
  <2>5. Made(v, n + 1, db'.items)
    <3>1. Made(v, n, db.items)
      BY <2>2 DEF ItemsInv
    <3> QED
      BY <2>3, <2>4, <3>1 DEF Made
  <2>6. pc' = "migrating" => Made(curr_version', next', db'.items)
    <3>1. Made(Reached(v), 1, db'.items)
      BY DEF Made
    <3> QED
      BY <2>1, <2>5, <3>1 DEF Runs
  <2>7. db'.tags = TagsAfter(s, db.tags)
    BY <2>1 DEF Runs
  <2>8. CASE v = 0
    <3>1. db'.tags = "text"
      <4>1. db.tags = "text"
        BY <2>2, <2>8 DEF ItemsInv
      <4>2. s.do \in {"create", "version"}
        BY <2>3, <2>8 DEF Ordered
      <4> QED
        BY <2>7, <4>1, <4>2 DEF TagsAfter
    <3>2. ASSUME ~(pc' = "migrating" /\ curr_version' = 0) PROVE Whole(db')
      <4>1. n = Len(Script(v)) /\ db'.version = 19
        BY <2>1, <2>8, <3>2 DEF Runs, Reached, DB_VERSION
      <4>2. \A x \in Required : \E k \in 1..Len(Script(0)) :
              Script(0)[k].do = "create" /\ x \in Script(0)[k].on
        BY <2>1, <2>8 DEF Runs, Good
      <4>3. \A k \in 1..Len(Script(0)) :
              Script(0)[k].do = "create"
                => Script(0)[k].on \cap Required \subseteq db'.items
        <5>1. (n + 1) - 1 = Len(Script(0))
          BY <2>3, <2>8, <4>1
        <5> QED
          BY <2>5, <2>8, <5>1 DEF Made
      <4>4. Required \subseteq db'.items
        BY <4>2, <4>3
      <4> QED
        BY <3>1, <4>1, <4>4, HaveAll DEF Whole
    <3>3. Whole(db') <=> Whole(db)'
      BY DEF Whole
    <3>4. Made(curr_version', next', db'.items) <=> Made(curr_version, next, db.items)'
      BY DEF Made
    <3> QED
      BY <2>6, <3>1, <3>2, <3>3, <3>4 DEF ItemsInv
  <2>9. CASE v # 0
    <3>0. Reached(v) = v + 1
      BY <2>9 DEF Reached
    <3>1. /\ db.version \in {v, v + 1} /\ db'.version \in {v, v + 1}
          /\ db'.version = (IF s.version = 0 THEN db.version ELSE v + 1)
          /\ db.version = (IF VersionSet(v, n) THEN v + 1 ELSE v)
      BY <2>1, <2>3, <3>0 DEF Runs, Ordered
    <3>2. ~(pc' = "migrating" /\ curr_version' = 0)
      BY <2>1, <2>3, <2>9, <3>0 DEF Runs
    <3>3. ASSUME 0 \notin interrupted PROVE Whole(db')
      <4>1. Have(db.version) \subseteq db.items /\ (db.version >= 16 => db.tags = "text")
        <5>1. db.version \in 1..19
          BY <2>3, <2>9, <3>1
        <5> QED
          BY <2>2, <2>9, <3>3, <5>1 DEF ItemsInv, Whole
      <4>2. Have(db.version) \subseteq db'.items
        BY <2>4, <4>1 DEF Have
      <4>3. db'.version >= 16 => db'.tags = "text"
        <5>1. CASE v = 15
          <6>1. s.do = "text_tags"
            BY <2>3, <5>1 DEF Ordered
          <6> QED
            BY <2>7, <6>1 DEF TagsAfter
        <5>2. CASE v > 15
          <6>1. db.tags = "text" /\ s.do \notin {"copy_refs", "split_tags"}
            BY <2>3, <3>1, <4>1, <5>2 DEF Ordered
          <6> QED
            BY <2>7, <6>1 DEF TagsAfter
        <5> QED
          BY <2>3, <3>1, <5>1, <5>2
      <4>4. Have(db'.version) \subseteq db'.items
        <5>1. CASE db'.version = db.version
          BY <4>2, <5>1
        <5>2. CASE db'.version # db.version
          <6>1. s.version # 0 /\ db.version = v /\ db'.version = v + 1 /\ ~VersionSet(v, n)
            BY <3>1, <5>2
          <6>2. ASSUME NEW x \in NewAt(v + 1), x \in Required PROVE x \in db'.items
            <7>1. CASE v = 15
              <8>1. s.do = "text_tags"
                BY <2>3, <7>1 DEF Ordered
              <8>2. x = "tag.kind"
                BY <6>2, <7>1 DEF NewAt
              <8> QED
                BY <2>4, <8>1, <8>2
            <7>2. CASE v # 15
              <8>1. PICK k \in 1..Len(Script(v)) : MakesFirst(Script(v), k, x)
                BY <2>1, <2>9, <6>2, <7>2 DEF Runs, Good
              <8>2. k \in 1..(n - 1)
                <9>1. ~(n \in 1..k)
                  BY <2>3, <6>1, <8>1 DEF MakesFirst
                <9> QED
                  BY <2>3, <8>1, <9>1
              <8>3. Script(v)[k].on \cap Required \subseteq db.items
                BY <2>2, <8>1, <8>2 DEF ItemsInv, Made, MakesFirst
              <8> QED
                BY <2>4, <6>2, <8>1, <8>3 DEF MakesFirst
            <7> QED
              BY <7>1, <7>2
          <6>3. \A x \in Have(v + 1) :
                  x \in Have(v) \/ (x \in NewAt(v + 1) /\ x \in Required)
            BY <2>3 DEF Have
          <6> QED
            BY <4>2, <6>1, <6>2, <6>3
        <5> QED
          BY <5>1, <5>2
      <4> QED
        BY <4>3, <4>4 DEF Whole
    <3>4. Whole(db') <=> Whole(db)'
      BY DEF Whole
    <3>5. Made(curr_version', next', db'.items) <=> Made(curr_version, next, db.items)'
      BY DEF Made
    <3>6. db'.version # 0
      BY <2>3, <2>9, <3>1
    <3> QED
      BY <2>2, <2>6, <3>2, <3>3, <3>4, <3>5, <3>6 DEF ItemsInv
  <2> QED
    BY <2>8, <2>9
<1>3. CASE panic
  <2>1. PICK v, n, s : v = curr_version /\ n = next /\ s = Script(v)[n]
    OBVIOUS
  <2>2. /\ v \in 0..18 /\ n \in 1..Len(Script(v)) /\ Fails(s, db)
        /\ UNCHANGED <<db, interrupted>> /\ pc' = "panicked"
    <3>1. v \in 0..(release - 1) /\ release \in 1..19
      BY <1>3, <2>1, MigrationsAssumption DEF panic, VersionInv, UpgradeOK, DB_VERSION
    <3>2. v \in 0..18
      BY <3>1, ReleaseBounds
    <3> QED
      BY <1>3, <2>1, <3>2 DEF panic, VersionInv, UpgradeOK
  <2>3. Ordered(v, s)
    BY <2>1, <2>2, ScriptsGood DEF Good
  <2>4. curr_version # 0
    BY <2>1, <2>2, <2>3 DEF Fails, Ordered, Adding
  <2> QED
    BY <2>2, <2>4 DEF ItemsInv, Whole
<1>4. CASE crash
  <2>1. /\ db' = db /\ pc' = "down" /\ interrupted \subseteq interrupted'
        /\ pc = "migrating" /\ next > 1 => curr_version \in interrupted'
    BY <1>4 DEF crash
  <2>2. CASE pc = "migrating" /\ curr_version = 0
    <3>1. next > 1 \/ db.version = 0
      <4>1. next \in 1..Len(Script(0)) /\ Len(Script(0)) \in Nat
        BY <2>2, ScriptsGood DEF VersionInv, UpgradeOK, Good
      <4>2. next = 1 => ~VersionSet(0, next)
        BY DEF VersionSet
      <4> QED
        BY <2>2, <4>1, <4>2 DEF VersionInv
    <3> QED
      BY <2>1, <2>2, <3>1 DEF ItemsInv, Whole
  <2>3. CASE ~(pc = "migrating" /\ curr_version = 0)
    BY <2>1, <2>3 DEF ItemsInv, Whole
  <2> QED
    BY <2>2, <2>3
<1>5. CASE restart \/ (\E m \in Releases : install(m)) \/ \E r \in Rows : hide_event(r)
  <2>1. /\ pc # "migrating" /\ pc' # "migrating" /\ interrupted' = interrupted
        /\ db'.version = db.version /\ db'.items = db.items /\ db'.tags = db.tags
    <3>1. CASE restart \/ \E m \in Releases : install(m)
      BY <3>1 DEF restart, install
    <3>2. CASE \E r \in Rows : hide_event(r)
      BY <3>2 DEF hide_event
    <3> QED
      BY <1>5, <3>1, <3>2
  <2> QED
    BY <2>1 DEF ItemsInv, Whole
<1>6. CASE UNCHANGED upgradeVars
  BY <1>6 DEF upgradeVars, ItemsInv, Whole, Made
<1> QED
  BY <1>1, <1>2, <1>3, <1>4, <1>5, <1>6 DEF UpgradeNext

-------------------------------------------------------------------------------
(* Only superseded events are lost. *)

\* Up to version 11 nothing is deleted, and hidden is what a release hid, so that
\* 11 -> 12 chooses among all the events of the old database.
RowsInv ==
  /\ original \subseteq Rows
  /\ DOMAIN db.rows \subseteq original
  /\ hiddenBefore \subseteq original
  /\ db.version \in 0..11 =>
       /\ DOMAIN db.rows = original
       /\ \A r \in original : db.rows[r] = "true" => r \in hiddenBefore

\* The event that 11 -> 12 keeps is one of the slot, and none of it is newer.
LEMMA KeptIsNewest ==
  ASSUME OldDatabases, NEW rows, DOMAIN rows \subseteq Rows, NEW r \in DOMAIN rows
  PROVE  LET k == Kept(r.slot, rows)
         IN  /\ k \in DOMAIN rows /\ k.slot = r.slot
             /\ k.created_at >= r.created_at
<1> DEFINE S == {q \in DOMAIN rows : q.slot = r.slot}
           h == [q \in S |-> q.created_at]
<1>1. IsFiniteSet(S) /\ S # {} /\ S \subseteq Rows
  <2>1. S \subseteq Rows
    OBVIOUS
  <2> QED
    BY <2>1, FS_Subset DEF OldDatabases
<1>2. h \in [S -> Nat]
  BY <1>1 DEF OldDatabases
<1>3. PICK x \in S : \A y \in S : h[y] <= h[x]
  <2> HIDE DEF S, h
  <2> QED
    BY <1>1, <1>2, FiniteMax
<1>4. \E x1 \in DOMAIN rows :
        /\ x1.slot = r.slot
        /\ \A q \in DOMAIN rows : q.slot = r.slot => q.created_at <= x1.created_at
  BY <1>3
<1>5. PICK k : k = Kept(r.slot, rows)
  OBVIOUS
<1>6. /\ k \in DOMAIN rows /\ k.slot = r.slot
      /\ \A q \in DOMAIN rows : q.slot = r.slot => q.created_at <= k.created_at
  BY <1>4, <1>5 DEF Kept
<1>7. k.created_at \in Nat /\ r.created_at \in Nat /\ r.created_at <= k.created_at
  BY <1>6 DEF OldDatabases
<1> QED
  BY <1>5, <1>6, <1>7

\* Every step of an upgrade hides and deletes only what a release had hidden and what
\* an event of its slot supersedes.
LEMMA RowsStep ==
  OldDatabases /\ VersionInv /\ RowsInv /\ OnlySupersededLost /\ [UpgradeNext]_upgradeVars
    => (RowsInv /\ OnlySupersededLost)'
<1> SUFFICES ASSUME OldDatabases, VersionInv, RowsInv, OnlySupersededLost,
                    [UpgradeNext]_upgradeVars
             PROVE  RowsInv' /\ OnlySupersededLost'
  OBVIOUS
<1>1. CASE migrate
  <2>1. PICK v, n, s : Runs(v, n, s)
    BY <1>1, StatementRuns
  <2>2. /\ v \in 0..18 /\ Len(Script(v)) \in Nat
        /\ n \in 1..Len(Script(v)) /\ Ordered(v, s)
    BY <2>1 DEF Runs, Good
  <2>3. /\ original' = original /\ hiddenBefore' = hiddenBefore
        /\ db'.rows = RowsAfter(s, db.rows)
    BY <2>1 DEF Runs
  <2>4. db'.version \in 0..11 => db.version \in 0..11
    <3>1. CASE v = 0
      <4>1. Script(0)[1].version # 0
        BY <2>1, <3>1 DEF Runs, Good
      <4>2. VersionSet(0, n + 1)
        BY <2>2, <4>1 DEF VersionSet
      <4>3. db'.version = 19
        BY <2>1, <3>1, <4>2 DEF Runs, Reached, DB_VERSION
      <4> QED
        BY <4>3
    <3>2. CASE v # 0
      <4>1. VersionSet(v, n) => VersionSet(v, n + 1)
        BY <2>2 DEF VersionSet
      <4>2. Reached(v) = v + 1
        BY <3>2 DEF Reached
      <4>3. /\ db.version = (IF VersionSet(v, n) THEN v + 1 ELSE v)
            /\ db'.version = (IF VersionSet(v, n + 1) THEN v + 1 ELSE v)
        BY <2>1, <4>2 DEF Runs
      <4>4. v \in Nat
        BY <2>2
      <4> QED
        BY <4>1, <4>3, <4>4
    <3> QED
      BY <3>1, <3>2
  <2>5. CASE s.do = "show_all"
    <3>1. v = 1 /\ db.version \in 0..11
      BY <2>1, <2>2, <2>5 DEF Runs, Ordered, Reached
    <3>2. db'.rows = [r \in DOMAIN db.rows |-> "false"] /\ DOMAIN db.rows = original
      BY <2>3, <2>5, <3>1 DEF RowsAfter, RowsInv
    <3> QED
      BY <2>3, <3>2 DEF RowsInv, OnlySupersededLost
  <2>6. CASE s.do = "hide_superseded"
    <3>1. v = 11 /\ n = 1 /\ Len(Script(v)) = 1
      <4>1. v = 11
        BY <2>2, <2>6 DEF Ordered
      <4>2. Len(Script(v)) = 1
        BY <2>1, <4>1 DEF Runs, Good
      <4>3. n \in 1..1
        BY <2>2, <4>2
      <4>4. n = 1
        BY <4>3
      <4> QED
        BY <4>1, <4>2, <4>4
    <3>2. db.version = 11 /\ db'.version = 12
      <4>1. ~VersionSet(v, n)
        BY <3>1 DEF VersionSet
      <4>2. Reached(v) = 12
        BY <3>1 DEF Reached
      <4>3. db.version = v
        BY <2>1, <4>1 DEF Runs
      <4>4. ~(n < Len(Script(v)))
        <5>1. ~(1 < 1)
          OBVIOUS
        <5> QED
          BY <3>1, <5>1, Zenon
      <4>5. db'.version = Reached(v)
        BY <2>1, <4>4 DEF Runs
      <4> QED
        BY <3>1, <4>2, <4>3, <4>5
    <3>3. /\ DOMAIN db.rows = original
          /\ \A r \in original : db.rows[r] = "true" => r \in hiddenBefore
      BY <3>2 DEF RowsInv
    <3>4. db'.rows = [r \in DOMAIN db.rows |->
            IF db.rows[r] = "false" /\ r.slot # 0 /\ r # Kept(r.slot, db.rows)
            THEN "true" ELSE db.rows[r]]
      BY <2>3, <2>6 DEF RowsAfter
    <3>5. ASSUME NEW r \in original, r \notin DOMAIN db'.rows \/ db'.rows[r] = "true",
                 r \notin hiddenBefore
          PROVE  \E q \in original :
                   /\ q.slot = r.slot /\ q.slot # 0 /\ q.created_at >= r.created_at
                   /\ q \in hiddenBefore \/ (q \in DOMAIN db'.rows /\ db'.rows[q] # "true")
      <4>1. r.slot # 0
        BY <3>3, <3>4, <3>5
      <4>2. PICK k : k = Kept(r.slot, db.rows)
        OBVIOUS
      <4>3. k \in original /\ k.slot = r.slot /\ k.created_at >= r.created_at
        BY <3>3, <4>2, KeptIsNewest DEF RowsInv
      <4>4. k \in hiddenBefore \/ (k \in DOMAIN db'.rows /\ db'.rows[k] # "true")
        BY <3>3, <3>4, <4>2, <4>3
      <4> QED
        BY <4>1, <4>3, <4>4
    <3> QED
      BY <2>3, <3>2, <3>3, <3>4, <3>5 DEF RowsInv, OnlySupersededLost
  <2>7. CASE s.do = "delete_hidden"
    <3>1. v = 14 /\ ~(db'.version \in 0..11)
      BY <2>1, <2>2, <2>7 DEF Runs, Ordered, Reached
    <3>2. db'.rows = [r \in {q \in DOMAIN db.rows : db.rows[q] # "true"} |-> db.rows[r]]
      BY <2>3, <2>7 DEF RowsAfter
    <3>3. /\ DOMAIN db'.rows \subseteq DOMAIN db.rows
          /\ \A q \in DOMAIN db.rows :
               db.rows[q] # "true" => q \in DOMAIN db'.rows /\ db'.rows[q] = db.rows[q]
      BY <3>2
    <3>4. \A r \in original : (r \notin DOMAIN db'.rows \/ db'.rows[r] = "true") =>
            (r \notin DOMAIN db.rows \/ db.rows[r] = "true")
      BY <3>2
    <3>5. OnlySupersededLost'
      BY <2>3, <3>3, <3>4 DEF OnlySupersededLost
    <3> QED
      BY <2>3, <3>1, <3>3, <3>5 DEF RowsInv
  <2>8. CASE s.do \notin {"show_all", "hide_superseded", "delete_hidden"}
    <3>1. db'.rows = db.rows
      BY <2>3, <2>8 DEF RowsAfter
    <3> QED
      BY <2>3, <2>4, <3>1 DEF RowsInv, OnlySupersededLost
  <2> QED
    BY <2>5, <2>6, <2>7, <2>8
<1>2. CASE \E r \in Rows : hide_event(r)
  <2>1. PICK r \in Rows : hide_event(r)
    BY <1>2
  <2>2. /\ r \in DOMAIN db.rows /\ original' = original /\ db'.version = db.version
        /\ db'.rows = [db.rows EXCEPT ![r] = "true"]
        /\ hiddenBefore' = hiddenBefore \cup {r}
    BY <2>1 DEF hide_event
  <2>3. RowsInv'
    BY <2>2 DEF RowsInv
  <2>4. OnlySupersededLost'
    <3> SUFFICES ASSUME NEW p \in original, p # r, p \notin hiddenBefore,
                        p \notin DOMAIN db'.rows \/ db'.rows[p] = "true"
                 PROVE  \E q \in original :
                          /\ q.slot = p.slot /\ q.slot # 0 /\ q.created_at >= p.created_at
                          /\ \/ q \in hiddenBefore \cup {r}
                             \/ q \in DOMAIN db'.rows /\ db'.rows[q] # "true"
      BY <2>2 DEF OnlySupersededLost
    <3>1. p \notin DOMAIN db.rows \/ db.rows[p] = "true"
      BY <2>2
    <3>2. PICK q \in original :
            /\ q.slot = p.slot /\ q.slot # 0 /\ q.created_at >= p.created_at
            /\ q \in hiddenBefore \/ (q \in DOMAIN db.rows /\ db.rows[q] # "true")
      BY <3>1 DEF OnlySupersededLost
    <3> QED
      BY <2>2, <3>2
  <2> QED
    BY <2>3, <2>4
<1>3. CASE \/ start \/ panic \/ crash \/ restart \/ UNCHANGED upgradeVars
           \/ \E m \in Releases : install(m)
  <2>1. db' = db /\ original' = original /\ hiddenBefore' = hiddenBefore
    BY <1>3 DEF start, panic, crash, restart, install, upgradeVars
  <2> QED
    BY <2>1 DEF RowsInv, OnlySupersededLost
<1> QED
  BY <1>1, <1>2, <1>3 DEF UpgradeNext

-------------------------------------------------------------------------------
(* The theorems. *)

\* The inductive invariant of upgrade_db.
UpgradeInv ==
  /\ VersionInv
  /\ ColumnInv /\ PanicJustified
  /\ ItemsInv
  /\ RowsInv /\ OnlySupersededLost

\* A new database, one of the first release and one of a later one satisfy it.
LEMMA UpgradeStarts == OldDatabases /\ UpgradeInit => UpgradeInv
<1> SUFFICES ASSUME OldDatabases, UpgradeInit PROVE UpgradeInv
  OBVIOUS
<1>1. /\ pc = "down" /\ crashes = 0 /\ original = DOMAIN db.rows /\ hiddenBefore = {}
      /\ release \in Releases /\ release \in 1..19
  BY MigrationsAssumption DEF UpgradeInit, DB_VERSION
<1>2. CASE (db = NewDb \/ db = LaterDb) /\ release = DB_VERSION
  <2>1. db.version \in {0, 20} /\ db.items = {} /\ db.tags = "text" /\ DOMAIN db.rows = {}
    BY <1>2 DEF NewDb, LaterDb, DB_VERSION
  <2>2. VersionInv /\ PanicJustified
    <3>1. release = 19 /\ MaxCrashes \in Nat
      BY <1>2, MigrationsAssumption DEF DB_VERSION
    <3> QED
      BY <1>1, <2>1, <3>1 DEF VersionInv, UpgradeOK, PanicJustified, DB_VERSION
  <2>3. ColumnInv /\ ItemsInv
    BY <1>1, <2>1 DEF ColumnInv, ItemsInv
  <2>4. RowsInv /\ OnlySupersededLost
    BY <1>1, <2>1 DEF RowsInv, OnlySupersededLost
  <2> QED
    BY <2>2, <2>3, <2>4 DEF UpgradeInv
<1>3. CASE db \in {FirstDb(rows) : rows \in SUBSET Rows}
  <2>1. PICK rows \in SUBSET Rows : db = FirstDb(rows)
    BY <1>3
  <2>2. /\ db.version = 1 /\ db.rows = [r \in rows |-> "null"] /\ 1 \in 0..release
        /\ db.items = {"event", "event_hash_index", "author_index", "created_at_index",
                       "kind_index", "event_ref", "pubkey_ref"}
    BY <1>1, <2>1 DEF FirstDb
  <2>3. Whole(db)
    <3>1. \A u \in 1..1 : NewAt(u) \subseteq db.items
      BY <2>2 DEF NewAt
    <3> QED
      BY <2>2, <3>1 DEF Whole, Have
  <2>4. VersionInv /\ PanicJustified
    BY <1>1, <2>2, MigrationsAssumption DEF VersionInv, UpgradeOK, PanicJustified, DB_VERSION
  <2>5. ColumnInv
    BY <1>1, <2>2 DEF ColumnInv, Column, Adding
  <2>6. RowsInv /\ OnlySupersededLost
    BY <1>1, <2>2 DEF RowsInv, OnlySupersededLost
  <2> QED
    BY <1>1, <2>2, <2>3, <2>4, <2>5, <2>6 DEF UpgradeInv, ItemsInv
<1>4. \/ (db = NewDb \/ db = LaterDb) /\ release = DB_VERSION
      \/ db \in {FirstDb(rows) : rows \in SUBSET Rows}
  BY DEF UpgradeInit
<1> QED
  BY <1>2, <1>3, <1>4

\* It holds at every point of every sequence of starts, statements and crashes.
LEMMA UpgradeInvariant == OldDatabases /\ UpgradeSpec => []UpgradeInv
<1>1. OldDatabases /\ UpgradeInv /\ [UpgradeNext]_upgradeVars => UpgradeInv'
  BY VersionStep, ColumnStep, ItemsStep, RowsStep DEF UpgradeInv
<1>2. OldDatabases => []OldDatabases
  <2>1. OldDatabases => OldDatabases'
    BY DEF OldDatabases
  <2> QED
    BY <2>1, PTL
<1> QED
  BY <1>1, <1>2, UpgradeStarts, PTL DEF UpgradeSpec

\* upgrade_db lets this release serve only from a database that has every table, column
\* and index that its statements name, with the tag table in the current form,
\* whatever number of crashes cut the scripts and wherever; only a database whose
\* creation was cut is excepted (INIT_SQL sets user_version first).
THEOREM UpgradedDatabaseIsComplete == OldDatabases /\ UpgradeSpec => []ServesComplete
<1>1. UpgradeInv => ServesComplete
  <2> SUFFICES ASSUME UpgradeInv, pc = "serving", release = DB_VERSION, 0 \notin interrupted
               PROVE  Required \subseteq db.items /\ db.tags = "text"
    BY DEF UpgradeInv, VersionInv, ServesComplete
  <2>1. db.version = 19
    BY DEF UpgradeInv, VersionInv, DB_VERSION
  <2>2. Whole(db)
    BY <2>1 DEF UpgradeInv, ItemsInv
  <2> QED
    BY <2>1, <2>2, HaveAll DEF Whole
<1> QED
  BY <1>1, UpgradeInvariant, PTL

\* upgrade_db panics only on a database of a later release or after a crash between
\* an ALTER TABLE ADD and the PRAGMA user_version that follows it: every other script
\* may be cut at any statement and run again.
THEOREM UpgradeFailsWithCause == OldDatabases /\ UpgradeSpec => []PanicJustified
<1>1. UpgradeInv => PanicJustified
  BY DEF UpgradeInv
<1> QED
  BY <1>1, UpgradeInvariant, PTL

\* An upgrade loses nothing but the events that earlier releases had hidden and old
\* versions of replaceable events: for every other event that 11 -> 12 hides or
\* 14 -> 15 deletes, one of its slot at least as new stays or was itself hidden by a
\* release, for every content and every past of the database and whatever crashes.
THEOREM UpgradeKeepsNewest == OldDatabases /\ UpgradeSpec => []OnlySupersededLost
<1>1. UpgradeInv => OnlySupersededLost
  BY DEF UpgradeInv
<1> QED
  BY <1>1, UpgradeInvariant, PTL

===============================================================================
