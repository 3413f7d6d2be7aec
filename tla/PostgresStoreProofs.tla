-------------------------- MODULE PostgresStoreProofs --------------------------
(* Theorems about PostgresStore, for any events, any number of writers and     *)
(* whatever each of them offers.                                              *)
EXTENDS PostgresStore, FiniteSetTheorems, FunctionTheorems, WellFoundedInduction, TLAPS

PCs == {"idle", "insert", "older", "purge", "mark", "hide", "commit"}

TxRecs ==
  [pc : PCs, ev : Events \cup {NoEvent}, victims : SUBSET Events, gone : SUBSET Events,
   hid : SUBSET Events, saw : SUBSET Events]

\* The types of all variables; a transaction changes rows only after its insert.
RowsInv ==
  /\ stored \subseteq received /\ received \subseteq Events
  /\ hidden \subseteq stored /\ saved \subseteq received
  /\ now \in 0..MaxTime
  /\ IsFiniteSet(stored)
TxOk(w, t) ==
  /\ t.pc # "idle" => t.ev \in Offers[w]
  /\ t.pc = "idle" => t.ev = NoEvent
  /\ t.pc \in {"idle", "insert", "older"} => t.gone = {}
  /\ t.pc \in {"idle", "insert", "older", "purge", "mark"} => t.hid = {}
TxInv == tx \in [Writers -> TxRecs] /\ \A w \in Writers : TxOk(w, tx[w])

\* The cleanup deletes committed rows that have expired, and none that a transaction
\* is deleting.
SweepRecs == [on : BOOLEAN, victims : SUBSET Events, gone : SUBSET Events]
SweepInv ==
  /\ sweep \in SweepRecs
  /\ sweep.victims \subseteq stored /\ sweep.gone \subseteq stored
  /\ \A f \in sweep.victims \cup sweep.gone : f.expiration >= 0 /\ f.expiration <= now
  /\ \A w \in Writers : sweep.gone \cap tx[w].gone = {}

TypeInv == RowsInv /\ TxInv /\ SweepInv

-------------------------------------------------------------------------------
(* Transactions. *)

LEMMA AsleepTyped == Asleep \in SweepRecs /\ Asleep.victims = {} /\ Asleep.gone = {}
  BY DEF Asleep, SweepRecs

LEMMA IdleTyped == Idle \in TxRecs /\ Idle.pc = "idle" /\ Idle.ev = NoEvent
                   /\ Idle.victims = {} /\ Idle.gone = {} /\ Idle.hid = {} /\ Idle.saw = {}
  BY DEF Idle, TxRecs, PCs

\* The rows a statement of w sees are stored or its own.
LEMMA RowsSeen ==
  ASSUME TypeInv, NEW w \in Writers
  PROVE  /\ Rows(w) \subseteq Events /\ IsFiniteSet(Rows(w))
         /\ Rows(w) \subseteq stored \cup {tx[w].ev}
         /\ Inserted(w) => tx[w].ev \in Events /\ tx[w].ev \in Offers[w]
<1>1. Inserted(w) => tx[w].ev \in Events /\ tx[w].ev \in Offers[w]
  BY WritersAssumption DEF TypeInv, TxInv, TxOk, Inserted
<1>2. Rows(w) \subseteq stored \cup {tx[w].ev} /\ Rows(w) \subseteq Events
  BY <1>1 DEF Rows, TypeInv, RowsInv
<1>3. IsFiniteSet(stored \cup {tx[w].ev})
  BY FS_AddElement DEF TypeInv, RowsInv
<1>4. IsFiniteSet(Rows(w))
  BY <1>2, <1>3, FS_Subset
<1> QED
  BY <1>1, <1>2, <1>4

\* What a statement selects it sees.
LEMMA SelectedSeen ==
  ASSUME TypeInv, NEW w \in Writers, NEW e
  PROVE  /\ OlderVersions(w, e) \subseteq Rows(w)
         /\ Hides(w, e) \subseteq Rows(w)
<1>1. Sees(w)!OlderReplaceable(Rows(w), e) \subseteq Rows(w)
  BY DEF Sees!OlderReplaceable
<1>2. Sees(w)!OlderParamReplaceable(Rows(w), e) \subseteq Rows(w)
  <2>1. \A r \in Sees(w)!ParamRows(Rows(w), e) : r[1] \in Rows(w)
    BY DEF Sees!ParamRows
  <2> QED
    BY <2>1 DEF Sees!OlderParamReplaceable
<1>3. Hides(w, e) \subseteq Rows(w)
  BY DEF Hides, Sees!HiddenByDeletion
<1> QED
  BY <1>1, <1>2, <1>3 DEF OlderVersions

\* The steps of a transaction up to its commit, field by field.
Ends(w) == tx'[w] = Idle
Begins(w) ==
  /\ tx[w].pc = "idle" /\ tx'[w].pc = "insert" /\ tx'[w].ev \in Offers[w]
  /\ tx'[w].gone = {} /\ tx'[w].hid = {} /\ tx'[w].victims = {} /\ tx'[w].saw = {}
Inserts(w) ==
  /\ tx[w].pc = "insert" /\ tx'[w].pc = "older"
  /\ tx[w].ev \notin stored /\ ~Contended(w, tx[w].ev)
  /\ tx'[w].ev = tx[w].ev /\ tx'[w].gone = tx[w].gone /\ tx'[w].hid = tx[w].hid
  /\ tx'[w].victims = tx[w].victims /\ tx'[w].saw = tx[w].saw
Chooses(w) ==
  /\ tx[w].pc = "older" /\ tx'[w].pc = "purge"
  /\ tx'[w].ev = tx[w].ev /\ tx'[w].gone = tx[w].gone /\ tx'[w].hid = tx[w].hid
  /\ tx'[w].victims = OlderVersions(w, tx[w].ev) /\ tx'[w].saw = tx[w].saw
Takes(w) ==
  /\ tx[w].pc = "purge" /\ tx'[w].pc = "purge"
  /\ \E f \in tx[w].victims \ Locked(w) : /\ tx'[w].gone = tx[w].gone \cup {f}
                                          /\ tx'[w].victims = tx[w].victims \ {f}
  /\ tx'[w].ev = tx[w].ev /\ tx'[w].hid = tx[w].hid /\ tx'[w].saw = tx[w].saw
Purges(w) ==
  /\ tx[w].pc = "purge" /\ tx'[w].pc = "mark" /\ tx[w].victims = {}
  /\ tx'[w].ev = tx[w].ev /\ tx'[w].gone = tx[w].gone /\ tx'[w].hid = tx[w].hid
  /\ tx'[w].victims = {} /\ tx'[w].saw = tx[w].saw
Names(w) ==
  /\ tx[w].pc = "mark" /\ tx'[w].pc = "hide" /\ tx[w].ev.kind = 5
  /\ tx'[w].ev = tx[w].ev /\ tx'[w].gone = tx[w].gone /\ tx'[w].hid = tx[w].hid
  /\ tx'[w].victims = Hides(w, tx[w].ev) /\ tx'[w].saw = stored
Marks(w) ==
  /\ tx[w].pc = "mark" /\ tx'[w].pc = "commit" /\ tx[w].ev.kind # 5
  /\ tx'[w].ev = tx[w].ev /\ tx'[w].gone = tx[w].gone
  /\ tx'[w].hid = tx[w].hid \/ (tx'[w].hid = {tx[w].ev} /\ tx[w].ev.kind # 1059)
  /\ tx'[w].victims = tx[w].victims /\ tx'[w].saw = tx[w].saw
Covers(w) ==
  /\ tx[w].pc = "hide" /\ tx'[w].pc = "hide"
  /\ \E f \in tx[w].victims \ Locked(w) : /\ tx'[w].hid = tx[w].hid \cup {f}
                                          /\ tx'[w].victims = tx[w].victims \ {f}
  /\ tx'[w].ev = tx[w].ev /\ tx'[w].gone = tx[w].gone /\ tx'[w].saw = tx[w].saw
Conceals(w) ==
  /\ tx[w].pc = "hide" /\ tx'[w].pc = "commit" /\ tx[w].victims = {}
  /\ tx'[w].ev = tx[w].ev /\ tx'[w].gone = tx[w].gone /\ tx'[w].hid = tx[w].hid
  /\ tx'[w].victims = {} /\ tx'[w].saw = tx[w].saw

Local(w) ==
  /\ UNCHANGED <<stored, hidden, saved, now, sweep>>
  /\ received \subseteq received' /\ received' \subseteq Events
  /\ tx' \in [Writers -> TxRecs] /\ \A v \in Writers \ {w} : tx'[v] = tx[v]
  /\ \/ Ends(w) \/ Begins(w) \/ Inserts(w) \/ Chooses(w) \/ Purges(w)
     \/ Takes(w) \/ Covers(w) \/ Names(w) \/ Marks(w) \/ Conceals(w)

LEMMA StepMoves ==
  ASSUME TypeInv, NEW w \in Writers, NEW t \in TxRecs, Step(w, t)
  PROVE  /\ tx' \in [Writers -> TxRecs] /\ tx'[w] = t /\ now' = now /\ sweep' = sweep
         /\ \A v \in Writers \ {w} : tx'[v] = tx[v]
<1> HIDE DEF TxRecs
<1> QED
  BY DEF TypeInv, TxInv, Step

LEMMA LocalSteps ==
  ASSUME TypeInv, NEW w \in Writers,
         \/ insert(w) \/ older(w) \/ purge(w) \/ mark(w) \/ hide(w) \/ fail(w)
         \/ \E e \in Offers[w] : begin(w, e)
  PROVE  Local(w)
<1>1. tx[w] \in TxRecs /\ TxOk(w, tx[w]) /\ Offers[w] \subseteq Events
  BY WritersAssumption DEF TypeInv, TxInv
<1>2. /\ tx[w].pc # "idle" => tx[w].ev \in Events
      /\ tx[w].victims \in SUBSET Events /\ stored \in SUBSET Events
      /\ received \in SUBSET Events
  BY <1>1 DEF TxOk, TxRecs, TypeInv, RowsInv
<1>3. Idle \in TxRecs
  BY IdleTyped
<1>4. ASSUME NEW e \in Events, Ignore(w, e) PROVE Local(w)
  <2>1. Step(w, Idle) /\ received' = received \cup {e} /\ UNCHANGED <<stored, hidden, saved>>
    BY <1>4 DEF Ignore
  <2>2. /\ tx' \in [Writers -> TxRecs] /\ tx'[w] = Idle /\ now' = now /\ sweep' = sweep
        /\ \A v \in Writers \ {w} : tx'[v] = tx[v]
    BY <1>3, <2>1, StepMoves
  <2> QED
    BY <1>2, <2>1, <2>2 DEF Local, Ends
<1>5. ASSUME NEW t \in TxRecs, Step(w, t), UNCHANGED rows,
             tx'[w] = t => \/ Ends(w) \/ Begins(w) \/ Inserts(w) \/ Chooses(w) \/ Purges(w)
                           \/ Takes(w) \/ Covers(w) \/ Names(w) \/ Marks(w) \/ Conceals(w)
      PROVE  Local(w)
  <2>1. /\ tx' \in [Writers -> TxRecs] /\ tx'[w] = t /\ now' = now /\ sweep' = sweep
        /\ \A v \in Writers \ {w} : tx'[v] = tx[v]
    BY <1>5, StepMoves
  <2> QED
    BY <1>2, <1>5, <2>1 DEF Local, rows
<1>6. ASSUME NEW e \in Offers[w], begin(w, e) PROVE Local(w)
  <2>1. e \in Events
    BY <1>1
  <2>2. CASE Ignore(w, e)
    BY <1>4, <2>1, <2>2
  <2>3. CASE Step(w, [Idle EXCEPT !.pc = "insert", !.ev = e]) /\ UNCHANGED rows
    <3>1. PICK t : t = [Idle EXCEPT !.pc = "insert", !.ev = e]
      OBVIOUS
    <3>2. /\ t \in TxRecs /\ t.pc = "insert" /\ t.ev = e /\ t.gone = {} /\ t.hid = {}
          /\ t.victims = {} /\ t.saw = {}
      BY <1>1, <2>1, <3>1 DEF Idle, TxRecs, PCs
    <3>3. tx'[w] = t => Begins(w)
      BY <1>6, <3>2 DEF Begins, begin
    <3> QED
      BY <1>5, <2>3, <3>1, <3>2, <3>3
  <2> QED
    BY <1>6, <2>2, <2>3 DEF begin
<1>7. ASSUME insert(w) PROVE Local(w)
  <2>1. tx[w].pc = "insert" /\ tx[w].ev \in Events
    BY <1>2, <1>7 DEF insert
  <2>2. CASE Ignore(w, tx[w].ev)
    BY <1>4, <2>1, <2>2
  <2>3. CASE /\ Step(w, [tx[w] EXCEPT !.pc = "older"]) /\ UNCHANGED rows
             /\ tx[w].ev \notin stored
    <3>1. PICK t : t = [tx[w] EXCEPT !.pc = "older"]
      OBVIOUS
    <3>2. /\ t \in TxRecs /\ t.pc = "older" /\ t.ev = tx[w].ev /\ t.gone = tx[w].gone
          /\ t.hid = tx[w].hid /\ t.victims = tx[w].victims /\ t.saw = tx[w].saw
      BY <1>1, <3>1 DEF TxRecs, PCs
    <3>3. tx'[w] = t => Inserts(w)
      BY <1>7, <2>1, <2>3, <3>2 DEF Inserts, insert
    <3> QED
      BY <1>5, <2>3, <3>1, <3>2, <3>3
  <2> QED
    BY <1>7, <2>2, <2>3 DEF insert
<1>8. ASSUME older(w) PROVE Local(w)
  <2>1. tx[w].pc = "older" /\ OlderVersions(w, tx[w].ev) \in SUBSET Events
    BY <1>8, RowsSeen, SelectedSeen DEF older
  <2>2. PICK S \in SUBSET Events : S = OlderVersions(w, tx[w].ev)
    BY <2>1
  <2>3. PICK t : t = [tx[w] EXCEPT !.pc = "purge", !.victims = S]
    OBVIOUS
  <2>4. /\ t \in TxRecs /\ t.pc = "purge" /\ t.ev = tx[w].ev /\ t.gone = tx[w].gone
        /\ t.hid = tx[w].hid /\ t.victims = S /\ t.saw = tx[w].saw
    BY <1>1, <2>3 DEF TxRecs, PCs
  <2>5. tx'[w] = t => Chooses(w)
    BY <2>1, <2>2, <2>4 DEF Chooses
  <2>6. Step(w, t) /\ UNCHANGED rows
    BY <1>8, <2>2, <2>3 DEF older
  <2> QED
    BY <1>5, <2>4, <2>5, <2>6
<1>9. ASSUME purge(w) PROVE Local(w)
  <2>0. tx[w].pc = "purge" /\ UNCHANGED rows
    BY <1>9 DEF purge
  <2>1. CASE tx[w].victims = {} /\ Step(w, [tx[w] EXCEPT !.pc = "mark"])
    <3>1. PICK t : t = [tx[w] EXCEPT !.pc = "mark"]
      OBVIOUS
    <3>2. /\ t \in TxRecs /\ t.pc = "mark" /\ t.ev = tx[w].ev /\ t.gone = tx[w].gone
          /\ t.hid = tx[w].hid /\ t.victims = tx[w].victims /\ t.saw = tx[w].saw
      BY <1>1, <3>1 DEF TxRecs, PCs
    <3>3. tx'[w] = t => Purges(w)
      BY <2>0, <2>1, <3>2 DEF Purges
    <3> QED
      BY <1>5, <2>0, <2>1, <3>1, <3>2, <3>3
  <2>2. ASSUME NEW f \in tx[w].victims \ Locked(w),
               Step(w, [tx[w] EXCEPT !.victims = @ \ {f}, !.gone = @ \cup {f}])
        PROVE  Local(w)
    <3>1. PICK t : t = [tx[w] EXCEPT !.victims = @ \ {f}, !.gone = @ \cup {f}]
      OBVIOUS
    <3>2. /\ t \in TxRecs /\ t.pc = "purge" /\ t.ev = tx[w].ev /\ t.gone = tx[w].gone \cup {f}
          /\ t.hid = tx[w].hid /\ t.victims = tx[w].victims \ {f} /\ t.saw = tx[w].saw
      BY <1>1, <1>2, <2>0, <3>1 DEF TxRecs, PCs
    <3>3. tx'[w] = t => Takes(w)
      BY <2>0, <2>2, <3>2 DEF Takes
    <3> QED
      BY <1>5, <2>0, <2>2, <3>1, <3>2, <3>3
  <2> QED
    BY <1>9, <2>1, <2>2 DEF purge
<1>10. ASSUME mark(w) PROVE Local(w)
  <2>1. tx[w].pc = "mark" /\ tx[w].ev \in Events /\ UNCHANGED rows
    BY <1>2, <1>10 DEF mark
  <2>2. CASE Step(w, Idle)
    BY <1>3, <1>5, <2>1, <2>2 DEF Ends
  <2>3. CASE /\ tx[w].ev.kind = 5
             /\ Step(w, [tx[w] EXCEPT !.pc = "hide", !.victims = Hides(w, tx[w].ev), !.saw = stored])
    <3>1. PICK S \in SUBSET Events : S = Hides(w, tx[w].ev)
      BY RowsSeen, SelectedSeen
    <3>2. PICK t : t = [tx[w] EXCEPT !.pc = "hide", !.victims = S, !.saw = stored]
      OBVIOUS
    <3>3. /\ t \in TxRecs /\ t.pc = "hide" /\ t.ev = tx[w].ev /\ t.gone = tx[w].gone
          /\ t.hid = tx[w].hid /\ t.victims = S /\ t.saw = stored
      BY <1>1, <1>2, <3>2 DEF TxRecs, PCs
    <3>4. tx'[w] = t => Names(w)
      BY <2>1, <2>3, <3>1, <3>3 DEF Names
    <3>5. Step(w, t)
      BY <2>3, <3>1, <3>2
    <3> QED
      BY <1>5, <2>1, <3>3, <3>4, <3>5
  <2>4. CASE /\ tx[w].ev.kind # 5 /\ tx[w].ev.kind # 1059
             /\ Step(w, [tx[w] EXCEPT !.pc = "commit", !.hid = {tx[w].ev}])
    <3>1. PICK t : t = [tx[w] EXCEPT !.pc = "commit", !.hid = {tx[w].ev}]
      OBVIOUS
    <3>2. /\ t \in TxRecs /\ t.pc = "commit" /\ t.ev = tx[w].ev /\ t.gone = tx[w].gone
          /\ t.hid = {tx[w].ev} /\ t.victims = tx[w].victims /\ t.saw = tx[w].saw
      BY <1>1, <2>1, <3>1 DEF TxRecs, PCs
    <3>3. tx'[w] = t => Marks(w)
      BY <2>1, <2>4, <3>2 DEF Marks
    <3> QED
      BY <1>5, <2>1, <2>4, <3>1, <3>2, <3>3
  <2>5. CASE tx[w].ev.kind # 5 /\ Step(w, [tx[w] EXCEPT !.pc = "commit"])
    <3>1. PICK t : t = [tx[w] EXCEPT !.pc = "commit"]
      OBVIOUS
    <3>2. /\ t \in TxRecs /\ t.pc = "commit" /\ t.ev = tx[w].ev /\ t.gone = tx[w].gone
          /\ t.hid = tx[w].hid /\ t.victims = tx[w].victims /\ t.saw = tx[w].saw
      BY <1>1, <3>1 DEF TxRecs, PCs
    <3>3. tx'[w] = t => Marks(w)
      BY <2>1, <2>5, <3>2 DEF Marks
    <3> QED
      BY <1>5, <2>1, <2>5, <3>1, <3>2, <3>3
  <2> QED
    BY <1>10, <2>2, <2>3, <2>4, <2>5 DEF mark, Sees!deletable
<1>11. ASSUME hide(w) PROVE Local(w)
  <2>0. tx[w].pc = "hide" /\ UNCHANGED rows
    BY <1>11 DEF hide
  <2>1. CASE tx[w].victims = {} /\ Step(w, [tx[w] EXCEPT !.pc = "commit"])
    <3>1. PICK t : t = [tx[w] EXCEPT !.pc = "commit"]
      OBVIOUS
    <3>2. /\ t \in TxRecs /\ t.pc = "commit" /\ t.ev = tx[w].ev /\ t.gone = tx[w].gone
          /\ t.hid = tx[w].hid /\ t.victims = tx[w].victims /\ t.saw = tx[w].saw
      BY <1>1, <3>1 DEF TxRecs, PCs
    <3>3. tx'[w] = t => Conceals(w)
      BY <2>0, <2>1, <3>2 DEF Conceals
    <3> QED
      BY <1>5, <2>0, <2>1, <3>1, <3>2, <3>3
  <2>2. ASSUME NEW f \in tx[w].victims \ Locked(w),
               Step(w, [tx[w] EXCEPT !.victims = @ \ {f}, !.hid = @ \cup {f}])
        PROVE  Local(w)
    <3>1. PICK t : t = [tx[w] EXCEPT !.victims = @ \ {f}, !.hid = @ \cup {f}]
      OBVIOUS
    <3>2. /\ t \in TxRecs /\ t.pc = "hide" /\ t.ev = tx[w].ev /\ t.hid = tx[w].hid \cup {f}
          /\ t.gone = tx[w].gone /\ t.victims = tx[w].victims \ {f} /\ t.saw = tx[w].saw
      BY <1>1, <1>2, <2>0, <3>1 DEF TxRecs, PCs
    <3>3. tx'[w] = t => Covers(w)
      BY <2>0, <2>2, <3>2 DEF Covers
    <3> QED
      BY <1>5, <2>0, <2>2, <3>1, <3>2, <3>3
  <2> QED
    BY <1>11, <2>1, <2>2 DEF hide
<1>12. ASSUME fail(w) PROVE Local(w)
  BY <1>3, <1>5, <1>12 DEF fail, Ends
<1> QED
  BY <1>6, <1>7, <1>8, <1>9, <1>10, <1>11, <1>12

\* A commit, and what it makes the other transactions forget.
LEMMA ForgetMoves ==
  ASSUME TypeInv, NEW S
  PROVE  /\ Forget(S) \in [Writers -> TxRecs]
         /\ \A v \in Writers :
              /\ Forget(S)[v].pc = tx[v].pc /\ Forget(S)[v].ev = tx[v].ev
              /\ Forget(S)[v].gone = tx[v].gone /\ Forget(S)[v].hid = tx[v].hid
              /\ Forget(S)[v].victims = tx[v].victims \ S /\ Forget(S)[v].saw = tx[v].saw \ S
<1>1. ASSUME NEW v \in Writers
      PROVE  /\ Forget(S)[v] \in TxRecs
             /\ Forget(S)[v].pc = tx[v].pc /\ Forget(S)[v].ev = tx[v].ev
             /\ Forget(S)[v].gone = tx[v].gone /\ Forget(S)[v].hid = tx[v].hid
             /\ Forget(S)[v].victims = tx[v].victims \ S /\ Forget(S)[v].saw = tx[v].saw \ S
  <2>1. tx[v] \in TxRecs
    BY DEF TypeInv, TxInv
  <2>2. Forget(S)[v] = [tx[v] EXCEPT !.victims = tx[v].victims \ S, !.saw = tx[v].saw \ S]
    BY DEF Forget
  <2> QED
    BY <2>1, <2>2 DEF TxRecs
<1>2. Forget(S) = [v \in Writers |-> Forget(S)[v]]
  BY DEF Forget
<1>3. Forget(S) \in [Writers -> TxRecs]
  <2> HIDE DEF TxRecs
  <2> QED
    BY <1>1, <1>2
<1> QED
  BY <1>1, <1>3

Loses(S) ==
  \A v \in Writers :
    /\ tx'[v].pc = tx[v].pc /\ tx'[v].ev = tx[v].ev
    /\ tx'[v].gone = tx[v].gone /\ tx'[v].hid = tx[v].hid
    /\ tx'[v].victims = tx[v].victims \ S /\ tx'[v].saw = tx[v].saw \ S

Commits(w) ==
  /\ tx[w].pc = "commit" /\ tx[w].ev \in Offers[w] /\ tx[w].ev \in Events
  /\ stored' = (stored \cup {tx[w].ev}) \ tx[w].gone
  /\ hidden' = (hidden \cup tx[w].hid) \cap stored'
  /\ received' = received \cup {tx[w].ev}
  /\ saved' = IF tx[w].ev \in tx[w].hid THEN saved ELSE saved \cup {tx[w].ev}
  /\ now' = now
  /\ sweep' \in SweepRecs /\ sweep'.gone = sweep.gone
  /\ sweep'.victims = sweep.victims \ tx[w].gone
  /\ tx' \in [Writers -> TxRecs] /\ tx'[w] = Idle
  /\ \A v \in Writers \ {w} :
       /\ tx'[v].pc = tx[v].pc /\ tx'[v].ev = tx[v].ev
       /\ tx'[v].gone = tx[v].gone /\ tx'[v].hid = tx[v].hid
       /\ tx'[v].victims = tx[v].victims \ tx[w].gone
       /\ tx'[v].saw = tx[v].saw \ tx[w].gone

LEMMA CommitMoves ==
  ASSUME TypeInv, NEW w \in Writers, commit(w)
  PROVE  Commits(w)
<1>1. tx[w].pc = "commit" /\ tx[w].ev \in Offers[w] /\ tx[w].ev \in Events
  BY WritersAssumption DEF commit, TypeInv, TxInv, TxOk
<1>2. Rows(w) = (stored \cup {tx[w].ev}) \ tx[w].gone
  BY <1>1 DEF Rows, Inserted
<1>3. tx' = [Forget(tx[w].gone) EXCEPT ![w] = Idle]
  BY DEF commit
<1>4. PICK F : F = Forget(tx[w].gone)
  OBVIOUS
<1>5. /\ F \in [Writers -> TxRecs]
      /\ \A v \in Writers :
           /\ F[v].pc = tx[v].pc /\ F[v].ev = tx[v].ev
           /\ F[v].gone = tx[v].gone /\ F[v].hid = tx[v].hid
           /\ F[v].victims = tx[v].victims \ tx[w].gone /\ F[v].saw = tx[v].saw \ tx[w].gone
  BY <1>4, ForgetMoves
<1>6. tx' \in [Writers -> TxRecs] /\ tx'[w] = Idle /\ \A v \in Writers \ {w} : tx'[v] = F[v]
  <2>1. Idle \in TxRecs
    BY IdleTyped
  <2> HIDE DEF TxRecs
  <2> QED
    BY <1>3, <1>4, <1>5, <2>1
<1>7. /\ sweep' \in SweepRecs /\ sweep'.gone = sweep.gone
      /\ sweep'.victims = sweep.victims \ tx[w].gone
  BY DEF commit, TypeInv, SweepInv, SweepRecs
<1> QED
  BY <1>1, <1>2, <1>5, <1>6, <1>7 DEF commit, Commits

\* The cleanup: its commit, and its other steps.
Cleans ==
  /\ \A w \in Writers : sweep.gone \cap tx[w].gone = {}
  /\ stored' = stored \ sweep.gone /\ hidden' = hidden \ sweep.gone
  /\ UNCHANGED <<now, received, saved>>
  /\ sweep' = Asleep
  /\ tx' \in [Writers -> TxRecs] /\ Loses(sweep.gone)
Sweeps == UNCHANGED <<stored, hidden, received, saved, now, tx>> /\ SweepInv'

LEMMA CleanupMoves ==
  ASSUME TypeInv, sweep_commit
  PROVE  Cleans
  BY ForgetMoves DEF sweep_commit, Cleans, Loses, TypeInv, SweepInv

\* The steps of the cleanup before its commit, and its failure.
LEMMA SweepMoves ==
  ASSUME TypeInv, delete_expired \/ sweep_row \/ sweep_fail
  PROVE  Sweeps
<1>1. UNCHANGED <<stored, hidden, received, saved, now, tx>>
  BY DEF delete_expired, sweep_row, sweep_fail, rows
<1>2. stored \subseteq Events
  BY DEF TypeInv, RowsInv
<1>3. CASE delete_expired
  <2>1. /\ sweep' \in SweepRecs /\ sweep'.gone = {} /\ sweep'.victims = Expired
    BY <1>2, <1>3 DEF delete_expired, SweepRecs, Expired
  <2> QED
    BY <1>1, <2>1 DEF SweepInv, Sweeps, Expired
<1>4. CASE sweep_row
  <2>1. PICK f \in sweep.victims :
          /\ \A w \in Writers : f \notin Held(w)
          /\ sweep' = [sweep EXCEPT !.victims = @ \ {f}, !.gone = @ \cup {f}]
    BY <1>4 DEF sweep_row
  <2>2. /\ sweep' \in SweepRecs /\ sweep'.gone = sweep.gone \cup {f}
        /\ sweep'.victims = sweep.victims \ {f}
    BY <2>1 DEF TypeInv, SweepInv, SweepRecs
  <2>3. \A w \in Writers : f \notin tx[w].gone
    BY <2>1, WritersAssumption DEF Held
  <2> QED
    BY <1>1, <2>2, <2>3 DEF TypeInv, SweepInv, Sweeps
<1>5. CASE sweep_fail
  BY <1>1, <1>5, AsleepTyped DEF sweep_fail, SweepInv, Sweeps
<1> QED
  BY <1>3, <1>4, <1>5

\* Every step is one of these.
LEMMA NextMoves ==
  ASSUME TypeInv, [Next]_vars
  PROVE  \/ \E w \in Writers : Local(w) \/ Commits(w)
         \/ Cleans
         \/ Sweeps
         \/ Tick
         \/ UNCHANGED vars
  BY LocalSteps, CommitMoves, CleanupMoves, SweepMoves DEF Next, Write, Sweep

-------------------------------------------------------------------------------
(* Types. *)

LEMMA TypeStep == TypeInv /\ [Next]_vars => TypeInv'
<1> SUFFICES ASSUME TypeInv, [Next]_vars PROVE TypeInv'
  OBVIOUS
<1>1. ASSUME NEW w \in Writers, Local(w) PROVE TypeInv'
  <2>1. RowsInv'
    BY <1>1 DEF Local, TypeInv, RowsInv
  <2>2. TxOk(w, tx[w])' 
    BY <1>1, IdleTyped DEF Local, Ends, Begins, Inserts, Chooses, Takes, Purges, Names, Marks,
                           Covers, Conceals, TypeInv, TxInv, TxOk
  <2>3. \A v \in Writers \ {w} : TxOk(v, tx[v])'
    BY <1>1 DEF Local, TypeInv, TxInv, TxOk
  <2>4. tx' \in [Writers -> TxRecs]
    BY <1>1 DEF Local
  <2>5. SweepInv'
    <3>1. sweep.gone \cap tx'[w].gone = {}
      <4>1. CASE Takes(w)
        BY <4>1 DEF Takes, Locked, TypeInv, SweepInv
      <4>2. CASE ~Takes(w)
        <5>1. tx'[w].gone = {} \/ tx'[w].gone = tx[w].gone
          BY <1>1, <4>2, IdleTyped DEF Local, Ends, Begins, Inserts, Chooses, Purges, Names, Marks,
                                       Covers, Conceals
        <5> QED
          BY <5>1 DEF TypeInv, SweepInv
      <4> QED
        BY <4>1, <4>2
    <3> QED
      BY <1>1, <3>1 DEF Local, TypeInv, SweepInv
  <2> QED
    BY <2>1, <2>2, <2>3, <2>4, <2>5 DEF TypeInv, TxInv
<1>2. ASSUME NEW w \in Writers, Commits(w) PROVE TypeInv'
  <2>1. IsFiniteSet(stored')
    <3>1. IsFiniteSet(stored \cup {tx[w].ev})
      BY FS_AddElement DEF TypeInv, RowsInv
    <3> QED
      BY <1>2, <3>1, FS_Subset DEF Commits
  <2>2. RowsInv'
    BY <1>2, <2>1 DEF Commits, TypeInv, RowsInv
  <2>3. \A v \in Writers : TxOk(v, tx[v])'
    BY <1>2, IdleTyped DEF Commits, TypeInv, TxInv, TxOk
  <2>4. SweepInv'
    <3>1. /\ \A v \in Writers : tx'[v].gone = {} \/ tx'[v].gone = tx[v].gone
          /\ stored' = (stored \cup {tx[w].ev}) \ tx[w].gone /\ now' = now
          /\ sweep' \in SweepRecs /\ sweep'.gone = sweep.gone
          /\ sweep'.victims = sweep.victims \ tx[w].gone
      BY <1>2, IdleTyped DEF Commits
    <3>2. sweep.gone \cap tx[w].gone = {}
      BY DEF TypeInv, SweepInv
    <3> QED
      BY <3>1, <3>2 DEF TypeInv, SweepInv
  <2> QED
    BY <1>2, <2>2, <2>3, <2>4 DEF Commits, TypeInv, TxInv
<1>3. ASSUME Cleans PROVE TypeInv'
  <2>1. IsFiniteSet(stored')
    BY <1>3, FS_Subset DEF Cleans, TypeInv, RowsInv
  <2>2. RowsInv'
    BY <1>3, <2>1 DEF Cleans, TypeInv, RowsInv
  <2>3. \A v \in Writers : TxOk(v, tx[v])'
    BY <1>3 DEF Cleans, Loses, TypeInv, TxInv, TxOk
  <2>4. SweepInv'
    BY <1>3, AsleepTyped DEF Cleans, SweepInv
  <2> QED
    BY <1>3, <2>2, <2>3, <2>4 DEF Cleans, TypeInv, TxInv
<1>4. ASSUME Tick PROVE TypeInv'
  <2>1. now' \in 0..MaxTime /\ now \in Nat /\ now' = now + 1
    BY <1>4, WritersAssumption DEF Tick, TypeInv, RowsInv
  <2>2. SweepInv'
    <3>1. \A f \in stored : f.expiration \in Int
      BY WritersAssumption DEF TypeInv, RowsInv
    <3> QED
      BY <1>4, <2>1, <3>1 DEF Tick, rows, TypeInv, SweepInv
  <2> QED
    BY <1>4, <2>1, <2>2 DEF Tick, rows, TypeInv, RowsInv, TxInv, TxOk
<1>5. CASE UNCHANGED vars
  BY <1>5 DEF vars, TypeInv, RowsInv, TxInv, TxOk, SweepInv
<1>6. ASSUME Sweeps PROVE TypeInv'
  BY <1>6 DEF Sweeps, TypeInv, RowsInv, TxInv, TxOk
<1> QED
  BY <1>1, <1>2, <1>3, <1>4, <1>5, <1>6, NextMoves

LEMMA TypeInit == Init => TypeInv
<1> SUFFICES ASSUME Init PROVE TypeInv
  OBVIOUS
<1>1. IsFiniteSet({})
  BY FS_EmptySet
<1>2. RowsInv
  BY <1>1, WritersAssumption DEF Init, RowsInv
<1>3. tx \in [Writers -> TxRecs] /\ \A w \in Writers : tx[w] = Idle
  <2> HIDE DEF TxRecs
  <2> QED
    BY IdleTyped DEF Init
<1>4. SweepInv
  BY AsleepTyped DEF Init, SweepInv
<1> QED
  BY <1>2, <1>3, <1>4, IdleTyped DEF TypeInv, TxInv, TxOk

\* It is stronger than the type invariant of the runs.
LEMMA TypeImplied == TypeInv => TypeOK
<1> SUFFICES ASSUME TypeInv PROVE TypeOK
  OBVIOUS
<1>1. \A w \in Writers : /\ tx[w].pc \in PCs /\ tx[w].ev \in Offers[w] \cup {NoEvent}
                         /\ ~Inserted(w) => tx[w].gone = {} /\ tx[w].hid = {}
  BY DEF TypeInv, TxInv, TxOk, TxRecs, Inserted
<1> QED
  BY <1>1 DEF TypeInv, RowsInv, SweepInv, PCs, TypeOK

\* Whatever the transactions of the writers do to each other, committed rows stay
\* well typed, and a transaction has changed rows only after its insert.
THEOREM TypeCorrect == Spec => []TypeOK
  BY TypeImplied, TypeInit, TypeStep, PTL DEF Spec

-------------------------------------------------------------------------------
(* Deletions. *)

Named(d, f) == All!deletable(f) /\ f.author = d.author /\ \E r \in d.refs : r.id = f.id

\* What a deletion names is chosen for hiding when its UPDATE begins, and
\* whatever is committed and not gone by then is hidden.  A deletion replaces
\* nothing, so its own transaction takes no row out of sight.
NamedOk(t) ==
  t.ev.kind = 5 =>
    /\ t.pc = "purge" => t.victims = {}
    /\ t.pc \in {"purge", "mark", "hide"} => t.gone = {}
    /\ t.pc = "hide" => \A f \in t.saw : Named(t.ev, f) => f \in t.victims \cup t.hid
    /\ t.pc = "commit" => \A f \in t.saw : Named(t.ev, f) => f \in t.hid
NamedInv == \A w \in Writers : NamedOk(tx[w])

LEMMA DeletionReplacesNothing ==
  ASSUME NEW w, NEW e, e.kind = 5
  PROVE  OlderVersions(w, e) = {}
  BY DEF OlderVersions, Sees!OlderReplaceable, Sees!OlderParamReplaceable, Sees!is_replaceable,
         Sees!is_param_replaceable

LEMMA NamedStep == TypeInv /\ NamedInv /\ [Next]_vars => NamedInv'
<1> SUFFICES ASSUME TypeInv, NamedInv, [Next]_vars PROVE NamedInv'
  OBVIOUS
<1>1. ASSUME NEW w \in Writers, Local(w) PROVE NamedInv'
  <2>1. ASSUME NEW v \in Writers \ {w} PROVE NamedOk(tx[v])'
    BY <1>1 DEF Local, NamedInv, NamedOk
  <2>2. NamedOk(tx[w])
    BY DEF NamedInv
  <2> SUFFICES NamedOk(tx[w])'
    BY <2>1 DEF NamedInv
  <2>3. CASE Ends(w)
    BY <2>3, IdleTyped DEF Ends, NamedOk
  <2>4. CASE Begins(w)
    BY <2>4 DEF Begins, NamedOk
  <2>5. CASE Inserts(w)
    BY <2>5 DEF Inserts, NamedOk
  <2>6. CASE Chooses(w)
    BY <2>6, DeletionReplacesNothing DEF Chooses, NamedOk, TypeInv, TxInv, TxOk
  <2>7. CASE Purges(w)
    BY <2>2, <2>7 DEF Purges, NamedOk
  <2>8. CASE Names(w)
    <3>1. tx[w].gone = {} /\ stored \subseteq Rows(w)
      BY <2>2, <2>8 DEF Names, NamedOk, Rows
    <3>2. \A f \in stored : Named(tx[w].ev, f) => f \in Hides(w, tx[w].ev)
      BY <3>1 DEF Hides, Named, Sees!HiddenByDeletion, Sees!deletable, All!deletable
    <3> QED
      BY <2>8, <3>1, <3>2 DEF Names, NamedOk
  <2>9. CASE Marks(w)
    BY <2>9 DEF Marks, NamedOk
  <2>10. CASE Conceals(w)
    BY <2>2, <2>10 DEF Conceals, NamedOk
  <2>11. CASE Takes(w)
    BY <2>2, <2>11 DEF Takes, NamedOk
  <2>12. CASE Covers(w)
    BY <2>2, <2>12 DEF Covers, NamedOk
  <2> QED
    BY <1>1, <2>3, <2>4, <2>5, <2>6, <2>7, <2>8, <2>9, <2>10, <2>11, <2>12 DEF Local
<1>2. ASSUME NEW w \in Writers, Commits(w) PROVE NamedInv'
  <2>1. NamedOk(tx[w])'
    BY <1>2, IdleTyped DEF Commits, NamedOk
  <2>2. ASSUME NEW v \in Writers \ {w} PROVE NamedOk(tx[v])'
    <3>1. NamedOk(tx[v])
      BY DEF NamedInv
    <3> QED
      BY <1>2, <3>1 DEF Commits, NamedOk
  <2> QED
    BY <2>1, <2>2 DEF NamedInv
<1>3. ASSUME Cleans PROVE NamedInv'
  <2> SUFFICES ASSUME NEW v \in Writers PROVE NamedOk(tx[v])'
    BY DEF NamedInv
  <2>1. NamedOk(tx[v])
    BY DEF NamedInv
  <2> QED
    BY <1>3, <2>1 DEF Cleans, Loses, NamedOk
<1>4. ASSUME UNCHANGED tx PROVE NamedInv'
  BY <1>4 DEF NamedInv, NamedOk
<1> QED
  BY <1>1, <1>2, <1>3, <1>4, NextMoves DEF Tick, Sweeps, vars

\* When the transaction of a deletion is about to commit, every event of its
\* author that it names and that was committed when its UPDATE began, gift wraps
\* and deletions excepted, is among the rows it hides, unless it is gone:
\* whatever other transactions and the cleanup did in between.
THEOREM DeletionsHide == Spec => []DeletionHides
<1>1. Init => NamedInv
  BY IdleTyped DEF Init, NamedInv, NamedOk
<1>2. NamedInv => DeletionHides
  BY DEF NamedInv, NamedOk, Named, DeletionHides
<1> QED
  BY <1>1, <1>2, TypeInit, TypeStep, NamedStep, PTL DEF Spec

-------------------------------------------------------------------------------
(* Versions of one place. *)

LEMMA LeastNatural ==
  ASSUME NEW T \in SUBSET Nat, T # {}
  PROVE  \E x \in T : \A y \in T : x <= y
<1> DEFINE R == OpToRel(<, Nat)
<1>1. \A x, y \in Nat : <<y, x>> \in R <=> y < x
  BY DEF OpToRel
<1>2. IsWellFoundedOn(R, Nat)
  BY NatLessThanWellFounded
<1> HIDE DEF R
<1>3. PICK x \in T : \A y \in T : ~(<<y, x>> \in R)
  BY <1>2, WFMin
<1>4. ASSUME NEW y \in T PROVE x <= y
  <2>1. x \in Nat /\ y \in Nat
    OBVIOUS
  <2>2. ~(y < x)
    BY <1>1, <1>3, <2>1
  <2> QED
    BY <2>1, <2>2
<1> QED
  BY <1>4

\* Some element of a finite set is the greatest by a measure: otherwise a
\* smallest subset without such an element would have a smaller one.
LEMMA FiniteMax ==
  ASSUME NEW S, IsFiniteSet(S), S # {}, NEW h \in [S -> Nat]
  PROVE  \E x \in S : \A y \in S : h[y] <= h[x]
<1> DEFINE HasMax(U) == \E x \in U : \A y \in U : h[y] <= h[x]
           T == {n \in Nat : \E U \in SUBSET S : U # {} /\ Cardinality(U) = n /\ ~HasMax(U)}
<1>1. \A U \in SUBSET S : IsFiniteSet(U) /\ Cardinality(U) \in Nat
  BY FS_Subset, FS_CardinalityType
<1>2. ASSUME T # {} PROVE FALSE
  <2>1. PICK n \in T : \A m \in T : n <= m
    <3> HIDE DEF T
    <3>1. T \in SUBSET Nat
      BY DEF T
    <3> QED
      BY <1>2, <3>1, LeastNatural
  <2>2. PICK U \in SUBSET S : U # {} /\ Cardinality(U) = n /\ ~HasMax(U)
    OBVIOUS
  <2>3. PICK u \in U : TRUE
    BY <2>2
  <2>4. u \in S /\ h[u] \in Nat
    OBVIOUS
  <2>5. PICK V : V = U \ {u}
    OBVIOUS
  <2>6. V \in SUBSET S /\ Cardinality(V) = n - 1 /\ Cardinality(V) \in Nat
    BY <1>1, <2>2, <2>3, <2>5, FS_RemoveElement
  <2>7. CASE V = {}
    <3>1. U = {u}
      BY <2>3, <2>5, <2>7
    <3>2. h[u] <= h[u]
      BY <2>4
    <3> QED
      BY <2>2, <3>1, <3>2
  <2>8. CASE V # {}
    <3>1. HasMax(V)
      <4>1. SUFFICES ASSUME ~HasMax(V) PROVE FALSE
        OBVIOUS
      <4>2. Cardinality(V) \in T
        BY <2>6, <2>8, <4>1
      <4>3. n <= n - 1
        BY <2>1, <2>6, <4>2
      <4>4. n \in Nat
        OBVIOUS
      <4> HIDE DEF T, HasMax
      <4> QED
        BY <4>3, <4>4
    <3>2. PICK x \in V : \A y \in V : h[y] <= h[x]
      BY <3>1
    <3>3. x \in U /\ x \in S /\ h[x] \in Nat /\ \A y \in U : y \in V \/ y = u
      BY <2>5, <2>6, <3>2
    <3>4. CASE h[u] <= h[x]
      BY <2>2, <3>2, <3>3, <3>4
    <3>5. CASE h[x] <= h[u]
      <4>1. \A y \in U : h[y] <= h[u]
        <5> SUFFICES ASSUME NEW y \in U PROVE h[y] <= h[u]
          OBVIOUS
        <5>1. h[y] \in Nat /\ (y = u \/ h[y] <= h[x])
          BY <3>2, <3>3
        <5> QED
          BY <2>4, <3>3, <3>5, <5>1
      <4> QED
        BY <2>2, <2>3, <4>1
    <3> QED
      BY <2>4, <3>3, <3>4, <3>5
  <2> QED
    BY <2>7, <2>8
<1>3. Cardinality(S) \in Nat /\ Cardinality(S) \notin T
  BY <1>1, <1>2
<1>4. S \in SUBSET S
  OBVIOUS
<1> QED
  BY <1>3, <1>4

\* Every parameterized event of the catalogue has one "d" tag with a value.
TidyEvents == \A e \in Events : All!TidyParam(e)

\* Being versions of one place is symmetric and transitive.
LEMMA SlotEquivalence ==
  ASSUME NEW e, NEW f, NEW g
  PROVE  /\ All!SameSlot(e, f) => All!SameSlot(f, e)
         /\ All!SameSlot(e, f) /\ All!SameSlot(f, g) => All!SameSlot(e, g)
  BY DEF All!SameSlot, All!SameAuthorKind, All!is_replaceable, All!is_param_replaceable

\* The rows that an insertion of e replaces among R: all are versions for e's
\* place and another row of R is as new; and when e itself stays, no other does.
Replaces(R, e, V) ==
  /\ V \subseteq R
  /\ \A f \in V : All!SameSlot(e, f)
  /\ \A f \in V : \E n \in R \ {f} : All!SameSlot(f, n) /\ n.created_at >= f.created_at
  /\ e \notin V => \A f \in R \ {e} : All!SameSlot(e, f) => f \in V

\* All but a newest one.
LEMMA AllButNewest ==
  ASSUME NEW R, NEW e \in R, NEW n \in R, NEW V,
         R \subseteq Events,
         All!SameSlot(e, n), All!SameSlot(e, e),
         \A f \in R : All!SameSlot(e, f) => f.created_at <= n.created_at,
         V = {f \in R : All!SameSlot(e, f)} \ {n}
  PROVE  Replaces(R, e, V)
<1>1. \A f \in R : f.created_at \in Nat
  BY WritersAssumption
<1>2. ASSUME NEW f \in V
      PROVE  All!SameSlot(e, f) /\ \E m \in R \ {f} : All!SameSlot(f, m) /\ m.created_at >= f.created_at
  <2>1. All!SameSlot(e, f) /\ f \in R /\ f # n
    OBVIOUS
  <2>2. All!SameSlot(f, n)
    BY <2>1, SlotEquivalence
  <2>3. n.created_at >= f.created_at
    BY <1>1, <2>1
  <2> QED
    BY <2>1, <2>2, <2>3
<1>3. e \notin V => n = e
  OBVIOUS
<1> QED
  BY <1>2, <1>3 DEF Replaces

\* What the DELETE of older versions chooses.
LEMMA OlderVersionsReplace ==
  ASSUME TidyEvents, TypeInv, NEW w \in Writers, NEW e \in Rows(w)
  PROVE  Replaces(Rows(w), e, OlderVersions(w, e))
<1>1. PICK R : R = Rows(w)
  OBVIOUS
<1>2. R \subseteq Events /\ IsFiniteSet(R) /\ e \in R /\ e \in Events
  BY <1>1, RowsSeen
<1>3. \A f \in R : f.created_at \in Nat /\ f.kind \in Nat /\ f.dtags \in Seq(STRING)
  BY <1>2, WritersAssumption
<1>4. \A f, g : Sees(w)!SameAuthorKind(f, g) <=> All!SameAuthorKind(f, g)
  BY DEF Sees!SameAuthorKind, All!SameAuthorKind
<1>5. /\ Sees(w)!is_replaceable(e) <=> All!is_replaceable(e)
      /\ Sees(w)!is_param_replaceable(e) <=> All!is_param_replaceable(e)
      /\ ~(All!is_replaceable(e) /\ All!is_param_replaceable(e))
  BY <1>2, <1>3 DEF Sees!is_replaceable, All!is_replaceable, Sees!is_param_replaceable,
                    All!is_param_replaceable
\* the newest version for e's place
<1>6. ASSUME All!SameSlot(e, e)
      PROVE  \E n \in R : All!SameSlot(e, n) /\ \A f \in R : All!SameSlot(e, f) => f.created_at <= n.created_at
  <2>1. PICK S : S = {f \in R : All!SameSlot(e, f)}
    OBVIOUS
  <2>2. IsFiniteSet(S) /\ S # {} /\ S \subseteq R
    BY <1>2, <1>6, <2>1, FS_Subset
  <2>3. PICK h : h = [f \in S |-> f.created_at]
    OBVIOUS
  <2>4. h \in [S -> Nat] /\ \A f \in S : h[f] = f.created_at
    BY <1>3, <2>2, <2>3
  <2>5. PICK n \in S : \A f \in S : h[f] <= h[n]
    BY <2>2, <2>4, FiniteMax
  <2> QED
    BY <2>1, <2>4, <2>5
<1>7. CASE All!is_replaceable(e)
  <2>1. \A f : /\ All!SameSlot(e, f) <=> All!SameAuthorKind(f, e)
               /\ Sees(w)!SameAuthorKind(f, e) <=> All!SameSlot(e, f)
    BY <1>4, <1>5, <1>7 DEF All!SameSlot, All!SameAuthorKind
  <2>2. All!SameSlot(e, e)
    BY <2>1 DEF All!SameAuthorKind
  <2>3. PICK n : n = Sees(w)!NewestRow(R, e)
    OBVIOUS
  <2>4. n \in R /\ All!SameSlot(e, n) /\ \A f \in R : All!SameSlot(e, f) => f.created_at <= n.created_at
    <3>1. PICK g \in R : All!SameSlot(e, g) /\ \A f \in R : All!SameSlot(e, f) => f.created_at <= g.created_at
      BY <1>6, <2>2
    <3>2. /\ n \in R /\ Sees(w)!SameAuthorKind(n, e)
          /\ \A f \in R : Sees(w)!SameAuthorKind(f, e) => f.created_at <= n.created_at
      BY <2>1, <2>3, <3>1 DEF Sees!NewestRow
    <3> QED
      BY <2>1, <3>2
  <2>5. OlderVersions(w, e) = {f \in R : All!SameSlot(e, f)} \ {n}
    <3>1. Sees(w)!OlderParamReplaceable(R, e) = {}
      BY <1>5, <1>7 DEF Sees!OlderParamReplaceable
    <3>2. Sees(w)!OlderReplaceable(R, e) = {f \in R : Sees(w)!SameAuthorKind(f, e)} \ {n}
      BY <1>5, <1>7, <2>3 DEF Sees!OlderReplaceable
    <3> QED
      BY <1>1, <2>1, <3>1, <3>2 DEF OlderVersions
  <2>6. Replaces(R, e, OlderVersions(w, e))
    BY <1>2, <2>2, <2>4, <2>5, AllButNewest
  <2> QED
    BY <1>1, <2>6
<1>8. CASE All!is_param_replaceable(e)
  <2>0. PICK v : v = Sees(w)!distinct_param(e)
    OBVIOUS
  <2>1. ASSUME NEW f \in R, All!SameAuthorKind(f, e)
        PROVE  /\ DOMAIN f.dtags = {1} /\ f.dtags[1] # All!Bare
               /\ All!distinct_param(f) = f.dtags[1] /\ Sees(w)!distinct_param(f) = f.dtags[1]
    <3>1. Len(f.dtags) = 1 /\ f.dtags[1] # All!Bare
      BY <1>2, <1>8, <2>1 DEF TidyEvents, All!TidyParam, All!SameAuthorKind, All!is_param_replaceable
    <3> QED
      BY <1>3, <3>1 DEF All!distinct_param, Sees!distinct_param, All!Bare, Sees!Bare
  <2>2. v # All!Bare /\ v = e.dtags[1]
    BY <1>2, <2>0, <2>1 DEF All!SameAuthorKind
  <2>3. \A f : All!SameSlot(e, f) <=> All!SameAuthorKind(f, e) /\ All!distinct_param(e) = All!distinct_param(f)
    BY <1>5, <1>8 DEF All!SameSlot, All!SameAuthorKind
  <2>4. All!SameSlot(e, e)
    BY <2>3 DEF All!SameAuthorKind
  <2>5. ASSUME NEW f \in R, Sees(w)!SameAuthorKind(f, e)
        PROVE  Sees(w)!DRows(f, v) = IF All!SameSlot(e, f) THEN {1} ELSE {}
    <3>1. All!SameAuthorKind(f, e) /\ All!SameAuthorKind(e, e)
      BY <1>4, <2>5 DEF All!SameAuthorKind
    <3>2. All!SameSlot(e, f) <=> f.dtags[1] = v
      BY <1>2, <2>1, <2>2, <2>3, <3>1
    <3> QED
      BY <2>1, <2>2, <3>1, <3>2 DEF Sees!DRows, All!Bare, Sees!Bare
  <2>6. PICK P : P = Sees(w)!ParamRows(R, e)
    OBVIOUS
  <2>7. P = {<<f, 1>> : f \in {g \in R : All!SameSlot(e, g)}}
    <3>1. \A f \in R : All!SameSlot(e, f) => Sees(w)!SameAuthorKind(f, e)
      BY <1>4, <2>3
    <3> QED
      BY <2>0, <2>5, <2>6, <3>1 DEF Sees!ParamRows
  <2>8. PICK r : r = Sees(w)!FirstParamRow(R, e)
    OBVIOUS
  <2>9. r \in P /\ \A q \in P : q[1].created_at <= r[1].created_at
    <3>1. PICK g \in R : All!SameSlot(e, g) /\ \A f \in R : All!SameSlot(e, f) => f.created_at <= g.created_at
      BY <1>6, <2>4
    <3>2. <<g, 1>> \in P
      BY <2>7, <3>1
    <3>3. \A q \in P : q[1].created_at <= <<g, 1>>[1].created_at
      BY <2>7, <3>1
    <3> QED
      BY <2>6, <2>8, <3>2, <3>3 DEF Sees!FirstParamRow
  <2>10. PICK n \in R : All!SameSlot(e, n) /\ r = <<n, 1>>
    BY <2>7, <2>9
  <2>11. ASSUME NEW f \in R, All!SameSlot(e, f) PROVE f.created_at <= n.created_at
    <3>1. <<f, 1>> \in P
      BY <2>7, <2>11
    <3>2. <<f, 1>>[1].created_at <= r[1].created_at
      BY <2>9, <3>1
    <3> QED
      BY <2>10, <3>2
  <2>12. OlderVersions(w, e) = {f \in R : All!SameSlot(e, f)} \ {n}
    <3>1. Sees(w)!OlderReplaceable(R, e) = {}
      BY <1>5, <1>8 DEF Sees!OlderReplaceable
    <3>2. Sees(w)!OlderParamReplaceable(R, e) = {q[1] : q \in {p \in P : p # r}}
      BY <1>5, <1>8, <2>6, <2>8 DEF Sees!OlderParamReplaceable
    <3>3. ASSUME NEW f \in R, All!SameSlot(e, f), f # n
          PROVE  f \in {q[1] : q \in {p \in P : p # r}}
      <4>1. <<f, 1>> \in {p \in P : p # r}
        BY <2>7, <2>10, <3>3
      <4> QED
        BY <4>1
    <3>4. ASSUME NEW q \in P, q # r
          PROVE  q[1] \in R /\ All!SameSlot(e, q[1]) /\ q[1] # n
      BY <2>7, <2>10, <3>4
    <3>5. {q[1] : q \in {p \in P : p # r}} = {f \in R : All!SameSlot(e, f)} \ {n}
      BY <3>3, <3>4
    <3> QED
      BY <1>1, <3>1, <3>2, <3>5 DEF OlderVersions
  <2>13. Replaces(R, e, OlderVersions(w, e))
    BY <1>2, <2>4, <2>10, <2>11, <2>12, AllButNewest
  <2> QED
    BY <1>1, <2>13
<1>9. CASE ~All!is_replaceable(e) /\ ~All!is_param_replaceable(e)
  <2>1. OlderVersions(w, e) = {}
    BY <1>5, <1>9 DEF OlderVersions, Sees!OlderReplaceable, Sees!OlderParamReplaceable
  <2>2. \A f : ~All!SameSlot(e, f)
    BY <1>9 DEF All!SameSlot
  <2> QED
    BY <2>1, <2>2 DEF Replaces
<1> QED
  BY <1>7, <1>8, <1>9

\* What the transaction of t replaces: the rows it has chosen and those it has
\* deleted.
Drops(t) == t.gone \cup (IF t.pc = "purge" THEN t.victims ELSE {})

-------------------------------------------------------------------------------
(* Nothing is lost. *)

Superseded(f, S) == \E n \in S \ {f} : All!SameSlot(f, n) /\ n.created_at >= f.created_at

\* A row leaves with a transaction only when a version as new was received or
\* comes with the same transaction; no gift wrap is on its way to be hidden.
LostOk(t, S) ==
  /\ \A f \in Drops(t) : Superseded(f, S \cup {t.ev})
  /\ \A f \in t.hid : f.kind # 1059
  /\ t.pc = "hide" => \A f \in t.victims : f.kind # 1059
LostInv ==
  /\ \A w \in Writers : LostOk(tx[w], received)
  /\ \A f \in hidden : f.kind # 1059
  /\ NothingLost

LEMMA LostMonotone ==
  ASSUME NEW t, NEW S, NEW T, S \subseteq T, LostOk(t, S)
  PROVE  LostOk(t, T)
<1>1. \A f : Superseded(f, S \cup {t.ev}) => Superseded(f, T \cup {t.ev})
  BY DEF Superseded
<1> QED
  BY <1>1, SMTT(40) DEF LostOk

\* A transaction that other steps made forget some rows.
LEMMA LostForgets ==
  ASSUME NEW t, NEW u, NEW S, NEW D, LostOk(t, S),
         u.pc = t.pc, u.ev = t.ev, u.gone = t.gone, u.hid = t.hid, u.victims = t.victims \ D
  PROVE  LostOk(u, S)
<1>1. Drops(u) \subseteq Drops(t)
  BY DEF Drops
<1> QED
  BY <1>1 DEF LostOk

LEMMA LostIdle == \A S : LostOk(Idle, S)
  BY IdleTyped DEF LostOk, Drops

LEMMA LostStep == TidyEvents /\ TypeInv /\ LostInv /\ [Next]_vars => LostInv'
<1> SUFFICES ASSUME TidyEvents, TypeInv, LostInv, [Next]_vars PROVE LostInv'
  OBVIOUS
<1>0. \A f : All!is_expired(f) <=> f.expiration # -1 /\ f.expiration <= now
  BY DEF All!is_expired, All!NoExpiration
<1>00. NothingLost <=>
         \A e \in saved : \/ e \in stored /\ (e.kind = 1059 => e \notin hidden)
                          \/ All!is_expired(e)
                          \/ Superseded(e, received)
  BY DEF NothingLost, Superseded
<1>01. NothingLost' <=>
         \A e \in saved' : \/ e \in stored' /\ (e.kind = 1059 => e \notin hidden')
                           \/ e.expiration # -1 /\ e.expiration <= now'
                           \/ Superseded(e, received')
  BY DEF NothingLost, Superseded, All!is_expired, All!NoExpiration
<1>1. ASSUME NEW w \in Writers, Local(w) PROVE LostInv'
  <2>1. \A f : Superseded(f, received) => Superseded(f, received')
    BY <1>1 DEF Local, Superseded
  <2>2. NothingLost'
    BY <1>0, <1>00, <1>01, <1>1, <2>1 DEF Local, LostInv
  <2>3. ASSUME NEW v \in Writers \ {w} PROVE LostOk(tx'[v], received')
    BY <1>1, LostMonotone DEF Local, LostInv
  <2>4. LostOk(tx[w], received) /\ TxOk(w, tx[w])
    BY DEF LostInv, TypeInv, TxInv
  <2>5. LostOk(tx'[w], received)
    <3>1. CASE Ends(w)
      BY <3>1, LostIdle DEF Ends
    <3>2. CASE Begins(w)
      BY <3>2 DEF Begins, LostOk, Drops
    <3>3. CASE Inserts(w)
      BY <2>4, <3>3 DEF Inserts, LostOk, Drops
    <3>4. CASE Chooses(w)
      <4>1. tx[w].gone = {} /\ tx[w].hid = {} /\ tx[w].ev \in Rows(w)
        BY <2>4, <3>4 DEF Chooses, TxOk, Rows, Inserted
      <4>2. Replaces(Rows(w), tx[w].ev, OlderVersions(w, tx[w].ev))
        BY <4>1, OlderVersionsReplace
      <4>3. Rows(w) \subseteq received \cup {tx[w].ev}
        BY RowsSeen DEF TypeInv, RowsInv
      <4>4. \A f \in OlderVersions(w, tx[w].ev) : Superseded(f, received \cup {tx[w].ev})
        BY <4>2, <4>3 DEF Replaces, Superseded
      <4> QED
        BY <3>4, <4>1, <4>4 DEF Chooses, LostOk, Drops
    <3>5. CASE Purges(w)
      BY <2>4, <3>5 DEF Purges, LostOk, Drops
    <3>6. CASE Names(w)
      <4>1. \A f \in Hides(w, tx[w].ev) : f.kind # 1059
        BY DEF Hides, Sees!HiddenByDeletion, Sees!deletable
      <4> QED
        BY <2>4, <3>6, <4>1 DEF Names, LostOk, Drops
    <3>7. CASE Marks(w)
      BY <2>4, <3>7 DEF Marks, LostOk, Drops
    <3>8. CASE Conceals(w)
      <4>1. Drops(tx'[w]) = Drops(tx[w])
        BY <3>8 DEF Conceals, Drops
      <4> QED
        BY <2>4, <3>8, <4>1 DEF Conceals, LostOk
    <3>9. CASE Takes(w)
      <4>1. Drops(tx'[w]) = Drops(tx[w])
        BY <3>9 DEF Takes, Drops
      <4> QED
        BY <2>4, <3>9, <4>1, SMTT(40) DEF Takes, LostOk
    <3>10. CASE Covers(w)
      <4>1. Drops(tx'[w]) = Drops(tx[w])
        BY <3>10 DEF Covers, Drops
      <4>2. PICK f \in tx[w].victims : /\ tx'[w].hid = tx[w].hid \cup {f}
                                       /\ tx'[w].victims = tx[w].victims \ {f}
        BY <3>10 DEF Covers
      <4>3. tx[w].pc = "hide" /\ tx'[w].ev = tx[w].ev
        BY <3>10 DEF Covers
      <4> QED
        BY <2>4, <4>1, <4>2, <4>3 DEF LostOk
    <3> QED
      BY <1>1, <3>1, <3>2, <3>3, <3>4, <3>5, <3>6, <3>7, <3>8, <3>9, <3>10 DEF Local
  <2>6. LostOk(tx'[w], received')
    BY <1>1, <2>5, LostMonotone DEF Local
  <2> QED
    BY <1>1, <2>2, <2>3, <2>6 DEF LostInv, Local, LostOk, Drops, Superseded
<1>2. ASSUME NEW w \in Writers, Commits(w) PROVE LostInv'
  <2>1. LostOk(tx[w], received) /\ tx[w].pc = "commit" /\ Drops(tx[w]) = tx[w].gone
    BY <1>2 DEF LostInv, Commits, Drops
  <2>2. \A f : Superseded(f, received) => Superseded(f, received')
    BY <1>2 DEF Commits, Superseded
  <2>3. \A f \in hidden' : f.kind # 1059
    BY <1>2, <2>1 DEF Commits, LostInv, LostOk
  <2>4. \A f \in tx[w].gone : Superseded(f, received')
    <3>1. received' = received \cup {tx[w].ev}
      BY <1>2 DEF Commits
    <3>2. \A f \in tx[w].gone : Superseded(f, received \cup {tx[w].ev})
      BY <2>1 DEF LostOk
    <3> QED
      BY <3>1, <3>2
  <2>5. NothingLost'
    <3> SUFFICES ASSUME NEW e \in saved'
                 PROVE  \/ e \in stored' /\ (e.kind = 1059 => e \notin hidden')
                        \/ e.expiration # -1 /\ e.expiration <= now'
                        \/ Superseded(e, received')
      BY <1>01
    <3>1. CASE e \in tx[w].gone
      BY <2>4, <3>1
    <3>2. CASE e \notin tx[w].gone /\ e = tx[w].ev
      BY <1>2, <2>3, <3>2 DEF Commits
    <3>3. CASE e \notin tx[w].gone /\ e # tx[w].ev
      <4>1. e \in saved
        BY <1>2, <3>3 DEF Commits
      <4>2. CASE e \in stored
        BY <1>2, <2>3, <3>3, <4>2 DEF Commits
      <4>3. CASE All!is_expired(e) \/ Superseded(e, received)
        <5>1. now' = now
          BY <1>2 DEF Commits
        <5> QED
          BY <1>0, <2>2, <4>3, <5>1
      <4> QED
        BY <1>00, <4>1, <4>2, <4>3 DEF LostInv
    <3> QED
      BY <3>1, <3>2, <3>3
  <2>6. ASSUME NEW v \in Writers PROVE LostOk(tx'[v], received')
    <3>1. CASE v = w
      BY <1>2, <3>1, LostIdle DEF Commits
    <3>2. CASE v # w
      <4>1. LostOk(tx[v], received')
        BY <1>2, LostMonotone DEF Commits, LostInv
      <4>2. /\ tx'[v].pc = tx[v].pc /\ tx'[v].ev = tx[v].ev
            /\ tx'[v].gone = tx[v].gone /\ tx'[v].hid = tx[v].hid
            /\ tx'[v].victims = tx[v].victims \ tx[w].gone
        BY <1>2, <3>2 DEF Commits
      <4> QED
        BY <4>1, <4>2, LostForgets
    <3> QED
      BY <3>1, <3>2
  <2> QED
    BY <2>3, <2>5, <2>6 DEF LostInv, LostOk, Drops, Superseded
<1>3. ASSUME Cleans PROVE LostInv'
  <2>1. ASSUME NEW v \in Writers PROVE LostOk(tx'[v], received')
    <3>1. LostOk(tx[v], received')
      BY <1>3 DEF Cleans, LostInv
    <3> QED
      BY <1>3, <3>1, LostForgets DEF Cleans, Loses
  <2>2. \A e \in stored : e \in stored' \/ All!is_expired(e)
    BY <1>0, <1>3 DEF Cleans, TypeInv, SweepInv
  <2>3. NothingLost'
    BY <1>0, <1>00, <1>01, <1>3, <2>2 DEF Cleans, LostInv
  <2> QED
    BY <1>3, <2>1, <2>3 DEF LostInv, LostOk, Drops, Superseded, Cleans
<1>4. ASSUME Tick PROVE LostInv'
  <2>1. \A e \in saved : All!is_expired(e) => e.expiration # -1 /\ e.expiration <= now'
    <3>1. now \in Nat /\ now' = now + 1 /\ \A e \in saved : e.expiration \in Int
      BY <1>4, WritersAssumption DEF Tick, TypeInv, RowsInv
    <3> QED
      BY <1>0, <3>1
  <2>2. NothingLost'
    BY <1>00, <1>01, <1>4, <2>1 DEF Tick, rows, LostInv
  <2> QED
    BY <1>4, <2>2 DEF LostInv, Tick, rows, LostOk, Drops, Superseded
<1>5. CASE UNCHANGED vars
  <2>1. NothingLost'
    BY <1>0, <1>00, <1>01, <1>5 DEF vars, LostInv
  <2> QED
    BY <1>5, <2>1 DEF LostInv, vars, LostOk, Drops, Superseded
<1>6. ASSUME Sweeps PROVE LostInv'
  <2>1. NothingLost'
    BY <1>0, <1>00, <1>01, <1>6 DEF Sweeps, LostInv
  <2> QED
    BY <1>6, <2>1 DEF LostInv, Sweeps, LostOk, Drops, Superseded
<1> QED
  BY <1>1, <1>2, <1>3, <1>4, <1>5, <1>6, NextMoves

\* Whatever the writers' transactions do to each other, an event that write_event
\* reported as added is stored until it expires or a version as new is received,
\* and a gift wrap is never hidden.
THEOREM AddedEventsAreDurable ==
  ASSUME TidyEvents
  PROVE  Spec => []NothingLost
<1>1. Init => LostInv
  BY LostIdle DEF Init, LostInv, NothingLost
<1>2. TypeInv /\ LostInv /\ [Next]_vars => LostInv'
  BY LostStep
<1>3. LostInv => NothingLost
  BY DEF LostInv
<1> QED
  BY <1>1, <1>2, <1>3, TypeInit, TypeStep, PTL DEF Spec

-------------------------------------------------------------------------------
(* At most one version per writer. *)

Holds(t) == t.pc \notin {"idle", "insert"}

\* An id is inserted by one transaction at a time and is not committed yet; what
\* a transaction replaces is committed or its own, and two never delete one row.
ExclInv ==
  /\ \A v \in Writers : Holds(tx[v]) => tx[v].ev \notin stored
  /\ \A v, w \in Writers : v # w /\ Holds(tx[v]) /\ Holds(tx[w]) => tx[v].ev # tx[w].ev
  /\ \A v \in Writers : Drops(tx[v]) \subseteq stored \cup {tx[v].ev}
  /\ \A v \in Writers : tx[v].gone \subseteq stored \cup {tx[v].ev}
  /\ \A v, w \in Writers : v # w => tx[v].gone \cap tx[w].gone = {}

LEMMA ExclStep == TypeInv /\ ExclInv /\ [Next]_vars => ExclInv'
<1> SUFFICES ASSUME TypeInv, ExclInv, [Next]_vars PROVE ExclInv'
  OBVIOUS
<1>1. ASSUME NEW w \in Writers, Local(w) PROVE ExclInv'
  <2>1. /\ stored' = stored /\ \A v \in Writers \ {w} : tx'[v] = tx[v]
        /\ \/ Ends(w) \/ Begins(w) \/ Inserts(w) \/ Chooses(w) \/ Purges(w)
           \/ Takes(w) \/ Covers(w) \/ Names(w) \/ Marks(w) \/ Conceals(w)
    BY <1>1 DEF Local
  <2>2. TxOk(w, tx[w])
    BY DEF TypeInv, TxInv
  <2>3. Holds(tx'[w]) => \/ Inserts(w)
                         \/ Holds(tx[w]) /\ tx'[w].ev = tx[w].ev
    BY <2>1, IdleTyped DEF Holds, Ends, Begins, Chooses, Takes, Purges, Names, Marks, Covers, Conceals
  <2>4. Inserts(w) => /\ tx'[w].ev = tx[w].ev /\ tx[w].ev \notin stored
                      /\ \A v \in Writers \ {w} : Holds(tx[v]) => tx[v].ev # tx[w].ev
    BY DEF Inserts, Contended, Inserted, Holds
  <2>5. \A v \in Writers : Holds(tx'[v]) => tx'[v].ev \notin stored'
    BY <2>1, <2>3, <2>4 DEF ExclInv
  <2>6. \A u, v \in Writers : u # v /\ Holds(tx'[u]) /\ Holds(tx'[v]) => tx'[u].ev # tx'[v].ev
    BY <2>1, <2>3, <2>4 DEF ExclInv
  <2>7. /\ Drops(tx'[w]) \subseteq stored \cup {tx'[w].ev}
        /\ tx'[w].gone \subseteq stored \cup {tx'[w].ev}
    <3>0. /\ tx[w].gone \subseteq stored \cup {tx[w].ev}
          /\ tx[w].pc = "purge" => tx[w].victims \subseteq stored \cup {tx[w].ev}
      BY DEF ExclInv, Drops
    <3>1. CASE Ends(w) \/ Begins(w) \/ Inserts(w)
      BY <2>2, <3>1, IdleTyped DEF Ends, Begins, Inserts, Drops, TxOk
    <3>2. CASE Chooses(w)
      <4>1. OlderVersions(w, tx[w].ev) \subseteq stored \cup {tx[w].ev}
        BY RowsSeen, SelectedSeen
      <4> QED
        BY <2>2, <3>2, <4>1 DEF Chooses, Drops, TxOk
    <3>3. CASE Purges(w) \/ Takes(w)
      BY <3>0, <3>3 DEF Purges, Takes, Drops
    <3>4. CASE Names(w) \/ Marks(w) \/ Covers(w) \/ Conceals(w)
      BY <3>0, <3>4 DEF Names, Marks, Covers, Conceals, Drops
    <3> QED
      BY <2>1, <3>1, <3>2, <3>3, <3>4
  <2>8. \A v \in Writers \ {w} : tx'[w].gone \cap tx[v].gone = {}
    <3>1. CASE Takes(w)
      BY <3>1 DEF Takes, Locked, ExclInv
    <3>2. CASE ~Takes(w)
      <4>1. tx'[w].gone = {} \/ tx'[w].gone = tx[w].gone
        BY <2>1, <3>2, IdleTyped DEF Ends, Begins, Inserts, Chooses, Purges, Names, Marks, Covers, Conceals
      <4> QED
        BY <4>1 DEF ExclInv
    <3> QED
      BY <3>1, <3>2
  <2>9. /\ \A v \in Writers : Drops(tx'[v]) \subseteq stored' \cup {tx'[v].ev}
        /\ \A v \in Writers : tx'[v].gone \subseteq stored' \cup {tx'[v].ev}
    BY <2>1, <2>7 DEF ExclInv
  <2>10. \A u, v \in Writers : u # v => tx'[u].gone \cap tx'[v].gone = {}
    BY <2>1, <2>8 DEF ExclInv
  <2> QED
    BY <2>5, <2>6, <2>9, <2>10 DEF ExclInv, Holds, Drops
<1>2. ASSUME NEW w \in Writers, Commits(w) PROVE ExclInv'
  <2>1. /\ stored' = (stored \cup {tx[w].ev}) \ tx[w].gone
        /\ tx'[w] = Idle /\ Holds(tx[w])
    BY <1>2 DEF Commits, Holds
  <2>2. \A v \in Writers \ {w} :
          /\ tx'[v].pc = tx[v].pc /\ tx'[v].ev = tx[v].ev /\ tx'[v].gone = tx[v].gone
          /\ tx'[v].victims = tx[v].victims \ tx[w].gone
    BY <1>2 DEF Commits
  <2>3. \A v \in Writers : Holds(tx'[v]) => v # w /\ Holds(tx[v])
    BY <2>1, <2>2, IdleTyped DEF Holds
  <2>4. \A v \in Writers : Holds(tx'[v]) => tx'[v].ev \notin stored'
    BY <2>1, <2>2, <2>3 DEF ExclInv
  <2>5. \A u, v \in Writers : u # v /\ Holds(tx'[u]) /\ Holds(tx'[v]) => tx'[u].ev # tx'[v].ev
    BY <2>2, <2>3 DEF ExclInv
  <2>6. \A v \in Writers : tx'[v].gone \subseteq stored' \cup {tx'[v].ev}
    BY <2>1, <2>2, IdleTyped DEF ExclInv
  <2>7. \A v \in Writers : Drops(tx'[v]) \subseteq stored' \cup {tx'[v].ev}
    <3> SUFFICES ASSUME NEW v \in Writers
                 PROVE  Drops(tx'[v]) \subseteq stored' \cup {tx'[v].ev}
      OBVIOUS
    <3>1. CASE v = w
      BY <2>1, <3>1, IdleTyped DEF Drops
    <3>2. CASE v # w /\ tx[v].pc = "purge"
      <4>1. Drops(tx'[v]) = tx'[v].gone \cup (tx[v].victims \ tx[w].gone)
        BY <2>2, <3>2 DEF Drops
      <4>2. tx[v].victims \subseteq stored \cup {tx[v].ev}
        BY <3>2 DEF ExclInv, Drops
      <4> QED
        BY <2>1, <2>2, <2>6, <3>2, <4>1, <4>2
    <3>3. CASE v # w /\ tx[v].pc # "purge"
      BY <2>2, <2>6, <3>3 DEF Drops
    <3> QED
      BY <3>1, <3>2, <3>3
  <2>8. \A u, v \in Writers : u # v => tx'[u].gone \cap tx'[v].gone = {}
    BY <2>1, <2>2, IdleTyped DEF ExclInv
  <2> QED
    BY <2>4, <2>5, <2>6, <2>7, <2>8 DEF ExclInv, Holds, Drops
<1>3. ASSUME Cleans PROVE ExclInv'
  <2>1. /\ stored' = stored \ sweep.gone /\ \A v \in Writers : sweep.gone \cap tx[v].gone = {}
        /\ \A v \in Writers : /\ tx'[v].pc = tx[v].pc /\ tx'[v].ev = tx[v].ev
                              /\ tx'[v].gone = tx[v].gone
                              /\ tx'[v].victims = tx[v].victims \ sweep.gone
    BY <1>3 DEF Cleans, Loses
  <2>2. /\ \A v \in Writers : Holds(tx'[v]) => tx'[v].ev \notin stored'
        /\ \A u, v \in Writers : u # v /\ Holds(tx'[u]) /\ Holds(tx'[v]) => tx'[u].ev # tx'[v].ev
    BY <2>1 DEF ExclInv, Holds
  <2>3. /\ \A v \in Writers : tx'[v].gone \subseteq stored' \cup {tx'[v].ev}
        /\ \A u, v \in Writers : u # v => tx'[u].gone \cap tx'[v].gone = {}
    BY <2>1 DEF ExclInv
  <2>4. \A v \in Writers : Drops(tx'[v]) \subseteq stored' \cup {tx'[v].ev}
    <3> SUFFICES ASSUME NEW v \in Writers
                 PROVE  Drops(tx'[v]) \subseteq stored' \cup {tx'[v].ev}
      OBVIOUS
    <3>1. CASE tx[v].pc = "purge"
      <4>1. tx[v].victims \subseteq stored \cup {tx[v].ev}
        BY <3>1 DEF ExclInv, Drops
      <4> QED
        BY <2>1, <2>3, <3>1, <4>1 DEF Drops
    <3>2. CASE tx[v].pc # "purge"
      BY <2>1, <2>3, <3>2 DEF Drops
    <3> QED
      BY <3>1, <3>2
  <2> QED
    BY <2>2, <2>3, <2>4 DEF ExclInv, Holds, Drops
<1>4. ASSUME UNCHANGED <<stored, tx>> PROVE ExclInv'
  BY <1>4 DEF ExclInv, Holds, Drops
<1> QED
  BY <1>1, <1>2, <1>3, <1>4, NextMoves DEF Tick, Sweeps, rows, vars

\* The rows S have owners, the writers that committed them: each offers what it
\* owns, and two versions for one place have different owners, because a writer
\* that keeps its new version replaces the one it owns.
Owned(own, S, T) ==
  /\ own \in [S -> Writers]
  /\ \A f \in S : f \in Offers[own[f]]
  /\ \A f, g \in S : f # g /\ All!SameSlot(f, g) => own[f] # own[g]
  /\ \A w \in Writers :
       T[w].pc \in {"purge", "mark", "hide", "commit"} /\ T[w].ev \notin Drops(T[w]) =>
         \A f \in S : All!SameSlot(T[w].ev, f) /\ own[f] = w => f \in Drops(T[w])
OwnInv == \E own : Owned(own, stored, tx)

LEMMA OwnStep == TidyEvents /\ TypeInv /\ ExclInv /\ OwnInv /\ [Next]_vars => OwnInv'
<1> SUFFICES ASSUME TidyEvents, TypeInv, ExclInv, OwnInv, [Next]_vars
             PROVE  \E own : Owned(own, stored', tx')
  BY DEF OwnInv
<1>0. PICK own : Owned(own, stored, tx)
  BY DEF OwnInv
<1>1. ASSUME NEW w \in Writers, Local(w) PROVE Owned(own, stored', tx')
  <2>1. /\ stored' = stored /\ \A v \in Writers \ {w} : tx'[v] = tx[v]
        /\ \/ Ends(w) \/ Begins(w) \/ Inserts(w) \/ Chooses(w) \/ Purges(w)
           \/ Takes(w) \/ Covers(w) \/ Names(w) \/ Marks(w) \/ Conceals(w)
    BY <1>1 DEF Local
  <2>2. TxOk(w, tx[w])
    BY DEF TypeInv, TxInv
  <2>3. ASSUME tx'[w].pc \in {"purge", "mark", "hide", "commit"}, tx'[w].ev \notin Drops(tx'[w]),
               NEW f \in stored, All!SameSlot(tx'[w].ev, f), own[f] = w
        PROVE  f \in Drops(tx'[w])
    <3>1. CASE Ends(w) \/ Begins(w) \/ Inserts(w)
      BY <2>3, <3>1, IdleTyped DEF Ends, Begins, Inserts
    <3>2. CASE Chooses(w)
      <4>1. tx[w].gone = {} /\ tx[w].ev \in Rows(w) /\ stored \subseteq Rows(w) /\ tx[w].ev \notin stored
        BY <2>2, <3>2 DEF Chooses, TxOk, Rows, Inserted, ExclInv, Holds
      <4>2. Replaces(Rows(w), tx[w].ev, OlderVersions(w, tx[w].ev))
        BY <4>1, OlderVersionsReplace
      <4>3. Drops(tx'[w]) = OlderVersions(w, tx[w].ev) /\ tx'[w].ev = tx[w].ev
        BY <3>2, <4>1 DEF Chooses, Drops
      <4> QED
        BY <2>3, <4>1, <4>2, <4>3 DEF Replaces
    <3>3. CASE Takes(w) \/ Purges(w) \/ Names(w) \/ Marks(w) \/ Covers(w) \/ Conceals(w)
      <4>1. /\ Drops(tx'[w]) = Drops(tx[w]) /\ tx'[w].ev = tx[w].ev
            /\ tx[w].pc \in {"purge", "mark", "hide", "commit"}
        BY <3>3 DEF Takes, Purges, Names, Marks, Covers, Conceals, Drops
      <4> QED
        BY <1>0, <2>3, <4>1 DEF Owned
    <3> QED
      BY <2>1, <3>1, <3>2, <3>3
  <2> QED
    BY <1>0, <2>1, <2>3 DEF Owned
<1>2. ASSUME NEW w \in Writers, Commits(w) PROVE \E o : Owned(o, stored', tx')
  <2>1. /\ stored' = (stored \cup {tx[w].ev}) \ tx[w].gone
        /\ tx'[w] = Idle /\ Holds(tx[w]) /\ tx[w].pc = "commit" /\ tx[w].ev \in Offers[w]
        /\ Drops(tx[w]) = tx[w].gone
    BY <1>2 DEF Commits, Holds, Drops
  <2>2. \A v \in Writers \ {w} :
          /\ tx'[v].pc = tx[v].pc /\ tx'[v].ev = tx[v].ev /\ tx'[v].gone = tx[v].gone
          /\ tx'[v].victims = tx[v].victims \ tx[w].gone
    BY <1>2 DEF Commits
  <2>3. PICK o : o = [f \in stored' |-> IF f \in stored THEN own[f] ELSE w]
    OBVIOUS
  <2>4. /\ \A f \in stored' :
             \/ f \in stored /\ o[f] = own[f]
             \/ f \notin stored /\ f = tx[w].ev /\ o[f] = w
        /\ o \in [stored' -> Writers]
    BY <1>0, <2>1, <2>3 DEF Owned
  <2>5. \A f \in stored' : f \in Offers[o[f]]
    BY <1>0, <2>1, <2>4 DEF Owned
  \* w replaces what it owned for the place of the new row
  <2>6. tx[w].ev \in stored' =>
          \A f \in stored \cap stored' : All!SameSlot(tx[w].ev, f) => own[f] # w
    BY <1>0, <2>1 DEF Owned
  <2>7. \A f, g \in stored' : f # g /\ All!SameSlot(f, g) => o[f] # o[g]
    <3> SUFFICES ASSUME NEW f \in stored', NEW g \in stored', f # g, All!SameSlot(f, g)
                 PROVE  o[f] # o[g]
      OBVIOUS
    <3>1. All!SameSlot(g, f)
      BY SlotEquivalence
    <3>2. CASE f \in stored /\ g \in stored
      BY <1>0, <2>4, <3>2 DEF Owned
    <3>3. CASE f \notin stored /\ g \in stored
      BY <2>4, <2>6, <3>3
    <3>4. CASE f \in stored /\ g \notin stored
      BY <2>4, <2>6, <3>1, <3>4
    <3>5. CASE f \notin stored /\ g \notin stored
      BY <2>4, <3>5
    <3> QED
      BY <3>2, <3>3, <3>4, <3>5
  <2>8. ASSUME NEW v \in Writers, tx'[v].pc \in {"purge", "mark", "hide", "commit"},
               tx'[v].ev \notin Drops(tx'[v]),
               NEW f \in stored', All!SameSlot(tx'[v].ev, f), o[f] = v
        PROVE  f \in Drops(tx'[v])
    <3>1. v # w /\ Holds(tx[v]) /\ tx[v].pc \in {"purge", "mark", "hide", "commit"}
      BY <2>1, <2>2, <2>8, IdleTyped DEF Holds
    <3>2. f \in stored /\ own[f] = v /\ f \notin tx[w].gone
      BY <2>1, <2>4, <2>8, <3>1
    <3>3. tx[v].ev \notin tx[w].gone
      BY <2>1, <3>1 DEF ExclInv
    <3>4. tx'[v].ev = tx[v].ev /\ \A g : g \notin tx[w].gone => (g \in Drops(tx'[v]) <=> g \in Drops(tx[v]))
      BY <2>2, <3>1 DEF Drops
    <3>5. tx[v].ev \notin Drops(tx[v])
      BY <2>8, <3>3, <3>4
    <3>6. f \in Drops(tx[v])
      BY <1>0, <2>8, <3>1, <3>2, <3>4, <3>5 DEF Owned
    <3> QED
      BY <3>2, <3>4, <3>6
  <2>9. Owned(o, stored', tx')
    BY <2>4, <2>5, <2>7, <2>8 DEF Owned
  <2> QED
    BY <2>9
<1>3. ASSUME Cleans PROVE \E o : Owned(o, stored', tx')
  <2>1. /\ stored' = stored \ sweep.gone
        /\ \A v \in Writers : /\ tx'[v].pc = tx[v].pc /\ tx'[v].ev = tx[v].ev
                              /\ tx'[v].gone = tx[v].gone
                              /\ tx'[v].victims = tx[v].victims \ sweep.gone
    BY <1>3 DEF Cleans, Loses
  <2>2. PICK o : o = [f \in stored' |-> own[f]]
    OBVIOUS
  <2>3. stored' \subseteq stored /\ o \in [stored' -> Writers] /\ \A f \in stored' : o[f] = own[f]
    BY <1>0, <2>1, <2>2 DEF Owned
  <2>4. /\ \A f \in stored' : f \in Offers[o[f]]
        /\ \A f, g \in stored' : f # g /\ All!SameSlot(f, g) => o[f] # o[g]
    BY <1>0, <2>3 DEF Owned
  <2>5. ASSUME NEW v \in Writers, tx'[v].pc \in {"purge", "mark", "hide", "commit"},
               tx'[v].ev \notin Drops(tx'[v]),
               NEW f \in stored', All!SameSlot(tx'[v].ev, f), o[f] = v
        PROVE  f \in Drops(tx'[v])
    <3>1. Holds(tx[v]) /\ tx[v].pc \in {"purge", "mark", "hide", "commit"} /\ tx'[v].ev = tx[v].ev
      BY <2>1, <2>5 DEF Holds
    <3>2. f \in stored /\ own[f] = v /\ f \notin sweep.gone
      BY <2>1, <2>3, <2>5
    <3>3. tx[v].ev \notin sweep.gone
      BY <3>1 DEF ExclInv, TypeInv, SweepInv
    <3>4. \A g : g \notin sweep.gone => (g \in Drops(tx'[v]) <=> g \in Drops(tx[v]))
      BY <2>1 DEF Drops
    <3>5. f \in Drops(tx[v])
      BY <1>0, <2>5, <3>1, <3>2, <3>3, <3>4 DEF Owned
    <3> QED
      BY <3>2, <3>4, <3>5
  <2>6. Owned(o, stored', tx')
    BY <2>3, <2>4, <2>5 DEF Owned
  <2> QED
    BY <2>6
<1>4. ASSUME UNCHANGED <<stored, tx>> PROVE Owned(own, stored', tx')
  BY <1>0, <1>4
<1> QED
  BY <1>1, <1>2, <1>3, <1>4, NextMoves DEF Tick, Sweeps, rows, vars

\* Transactions that do not see each other may leave several versions of a
\* replaceable event, but never more than there are writers that offer one.
THEOREM VersionsAreBounded ==
  ASSUME TidyEvents
  PROVE  Spec => []VersionsBounded
<1>1. Init => ExclInv /\ OwnInv
  <2> SUFFICES ASSUME Init PROVE ExclInv /\ OwnInv
    OBVIOUS
  <2>1. \A w \in Writers : tx[w].pc = "idle" /\ tx[w].gone = {} /\ Drops(tx[w]) = {}
    BY IdleTyped DEF Init, Drops
  <2>2. ExclInv
    BY <2>1 DEF Init, ExclInv, Holds
  <2>3. Owned([f \in stored |-> CHOOSE w \in Writers : TRUE], stored, tx)
    BY <2>1 DEF Init, Owned
  <2> QED
    BY <2>2, <2>3 DEF OwnInv
<1>2. TypeInv /\ ExclInv /\ OwnInv /\ [Next]_vars => ExclInv' /\ OwnInv'
  BY ExclStep, OwnStep
<1>3. TypeInv /\ OwnInv => VersionsBounded
  <2> SUFFICES ASSUME TypeInv, OwnInv, NEW e \in stored
               PROVE  Cardinality({f \in stored : All!SameSlot(e, f)})
                        <= Cardinality({w \in Writers : \E f \in Offers[w] : All!SameSlot(e, f)})
    BY TypeImplied DEF VersionsBounded
  <2>1. PICK own : Owned(own, stored, tx)
    BY DEF OwnInv
  <2>2. PICK S : S = {f \in stored : All!SameSlot(e, f)}
    OBVIOUS
  <2>3. PICK T : T = {w \in Writers : \E f \in Offers[w] : All!SameSlot(e, f)}
    OBVIOUS
  <2>4. IsFiniteSet(T)
    BY <2>3, WritersAssumption, FS_Subset
  <2>5. PICK h : h = [f \in S |-> own[f]]
    OBVIOUS
  <2>6. h \in [S -> T]
    BY <2>1, <2>2, <2>3, <2>5 DEF Owned
  <2>7. ASSUME NEW f \in S, NEW g \in S, h[f] = h[g] PROVE f = g
    <3>1. f \in stored /\ g \in stored /\ own[f] = own[g]
      BY <2>2, <2>5, <2>7
    <3>2. All!SameSlot(f, g)
      BY <2>2, SlotEquivalence
    <3> QED
      BY <2>1, <3>1, <3>2 DEF Owned
  <2>8. h \in Injection(S, T)
    BY <2>6, <2>7, Fun_IsInj
  <2>9. Cardinality(S) <= Cardinality(T)
    BY <2>4, <2>8, FS_Injection
  <2> QED
    BY <2>2, <2>3, <2>9
<1> QED
  BY <1>1, <1>2, <1>3, TypeInit, TypeStep, PTL DEF Spec

================================================================================
