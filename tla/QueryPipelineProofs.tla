-------------------------- MODULE QueryPipelineProofs --------------------------
(* Theorems about QueryPipeline, for any connections, queries and limits. *)
EXTENDS QueryPipeline, FiniteSetTheorems, TLAPS

\* The queries that hold a permit.
Holders == {q \in Queries : query[q].pc \in Holding}

\* A guard of checkpoint_in_progress is held where the code has one.
LockInv == \A q \in Queries : query[q].pc \in {"gate", "stall"} => lock = q

\* A query that deals with a row has one.
RowsInv ==
  \A q \in Queries : query[q].pc \in {"probe", "capacity", "stall", "send"} => query[q].left > 0

\* The inductive invariant of the query pipeline.
QueryInv ==
  /\ TypeOK
  /\ permits + Cardinality(Holders) = Permits
  /\ LockInv
  /\ RowsInv

-------------------------------------------------------------------------------
(* How the steps of a query move permits. *)

\* The holders are finitely many.
LEMMA HoldersFinite ==
  /\ IsFiniteSet(Holders) /\ Cardinality(Holders) \in Nat
  /\ Permits \in Nat
<1>1. Holders \in SUBSET Queries
  BY DEF Holders
<1>2. IsFiniteSet(Holders)
  BY <1>1, FS_Subset, QueryAssumption
<1> QED
  BY <1>2, FS_CardinalityType, QueryAssumption

\* Goto moves one query and changes nothing else about the queries.
LEMMA GotoMoves ==
  ASSUME TypeOK, NEW q \in Queries, NEW pc \in PCs, Goto(q, pc)
  PROVE  /\ query' \in [Queries -> [pc : PCs, left : Nat, count : Nat]]
         /\ query'[q].pc = pc /\ query'[q].left = query[q].left
         /\ \A r \in Queries : r # q => query'[r] = query[r]
BY DEF Goto, TypeOK

\* A query that keeps its permit, or goes on without one, changes no count.
LEMMA PermitKept ==
  ASSUME QueryInv, permits' = permits,
         NEW q \in Queries, query[q].pc \in Holding <=> query'[q].pc \in Holding,
         \A r \in Queries : r # q => query'[r] = query[r]
  PROVE  permits' \in 0..Permits /\ permits' + Cardinality(Holders') = Permits
<1>1. Holders' = Holders
  BY DEF Holders
<1> QED
  BY <1>1 DEF QueryInv, TypeOK

\* A query that takes a permit joins the holders.
LEMMA PermitTaken ==
  ASSUME QueryInv, permits > 0, permits' = permits - 1,
         NEW q \in Queries, query[q].pc \notin Holding, query'[q].pc \in Holding,
         \A r \in Queries : r # q => query'[r] = query[r]
  PROVE  permits' \in 0..Permits /\ permits' + Cardinality(Holders') = Permits
<1>1. Holders' = Holders \cup {q} /\ q \notin Holders
  BY DEF Holders
<1>2. Cardinality(Holders') = Cardinality(Holders) + 1
  BY <1>1, HoldersFinite, FS_AddElement
<1> QED
  BY <1>2, HoldersFinite DEF QueryInv, TypeOK

\* A query that gives its permit back leaves the holders, and no permit is
\* invented: there is one fewer holder than before.
LEMMA PermitReturned ==
  ASSUME QueryInv, permits' = permits + 1,
         NEW q \in Queries, query[q].pc \in Holding, query'[q].pc \notin Holding,
         \A r \in Queries : r # q => query'[r] = query[r]
  PROVE  permits' \in 0..Permits /\ permits' + Cardinality(Holders') = Permits
<1>1. Holders' = Holders \ {q} /\ q \in Holders
  BY DEF Holders
<1>2. Cardinality(Holders') = Cardinality(Holders) - 1 /\ Cardinality(Holders') \in Nat
  <2>1. Cardinality(Holders') = Cardinality(Holders) - 1 /\ IsFiniteSet(Holders')
    BY <1>1, HoldersFinite, FS_RemoveElement
  <2> QED
    BY <2>1, FS_CardinalityType
<1> QED
  BY <1>2, HoldersFinite DEF QueryInv, TypeOK

-------------------------------------------------------------------------------
(* The invariant. *)

\* Nothing has been issued and every permit is there.
LEMMA QueryInit == Init => QueryInv
<1> SUFFICES ASSUME Init
             PROVE  QueryInv
  OBVIOUS
<1>1. TypeOK
  BY QueryAssumption DEF Init, TypeOK, PCs
<1>2. Holders = {}
  BY DEF Init, Holders, Holding
<1>3. permits + Cardinality(Holders) = Permits
  BY <1>2, FS_EmptySet, QueryAssumption DEF Init
<1> QED
  BY <1>1, <1>3 DEF Init, QueryInv, LockInv, RowsInv

\* A query that moves to a program point keeps the invariant, if permits and lock
\* go with it: it changes the lock only where it is free or its own, it has the
\* lock where the code has a guard, and a row where it deals with one.
LEMMA MoveKeeps ==
  ASSUME QueryInv, NEW q \in Queries, NEW pc \in PCs, Goto(q, pc),
         UNCHANGED <<conn, abandoned, runs>>,
         chan' \in [Conns -> 0..QueryCap],
         permits' \in 0..Permits /\ permits' + Cardinality(Holders') = Permits,
         lock' \in {lock, q, Nobody},
         lock' = lock \/ lock \in {Nobody, q},
         lock' = q => pc \in {"gate", "probe", "stall"},
         pc \in {"gate", "stall"} => lock' = q,
         pc \in {"probe", "capacity", "stall", "send"} => query[q].left > 0
  PROVE  QueryInv'
<1>1. /\ query' \in [Queries -> [pc : PCs, left : Nat, count : Nat]]
      /\ query'[q].pc = pc /\ query'[q].left = query[q].left
      /\ \A r \in Queries : r # q => query'[r] = query[r]
  BY GotoMoves DEF QueryInv
<1>2. TypeOK'
  <2>1. lock' \in Queries \cup {"checkpoint", Nobody}
    BY DEF QueryInv, TypeOK
  <2>2. lock' \in Queries => query'[lock'].pc \in {"gate", "probe", "stall"}
    BY <1>1, QueryAssumption DEF QueryInv, TypeOK
  <2> QED
    BY <1>1, <2>1, <2>2 DEF QueryInv, TypeOK
<1>3. LockInv'
  BY <1>1, QueryAssumption DEF QueryInv, LockInv
<1>4. RowsInv'
  BY <1>1 DEF QueryInv, RowsInv
<1> QED
  BY <1>2, <1>3, <1>4 DEF QueryInv

\* A query that returns early gives its permit back.
LEMMA StopKeeps ==
  ASSUME QueryInv, NEW q \in Queries, query[q].pc \in Holding, Stop(q),
         UNCHANGED <<conn, chan, abandoned, runs>>,
         lock' = IF lock = q THEN Nobody ELSE lock
  PROVE  QueryInv'
<1>1. "done" \in PCs /\ "done" \notin Holding
  BY DEF PCs, Holding
<1>2. /\ query'[q].pc = "done"
      /\ \A r \in Queries : r # q => query'[r] = query[r]
  BY <1>1, GotoMoves DEF QueryInv, Stop
<1>3. permits' \in 0..Permits /\ permits' + Cardinality(Holders') = Permits
  BY <1>1, <1>2, PermitReturned DEF Stop
<1>4. q # Nobody
  BY QueryAssumption
<1> QED
  BY <1>1, <1>3, <1>4, MoveKeeps DEF Stop, QueryInv, TypeOK

\* A query that goes on with its permit, or without one, keeps the invariant.
LEMMA GoOnKeeps ==
  ASSUME QueryInv, NEW q \in Queries, NEW pc \in PCs, Goto(q, pc),
         query[q].pc \in Holding <=> pc \in Holding,
         UNCHANGED <<conn, permits, abandoned, runs>>,
         chan' \in [Conns -> 0..QueryCap],
         lock' \in {lock, q, Nobody},
         lock' = lock \/ lock \in {Nobody, q},
         lock' = q => pc \in {"gate", "probe", "stall"},
         pc \in {"gate", "stall"} => lock' = q,
         pc \in {"probe", "capacity", "stall", "send"} => query[q].left > 0
  PROVE  QueryInv'
<1>1. /\ query'[q].pc = pc
      /\ \A r \in Queries : r # q => query'[r] = query[r]
  BY GotoMoves DEF QueryInv
<1>2. permits' \in 0..Permits /\ permits' + Cardinality(Holders') = Permits
  BY <1>1, PermitKept
<1> QED
  BY <1>2, MoveKeeps

\* A result goes into the channel only if there is room for it.
LEMMA DepositFits ==
  ASSUME TypeOK, NEW q \in Queries, Deposit(q)
  PROVE  chan' \in [Conns -> 0..QueryCap]
<1>1. ConnOf[q] \in Conns /\ QueryCap \in Nat
  BY QueryAssumption
<1>2. Open(q) => chan[ConnOf[q]] + 1 \in 0..QueryCap
  BY <1>1 DEF TypeOK, Deposit, Full
<1> QED
  BY <1>1, <1>2 DEF TypeOK, Deposit

\* The steps of the blocking task of a query keep the invariant.
LEMMA ReaderKeeps ==
  ASSUME QueryInv, NEW q \in Queries, Reader(q)
  PROVE  QueryInv'
<1>1. {"gate", "queued", "rows", "probe", "capacity", "stall", "send", "eose", "done"} \subseteq PCs
  BY DEF PCs, Holding
<1>2. q # Nobody /\ chan \in [Conns -> 0..QueryCap]
  BY QueryAssumption DEF QueryInv, TypeOK
<1>3. lock = q => query[q].pc \in {"gate", "probe", "stall"}
  BY DEF QueryInv, TypeOK
<1>4. query[q].pc \in {"gate", "stall"} => lock = q
  BY DEF QueryInv, LockInv
<1>5. query[q].pc \in {"probe", "capacity", "stall", "send"} => query[q].left > 0
  BY DEF QueryInv, RowsInv
<1> USE DEF At, Holding
<1>6. CASE gate_lock(q)
  BY <1>1, <1>2, <1>6, GoOnKeeps DEF gate_lock
<1>7. CASE gate_unlock(q)
  BY <1>1, <1>2, <1>4, <1>7, GoOnKeeps DEF gate_unlock
<1>8. CASE begin(q)
  <2>1. lock # q
    BY <1>3, <1>8 DEF begin
  <2>2. CASE Stop(q)
    BY <1>8, <2>1, <2>2, StopKeeps DEF begin
  <2>3. CASE Goto(q, "rows") /\ UNCHANGED permits
    BY <1>1, <1>2, <1>8, <2>1, <2>3, GoOnKeeps DEF begin
  <2>4. CASE /\ query' = [query EXCEPT ![q].pc = "rows", ![q].left = 0]
             /\ UNCHANGED permits
    <3>1. query \in [Queries -> [pc : PCs, left : Nat, count : Nat]]
      BY DEF QueryInv, TypeOK
    <3>2. /\ query' \in [Queries -> [pc : PCs, left : Nat, count : Nat]]
          /\ query'[q].pc = "rows"
          /\ \A r \in Queries : r # q => query'[r] = query[r]
      BY <1>1, <2>4, <3>1
    <3>3. permits' \in 0..Permits /\ permits' + Cardinality(Holders') = Permits
      BY <1>8, <2>4, <3>2, PermitKept DEF begin
    <3> QED
      BY <1>8, <2>1, <2>4, <3>2, <3>3 DEF begin, QueryInv, TypeOK, LockInv, RowsInv
  <2> QED
    BY <1>8, <2>2, <2>3, <2>4 DEF begin
<1>20. CASE fail(q)
  <2>1. lock # q
    BY <1>3, <1>20 DEF fail
  <2> QED
    BY <1>20, <2>1, StopKeeps DEF fail
<1>9. CASE row(q)
  <2>1. lock # q
    BY <1>3, <1>9 DEF row
  <2> QED
    BY <1>1, <1>2, <1>9, <2>1, GoOnKeeps DEF row
<1>10. CASE probe_held(q)
  BY <1>10, StopKeeps DEF probe_held
<1>11. CASE probe_lock(q)
  BY <1>11, QueryAssumption
     DEF probe_lock, QueryInv, TypeOK, LockInv, RowsInv, Holders
<1>12. CASE probe_unlock(q)
  <2>1. CASE Stop(q)
    BY <1>12, <2>1, StopKeeps DEF probe_unlock
  <2>2. CASE Goto(q, "capacity") /\ UNCHANGED permits
    BY <1>1, <1>2, <1>5, <1>12, <2>2, GoOnKeeps DEF probe_unlock
  <2> QED
    BY <1>12, <2>1, <2>2 DEF probe_unlock
<1>13. CASE room(q)
  <2>1. lock # q
    BY <1>3, <1>13 DEF room
  <2> QED
    BY <1>1, <1>2, <1>5, <1>13, <2>1, GoOnKeeps DEF room
<1>14. CASE cutoff(q)
  <2>1. lock # q
    BY <1>3, <1>14 DEF cutoff
  <2> QED
    BY <1>14, <2>1, StopKeeps DEF cutoff
<1>15. CASE stall(q)
  <2>1. lock # q
    BY <1>3, <1>15 DEF stall
  <2>2. CASE Stop(q) /\ UNCHANGED lock
    BY <1>15, <2>1, <2>2, StopKeeps DEF stall
  <2>3. CASE lock = Nobody /\ lock' = q /\ Goto(q, "stall") /\ UNCHANGED permits
    BY <1>1, <1>2, <1>5, <1>15, <2>3, GoOnKeeps DEF stall
  <2> QED
    BY <1>15, <2>2, <2>3 DEF stall
<1>16. CASE unstall(q)
  BY <1>1, <1>2, <1>4, <1>5, <1>16, GoOnKeeps DEF unstall
<1>17. CASE send(q)
  <2>1. query \in [Queries -> [pc : PCs, left : Nat, count : Nat]] /\ query[q].left > 0
    BY <1>5, <1>17 DEF send, QueryInv, TypeOK
  <2>2. [pc |-> "rows", left |-> query[q].left - 1, count |-> query[q].count + 1]
          \in [pc : PCs, left : Nat, count : Nat]
    BY <1>1, <2>1
  <2>3. /\ query' \in [Queries -> [pc : PCs, left : Nat, count : Nat]]
        /\ query'[q].pc = "rows"
        /\ \A r \in Queries : r # q => query'[r] = query[r]
    BY <1>17, <2>1, <2>2 DEF send
  <2>4. permits' \in 0..Permits /\ permits' + Cardinality(Holders') = Permits
    BY <1>17, <2>3, PermitKept DEF send
  <2>5. chan' \in [Conns -> 0..QueryCap]
    BY <1>17, DepositFits DEF send, QueryInv
  <2>6. lock # q
    BY <1>3, <1>17 DEF send
  <2> QED
    BY <1>17, <2>3, <2>4, <2>5, <2>6 DEF send, QueryInv, TypeOK, LockInv, RowsInv
<1>18. CASE finish(q)
  <2>1. lock # q
    BY <1>3, <1>18 DEF finish
  <2>2. /\ query'[q].pc = "eose"
        /\ \A r \in Queries : r # q => query'[r] = query[r]
    BY <1>1, <1>18, GotoMoves DEF finish, QueryInv
  <2>3. permits' \in 0..Permits /\ permits' + Cardinality(Holders') = Permits
    BY <1>18, <2>2, PermitReturned DEF finish
  <2> QED
    BY <1>1, <1>2, <1>18, <2>1, <2>3, MoveKeeps DEF finish
<1>19. CASE send_eose(q)
  <2>1. lock # q
    BY <1>3, <1>19 DEF send_eose
  <2>2. chan' \in [Conns -> 0..QueryCap]
    BY <1>19, DepositFits DEF send_eose, QueryInv
  <2> QED
    BY <1>1, <1>19, <2>1, <2>2, GoOnKeeps DEF send_eose
<1> QED
  BY <1>6, <1>7, <1>8, <1>9, <1>10, <1>11, <1>12, <1>13, <1>14, <1>15, <1>16, <1>17, <1>18,
     <1>19, <1>20 DEF Reader

\* Every step keeps the invariant.
LEMMA QueryStep == QueryInv /\ [Next]_vars => QueryInv'
<1> SUFFICES ASSUME QueryInv, [Next]_vars
             PROVE  QueryInv'
  OBVIOUS
<1>1. ASSUME NEW q \in Queries, issue(q)
      PROVE  QueryInv'
  <2>1. "permit" \in PCs /\ "permit" \notin Holding /\ "new" \notin Holding /\ ConnOf[q] \in Conns
    BY QueryAssumption DEF PCs, Holding
  <2>2. /\ query' \in [Queries -> [pc : PCs, left : Nat, count : Nat]]
        /\ query'[q].pc = "permit"
        /\ \A r \in Queries : r # q => query'[r] = query[r]
    BY <1>1, <2>1, GotoMoves DEF issue, QueryInv
  <2>3. permits' \in 0..Permits /\ permits' + Cardinality(Holders') = Permits
    BY <1>1, <2>1, <2>2, PermitKept DEF issue, At
  <2>4. lock # q
    BY <1>1 DEF issue, At, QueryInv, TypeOK
  <2>5. conn' \in [Conns -> {"loop", "sending", "closed"} \cup Queries]
    BY <1>1, <2>1 DEF issue, QueryInv, TypeOK
  <2> QED
    BY <1>1, <2>2, <2>3, <2>4, <2>5 DEF issue, QueryInv, TypeOK, LockInv, RowsInv
<1>2. ASSUME NEW q \in Queries, acquire(q)
      PROVE  QueryInv'
  <2>1. "spawned" \in PCs /\ "spawned" \in Holding /\ "permit" \notin Holding /\ ConnOf[q] \in Conns
    BY QueryAssumption DEF PCs, Holding
  <2>2. /\ query' \in [Queries -> [pc : PCs, left : Nat, count : Nat]]
        /\ query'[q].pc = "spawned"
        /\ \A r \in Queries : r # q => query'[r] = query[r]
    BY <1>2, <2>1, GotoMoves DEF acquire, QueryInv
  <2>3. permits' \in 0..Permits /\ permits' + Cardinality(Holders') = Permits
    BY <1>2, <2>1, <2>2, PermitTaken DEF acquire, At
  <2>4. lock # q
    BY <1>2 DEF acquire, At, QueryInv, TypeOK
  <2>5. conn' \in [Conns -> {"loop", "sending", "closed"} \cup Queries]
    BY <1>2, <2>1 DEF acquire, QueryInv, TypeOK
  <2> QED
    BY <1>2, <2>2, <2>3, <2>4, <2>5 DEF acquire, QueryInv, TypeOK, LockInv, RowsInv
<1>3. ASSUME NEW q \in Queries, abandon(q)
      PROVE  QueryInv'
  BY <1>3 DEF abandon, QueryInv, TypeOK, LockInv, RowsInv, Holders
<1>4. ASSUME NEW q \in Queries, Reader(q)
      PROVE  QueryInv'
  BY <1>4, ReaderKeeps
<1>5. ASSUME NEW c \in Conns, drain(c)
      PROVE  QueryInv'
  <2>1. chan' \in [Conns -> 0..QueryCap]
    BY <1>5, QueryAssumption DEF drain, QueryInv, TypeOK
  <2>2. conn' \in [Conns -> {"loop", "sending", "closed"} \cup Queries]
    BY <1>5 DEF drain, QueryInv, TypeOK
  <2> QED
    BY <1>5, <2>1, <2>2 DEF drain, QueryInv, TypeOK, LockInv, RowsInv, Holders
<1>6. ASSUME NEW c \in Conns, disconnect(c)
      PROVE  QueryInv'
  <2>1. chan' \in [Conns -> 0..QueryCap] /\ conn' \in [Conns -> {"loop", "sending", "closed"} \cup Queries]
    BY <1>6, QueryAssumption DEF disconnect, QueryInv, TypeOK
  <2> QED
    BY <1>6, <2>1 DEF disconnect, QueryInv, TypeOK, LockInv, RowsInv, Holders
<1>9. ASSUME NEW c \in Conns, block(c) \/ sent(c)
      PROVE  QueryInv'
  BY <1>9 DEF block, sent, QueryInv, TypeOK, LockInv, RowsInv, Holders
<1>7. CASE checkpoint_lock \/ checkpoint_unlock
  <2>1. Holders' = Holders
    BY <1>7 DEF checkpoint_lock, checkpoint_unlock, Holders
  <2>2. \A q \in Queries : q # lock
    BY <1>7, QueryAssumption DEF checkpoint_lock, checkpoint_unlock
  <2>3. LockInv' /\ RowsInv'
    BY <1>7, <2>2 DEF checkpoint_lock, checkpoint_unlock, QueryInv, LockInv, RowsInv
  <2>4. TypeOK'
    BY <1>7, QueryAssumption DEF checkpoint_lock, checkpoint_unlock, QueryInv, TypeOK
  <2>5. permits' = permits
    BY <1>7 DEF checkpoint_lock, checkpoint_unlock
  <2> QED
    BY <2>1, <2>3, <2>4, <2>5 DEF QueryInv
<1>8. CASE UNCHANGED vars
  BY <1>8 DEF vars, QueryInv, TypeOK, LockInv, RowsInv, Holders
<1> QED
  BY <1>1, <1>2, <1>3, <1>4, <1>5, <1>6, <1>7, <1>8, <1>9 DEF Next

\* The invariant holds in every reachable state.
LEMMA QueryInvariant == Spec => []QueryInv
  BY QueryInit, QueryStep, PTL DEF Spec

\* No reader permit is lost or invented: on every way out of a query (stopped in
\* the queue, cut off, abandoned, met by a checkpoint, finished) exactly the
\* permit it took comes back, for any number of queries and permits.
THEOREM PermitsAddUp == Spec => []PermitsConserved
<1>1. QueryInv => PermitsConserved
  BY DEF QueryInv, PermitsConserved, Holders
<1> QED
  BY <1>1, QueryInvariant, PTL

\* At most one task has a guard of checkpoint_in_progress: two queries are never
\* both at a point where they hold one, and none is while a checkpoint runs.
THEOREM GuardsExclude ==
  Spec => [](\A q \in Queries : query[q].pc \in {"gate", "stall"} =>
               /\ lock # "checkpoint"
               /\ \A r \in Queries : query[r].pc \in {"gate", "stall"} => r = q)
<1> DEFINE Exclusive == \A q \in Queries : query[q].pc \in {"gate", "stall"} =>
             /\ lock # "checkpoint"
             /\ \A r \in Queries : query[r].pc \in {"gate", "stall"} => r = q
<1>1. QueryInv => Exclusive
  BY QueryAssumption DEF QueryInv, LockInv
<1> HIDE DEF Exclusive
<1>2. Spec => []Exclusive
  BY <1>1, QueryInvariant, PTL
<1> QED
  BY <1>2 DEF Exclusive

===============================================================================
