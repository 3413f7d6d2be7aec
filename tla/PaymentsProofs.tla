----------------------------- MODULE PaymentsProofs -----------------------------
(* Theorems about Payments, for all keys, fees, bounds and failures. *)
EXTENDS Payments, FiniteSetTheorems, TLAPS

-------------------------------------------------------------------------------
(* The payment channel. *)

\* The messages that may be on the channel while n invoices are in the table: a
\* webhook names one of them, and a request names a key.
Messages(n) ==
  {m \in [kind : DOMAIN First, key : Keys \cup {NoKey}, inv : Nat] :
     /\ m.kind = "InvoicePaid" => m.inv \in 1..n
     /\ m.kind \in {"NewAccount", "CheckAccount"} => m.key \in Keys}

\* What TypeOK says of the channel is that it holds such messages.
LEMMA ChanTyped ==
  ASSUME NEW c, NEW n \in Nat
  PROVE  c \in Seq(Messages(n)) <=>
           /\ c \in Seq([kind : DOMAIN First, key : Keys \cup {NoKey}, inv : Nat])
           /\ \A x \in DOMAIN c :
                /\ c[x].kind = "InvoicePaid" => c[x].inv \in 1..n
                /\ c[x].kind \in {"NewAccount", "CheckAccount"} => c[x].key \in Keys
<1> DEFINE R == [kind : DOMAIN First, key : Keys \cup {NoKey}, inv : Nat]
<1>1. ASSUME c \in Seq(Messages(n))
      PROVE  c \in Seq(R)
  <2>1. Messages(n) \subseteq R
    BY DEF Messages
  <2> HIDE DEF R
  <2> QED
    BY <1>1, <2>1
<1>2. ASSUME c \in Seq(Messages(n)), NEW x \in DOMAIN c
      PROVE  c[x] \in Messages(n)
  BY <1>2
<1>3. ASSUME c \in Seq(R),
             \A x \in DOMAIN c :
                /\ c[x].kind = "InvoicePaid" => c[x].inv \in 1..n
                /\ c[x].kind \in {"NewAccount", "CheckAccount"} => c[x].key \in Keys
      PROVE  c \in Seq(Messages(n))
  <2>1. \A x \in DOMAIN c : c[x] \in R
    <3> HIDE DEF R
    <3> QED BY <1>3
  <2>2. \A x \in DOMAIN c : c[x] \in Messages(n)
    BY <1>3, <2>1 DEF Messages
  <2>3. DOMAIN c = 1..Len(c) /\ Len(c) \in Nat /\ c = [x \in 1..Len(c) |-> c[x]]
    <3> HIDE DEF R
    <3> QED BY <1>3
  <2> QED
    BY <2>2, <2>3
<1> QED
  BY <1>1, <1>2, <1>3 DEF Messages

\* A message put on the channel joins the others, even where it pushes out the
\* oldest of them.
LEMMA PutKeeps ==
  ASSUME NEW S, NEW m \in S, NEW t, chan \in Seq(S), Put(m, t)
  PROVE  chan' \in Seq(S)
<1>1. CASE Len(chan) < ChanCap
  BY <1>1 DEF Put
<1>2. CASE ~(Len(chan) < ChanCap)
  <2>1. chan # <<>>
    BY <1>2, PaymentsAssumption
  <2> QED
    BY <1>2, <2>1 DEF Put
<1> QED
  BY <1>1, <1>2

\* A table that grows keeps the messages valid.
LEMMA MessagesGrow ==
  ASSUME NEW n \in Nat, NEW c \in Seq(Messages(n))
  PROVE  c \in Seq(Messages(n + 1))
<1>1. Messages(n) \subseteq Messages(n + 1)
  BY DEF Messages
<1> QED
  BY <1>1

-------------------------------------------------------------------------------
(* Type correctness. *)

\* What update_invoice does to the tables: the status of one invoice changes,
\* and nothing else but a balance and the count of credits.
LEMMA UpdateInvoice ==
  ASSUME TypeOK, NEW i \in DOMAIN invoices, NEW s \in Statuses, update_invoice(i, s)
  PROVE  /\ invoices' \in Seq([key : Keys, status : Statuses, amount : Nat])
         /\ Len(invoices') = Len(invoices)
         /\ \A j \in DOMAIN invoices :
              /\ invoices'[j].key = invoices[j].key
              /\ invoices'[j].status = IF j = i THEN s ELSE invoices[j].status
         /\ credits' \in Seq(Nat)
         /\ Len(credits') = Len(credits)
         /\ \A j \in DOMAIN invoices :
              credits'[j] = IF j = i /\ invoices[i].status = "Unpaid" /\ s = "Paid"
                            THEN credits[j] + 1 ELSE credits[j]
         /\ account' \in [Keys -> [exists : BOOLEAN, admitted : BOOLEAN, balance : Int]]
         /\ \A k \in Keys : /\ account'[k].exists = account[k].exists
                            /\ account'[k].admitted = account[k].admitted
<1> DEFINE R == [key : Keys, status : Statuses, amount : Nat]
           A == [exists : BOOLEAN, admitted : BOOLEAN, balance : Int]
<1>1. invoices \in Seq(R) /\ invoices[i] \in R
  <2>1. invoices \in Seq(R)
    BY DEF TypeOK
  <2> HIDE DEF R
  <2> QED
    BY <2>1
<1>2. [invoices[i] EXCEPT !.status = s] \in R
  BY <1>1
<1>3. invoices' = [invoices EXCEPT ![i] = [invoices[i] EXCEPT !.status = s]]
  BY DEF update_invoice
<1>4. invoices' \in Seq(R) /\ Len(invoices') = Len(invoices)
  <2> HIDE DEF R
  <2> QED
    BY <1>1, <1>2, <1>3
<1>5. \A j \in DOMAIN invoices :
        /\ invoices'[j].key = invoices[j].key
        /\ invoices'[j].status = IF j = i THEN s ELSE invoices[j].status
  BY <1>1, <1>3
<1>6. credits \in Seq(Nat) /\ DOMAIN credits = DOMAIN invoices
  BY <1>1 DEF TypeOK
<1>7. /\ credits' \in Seq(Nat)
      /\ Len(credits') = Len(credits)
      /\ \A j \in DOMAIN invoices :
           credits'[j] = IF j = i /\ invoices[i].status = "Unpaid" /\ s = "Paid"
                         THEN credits[j] + 1 ELSE credits[j]
  BY <1>6 DEF update_invoice
<1>8. /\ account' \in [Keys -> A]
      /\ \A k \in Keys : /\ account'[k].exists = account[k].exists
                         /\ account'[k].admitted = account[k].admitted
  <2>1. account \in [Keys -> A] /\ invoices[i].key \in Keys
    BY <1>1 DEF TypeOK
  <2>2. \A k \in Keys : account[k].balance + invoices[i].amount \in Int
    BY <1>1, <2>1
  <2> QED
    BY <2>1, <2>2 DEF update_invoice
<1> QED
  BY <1>4, <1>5, <1>7, <1>8

\* The relay starts with empty tables.
LEMMA TypeInit == Init => TypeOK
<1> SUFFICES ASSUME Init
             PROVE  TypeOK
  OBVIOUS
<1>1. account \in [Keys -> [exists : BOOLEAN, admitted : BOOLEAN, balance : Int]]
  BY DEF Init
<1>2. task \in [pc : PCs, key : Keys \cup {NoKey}, inv : Nat, told : Told] /\ task.pc = "idle"
  BY DEF Init, Resting, PCs, Told
<1>3. \A S : invoices \in Seq(S) /\ credits \in Seq(S) /\ chan \in Seq(S)
  BY DEF Init
<1>4. Len(credits) = Len(invoices) /\ DOMAIN chan = {} /\ paid = {}
  BY DEF Init
<1>5. /\ sends \in Nat /\ crashes \in Nat /\ troubled \in BOOLEAN
      /\ writer \in Keys \cup {NoKey, "gone"}
  BY DEF Init
<1>6. /\ gate \in [Gates -> [pc : GatePCs, key : Keys \cup {NoKey}, inv : Nat, told : Told]]
      /\ \A g \in Gates : gate[g].pc = "away"
      /\ passed = {} /\ overtaken = {} /\ raced = {}
  BY DEF Init, Away, GatePCs, Told
<1> QED
  BY <1>1, <1>2, <1>3, <1>4, <1>5, <1>6 DEF TypeOK

\* The states of the payment task while n invoices are in the table: its step
\* says whether it knows a key or the number of an invoice.
Tasks(n) ==
  {t \in [pc : PCs, key : Keys \cup {NoKey}, inv : Nat, told : Told] :
     /\ t.pc \in {"create", "reuse", "invoice", "lookup", "check", "checked", "admit", "welcome"} => t.key \in Keys
     /\ t.pc \in {"check", "checked", "verify", "verified", "confirm"} => t.inv \in 1..n
     /\ t.pc \in {"checked", "verified"} => t.told \in Statuses}

\* The states of a handler in the paid gate.
GateStates(n) ==
  {r \in [pc : GatePCs, key : Keys \cup {NoKey}, inv : Nat, told : Told] :
     /\ r.pc # "away" => r.key \in Keys
     /\ r.pc \in {"ask", "told"} => r.inv \in 1..n
     /\ r.pc = "told" => r.told \in Statuses}

\* TypeOK, with the channel, the task and the gate described by sets.
TypeInv ==
  /\ account \in [Keys -> [exists : BOOLEAN, admitted : BOOLEAN, balance : Int]]
  /\ invoices \in Seq([key : Keys, status : Statuses, amount : Nat])
  /\ credits \in Seq(Nat) /\ Len(credits) = Len(invoices)
  /\ paid \subseteq 1..Len(invoices)
  /\ chan \in Seq(Messages(Len(invoices)))
  /\ task \in Tasks(Len(invoices))
  /\ gate \in [Gates -> GateStates(Len(invoices))]
  /\ writer \in Keys \cup {NoKey, "gone"}
  /\ sends \in Nat /\ crashes \in Nat /\ troubled \in BOOLEAN
  /\ passed \subseteq Keys /\ raced \subseteq Keys /\ overtaken \subseteq 1..Len(invoices)

\* The two say the same.
LEMMA TypeInvIsTypeOK == TypeInv <=> TypeOK
<1> DEFINE I == invoices \in Seq([key : Keys, status : Statuses, amount : Nat])
<1>1. I => Len(invoices) \in Nat /\ DOMAIN invoices = 1..Len(invoices)
  OBVIOUS
<1>2. I => (chan \in Seq(Messages(Len(invoices))) <=>
             /\ chan \in Seq([kind : DOMAIN First, key : Keys \cup {NoKey}, inv : Nat])
             /\ \A n \in DOMAIN chan :
                  /\ chan[n].kind = "InvoicePaid" => chan[n].inv \in DOMAIN invoices
                  /\ chan[n].kind \in {"NewAccount", "CheckAccount"} => chan[n].key \in Keys)
  BY <1>1, ChanTyped
<1>3. I => (task \in Tasks(Len(invoices)) <=>
             /\ task \in [pc : PCs, key : Keys \cup {NoKey}, inv : Nat, told : Told]
             /\ task.pc \in {"create", "reuse", "invoice", "lookup", "check", "checked", "admit", "welcome"} => task.key \in Keys
             /\ task.pc \in {"check", "checked", "verify", "verified", "confirm"} => task.inv \in DOMAIN invoices
             /\ task.pc \in {"checked", "verified"} => task.told \in Statuses)
  BY <1>1 DEF Tasks
<1>4. I => (gate \in [Gates -> GateStates(Len(invoices))] <=>
             /\ gate \in [Gates -> [pc : GatePCs, key : Keys \cup {NoKey}, inv : Nat, told : Told]]
             /\ \A g \in Gates :
                  /\ gate[g].pc # "away" => gate[g].key \in Keys
                  /\ gate[g].pc \in {"ask", "told"} => gate[g].inv \in DOMAIN invoices
                  /\ gate[g].pc = "told" => gate[g].told \in Statuses)
  <2> DEFINE R == [pc : GatePCs, key : Keys \cup {NoKey}, inv : Nat, told : Told]
             C(r) == /\ r.pc # "away" => r.key \in Keys
                     /\ r.pc \in {"ask", "told"} => r.inv \in 1..Len(invoices)
                     /\ r.pc = "told" => r.told \in Statuses
  <2>1. GateStates(Len(invoices)) = {r \in R : C(r)}
    BY DEF GateStates
  <2> HIDE DEF R, C
  <2>2. gate \in [Gates -> {r \in R : C(r)}] <=> gate \in [Gates -> R] /\ \A g \in Gates : C(gate[g])
    OBVIOUS
  <2> QED
    BY <1>1, <2>1, <2>2 DEF R, C
<1> QED
  BY <1>1, <1>2, <1>3, <1>4 DEF TypeOK, TypeInv

\* A row of the table has a key and a status.
LEMMA InvoiceTyped ==
  ASSUME TypeInv, NEW i \in 1..Len(invoices)
  PROVE  invoices[i] \in [key : Keys, status : Statuses, amount : Nat]
<1> DEFINE R == [key : Keys, status : Statuses, amount : Nat]
<1>1. invoices \in Seq(R)
  BY DEF TypeInv
<1> HIDE DEF R
<1>2. invoices[i] \in R
  BY <1>1
<1> QED
  BY <1>2 DEF R

\* A task at rest and one that moves to a step that knows as much are typed.
LEMMA TaskMoves ==
  ASSUME NEW n \in Nat, NEW t \in Tasks(n)
  PROVE  /\ Resting \in Tasks(n)
         /\ t \in Tasks(n + 1)
         /\ \A p \in {"reuse", "invoice", "create", "welcome"} :
              t.key \in Keys => [t EXCEPT !.pc = p] \in Tasks(n)
         /\ t.inv \in 1..n => [t EXCEPT !.pc = "confirm"] \in Tasks(n)
         /\ \A k \in Keys : [t EXCEPT !.pc = "admit", !.key = k] \in Tasks(n)
<1>1. Resting \in Tasks(n)
  BY DEF Tasks, Resting, PCs, Told
<1>2. t \in Tasks(n + 1)
  BY DEF Tasks
<1>3. \A p \in {"reuse", "invoice", "create", "welcome"} :
        t.key \in Keys => [t EXCEPT !.pc = p] \in Tasks(n)
  BY DEF Tasks, PCs
<1>5. t.inv \in 1..n => [t EXCEPT !.pc = "confirm"] \in Tasks(n)
  BY DEF Tasks, PCs
<1>6. \A k \in Keys : [t EXCEPT !.pc = "admit", !.key = k] \in Tasks(n)
  BY DEF Tasks, PCs
<1> QED
  BY <1>1, <1>2, <1>3, <1>5, <1>6

\* So is one that has found an invoice to ask about.
LEMMA TaskFinds ==
  ASSUME NEW n \in Nat, NEW t \in Tasks(n), NEW i \in 1..n, t.key \in Keys
  PROVE  [t EXCEPT !.pc = "check", !.inv = i] \in Tasks(n)
<1>1. t \in [pc : PCs, key : Keys \cup {NoKey}, inv : Nat, told : Told] /\ i \in Nat
  BY DEF Tasks
<1> DEFINE u == [t EXCEPT !.pc = "check", !.inv = i]
<1>2. "check" \in PCs
  BY DEF PCs
<1>3. u \in [pc : PCs, key : Keys \cup {NoKey}, inv : Nat, told : Told]
  BY <1>1, <1>2
<1>4. u.pc = "check" /\ u.key = t.key /\ u.inv = i
  BY <1>1
<1> HIDE DEF u
<1>5. u \in Tasks(n)
  BY <1>3, <1>4 DEF Tasks
<1> QED
  BY <1>5 DEF u

\* And one that has an answer of the processor.
LEMMA TaskIsTold ==
  ASSUME TypeInv, ask_processor
  PROVE  /\ task' \in Tasks(Len(invoices))
         /\ task'.pc = IF task.pc = "check" THEN "checked" ELSE "verified"
         /\ task'.key = task.key /\ task'.inv = task.inv /\ task'.told \in Answers(task.inv)
<1>1. PICK s \in Answers(task.inv) :
        task' = [task EXCEPT !.pc = IF @ = "check" THEN "checked" ELSE "verified", !.told = s]
  BY DEF ask_processor
<1>2. s \in Statuses /\ task.pc \in {"check", "verify"}
  BY <1>1 DEF ask_processor, Answers, Statuses
<1>3. task \in [pc : PCs, key : Keys \cup {NoKey}, inv : Nat, told : Told] /\ s \in Told
  BY <1>2 DEF TypeInv, Tasks, Told
<1>4. "checked" \in PCs /\ "verified" \in PCs
  BY DEF PCs
<1>5. task' \in [pc : PCs, key : Keys \cup {NoKey}, inv : Nat, told : Told]
  BY <1>1, <1>3, <1>4
<1>6. /\ task'.pc = IF task.pc = "check" THEN "checked" ELSE "verified"
      /\ task'.key = task.key /\ task'.inv = task.inv /\ task'.told = s
  BY <1>1, <1>3
<1>7. /\ task.inv \in 1..Len(invoices)
      /\ task.pc = "check" => task.key \in Keys
  BY <1>2 DEF TypeInv, Tasks
<1>8. /\ task'.pc \in {"checked", "verified"}
      /\ task'.pc = "checked" => task'.key \in Keys
      /\ task'.inv \in 1..Len(invoices)
  BY <1>2, <1>6, <1>7
<1>9. task' \in Tasks(Len(invoices))
  BY <1>2, <1>5, <1>6, <1>8 DEF Tasks
<1> QED
  BY <1>1, <1>6, <1>9

\* The moves of a handler in the gate.
LEMMA GateMoves ==
  ASSUME NEW n \in Nat, NEW r \in GateStates(n)
  PROVE  /\ Away \in GateStates(n)
         /\ r \in GateStates(n + 1)
         /\ \A p \in {"create", "invoice", "admit"} :
              r.pc # "away" => [r EXCEPT !.pc = p] \in GateStates(n)
         /\ \A k \in Keys : [Away EXCEPT !.pc = "find", !.key = k] \in GateStates(n)
<1>1. Away \in GateStates(n)
  BY DEF GateStates, Away, GatePCs, Told
<1>2. r \in GateStates(n + 1)
  BY DEF GateStates
<1>3. \A p \in {"create", "invoice", "admit"} :
        r.pc # "away" => [r EXCEPT !.pc = p] \in GateStates(n)
  BY DEF GateStates, GatePCs
<1>4. \A k \in Keys : [Away EXCEPT !.pc = "find", !.key = k] \in GateStates(n)
  BY DEF GateStates, Away, GatePCs, Told
<1> QED
  BY <1>1, <1>2, <1>3, <1>4

\* A handler that has found an invoice, and one that has an answer about it.
LEMMA GateFinds ==
  ASSUME NEW n \in Nat, NEW r \in GateStates(n), r.pc # "away"
  PROVE  /\ \A i \in 1..n : [r EXCEPT !.pc = "ask", !.inv = i] \in GateStates(n)
         /\ \A s \in Statuses : r.pc = "ask" => [r EXCEPT !.pc = "told", !.told = s] \in GateStates(n)
<1>1. /\ r \in [pc : GatePCs, key : Keys \cup {NoKey}, inv : Nat, told : Told]
      /\ r.key \in Keys
      /\ r.pc = "ask" => r.inv \in 1..n
  BY DEF GateStates
<1>2. "ask" \in GatePCs /\ "told" \in GatePCs
  BY DEF GatePCs
<1>3. ASSUME NEW i \in 1..n
      PROVE  [r EXCEPT !.pc = "ask", !.inv = i] \in GateStates(n)
  <2> DEFINE u == [r EXCEPT !.pc = "ask", !.inv = i]
  <2>1. u \in [pc : GatePCs, key : Keys \cup {NoKey}, inv : Nat, told : Told]
    <3>1. i \in Nat
      OBVIOUS
    <3> QED
      BY <1>1, <1>2, <3>1
  <2>2. u.pc = "ask" /\ u.key = r.key /\ u.inv = i
    BY <1>1
  <2> HIDE DEF u
  <2>3. u \in GateStates(n)
    BY <1>1, <2>1, <2>2 DEF GateStates
  <2> QED
    BY <2>3 DEF u
<1>4. ASSUME NEW s \in Statuses, r.pc = "ask"
      PROVE  [r EXCEPT !.pc = "told", !.told = s] \in GateStates(n)
  <2> DEFINE u == [r EXCEPT !.pc = "told", !.told = s]
  <2>1. u \in [pc : GatePCs, key : Keys \cup {NoKey}, inv : Nat, told : Told]
    <3>1. s \in Told
      BY DEF Told
    <3> QED
      BY <1>1, <1>2, <3>1
  <2>2. u.pc = "told" /\ u.key = r.key /\ u.inv = r.inv /\ u.told = s
    BY <1>1
  <2> HIDE DEF u
  <2>3. u \in GateStates(n)
    BY <1>1, <1>4, <2>1, <2>2 DEF GateStates
  <2> QED
    BY <2>3 DEF u
<1> QED
  BY <1>3, <1>4

\* A step that sends a message about a key or an invoice of the table, and
\* leaves the tables and the task alone, keeps the types.
LEMMA SendTyped ==
  ASSUME TypeInv, NEW m \in Messages(Len(invoices)), Send(m),
         UNCHANGED db, UNCHANGED <<paid, task, writer, crashes, names>>
  PROVE  TypeInv'
<1>1. chan' \in Seq(Messages(Len(invoices)))
  BY PutKeeps DEF Send, TypeInv
<1>2. troubled' \in BOOLEAN /\ sends' \in Nat
  BY DEF Send, Put, TypeInv
<1> QED
  BY <1>1, <1>2 DEF TypeInv, db, names

\* The pages, the webhook and the writer's refusals send such messages.
LEMMA RequestsTyped ==
  ASSUME NEW n \in Nat
  PROVE  /\ \A k \in Keys : /\ Message("NewAccount", k, 0) \in Messages(n)
                            /\ Message("CheckAccount", k, 0) \in Messages(n)
         /\ \A i \in 1..n : Message("InvoicePaid", NoKey, i) \in Messages(n)
         /\ Message("Answer", NoKey, 0) \in Messages(n)
BY DEF Message, Messages, First

\* A non-empty set of natural numbers has a least element.
LEMMA LeastNatural ==
  ASSUME NEW T \in SUBSET Nat, T # {}
  PROVE  \E x \in T : \A y \in T : x <= y
<1> DEFINE R == OpToRel(<, Nat)
<1>1. \A x, y \in Nat : <<y, x>> \in R <=> y < x
  BY DEF OpToRel
<1>2. IsWellFoundedOn(R, Nat)
  BY NatLessThanWellFounded
<1> HIDE DEF R
<1>3. PICK x \in T : \A y \in T : ~(<<y, x>> \in R)
  BY <1>2, WFMin
<1>4. ASSUME NEW y \in T
      PROVE  x <= y
  <2>1. x \in Nat /\ y \in Nat
    OBVIOUS
  <2>2. ~(y < x)
    BY <1>1, <1>3, <2>1
  <2> QED
    BY <2>1, <2>2
<1> QED
  BY <1>4

\* The newest of some invoices is one of them.
LEMMA NewestExists ==
  ASSUME NEW n \in Nat, NEW S \in SUBSET (1..n), S # {}
  PROVE  Newest(S) \in S
<1> DEFINE U == {x \in Nat : \A j \in S : j <= x}
<1>1. PICK m \in U : \A y \in U : m <= y
  <2>1. n \in U
    OBVIOUS
  <2> HIDE DEF U
  <2>2. U \in SUBSET Nat
    BY DEF U
  <2> QED
    BY <2>1, <2>2, LeastNatural
<1>2. m \in S
  <2> SUFFICES ASSUME m \notin S
               PROVE  FALSE
    OBVIOUS
  <2>1. \A j \in S : j <= m - 1
    BY <1>1
  <2>2. m >= 1
    <3>1. PICK j \in S : TRUE
      OBVIOUS
    <3>2. j >= 1 /\ j <= m
      BY <1>1
    <3> QED
      BY <1>1, <3>2
  <2>3. m - 1 \in U
    BY <1>1, <2>1, <2>2
  <2> QED
    BY <1>1, <2>3
<1> QED
  BY <1>1, <1>2 DEF Newest

\* The invoice found for a key is an outstanding one of that key.
LEMMA NewestUnpaid ==
  ASSUME TypeInv, NEW k, Unpaid(k) # {}
  PROVE  /\ Newest(Unpaid(k)) \in 1..Len(invoices)
         /\ invoices[Newest(Unpaid(k))].key = k
<1>1. Len(invoices) \in Nat /\ Unpaid(k) \in SUBSET (1..Len(invoices))
  BY DEF TypeInv, Unpaid
<1>2. Newest(Unpaid(k)) \in Unpaid(k)
  BY <1>1, NewestExists
<1> QED
  BY <1>1, <1>2 DEF Unpaid

\* A new invoice keeps the tables well formed, and what was typed before.
LEMMA RecordTyped ==
  ASSUME TypeInv, NEW k \in Keys, NEW a \in Nat, NEW b, create_invoice_record(k, a, b)
  PROVE  /\ invoices' \in Seq([key : Keys, status : Statuses, amount : Nat])
         /\ Len(invoices') = Len(invoices) + 1
         /\ credits' \in Seq(Nat) /\ Len(credits') = Len(invoices')
         /\ paid \subseteq 1..Len(invoices') /\ overtaken \subseteq 1..Len(invoices')
         /\ task \in Tasks(Len(invoices'))
         /\ \A r \in GateStates(Len(invoices)) : r \in GateStates(Len(invoices'))
         /\ \A c \in Seq(Messages(Len(invoices))) : c \in Seq(Messages(Len(invoices')))
         /\ raced' \subseteq Keys
<1> DEFINE n == Len(invoices)
           R == [key : Keys, status : Statuses, amount : Nat]
<1> USE DEF TypeInv
<1>1. n \in Nat /\ invoices \in Seq(R) /\ credits \in Seq(Nat)
  OBVIOUS
<1>2. [key |-> k, status |-> "Unpaid", amount |-> a] \in R
  BY DEF Statuses
<1>3. invoices' \in Seq(R) /\ Len(invoices') = n + 1
  <2> HIDE DEF R
  <2> QED BY <1>1, <1>2 DEF create_invoice_record
<1>4. credits' \in Seq(Nat) /\ Len(credits') = n + 1
  BY <1>1 DEF create_invoice_record
<1>5. /\ paid \subseteq 1..(n + 1) /\ overtaken \subseteq 1..(n + 1)
      /\ raced' \subseteq Keys
  BY <1>1 DEF create_invoice_record
<1>6. task \in Tasks(n + 1) /\ \A r \in GateStates(n) : r \in GateStates(n + 1)
  BY <1>1, TaskMoves, GateMoves
<1>7. \A c \in Seq(Messages(n)) : c \in Seq(Messages(n + 1))
  BY <1>1, MessagesGrow
<1> QED
  BY <1>3, <1>4, <1>5, <1>6, <1>7

\* What update_invoice leaves typed.
LEMMA UpdateTyped ==
  ASSUME TypeInv, NEW i \in 1..Len(invoices), NEW s \in Statuses, update_invoice(i, s)
  PROVE  /\ account' \in [Keys -> [exists : BOOLEAN, admitted : BOOLEAN, balance : Int]]
         /\ invoices' \in Seq([key : Keys, status : Statuses, amount : Nat])
         /\ credits' \in Seq(Nat) /\ Len(credits') = Len(invoices) /\ Len(invoices') = Len(invoices)
<1>1. i \in DOMAIN invoices /\ TypeOK
  BY TypeInvIsTypeOK, SMTT(40) DEF TypeInv
<1> QED
  BY <1>1, UpdateInvoice DEF TypeInv

\* The steps of the payment task keep the types.
LEMMA TaskTyped == TypeInv /\ Task => TypeInv'
<1> SUFFICES ASSUME TypeInv, Task
             PROVE  TypeInv'
  OBVIOUS
<1> DEFINE n == Len(invoices)
<1>1. n \in Nat /\ DOMAIN invoices = 1..n
  BY DEF TypeInv
<1>2. ASSUME NEW t, Answer(t)
      PROVE  chan' \in Seq(Messages(n)) /\ troubled' \in BOOLEAN
  <2>1. chan' \in Seq(Messages(n))
    BY <1>1, <1>2, PutKeeps, RequestsTyped DEF Answer, TypeInv
  <2> QED
    BY <1>2, <2>1 DEF Answer, Put
<1> USE DEF TypeInv, names
<1>4. CASE receive
  <2>1. Head(chan) \in Messages(n) /\ chan' \in Seq(Messages(n))
    BY <1>4 DEF receive
  <2>2. task' \in Tasks(n)
    BY <1>4, <2>1 DEF receive, Messages, Tasks, First, PCs, Told
  <2> QED
    BY <1>4, <2>1, <2>2 DEF receive, db
<1>5. CASE create_account
  <2>1. task.key \in Keys
    BY <1>5 DEF create_account, Tasks
  <2>2. task' \in Tasks(n)
    BY <1>1, <1>5, <2>1, TaskMoves DEF create_account
  <2>3. account' \in [Keys -> [exists : BOOLEAN, admitted : BOOLEAN, balance : Int]]
    BY <1>5, <2>1 DEF create_account
  <2> QED
    BY <1>5, <2>2, <2>3 DEF create_account
<1>6. CASE reuse_invoice
  <2>1. task.key \in Keys
    BY <1>6 DEF reuse_invoice, Tasks
  <2>2. task' \in Tasks(n)
    BY <1>1, <1>6, <2>1, TaskMoves, ZenonT(40) DEF reuse_invoice
  <2>3. chan' \in Seq(Messages(n)) /\ troubled' \in BOOLEAN
    BY <1>2, <1>6 DEF reuse_invoice
  <2> QED
    BY <1>6, <2>2, <2>3 DEF reuse_invoice, db
<1>7. CASE create_invoice
  <2>1. task.key \in Keys
    BY <1>7 DEF create_invoice, Tasks
  <2>2. CASE UNCHANGED <<invoices, credits, raced, chan, troubled>>
    BY <1>1, <1>7, <2>2, TaskMoves DEF create_invoice
  <2>3. CASE create_invoice_record(task.key, AdmissionCost, GatesMake(task.key) # {})
    <3>1. AdmissionCost \in Nat
      BY PaymentsAssumption
    <3>2. chan' \in Seq(Messages(n)) /\ troubled' \in BOOLEAN
      BY <1>2, <1>7 DEF create_invoice
    <3>3. task' \in Tasks(n + 1)
      BY <1>1, <1>7, TaskMoves DEF create_invoice
    <3>4. /\ invoices' \in Seq([key : Keys, status : Statuses, amount : Nat])
          /\ Len(invoices') = n + 1
          /\ credits' \in Seq(Nat) /\ Len(credits') = Len(invoices')
          /\ paid \subseteq 1..Len(invoices') /\ overtaken \subseteq 1..Len(invoices')
          /\ \A r \in GateStates(n) : r \in GateStates(Len(invoices'))
          /\ chan' \in Seq(Messages(Len(invoices')))
          /\ raced' \subseteq Keys
      BY <2>1, <2>3, <3>1, <3>2, RecordTyped
    <3>5. gate \in [Gates -> GateStates(Len(invoices'))]
      BY <3>4
    <3> QED
      BY <1>7, <3>2, <3>3, <3>4, <3>5 DEF create_invoice
  <2> QED
    BY <1>7, <2>2, <2>3 DEF create_invoice
<1>8. CASE lookup_invoice
  <2>1. task.key \in Keys /\ task \in Tasks(n)
    BY <1>8 DEF lookup_invoice, Tasks
  <2>2. [task EXCEPT !.pc = "create"] \in Tasks(n)
    BY <1>1, <2>1, TaskMoves
  <2>3. CASE /\ Unpaid(task.key) # {}
             /\ task' = [task EXCEPT !.pc = "check", !.inv = Newest(Unpaid(task.key))]
    <3>1. Newest(Unpaid(task.key)) \in 1..n
      BY <2>3, NewestUnpaid
    <3>2. task' \in Tasks(n)
      BY <1>1, <2>1, <2>3, <3>1, TaskFinds
    <3> QED
      BY <1>8, <3>2 DEF lookup_invoice, db
  <2>4. CASE task' = [task EXCEPT !.pc = "create"]
    BY <1>8, <2>2, <2>4 DEF lookup_invoice, db
  <2> QED
    BY <1>8, <2>3, <2>4 DEF lookup_invoice
<1>9. CASE ask_processor
  BY <1>9, TaskIsTold DEF ask_processor, db
<1>10. CASE checked
  <2>1. task.key \in Keys /\ task.inv \in 1..n /\ task.told \in Statuses
    BY <1>10 DEF checked, Tasks
  <2>2. task' \in Tasks(n)
    BY <1>1, <1>10, <2>1, TaskMoves DEF checked
  <2>3. chan' \in Seq(Messages(n)) /\ troubled' \in BOOLEAN
    BY <1>2, <1>10 DEF checked
  <2> QED
    BY <1>10, <2>1, <2>2, <2>3, UpdateTyped DEF checked
<1>11. CASE verified
  <2>1. task.inv \in 1..n /\ task.told \in Statuses
    BY <1>11 DEF verified, Tasks
  <2>2. task' \in Tasks(n) /\ troubled' \in BOOLEAN
    BY <1>1, <1>11, <2>1, TaskMoves DEF verified
  <2> QED
    BY <1>11, <2>1, <2>2, UpdateTyped DEF verified
<1>12. CASE confirm
  <2>1. task.inv \in 1..n /\ invoices[task.inv].key \in Keys
    <3>1. task.inv \in 1..n
      BY <1>12 DEF confirm, Tasks
    <3>2. invoices[task.inv] \in [key : Keys, status : Statuses, amount : Nat]
      BY <3>1, InvoiceTyped
    <3> QED
      BY <3>1, <3>2
  <2>2. "Paid" \in Statuses
    BY DEF Statuses
  <2>3. task' \in Tasks(n)
    BY <1>1, <1>12, <2>1, TaskMoves DEF confirm
  <2> QED
    BY <1>12, <2>1, <2>2, <2>3, UpdateTyped DEF confirm
<1>13. CASE admit_account
  <2>1. task.key \in Keys
    BY <1>13 DEF admit_account, Tasks
  <2>2. task' \in Tasks(n)
    BY <1>1, <1>13, TaskMoves DEF admit_account
  <2>3. account' \in [Keys -> [exists : BOOLEAN, admitted : BOOLEAN, balance : Int]]
    <3>1. account[task.key].balance - AdmissionCost \in Int
      BY <2>1, PaymentsAssumption
    <3> QED
      BY <1>13, <2>1, <3>1 DEF admit_account
  <2>4. chan' \in Seq(Messages(n)) /\ troubled' \in BOOLEAN
    BY <1>2, <1>13 DEF admit_account
  <2> QED
    BY <1>13, <2>2, <2>3, <2>4 DEF admit_account
<1> QED
  BY <1>4, <1>5, <1>6, <1>7, <1>8, <1>9, <1>10, <1>11, <1>12, <1>13 DEF Task

\* A handler's entry is a function update of the gate.
LEMMA GateEntry ==
  ASSUME TypeInv, NEW g \in Gates
  PROVE  /\ \A pc \in {"create", "invoice", "admit"} :
              Goes(g, pc) => gate' = [gate EXCEPT ![g] = [gate[g] EXCEPT !.pc = pc]]
         /\ \A i : [gate EXCEPT ![g].pc = "ask", ![g].inv = i]
                     = [gate EXCEPT ![g] = [gate[g] EXCEPT !.pc = "ask", !.inv = i]]
         /\ \A s : [gate EXCEPT ![g].pc = "told", ![g].told = s]
                     = [gate EXCEPT ![g] = [gate[g] EXCEPT !.pc = "told", !.told = s]]
         /\ gate[g] \in GateStates(Len(invoices))
BY DEF Goes, TypeInv

\* The steps of the paid gate keep the types.
LEMMA GateTyped == ASSUME TypeInv, NEW g \in Gates, Gate(g) PROVE TypeInv'
<1> DEFINE n == Len(invoices)
           r == gate[g]
<1>1. n \in Nat /\ DOMAIN invoices = 1..n /\ r \in GateStates(n)
  BY DEF TypeInv
<1>2. ASSUME NEW q \in GateStates(n), gate' = [gate EXCEPT ![g] = q]
      PROVE  gate' \in [Gates -> GateStates(n)]
  BY <1>2 DEF TypeInv
<1> USE DEF TypeInv, atgate, db
<1>3. ASSUME NEW k \in Keys, paid_gate(g, k)
      PROVE  TypeInv'
  <2>1. gate' \in [Gates -> GateStates(n)]
    BY <1>1, <1>2, <1>3, GateMoves DEF paid_gate
  <2>2. passed' \subseteq Keys /\ sends' \in Nat
    BY <1>3 DEF paid_gate
  <2> QED
    BY <1>3, <2>1, <2>2 DEF paid_gate
<1>4. CASE gate_find(g)
  <2>1. r.pc # "away"
    BY <1>4 DEF gate_find
  <2>2. CASE /\ Unpaid(gate[g].key) # {}
             /\ gate' = [gate EXCEPT ![g].pc = "ask", ![g].inv = Newest(Unpaid(gate[g].key))]
    <3>1. Newest(Unpaid(gate[g].key)) \in 1..n
      BY <2>2, NewestUnpaid
    <3>2. [gate[g] EXCEPT !.pc = "ask", !.inv = Newest(Unpaid(gate[g].key))] \in GateStates(n)
      BY <1>1, <2>1, <3>1, GateFinds
    <3>3. gate' = [gate EXCEPT ![g] = [gate[g] EXCEPT !.pc = "ask", !.inv = Newest(Unpaid(gate[g].key))]]
      BY <2>2, GateEntry
    <3>4. gate' \in [Gates -> GateStates(n)]
      BY <1>2, <3>2, <3>3
    <3> QED
      BY <1>4, <3>4 DEF gate_find
  <2>3. CASE Goes(g, "create")
    <3>1. [gate[g] EXCEPT !.pc = "create"] \in GateStates(n)
      BY <1>1, <2>1, GateMoves
    <3>2. gate' \in [Gates -> GateStates(n)]
      BY <1>2, <2>3, <3>1, GateEntry
    <3> QED
      BY <1>4, <3>2 DEF gate_find
  <2> QED
    BY <1>4, <2>2, <2>3 DEF gate_find
<1>5. CASE gate_ask(g)
  <2>1. PICK s \in Answers(gate[g].inv) : gate' = [gate EXCEPT ![g].pc = "told", ![g].told = s]
    BY <1>5 DEF gate_ask
  <2>2. s \in Statuses /\ r.pc = "ask"
    BY <1>5, <2>1 DEF Answers, Statuses, gate_ask
  <2>3. [gate[g] EXCEPT !.pc = "told", !.told = s] \in GateStates(n)
    BY <1>1, <2>2, GateFinds
  <2>4. gate' = [gate EXCEPT ![g] = [gate[g] EXCEPT !.pc = "told", !.told = s]]
    BY <2>1, GateEntry
  <2>5. gate' \in [Gates -> GateStates(n)]
    BY <1>2, <2>3, <2>4
  <2> QED
    BY <1>5, <2>5 DEF gate_ask
<1>6. CASE gate_told(g)
  <2>1. r.pc = "told" /\ r.inv \in 1..n
    BY <1>1, <1>6 DEF gate_told, GateStates
  <2>2. gate' \in [Gates -> GateStates(n)]
    <3>1. /\ [gate[g] EXCEPT !.pc = "admit"] \in GateStates(n)
          /\ [gate[g] EXCEPT !.pc = "invoice"] \in GateStates(n)
          /\ Away \in GateStates(n)
      BY <1>1, <2>1, GateMoves
    <3>2. Leaves(g) \/ Goes(g, "admit") \/ Goes(g, "invoice")
      BY <1>6 DEF gate_told
    <3> QED
      BY <1>2, <3>1, <3>2, GateEntry, Zenon DEF Leaves
  <2>3. "Paid" \in Statuses /\ "Expired" \in Statuses
    BY DEF Statuses
  <2>4. /\ account' \in [Keys -> [exists : BOOLEAN, admitted : BOOLEAN, balance : Int]]
        /\ invoices' \in Seq([key : Keys, status : Statuses, amount : Nat])
        /\ credits' \in Seq(Nat) /\ Len(credits') = n /\ Len(invoices') = n
    BY <1>6, <2>1, <2>3, UpdateTyped DEF gate_told
  <2>5. overtaken' \subseteq 1..n /\ troubled' \in BOOLEAN
    BY <1>6, <2>1 DEF gate_told
  <2> QED
    BY <1>6, <2>2, <2>4, <2>5 DEF gate_told
<1>7. CASE gate_create(g)
  <2>1. r.key \in Keys /\ r.pc # "away"
    BY <1>1, <1>7 DEF gate_create, GateStates
  <2>2. [gate[g] EXCEPT !.pc = "invoice"] \in GateStates(n)
    BY <1>1, <2>1, GateMoves
  <2>3. gate' \in [Gates -> GateStates(n)]
    BY <1>2, <1>7, <2>2, GateEntry DEF gate_create
  <2>4. account' \in [Keys -> [exists : BOOLEAN, admitted : BOOLEAN, balance : Int]]
    BY <1>7, <2>1 DEF gate_create
  <2> QED
    BY <1>7, <2>3, <2>4 DEF gate_create
<1>8. CASE new_invoice(g)
  <2>1. r.key \in Keys /\ NamePrice \in Nat
    BY <1>1, <1>8, PaymentsAssumption DEF new_invoice, GateStates
  <2>2. PICK b : create_invoice_record(r.key, NamePrice, b)
    BY <1>8 DEF new_invoice
  <2>3. /\ invoices' \in Seq([key : Keys, status : Statuses, amount : Nat])
        /\ Len(invoices') = n + 1
        /\ credits' \in Seq(Nat) /\ Len(credits') = Len(invoices')
        /\ paid \subseteq 1..Len(invoices') /\ overtaken \subseteq 1..Len(invoices')
        /\ task \in Tasks(Len(invoices'))
        /\ \A q \in GateStates(n) : q \in GateStates(Len(invoices'))
        /\ chan \in Seq(Messages(Len(invoices')))
        /\ raced' \subseteq Keys
    BY <2>1, <2>2, RecordTyped
  <2>4. gate' \in [Gates -> GateStates(n)]
    BY <1>1, <1>2, <1>8, GateMoves DEF new_invoice, Leaves
  <2>5. gate' \in [Gates -> GateStates(Len(invoices'))]
    BY <2>3, <2>4
  <2> QED
    BY <1>8, <2>3, <2>5 DEF new_invoice
<1>9. CASE gate_admit(g)
  <2>1. r.key \in Keys /\ NamePrice \in Nat
    BY <1>1, <1>9, PaymentsAssumption DEF gate_admit, GateStates
  <2>2. gate' \in [Gates -> GateStates(n)]
    BY <1>1, <1>2, <1>9, GateMoves DEF gate_admit, Leaves
  <2>3. account[r.key].balance - NamePrice \in Int
    BY <2>1
  <2>4. account' \in [Keys -> [exists : BOOLEAN, admitted : BOOLEAN, balance : Int]]
    BY <1>9, <2>1, <2>3 DEF gate_admit
  <2>5. passed' \subseteq Keys
    BY <1>9, <2>1 DEF gate_admit
  <2> QED
    BY <1>9, <2>2, <2>4, <2>5 DEF gate_admit
<1>10. CASE gate_abandon(g)
  <2>1. gate' \in [Gates -> GateStates(n)]
    BY <1>1, <1>2, <1>10, GateMoves DEF gate_abandon, Leaves
  <2> QED
    BY <1>10, <2>1 DEF gate_abandon
<1> QED
  BY <1>3, <1>4, <1>5, <1>6, <1>7, <1>8, <1>9, <1>10 DEF Gate

\* Every step keeps the types.
LEMMA TypeStep == TypeInv /\ [Next]_vars => TypeInv'
<1> SUFFICES ASSUME TypeInv, [Next]_vars
             PROVE  TypeInv'
  OBVIOUS
<1>1. Len(invoices) \in Nat /\ DOMAIN invoices = 1..Len(invoices)
  BY DEF TypeInv
<1>2. ASSUME NEW k \in Keys, account_page(k)
      PROVE  TypeInv'
  BY <1>1, <1>2, SendTyped, RequestsTyped DEF account_page
<1>3. ASSUME NEW k \in Keys, invoice_page(k)
      PROVE  TypeInv'
  <2>1. PICK m \in Messages(Len(invoices)) : Send(m)
    BY <1>1, <1>3, RequestsTyped DEF invoice_page
  <2> QED
    BY <1>3, <2>1, SendTyped DEF invoice_page
<1>4. ASSUME NEW k \in Keys, publish_refused(k)
      PROVE  TypeInv'
  <2>1. PICK m \in Messages(Len(invoices)) : Send(m)
    BY <1>1, <1>4, RequestsTyped DEF publish_refused
  <2> QED
    BY <1>4, <2>1, SendTyped DEF publish_refused
<1>5. ASSUME NEW k \in Keys, publish(k)
      PROVE  TypeInv'
  BY <1>5 DEF publish, TypeInv, db, names
<1>6. ASSUME NEW i \in DOMAIN invoices, webhook(i)
      PROVE  TypeInv'
  BY <1>1, <1>6, SendTyped, RequestsTyped DEF webhook
<1>7. ASSUME NEW i \in DOMAIN invoices, Pay(i)
      PROVE  TypeInv'
  BY <1>1, <1>7 DEF Pay, TypeInv, db, names
<1>8. CASE charge
  <2>1. CASE account' = [account EXCEPT ![writer].balance = @ - CostPerEvent]
    <3>1. account[writer].balance - CostPerEvent \in Int
      BY <1>8, PaymentsAssumption DEF charge, TypeInv
    <3>2. account' \in [Keys -> [exists : BOOLEAN, admitted : BOOLEAN, balance : Int]]
      BY <1>8, <2>1, <3>1 DEF charge, TypeInv
    <3> QED
      BY <1>8, <3>2 DEF charge, TypeInv, names
  <2>2. CASE UNCHANGED account
    BY <1>8, <2>2 DEF charge, TypeInv, names
  <2> QED
    BY <1>8, <2>1, <2>2 DEF charge
<1>9. CASE Task
  BY <1>9, TaskTyped
<1>10. CASE abandon
  BY <1>1, <1>10, TaskMoves DEF abandon, TypeInv, db, names
<1>11. CASE Crash
  <2>1. task' \in Tasks(Len(invoices))
    BY <1>1, <1>11, TaskMoves DEF Crash, TypeInv
  <2>2. chan' \in Seq(Messages(Len(invoices)))
    BY <1>11 DEF Crash
  <2>3. gate' \in [Gates -> GateStates(Len(invoices))]
    <3>1. Away \in GateStates(Len(invoices))
      BY <1>1 DEF GateStates, Away, GatePCs, Told
    <3> QED
      BY <1>11, <3>1 DEF Crash
  <2> QED
    BY <1>11, <2>1, <2>2, <2>3 DEF Crash, TypeInv, db
<1>12. CASE \E g \in Gates : Gate(g)
  BY <1>12, GateTyped
<1>13. CASE UNCHANGED vars
  BY <1>13 DEF TypeInv, vars, names
<1> QED
  BY <1>2, <1>3, <1>4, <1>5, <1>6, <1>7, <1>8, <1>9, <1>10, <1>11, <1>12, <1>13 DEF Next

\* Type correctness: the payment task, the paid gate, the pages, the webhook and
\* the writer keep the tables and the channel well formed, and neither the task
\* nor the gate works without the key, the invoice or the answer its step needs.
THEOREM TypeCorrect == Spec => []TypeOK
<1>1. Init => TypeInv
  BY TypeInit, TypeInvIsTypeOK
<1> QED
  BY <1>1, TypeStep, TypeInvIsTypeOK, PTL DEF Spec

-------------------------------------------------------------------------------
(* Payments, credits and admissions. *)

\* What the table says of an invoice: it is marked paid or credited only if the
\* processor was paid; it is credited once, and not while it is outstanding,
\* unless the gate overtook the task; and its author has an account.
InvoicesInv ==
  \A i \in DOMAIN invoices :
    /\ credits[i] > 0 => i \in paid
    /\ invoices[i].status = "Paid" => i \in paid
    /\ i \notin overtaken => credits[i] <= 1
    /\ i \notin overtaken /\ invoices[i].status = "Unpaid" => credits[i] = 0
    /\ account[invoices[i].key].exists

\* What the payment task has established when it reaches a step.
TaskInv ==
  /\ task.pc \in {"reuse", "invoice"} => account[task.key].exists
  /\ task.pc \in {"check", "checked"} => invoices[task.inv].key = task.key
  /\ task.pc \in {"checked", "verified"} /\ task.told = "Paid" => task.inv \in paid
  /\ task.pc = "confirm" => task.inv \in paid
  /\ task.pc \in {"welcome", "admit"} => HasPaid(task.key)

\* An answer that the task has yet to record is not stale, unless it was
\* overtaken.
BehindInv ==
  TaskBehind(task.inv) /\ task.inv \notin overtaken =>
    credits[task.inv] = 0 /\ invoices[task.inv].status # "Paid"

\* What a handler in the gate has established.
GateKnows(g) ==
  /\ gate[g].pc \in {"ask", "told"} => invoices[gate[g].inv].key = gate[g].key
  /\ gate[g].pc = "told" /\ gate[g].told = "Paid" => gate[g].inv \in paid
  /\ gate[g].pc = "admit" => HasPaid(gate[g].key)

GateInv == \A g \in Gates : GateKnows(g)

\* A key whose invoices nothing has disturbed, and one somebody makes an invoice
\* for.
Plain(k) == k \notin raced /\ \A i \in overtaken : invoices[i].key # k
Makes(k) == TaskMakes(k) \/ GatesMake(k) # {}

\* While nothing has interfered, an author has one outstanding invoice, and none
\* while somebody is about to make one.
OpenInv ==
  ~troubled =>
    /\ \A i \in DOMAIN invoices : invoices[i].status # "Expired"
    /\ \A k \in Keys : Plain(k) => \A i, j \in Unpaid(k) : i = j
    /\ \A k \in Keys : Plain(k) /\ Makes(k) => Unpaid(k) = {}

\* Who was admitted or let through has paid.
PayersInv ==
  /\ \A k \in Keys : account[k].admitted => HasPaid(k)
  /\ \A k \in passed : HasPaid(k)

\* The inductive invariant of the payments.
PaymentsInv ==
  /\ TypeInv
  /\ InvoicesInv
  /\ TaskInv
  /\ BehindInv
  /\ GateInv
  /\ OpenInv
  /\ PayersInv

\* The relay starts without accounts and invoices.
LEMMA PaymentsInit == Init => PaymentsInv
<1> SUFFICES ASSUME Init
             PROVE  PaymentsInv
  OBVIOUS
<1>1. TypeInv
  BY TypeInit, TypeInvIsTypeOK
<1>2. /\ DOMAIN invoices = {} /\ task.pc = "idle" /\ passed = {}
      /\ \A g \in Gates : gate[g].pc = "away"
      /\ \A k \in Keys : ~account[k].admitted
  BY DEF Init, Resting, Away
<1> QED
  BY <1>1, <1>2
  DEF PaymentsInv, InvoicesInv, TaskInv, BehindInv, TaskBehind, GateInv, GateKnows, OpenInv, PayersInv, Unpaid

\* The keys of the rows are keys.
LEMMA RowKeys ==
  ASSUME TypeInv
  PROVE  /\ Len(invoices) \in Nat /\ DOMAIN invoices = 1..Len(invoices)
         /\ paid \subseteq DOMAIN invoices /\ overtaken \subseteq DOMAIN invoices
         /\ \A i \in DOMAIN invoices : invoices[i].key \in Keys /\ invoices[i].status \in Statuses
         /\ task \in [pc : PCs, key : Keys \cup {NoKey}, inv : Nat, told : Told]
         /\ \A g \in Gates : gate[g] \in [pc : GatePCs, key : Keys \cup {NoKey}, inv : Nat, told : Told]
         /\ \A i \in DOMAIN invoices : credits[i] \in Nat
<1>1. /\ Len(invoices) \in Nat /\ DOMAIN invoices = 1..Len(invoices)
      /\ paid \subseteq DOMAIN invoices /\ overtaken \subseteq DOMAIN invoices
  BY DEF TypeInv
<1>2. \A i \in DOMAIN invoices : invoices[i].key \in Keys /\ invoices[i].status \in Statuses
  BY <1>1, InvoiceTyped
<1>3. task \in [pc : PCs, key : Keys \cup {NoKey}, inv : Nat, told : Told]
  BY DEF TypeInv, Tasks
<1>4. \A g \in Gates : gate[g] \in [pc : GatePCs, key : Keys \cup {NoKey}, inv : Nat, told : Told]
  BY DEF TypeInv, GateStates
<1>5. \A i \in DOMAIN invoices : credits[i] \in Nat
  BY <1>1 DEF TypeInv
<1> QED
  BY <1>1, <1>2, <1>3, <1>4, <1>5

\* Who keeps its place, or begins afresh, knows what it knew.
TaskStays == task' = task \/ task'.pc \in {"idle", "create", "lookup", "verify"}
GateStays(g) == gate'[g] = gate[g] \/ gate'[g].pc \in {"away", "find", "create", "invoice"}

\* A step that leaves the invoices and their credits alone keeps what is said of
\* them, if nobody is admitted or let through without having paid, and nobody
\* sets out to make an invoice where there is one.
LEMMA TablesStep ==
  ASSUME PaymentsInv, TypeInv', UNCHANGED <<invoices, credits, overtaken, raced>>,
         paid \subseteq paid', troubled => troubled',
         \A k \in Keys : /\ account[k].exists => account'[k].exists
                         /\ account'[k].admitted => account[k].admitted \/ HasPaid(k)
                         /\ Makes(k)' => Makes(k) \/ troubled' \/ Unpaid(k) = {},
         \A k \in passed' : k \in passed \/ (k \in Keys /\ (account[k].admitted \/ HasPaid(k)))
  PROVE  /\ InvoicesInv' /\ OpenInv' /\ PayersInv'
         /\ \A k \in Keys : HasPaid(k) => HasPaid(k)'
         /\ TaskStays => TaskInv' /\ BehindInv'
         /\ \A g \in Gates : GateStays(g) => GateKnows(g)'
<1> USE DEF PaymentsInv
<1>1. \A k : HasPaid(k) => HasPaid(k)'
  BY DEF HasPaid
<1>2. InvoicesInv'
  BY RowKeys DEF InvoicesInv
<1>3. OpenInv'
  <2> SUFFICES ASSUME ~troubled'
               PROVE  /\ \A i \in DOMAIN invoices : invoices[i].status # "Expired"
                      /\ \A k \in Keys : Plain(k) => \A i, j \in Unpaid(k) : i = j
                      /\ \A k \in Keys : Plain(k) /\ Makes(k)' => Unpaid(k) = {}
    BY DEF OpenInv, Plain, Unpaid
  <2> QED
    BY DEF OpenInv
<1>4. PayersInv'
  BY <1>1 DEF PayersInv
<1>5. ASSUME TaskStays
      PROVE  TaskInv' /\ BehindInv'
  <2>1. CASE task' = task
    <3>1. task.pc \in {"reuse", "invoice", "welcome", "admit"} => task.key \in Keys
      BY DEF TypeInv, Tasks
    <3>2. TaskInv'
      BY <1>1, <2>1, <3>1 DEF TaskInv
    <3>3. BehindInv'
      BY <2>1 DEF BehindInv, TaskBehind
    <3> QED
      BY <3>2, <3>3
  <2>2. CASE task'.pc \in {"idle", "create", "lookup", "verify"}
    BY <2>2 DEF TaskInv, BehindInv, TaskBehind
  <2> QED
    BY <1>5, <2>1, <2>2 DEF TaskStays
<1>6. ASSUME NEW g \in Gates, GateStays(g)
      PROVE  GateKnows(g)'
  <2>1. GateKnows(g)
    BY DEF GateInv
  <2>2. CASE gate'[g] = gate[g]
    BY <1>1, <2>1, <2>2 DEF GateKnows
  <2>3. CASE gate'[g].pc \in {"away", "find", "create", "invoice"}
    BY <2>3 DEF GateKnows
  <2> QED
    BY <1>6, <2>2, <2>3 DEF GateStays
<1> QED
  BY <1>1, <1>2, <1>3, <1>4, <1>5, <1>6

\* Recording a status of one invoice that is truthful, or that was overtaken,
\* keeps what is known of the others, and credits it only once.
LEMMA StatusStep ==
  ASSUME PaymentsInv, TypeInv', NEW i \in 1..Len(invoices), NEW s \in Statuses,
         update_invoice(i, s), paid' = paid, raced' = raced, passed' = passed,
         overtaken' \in {overtaken, overtaken \cup {i}},
         s = "Paid" => i \in paid,
         s = "Unpaid" /\ i \notin overtaken => credits[i] = 0 /\ invoices[i].status # "Paid",
         s = "Unpaid" => ~(task' = task),
         s = "Paid" /\ task' = task /\ TaskBehind(i) => i \in overtaken',
         troubled \/ s = "Expired" => troubled',
         \A k \in Keys : Makes(k)' => Makes(k) \/ troubled'
  PROVE  /\ InvoicesInv' /\ OpenInv' /\ PayersInv'
         /\ \A k \in Keys : HasPaid(k) => HasPaid(k)'
         /\ TaskStays => TaskInv' /\ BehindInv'
         /\ \A g \in Gates : GateStays(g) => GateKnows(g)'
<1> USE DEF PaymentsInv
<1>1. /\ TypeOK /\ DOMAIN invoices = 1..Len(invoices) /\ i \in DOMAIN invoices
      /\ paid \subseteq DOMAIN invoices /\ overtaken \subseteq DOMAIN invoices
  BY TypeInvIsTypeOK, RowKeys
<1>2. /\ \A j \in DOMAIN invoices :
           /\ invoices'[j].key = invoices[j].key
           /\ invoices'[j].status = IF j = i THEN s ELSE invoices[j].status
      /\ \A j \in DOMAIN invoices :
           credits'[j] = IF j = i /\ invoices[i].status = "Unpaid" /\ s = "Paid"
                         THEN credits[j] + 1 ELSE credits[j]
      /\ \A k \in Keys : /\ account'[k].exists = account[k].exists
                         /\ account'[k].admitted = account[k].admitted
  BY <1>1, UpdateInvoice
<1>3. DOMAIN invoices' = DOMAIN invoices
  BY DEF update_invoice
<1>4. \A j \in DOMAIN invoices : /\ invoices[j].key \in Keys
                                 /\ invoices[j].status \in Statuses
                                 /\ credits[j] \in Nat
  BY <1>1, RowKeys
<1>5. InvoicesInv'
  <2> SUFFICES ASSUME NEW j \in DOMAIN invoices
               PROVE  /\ credits'[j] > 0 => j \in paid
                      /\ invoices'[j].status = "Paid" => j \in paid
                      /\ j \notin overtaken' => credits'[j] <= 1
                      /\ j \notin overtaken' /\ invoices'[j].status = "Unpaid" => credits'[j] = 0
                      /\ account'[invoices'[j].key].exists
    BY <1>3 DEF InvoicesInv
  <2>1. /\ credits[j] > 0 => j \in paid
        /\ invoices[j].status = "Paid" => j \in paid
        /\ j \notin overtaken => credits[j] <= 1
        /\ j \notin overtaken /\ invoices[j].status = "Unpaid" => credits[j] = 0
        /\ account[invoices[j].key].exists
    BY DEF InvoicesInv
  <2>2. account'[invoices'[j].key].exists
    BY <1>2, <1>4, <2>1
  <2>3. CASE j = i
    BY <1>2, <1>4, <2>1, <2>2, <2>3
  <2>4. CASE j # i
    BY <1>2, <2>1, <2>2, <2>4
  <2> QED
    BY <2>3, <2>4
<1>6. OpenInv'
  <2> SUFFICES ASSUME ~troubled'
               PROVE  /\ \A j \in DOMAIN invoices : invoices'[j].status # "Expired"
                      /\ \A k \in Keys : Plain(k)' => \A j, l \in Unpaid(k)' : j = l
                      /\ \A k \in Keys : Plain(k)' /\ Makes(k)' => Unpaid(k)' = {}
    BY <1>3 DEF OpenInv
  <2>1. ~troubled /\ s # "Expired"
    OBVIOUS
  <2>2. ASSUME NEW k \in Keys, Plain(k)'
        PROVE  Plain(k) /\ Unpaid(k)' \subseteq Unpaid(k)
    <3>1. Plain(k)
      BY <1>1, <1>2, <2>2 DEF Plain
    <3>2. ASSUME NEW j \in Unpaid(k)'
          PROVE  j \in Unpaid(k)
      <4>1. j \in DOMAIN invoices /\ invoices[j].key = k /\ invoices'[j].status = "Unpaid"
        BY <1>2, <1>3 DEF Unpaid
      <4>2. CASE j # i
        BY <1>2, <4>1, <4>2 DEF Unpaid
      <4>3. CASE j = i
        <5>1. s = "Unpaid" /\ i \notin overtaken
          BY <1>2, <3>1, <4>1, <4>3 DEF Plain
        <5>2. invoices[i].status = "Unpaid"
          BY <1>1, <1>4, <2>1, <5>1 DEF OpenInv, Statuses
        <5> QED
          BY <4>1, <4>3, <5>2 DEF Unpaid
      <4> QED
        BY <4>2, <4>3
    <3> QED
      BY <3>1, <3>2
  <2>3. \A j \in DOMAIN invoices : invoices'[j].status # "Expired"
    BY <1>2, <2>1 DEF OpenInv
  <2>4. ASSUME NEW k \in Keys, Plain(k)'
        PROVE  \A j, l \in Unpaid(k)' : j = l
    BY <2>1, <2>2, <2>4 DEF OpenInv
  <2>5. ASSUME NEW k \in Keys, Plain(k)', Makes(k)'
        PROVE  Unpaid(k)' = {}
    <3>1. Makes(k)
      BY <2>5
    <3>2. Unpaid(k) = {}
      BY <2>1, <2>2, <2>5, <3>1 DEF OpenInv
    <3> QED
      BY <2>2, <2>5, <3>2
  <2> QED
    BY <2>3, <2>4, <2>5
<1>7. \A k : HasPaid(k) => HasPaid(k)'
  BY <1>1, <1>2 DEF HasPaid
<1>8. PayersInv'
  BY <1>2, <1>7 DEF PayersInv
<1>9. ASSUME TaskStays
      PROVE  TaskInv' /\ BehindInv'
  <2>1. CASE task' = task
    <3>1. /\ task.pc \in {"reuse", "invoice", "welcome", "admit"} => task.key \in Keys
          /\ task.pc \in {"check", "checked", "verified"} => task.inv \in DOMAIN invoices
      BY <1>1 DEF TypeInv, Tasks
    <3>2. TaskInv'
      BY <1>2, <1>7, <2>1, <3>1 DEF TaskInv
    <3>3. BehindInv'
      <4> SUFFICES ASSUME TaskBehind(task.inv), task.inv \notin overtaken'
                   PROVE  credits'[task.inv] = 0 /\ invoices'[task.inv].status # "Paid"
        BY <2>1 DEF BehindInv, TaskBehind
      <4>1. /\ task.inv \in DOMAIN invoices /\ task.inv \notin overtaken
            /\ credits[task.inv] = 0 /\ invoices[task.inv].status # "Paid"
        BY <3>1 DEF BehindInv, TaskBehind
      <4>2. CASE task.inv = i
        <5>1. s # "Paid"
          BY <2>1, <4>2
        <5> QED
          BY <1>2, <4>1, <5>1
      <4>3. CASE task.inv # i
        BY <1>2, <4>1, <4>3
      <4> QED
        BY <4>2, <4>3
    <3> QED
      BY <3>2, <3>3
  <2>2. CASE task'.pc \in {"idle", "create", "lookup", "verify"}
    BY <2>2 DEF TaskInv, BehindInv, TaskBehind
  <2> QED
    BY <1>9, <2>1, <2>2 DEF TaskStays
<1>10. ASSUME NEW g \in Gates, GateStays(g)
       PROVE  GateKnows(g)'
  <2>1. GateKnows(g)
    BY DEF GateInv
  <2>2. CASE gate'[g] = gate[g]
    <3>1. gate[g].pc \in {"ask", "told"} => gate[g].inv \in DOMAIN invoices
      BY <1>1 DEF TypeInv, GateStates
    <3> QED
      BY <1>2, <1>7, <2>1, <2>2, <3>1 DEF GateKnows
  <2>3. CASE gate'[g].pc \in {"away", "find", "create", "invoice"}
    BY <2>3 DEF GateKnows
  <2> QED
    BY <1>10, <2>2, <2>3 DEF GateStays
<1> QED
  BY <1>5, <1>6, <1>7, <1>8, <1>9, <1>10

\* A new invoice keeps the invariant: its maker saw that there was none, and if
\* somebody else saw the same the key is counted as raced.
LEMMA RecordStep ==
  ASSUME PaymentsInv, TypeInv', NEW k \in Keys, NEW a \in Nat, NEW b,
         create_invoice_record(k, a, b),
         UNCHANGED <<account, paid, overtaken, passed>>, troubled => troubled',
         Makes(k), Makes(k)' => b,
         \A j \in Keys : j # k /\ Makes(j)' => Makes(j)
  PROVE  /\ InvoicesInv' /\ OpenInv' /\ PayersInv'
         /\ TaskStays => TaskInv' /\ BehindInv'
         /\ \A g \in Gates : GateStays(g) => GateKnows(g)'
<1> USE DEF PaymentsInv
<1> DEFINE n == Len(invoices)
<1>1. /\ n \in Nat /\ DOMAIN invoices = 1..n
      /\ paid \subseteq 1..n /\ overtaken \subseteq 1..n
      /\ \A i \in 1..n : i # n + 1
      /\ \A i \in 1..(n + 1) : i \in 1..n \/ i = n + 1
  <2>1. n \in Nat /\ DOMAIN invoices = 1..n /\ paid \subseteq 1..n /\ overtaken \subseteq 1..n
    BY RowKeys
  <2> HIDE DEF n
  <2> QED
    BY <2>1
<1>2. /\ DOMAIN invoices' = 1..(n + 1)
      /\ \A i \in 1..n : invoices'[i] = invoices[i] /\ credits'[i] = credits[i]
      /\ invoices'[n + 1].key = k /\ invoices'[n + 1].status = "Unpaid"
      /\ credits'[n + 1] = 0
  BY <1>1 DEF TypeInv, create_invoice_record
<1>3. account[k].exists /\ raced \subseteq raced' /\ (b => k \in raced')
  BY DEF create_invoice_record
<1> HIDE DEF n
<1>4. InvoicesInv'
  <2> SUFFICES ASSUME NEW i \in 1..(n + 1)
               PROVE  /\ credits'[i] > 0 => i \in paid
                      /\ invoices'[i].status = "Paid" => i \in paid
                      /\ i \notin overtaken => credits'[i] <= 1
                      /\ i \notin overtaken /\ invoices'[i].status = "Unpaid" => credits'[i] = 0
                      /\ account[invoices'[i].key].exists
    BY <1>2 DEF InvoicesInv
  <2>1. CASE i = n + 1
    BY <1>2, <1>3, <2>1
  <2>2. CASE i \in 1..n
    BY <1>1, <1>2, <2>2 DEF InvoicesInv
  <2> QED
    BY <1>1, <2>1, <2>2
<1>5. OpenInv'
  <2> SUFFICES ASSUME ~troubled'
               PROVE  /\ \A i \in 1..(n + 1) : invoices'[i].status # "Expired"
                      /\ \A j \in Keys : Plain(j)' => \A i, l \in Unpaid(j)' : i = l
                      /\ \A j \in Keys : Plain(j)' /\ Makes(j)' => Unpaid(j)' = {}
    BY <1>2 DEF OpenInv
  <2>1. ~troubled
    OBVIOUS
  <2>2. \A i \in 1..(n + 1) : invoices'[i].status # "Expired"
    BY <1>1, <1>2, <2>1 DEF OpenInv
  <2>3. \A j \in Keys : Plain(j)' => Plain(j)
    BY <1>1, <1>2, <1>3 DEF Plain
  <2>4. ASSUME NEW j \in Keys, j # k
        PROVE  Unpaid(j)' \subseteq Unpaid(j)
    BY <1>1, <1>2, <2>4 DEF Unpaid
  <2>5. ASSUME NEW j \in Keys, Plain(j)'
        PROVE  \A i, l \in Unpaid(j)' : i = l
    <3>1. CASE j = k
      <4>1. Unpaid(k) = {}
        BY <2>1, <2>3, <2>5, <3>1 DEF OpenInv
      <4>2. \A i \in Unpaid(k)' : i = n + 1
        <5>1. ASSUME NEW i \in 1..n, invoices'[i].key = k, invoices'[i].status = "Unpaid"
              PROVE  FALSE
          BY <1>1, <1>2, <4>1, <5>1 DEF Unpaid
        <5> QED
          BY <1>1, <1>2, <5>1 DEF Unpaid
      <4> QED
        BY <3>1, <4>2
    <3>2. CASE j # k
      BY <2>1, <2>3, <2>4, <2>5, <3>2 DEF OpenInv
    <3> QED
      BY <3>1, <3>2
  <2>6. ASSUME NEW j \in Keys, Plain(j)', Makes(j)'
        PROVE  Unpaid(j)' = {}
    <3>1. j # k
      BY <1>3, <2>6 DEF Plain
    <3>2. Makes(j) /\ Plain(j)
      BY <2>3, <2>6, <3>1
    <3>3. Unpaid(j) = {}
      BY <2>1, <3>2 DEF OpenInv
    <3> QED
      BY <2>4, <3>1, <3>3
  <2> QED
    BY <2>2, <2>5, <2>6
<1>6. \A j : HasPaid(j) => HasPaid(j)'
  BY <1>1, <1>2 DEF HasPaid
<1>7. PayersInv'
  BY <1>6 DEF PayersInv
<1>8. ASSUME TaskStays
      PROVE  TaskInv' /\ BehindInv'
  <2>1. CASE task' = task
    <3>1. /\ task.pc \in {"reuse", "invoice", "welcome", "admit"} => task.key \in Keys
          /\ task.pc \in {"check", "checked", "verified"} => task.inv \in 1..n
      BY DEF TypeInv, Tasks, n
    <3>2. TaskInv'
      BY <1>2, <1>6, <2>1, <3>1 DEF TaskInv
    <3>3. BehindInv'
      BY <1>2, <2>1, <3>1 DEF BehindInv, TaskBehind
    <3> QED
      BY <3>2, <3>3
  <2>2. CASE task'.pc \in {"idle", "create", "lookup", "verify"}
    BY <2>2 DEF TaskInv, BehindInv, TaskBehind
  <2> QED
    BY <1>8, <2>1, <2>2 DEF TaskStays
<1>9. ASSUME NEW g \in Gates, GateStays(g)
      PROVE  GateKnows(g)'
  <2>1. GateKnows(g)
    BY DEF GateInv
  <2>2. CASE gate'[g] = gate[g]
    <3>1. gate[g].pc \in {"ask", "told"} => gate[g].inv \in 1..n
      BY DEF TypeInv, GateStates, n
    <3> QED
      BY <1>2, <1>6, <2>1, <2>2, <3>1 DEF GateKnows
  <2>3. CASE gate'[g].pc \in {"away", "find", "create", "invoice"}
    BY <2>3 DEF GateKnows
  <2> QED
    BY <1>9, <2>2, <2>3 DEF GateStays
<1> QED
  BY <1>4, <1>5, <1>7, <1>8, <1>9

\* Who makes invoices, when the task or one handler moves.
LEMMA TaskMakers ==
  ASSUME gate' = gate, task'.pc # "invoice"
  PROVE  \A k : Makes(k)' => Makes(k)
BY DEF Makes, TaskMakes, GatesMake

LEMMA GateMakers ==
  ASSUME TypeInv, NEW g \in Gates, NEW q, gate' = [gate EXCEPT ![g] = q], task' = task
  PROVE  /\ gate'[g] = q /\ \A h \in Gates \ {g} : gate'[h] = gate[h]
         /\ q.pc \notin {"create", "invoice"} => \A k : Makes(k)' => Makes(k)
         /\ q.key = gate[g].key => \A k : Makes(k)' => Makes(k) \/ k = gate[g].key
         /\ q.key = gate[g].key /\ gate[g].pc \in {"create", "invoice"} =>
              \A k : Makes(k)' => Makes(k)
<1>1. gate'[g] = q /\ \A h \in Gates \ {g} : gate'[h] = gate[h]
  BY DEF TypeInv
<1>2. \A k : Makes(k)' => Makes(k) \/ (q.pc \in {"create", "invoice"} /\ q.key = k)
  BY <1>1 DEF Makes, TaskMakes, GatesMake
<1>3. gate[g].pc \in {"create", "invoice"} => Makes(gate[g].key)
  BY DEF Makes, GatesMake
<1> QED
  BY <1>1, <1>2, <1>3

\* Trouble is remembered when the task answers.
LEMMA AnswerTrouble == \A t : Answer(t) => (troubled \/ t => troubled')
BY Zenon DEF Answer, Put

\* A step of the task that leaves the tables alone and puts it where it knows
\* nothing special keeps the invariant.
LEMMA QuietStep ==
  ASSUME PaymentsInv, TypeInv', UNCHANGED <<invoices, credits, overtaken, raced, passed>>,
         \A k \in Keys : /\ account'[k].exists = account[k].exists
                         /\ account'[k].admitted = account[k].admitted,
         paid \subseteq paid', troubled => troubled',
         TaskStays, gate' = gate \/ \A g \in Gates : gate'[g] = Away
  PROVE  PaymentsInv'
<1>1. \A k : Makes(k)' => Makes(k)
  <2>1. \A k : TaskMakes(k)' => TaskMakes(k)
    BY DEF TaskMakes, TaskStays
  <2>2. \A k : GatesMake(k)' \subseteq GatesMake(k)
    BY DEF GatesMake, Away
  <2> QED
    BY <2>1, <2>2 DEF Makes
<1>2. \A g \in Gates : GateStays(g)
  BY DEF GateStays, Away
<1>3. \A k \in passed' : k \in passed \/ (k \in Keys /\ (account[k].admitted \/ HasPaid(k)))
  OBVIOUS
<1>4. /\ InvoicesInv' /\ OpenInv' /\ PayersInv' /\ TaskInv' /\ BehindInv'
      /\ \A g \in Gates : GateKnows(g)'
  BY <1>1, <1>2, <1>3, TablesStep
<1> QED
  BY <1>4 DEF PaymentsInv, GateInv

\* The steps of the payment task keep the invariant.
LEMMA TaskStep == PaymentsInv /\ TypeInv' /\ Task => PaymentsInv'
<1> SUFFICES ASSUME PaymentsInv, TypeInv', Task
             PROVE  PaymentsInv'
  OBVIOUS
<1> USE DEF PaymentsInv, names
<1>1. /\ Len(invoices) \in Nat /\ DOMAIN invoices = 1..Len(invoices)
      /\ paid \subseteq DOMAIN invoices
      /\ \A i \in DOMAIN invoices : invoices[i].key \in Keys /\ invoices[i].status \in Statuses
      /\ task \in [pc : PCs, key : Keys \cup {NoKey}, inv : Nat, told : Told]
  BY RowKeys
<1>2. gate' = gate /\ passed' = passed /\ overtaken' = overtaken
  BY DEF Task, receive, create_account, reuse_invoice, create_invoice, lookup_invoice,
         ask_processor, checked, verified, confirm, admit_account
<1>3. \A g \in Gates : GateStays(g)
  BY <1>2 DEF GateStays
<1>4. CASE receive
  <2>1. Head(chan) \in Messages(Len(invoices))
    BY <1>4 DEF receive, TypeInv
  <2>2. task'.pc \in {"idle", "create", "lookup", "verify"}
    BY <1>4, <2>1 DEF receive, Messages, First
  <2> QED
    BY <1>2, <1>4, <2>2, QuietStep DEF receive, db, TaskStays
<1>5. CASE create_account
  <2>1. task.key \in Keys
    BY <1>5 DEF create_account, TypeInv, Tasks
  <2>2. \A k \in Keys : /\ account'[k].exists = (account[k].exists \/ k = task.key)
                        /\ account'[k].admitted = account[k].admitted
    BY <1>5, <2>1 DEF create_account, TypeInv
  <2>3. /\ task'.key = task.key
        /\ task'.pc = IF account[task.key].exists THEN "reuse" ELSE "invoice"
    BY <1>1, <1>5 DEF create_account
  <2>4. UNCHANGED <<invoices, credits, paid, troubled, raced>>
    BY <1>5 DEF create_account
  <2>5. ~account[task.key].exists => Unpaid(task.key) = {}
    BY DEF InvoicesInv, Unpaid
  <2>6. \A k \in Keys : Makes(k)' => Makes(k) \/ Unpaid(k) = {}
    BY <1>2, <2>3, <2>5 DEF Makes, TaskMakes, GatesMake
  <2>7. /\ InvoicesInv' /\ OpenInv' /\ PayersInv'
        /\ \A g \in Gates : GateKnows(g)'
    BY <1>2, <1>3, <2>2, <2>4, <2>6, TablesStep
  <2>8. TaskInv' /\ BehindInv'
    BY <2>1, <2>2, <2>3 DEF TaskInv, BehindInv, TaskBehind
  <2> QED
    BY <2>7, <2>8 DEF GateInv
<1>6. CASE reuse_invoice
  <2>1. UNCHANGED <<account, invoices, credits, paid, raced>>
    BY <1>6 DEF reuse_invoice, db
  <2>2. troubled => troubled'
    BY <1>6, AnswerTrouble DEF reuse_invoice
  <2>3. CASE task' = Resting
    BY <1>2, <2>1, <2>2, <2>3, QuietStep DEF Resting, TaskStays
  <2>4. CASE task' = [task EXCEPT !.pc = "invoice"]
    <3>1. task'.pc = "invoice" /\ task'.key = task.key /\ account[task.key].exists
      BY <1>1, <1>6, <2>4 DEF reuse_invoice, TaskInv
    <3>2. troubled' \/ Unpaid(task.key) = {}
      <4>1. task' # Resting
        BY <3>1 DEF Resting
      <4> QED
        BY <1>6, <4>1 DEF reuse_invoice
    <3>3. \A k \in Keys : Makes(k)' => Makes(k) \/ troubled' \/ Unpaid(k) = {}
      BY <1>2, <3>1, <3>2 DEF Makes, TaskMakes, GatesMake
    <3>4. /\ InvoicesInv' /\ OpenInv' /\ PayersInv'
          /\ \A g \in Gates : GateKnows(g)'
      BY <1>2, <1>3, <2>1, <2>2, <3>3, TablesStep
    <3>5. TaskInv' /\ BehindInv'
      BY <2>1, <3>1 DEF TaskInv, BehindInv, TaskBehind
    <3> QED
      BY <3>4, <3>5 DEF GateInv
  <2> QED
    BY <1>6, <2>3, <2>4 DEF reuse_invoice
<1>7. CASE create_invoice
  <2>1. task' = Resting /\ UNCHANGED <<account, paid>> /\ task.key \in Keys
    BY <1>7 DEF create_invoice, TypeInv, Tasks
  <2>2. CASE UNCHANGED <<invoices, credits, raced, chan, troubled>>
    BY <1>2, <2>1, <2>2, QuietStep DEF Resting, TaskStays
  <2>3. CASE /\ create_invoice_record(task.key, AdmissionCost, GatesMake(task.key) # {})
             /\ Answer(FALSE) \/ troubled' = TRUE
    <3>1. AdmissionCost \in Nat /\ Makes(task.key) /\ (troubled => troubled') /\ TaskStays
      <4>1. AdmissionCost \in Nat /\ Makes(task.key) /\ TaskStays
        BY <1>7, <2>1, PaymentsAssumption DEF create_invoice, Makes, TaskMakes, TaskStays, Resting
      <4>2. troubled => troubled'
        BY <2>3, AnswerTrouble
      <4> QED
        BY <4>1, <4>2
    <3>2. /\ \A k : Makes(k)' => GatesMake(k) # {}
          /\ \A k : GatesMake(k) # {} => Makes(k)
      BY <1>2, <2>1 DEF Makes, TaskMakes, GatesMake, Resting
    <3>3. /\ InvoicesInv' /\ OpenInv' /\ PayersInv' /\ TaskInv' /\ BehindInv'
          /\ \A g \in Gates : GateKnows(g)'
      BY <1>2, <1>3, <2>1, <2>3, <3>1, <3>2, RecordStep
    <3> QED
      BY <3>3 DEF GateInv
  <2> QED
    BY <1>7, <2>2, <2>3 DEF create_invoice
<1>8. CASE lookup_invoice
  <2>1. UNCHANGED <<account, invoices, credits, paid, raced>> /\ (troubled => troubled')
    BY <1>8 DEF lookup_invoice, db
  <2>2. CASE task' = [task EXCEPT !.pc = "create"]
    <3>1. TaskStays
      BY <1>1, <2>2 DEF TaskStays
    <3> QED
      BY <1>2, <2>1, <3>1, QuietStep
  <2>3. CASE /\ Unpaid(task.key) # {}
             /\ task' = [task EXCEPT !.pc = "check", !.inv = Newest(Unpaid(task.key))]
    <3>1. invoices[Newest(Unpaid(task.key))].key = task.key
      BY <2>3, NewestUnpaid
    <3>2. /\ task'.pc = "check" /\ task'.key = task.key
          /\ task'.inv = Newest(Unpaid(task.key))
      BY <1>1, <2>3
    <3>3. TaskInv' /\ BehindInv'
      BY <2>1, <3>1, <3>2 DEF TaskInv, BehindInv, TaskBehind
    <3>4. \A k : Makes(k)' => Makes(k)
      BY <1>2, <3>2, TaskMakers
    <3>5. /\ InvoicesInv' /\ OpenInv' /\ PayersInv'
          /\ \A g \in Gates : GateKnows(g)'
      BY <1>2, <1>3, <2>1, <3>4, TablesStep
    <3> QED
      BY <3>3, <3>5 DEF GateInv
  <2> QED
    BY <1>8, <2>2, <2>3 DEF lookup_invoice
<1>9. CASE ask_processor
  <2>1. UNCHANGED <<account, invoices, credits, paid, raced, troubled>>
    BY <1>9 DEF ask_processor, db
  <2>2. /\ task.pc \in {"check", "verify"} /\ task.inv \in DOMAIN invoices
        /\ task'.pc = IF task.pc = "check" THEN "checked" ELSE "verified"
        /\ task'.key = task.key /\ task'.inv = task.inv /\ task'.told \in Answers(task.inv)
    BY <1>1, <1>9, TaskIsTold DEF ask_processor, TypeInv, Tasks
  <2>3. /\ task'.told = "Paid" => task.inv \in paid
        /\ task'.told = "Unpaid" => task.inv \notin paid
    BY <2>2 DEF Answers
  <2>4. TaskInv'
    BY <2>1, <2>2, <2>3 DEF TaskInv
  <2>5. BehindInv'
    <3> SUFFICES ASSUME task'.told = "Unpaid", task.inv \notin overtaken
                 PROVE  credits[task.inv] = 0 /\ invoices[task.inv].status # "Paid"
      BY <1>2, <2>1, <2>2 DEF BehindInv, TaskBehind
    <3>1. credits[task.inv] \in Nat
      BY <2>2, RowKeys
    <3> QED
      BY <2>2, <2>3, <3>1 DEF InvoicesInv
  <2>6. \A k : Makes(k)' => Makes(k)
    BY <1>2, <2>2, TaskMakers
  <2>7. /\ InvoicesInv' /\ OpenInv' /\ PayersInv'
        /\ \A g \in Gates : GateKnows(g)'
    BY <1>2, <1>3, <2>1, <2>6, TablesStep
  <2> QED
    BY <2>4, <2>5, <2>7 DEF GateInv
<1>10. ASSUME task.pc \in {"checked", "verified"},
              update_invoice(task.inv, task.told), UNCHANGED <<paid, raced>>,
              troubled \/ task.told = "Expired" => troubled',
              IF task.told = "Paid" THEN task' = [task EXCEPT !.pc = IF @ = "checked" THEN "welcome" ELSE "confirm"]
                                    ELSE task' = Resting
       PROVE  PaymentsInv'
  <2>1. task.inv \in 1..Len(invoices) /\ task.told \in Statuses
    BY <1>10 DEF TypeInv, Tasks
  <2>2. /\ task.told = "Paid" => task.inv \in paid
        /\ task.told = "Unpaid" /\ task.inv \notin overtaken =>
             credits[task.inv] = 0 /\ invoices[task.inv].status # "Paid"
    BY <1>10 DEF TaskInv, BehindInv, TaskBehind
  <2>3. /\ task.told = "Paid" => /\ task'.pc = IF task.pc = "checked" THEN "welcome" ELSE "confirm"
                                 /\ task'.key = task.key /\ task'.inv = task.inv
        /\ task.told # "Paid" => task'.pc = "idle"
    BY <1>1, <1>10 DEF Resting
  <2>4. task' # task /\ task'.pc # "invoice"
    BY <1>10, <2>3
  <2>5. \A k : Makes(k)' => Makes(k)
    BY <1>2, <2>4, TaskMakers
  <2>6. /\ InvoicesInv' /\ OpenInv' /\ PayersInv'
        /\ \A k \in Keys : HasPaid(k) => HasPaid(k)'
        /\ \A g \in Gates : GateKnows(g)'
    BY <1>2, <1>3, <1>10, <2>1, <2>2, <2>4, <2>5, StatusStep
  <2>7. TaskInv' /\ BehindInv'
    <3>1. CASE task.told # "Paid"
      BY <2>3, <3>1 DEF TaskInv, BehindInv, TaskBehind
    <3>2. CASE task.told = "Paid" /\ task.pc = "checked"
      <4>1. invoices[task.inv].key = task.key /\ task.key \in Keys
        BY <3>2 DEF TaskInv, TypeInv, Tasks
      <4>2. HasPaid(task.key)
        BY <2>2, <3>2, <4>1 DEF HasPaid
      <4>3. PICK k \in Keys : k = task.key
        BY <4>1
      <4>4. HasPaid(k)'
        BY <2>6, <4>2, <4>3
      <4> QED
        BY <2>3, <3>2, <4>3, <4>4 DEF TaskInv, BehindInv, TaskBehind, HasPaid
    <3>3. CASE task.told = "Paid" /\ task.pc = "verified"
      BY <1>10, <2>2, <2>3, <3>3 DEF TaskInv, BehindInv, TaskBehind
    <3> QED
      BY <1>10, <3>1, <3>2, <3>3
  <2> QED
    BY <2>6, <2>7 DEF GateInv
<1>11. CASE checked
  <2>1. troubled \/ task.told = "Expired" => troubled'
    BY <1>11, AnswerTrouble DEF checked
  <2>2. UNCHANGED <<paid, raced>> /\ update_invoice(task.inv, task.told) /\ task.pc = "checked"
    BY <1>11 DEF checked
  <2>3. IF task.told = "Paid" THEN task' = [task EXCEPT !.pc = IF @ = "checked" THEN "welcome" ELSE "confirm"]
                              ELSE task' = Resting
    BY <1>11 DEF checked
  <2> QED
    BY <1>10, <2>1, <2>2, <2>3
<1>12. CASE verified
  <2>1. troubled \/ task.told = "Expired" => troubled'
    BY <1>12 DEF verified
  <2>2. UNCHANGED <<paid, raced>> /\ update_invoice(task.inv, task.told) /\ task.pc = "verified"
    BY <1>12 DEF verified
  <2>3. IF task.told = "Paid" THEN task' = [task EXCEPT !.pc = IF @ = "checked" THEN "welcome" ELSE "confirm"]
                              ELSE task' = Resting
    BY <1>12 DEF verified
  <2> QED
    BY <1>10, <2>1, <2>2, <2>3
<1>13. CASE confirm
  <2>1. task.inv \in 1..Len(invoices) /\ task.inv \in paid
    BY <1>13 DEF confirm, TypeInv, Tasks, TaskInv
  <2>2. /\ paid' = paid /\ troubled' = troubled /\ raced' = raced
        /\ update_invoice(task.inv, "Paid") /\ "Paid" \in Statuses
    BY <1>13 DEF confirm, Statuses
  <2>3. task'.pc = "admit" /\ task'.key = invoices[task.inv].key /\ task.pc = "confirm"
    BY <1>1, <1>13 DEF confirm
  <2>4. \A k : Makes(k)' => Makes(k)
    BY <1>2, <2>3, TaskMakers
  <2>5. task' # task
    BY <2>3
  <2>6. /\ InvoicesInv' /\ OpenInv' /\ PayersInv'
        /\ \A k \in Keys : HasPaid(k) => HasPaid(k)'
        /\ \A g \in Gates : GateKnows(g)'
    BY <1>2, <1>3, <2>1, <2>2, <2>4, <2>5, StatusStep
  <2>7. TaskInv' /\ BehindInv'
    <3>1. PICK k \in Keys : k = invoices[task.inv].key
      BY <1>1, <2>1
    <3>2. HasPaid(k)
      BY <2>1, <3>1 DEF HasPaid
    <3>3. HasPaid(k)'
      BY <2>6, <3>2
    <3> QED
      BY <2>3, <3>1, <3>3 DEF TaskInv, BehindInv, TaskBehind, HasPaid
  <2> QED
    BY <2>6, <2>7 DEF GateInv
<1>14. CASE admit_account
  <2>1. task.key \in Keys /\ HasPaid(task.key)
    BY <1>14 DEF admit_account, TypeInv, Tasks, TaskInv
  <2>2. UNCHANGED <<invoices, credits, paid, raced>> /\ task' = Resting /\ (troubled => troubled')
    <3>1. Answer(FALSE) \/ UNCHANGED troubled
      BY <1>14 DEF admit_account
    <3>2. troubled => troubled'
      BY <3>1, AnswerTrouble
    <3> QED
      BY <1>14, <3>2 DEF admit_account
  <2>3. \A k \in Keys : /\ account'[k].exists = account[k].exists
                        /\ account'[k].admitted = (account[k].admitted \/ k = task.key)
    BY <1>14, <2>1 DEF admit_account, TypeInv
  <2>4. TaskStays /\ task'.pc # "invoice"
    BY <2>2 DEF TaskStays, Resting
  <2>5. \A k : Makes(k)' => Makes(k)
    BY <1>2, <2>4, TaskMakers
  <2>6. /\ InvoicesInv' /\ OpenInv' /\ PayersInv' /\ TaskInv' /\ BehindInv'
        /\ \A g \in Gates : GateKnows(g)'
    BY <1>2, <1>3, <2>1, <2>2, <2>3, <2>4, <2>5, TablesStep
  <2> QED
    BY <2>6 DEF GateInv
<1> QED
  BY <1>4, <1>5, <1>6, <1>7, <1>8, <1>9, <1>11, <1>12, <1>13, <1>14 DEF Task

\* The steps of the paid gate keep the invariant.
LEMMA GateStep == ASSUME PaymentsInv, TypeInv', NEW g \in Gates, Gate(g) PROVE PaymentsInv'
<1> USE DEF PaymentsInv, db, atgate
<1> DEFINE r == gate[g]
<1>1. /\ Len(invoices) \in Nat /\ DOMAIN invoices = 1..Len(invoices)
      /\ r \in [pc : GatePCs, key : Keys \cup {NoKey}, inv : Nat, told : Told]
      /\ r \in GateStates(Len(invoices))
  BY RowKeys DEF TypeInv
<1>2. task' = task /\ paid' = paid /\ TaskStays
  BY DEF Gate, paid_gate, gate_find, gate_ask, gate_told, gate_create, new_invoice, gate_admit,
         gate_abandon, TaskStays
<1>3. ASSUME NEW q, gate' = [gate EXCEPT ![g] = q]
      PROVE  /\ gate'[g] = q
             /\ \A h \in Gates : h # g => GateStays(h)
             /\ q.pc \in {"away", "find", "create", "invoice"} => GateStays(g)
  BY <1>2, <1>3, GateMakers DEF GateStays
<1>4. ASSUME \A h \in Gates : h # g => GateKnows(h)', GateKnows(g)',
             InvoicesInv', OpenInv', PayersInv', TaskInv', BehindInv'
      PROVE  PaymentsInv'
  BY <1>4 DEF GateInv
<1>5. ASSUME NEW k \in Keys, paid_gate(g, k)
      PROVE  PaymentsInv'
  <2>1. UNCHANGED <<account, invoices, credits, overtaken, raced, troubled>>
    BY <1>5 DEF paid_gate
  <2>2. \A j \in passed' : j \in passed \/ (j \in Keys /\ (account[j].admitted \/ HasPaid(j)))
    BY <1>5 DEF paid_gate
  <2>4. (\A j : Makes(j)' => Makes(j)) /\ \A h \in Gates : GateStays(h)
    <3>1. CASE UNCHANGED gate
      BY <1>2, <3>1 DEF Makes, TaskMakes, GatesMake, GateStays
    <3>2. CASE gate' = [gate EXCEPT ![g] = [Away EXCEPT !.pc = "find", !.key = k]]
      <4> DEFINE q == [Away EXCEPT !.pc = "find", !.key = k]
      <4>1. q.pc = "find"
        BY DEF Away
      <4> HIDE DEF q
      <4>2. gate' = [gate EXCEPT ![g] = q]
        BY <3>2 DEF q
      <4>3. \A j : Makes(j)' => Makes(j)
        BY <1>2, <4>1, <4>2, GateMakers
      <4>4. \A h \in Gates : GateStays(h)
        BY <1>3, <4>1, <4>2
      <4> QED
        BY <4>3, <4>4
    <3> QED
      BY <1>5, <3>1, <3>2 DEF paid_gate
  <2>6. /\ InvoicesInv' /\ OpenInv' /\ PayersInv' /\ TaskInv' /\ BehindInv'
        /\ \A h \in Gates : GateKnows(h)'
    BY <1>2, <2>1, <2>2, <2>4, TablesStep
  <2> QED
    BY <2>6 DEF GateInv
<1>6. CASE gate_find(g)
  <2>1. /\ UNCHANGED <<account, invoices, credits, overtaken, raced, passed>>
        /\ troubled => troubled'
        /\ r.pc = "find"
    BY <1>6 DEF gate_find
  <2>2. CASE /\ Unpaid(r.key) # {}
             /\ gate' = [gate EXCEPT ![g].pc = "ask", ![g].inv = Newest(Unpaid(r.key))]
    <3> DEFINE q == [gate[g] EXCEPT !.pc = "ask", !.inv = Newest(Unpaid(r.key))]
    <3>1. gate' = [gate EXCEPT ![g] = q]
      BY <2>2, GateEntry
    <3>2. q.pc = "ask" /\ q.key = r.key /\ q.inv = Newest(Unpaid(r.key))
      BY <1>1
    <3>3. invoices[Newest(Unpaid(r.key))].key = r.key
      BY <2>2, NewestUnpaid
    <3> HIDE DEF q
    <3>4. \A j : Makes(j)' => Makes(j)
      BY <1>2, <3>1, <3>2, GateMakers
    <3>5. GateKnows(g)'
      BY <1>3, <2>1, <3>1, <3>2, <3>3 DEF GateKnows
    <3>6. /\ InvoicesInv' /\ OpenInv' /\ PayersInv' /\ TaskInv' /\ BehindInv'
          /\ \A h \in Gates : h # g => GateKnows(h)'
      BY <1>2, <1>3, <2>1, <3>1, <3>4, TablesStep
    <3> QED
      BY <1>4, <3>5, <3>6
  <2>3. CASE Goes(g, "create") /\ (Unpaid(r.key) = {} \/ troubled')
    <3> DEFINE q == [gate[g] EXCEPT !.pc = "create"]
    <3>1. gate' = [gate EXCEPT ![g] = q]
      BY <2>3, GateEntry
    <3>2. q.pc = "create" /\ q.key = r.key
      BY <1>1
    <3> HIDE DEF q
    <3>3. \A j : Makes(j)' => Makes(j) \/ troubled' \/ Unpaid(j) = {}
      BY <1>2, <2>3, <3>1, <3>2, GateMakers
    <3>4. \A h \in Gates : GateStays(h)
      BY <1>3, <3>1, <3>2
    <3>5. /\ InvoicesInv' /\ OpenInv' /\ PayersInv' /\ TaskInv' /\ BehindInv'
          /\ \A h \in Gates : GateKnows(h)'
      BY <1>2, <2>1, <3>3, <3>4, TablesStep
    <3> QED
      BY <3>5 DEF GateInv
  <2> QED
    BY <1>6, <2>2, <2>3 DEF gate_find
<1>7. CASE gate_ask(g)
  <2>1. UNCHANGED <<account, invoices, credits, overtaken, raced, passed, troubled>> /\ r.pc = "ask"
    BY <1>7 DEF gate_ask
  <2>2. PICK s \in Answers(r.inv) : gate' = [gate EXCEPT ![g].pc = "told", ![g].told = s]
    BY <1>7 DEF gate_ask
  <2> DEFINE q == [gate[g] EXCEPT !.pc = "told", !.told = s]
  <2>3. gate' = [gate EXCEPT ![g] = q]
    BY <2>2, GateEntry
  <2>4. q.pc = "told" /\ q.key = r.key /\ q.inv = r.inv /\ q.told = s
    BY <1>1
  <2>5. s = "Paid" => r.inv \in paid
    BY <2>2 DEF Answers
  <2>6. invoices[r.inv].key = r.key
    BY <2>1 DEF GateInv, GateKnows
  <2> HIDE DEF q
  <2>7. GateKnows(g)'
    BY <1>2, <1>3, <2>1, <2>3, <2>4, <2>5, <2>6 DEF GateKnows
  <2>8. \A j : Makes(j)' => Makes(j)
    BY <1>2, <2>3, <2>4, GateMakers
  <2>9. /\ InvoicesInv' /\ OpenInv' /\ PayersInv' /\ TaskInv' /\ BehindInv'
        /\ \A h \in Gates : h # g => GateKnows(h)'
    BY <1>2, <1>3, <2>1, <2>3, <2>8, TablesStep
  <2> QED
    BY <1>4, <2>7, <2>9
<1>8. CASE gate_told(g)
  <2>1. /\ UNCHANGED <<raced, passed>> /\ r.pc = "told" /\ r.inv \in 1..Len(invoices)
        /\ r.key \in Keys /\ invoices[r.inv].key = r.key
    BY <1>1, <1>8 DEF gate_told, GateStates, GateInv, GateKnows
  <2>2. CASE /\ r.told = "Paid" /\ update_invoice(r.inv, "Paid") /\ Goes(g, "admit")
             /\ overtaken' = IF TaskBehind(r.inv) THEN overtaken \cup {r.inv} ELSE overtaken
             /\ UNCHANGED troubled
    <3> DEFINE q == [gate[g] EXCEPT !.pc = "admit"]
    <3>1. gate' = [gate EXCEPT ![g] = q]
      BY <2>2, GateEntry
    <3>2. q.pc = "admit" /\ q.key = r.key
      BY <1>1
    <3> HIDE DEF q
    <3>3. "Paid" \in Statuses /\ r.inv \in paid
      BY <2>1, <2>2 DEF Statuses, GateInv, GateKnows
    <3>4. \A j : Makes(j)' => Makes(j)
      BY <1>2, <3>1, <3>2, GateMakers
    <3>5. overtaken' \in {overtaken, overtaken \cup {r.inv}} /\ (TaskBehind(r.inv) => r.inv \in overtaken')
      BY <2>2
    <3>6. /\ InvoicesInv' /\ OpenInv' /\ PayersInv' /\ TaskInv' /\ BehindInv'
          /\ \A k \in Keys : HasPaid(k) => HasPaid(k)'
          /\ \A h \in Gates : h # g => GateKnows(h)'
      BY <1>2, <1>3, <2>1, <2>2, <3>1, <3>3, <3>4, <3>5, StatusStep
    <3>7. GateKnows(g)'
      <4>1. PICK k \in Keys : k = r.key
        BY <2>1
      <4>2. HasPaid(k)
        BY <2>1, <3>3, <4>1 DEF HasPaid
      <4>3. HasPaid(k)'
        BY <3>6, <4>2
      <4> QED
        BY <1>3, <3>1, <3>2, <4>1, <4>3 DEF GateKnows, HasPaid
    <3> QED
      BY <1>4, <3>6, <3>7
  <2>3. CASE Leaves(g) /\ UNCHANGED <<account, invoices, credits>> /\ UNCHANGED <<troubled, overtaken>>
    <3>1. gate' = [gate EXCEPT ![g] = Away] /\ Away.pc = "away"
      BY <2>3 DEF Leaves, Away
    <3>2. \A j : Makes(j)' => Makes(j)
      BY <1>2, <3>1, GateMakers
    <3>3. \A h \in Gates : GateStays(h)
      BY <1>3, <3>1
    <3>4. /\ InvoicesInv' /\ OpenInv' /\ PayersInv' /\ TaskInv' /\ BehindInv'
          /\ \A h \in Gates : GateKnows(h)'
      BY <1>2, <2>1, <2>3, <3>2, <3>3, TablesStep
    <3> QED
      BY <3>4 DEF GateInv
  <2>4. CASE /\ Goes(g, "invoice") /\ troubled' = TRUE /\ UNCHANGED overtaken
             /\ update_invoice(r.inv, "Expired") \/ UNCHANGED <<account, invoices, credits>>
    <3> DEFINE q == [gate[g] EXCEPT !.pc = "invoice"]
    <3>1. gate' = [gate EXCEPT ![g] = q]
      BY <2>4, GateEntry
    <3>2. q.pc = "invoice" /\ q.key = r.key
      BY <1>1
    <3> HIDE DEF q
    <3>3. \A h \in Gates : GateStays(h)
      BY <1>3, <3>1, <3>2
    <3>4. "Expired" \in Statuses
      BY DEF Statuses
    <3>5. CASE update_invoice(r.inv, "Expired")
      <4>1. /\ InvoicesInv' /\ OpenInv' /\ PayersInv' /\ TaskInv' /\ BehindInv'
            /\ \A h \in Gates : GateKnows(h)'
        BY <1>2, <2>1, <2>4, <3>3, <3>4, <3>5, StatusStep
      <4> QED
        BY <4>1 DEF GateInv
    <3>6. CASE UNCHANGED <<account, invoices, credits>>
      <4>1. /\ InvoicesInv' /\ OpenInv' /\ PayersInv' /\ TaskInv' /\ BehindInv'
            /\ \A h \in Gates : GateKnows(h)'
        BY <1>2, <2>1, <2>4, <3>3, <3>6, TablesStep
      <4> QED
        BY <4>1 DEF GateInv
    <3> QED
      BY <2>4, <3>5, <3>6
  <2> QED
    BY <1>8, <2>2, <2>3, <2>4 DEF gate_told
<1>9. CASE gate_create(g)
  <2>1. /\ UNCHANGED <<invoices, credits, overtaken, raced, passed, troubled>> /\ r.pc = "create"
        /\ r.key \in Keys
    BY <1>1, <1>9 DEF gate_create, GateStates
  <2>2. \A k \in Keys : /\ account[k].exists => account'[k].exists
                        /\ account'[k].admitted = account[k].admitted
    <3>1. CASE account' = [account EXCEPT ![r.key].exists = TRUE]
      BY <2>1, <3>1 DEF TypeInv
    <3>2. CASE UNCHANGED account
      BY <3>2
    <3> QED
      BY <1>9, <3>1, <3>2 DEF gate_create
  <2> DEFINE q == [gate[g] EXCEPT !.pc = "invoice"]
  <2>3. gate' = [gate EXCEPT ![g] = q]
    BY <1>9, GateEntry DEF gate_create
  <2>4. q.pc = "invoice" /\ q.key = r.key
    BY <1>1
  <2> HIDE DEF q
  <2>5. \A j : Makes(j)' => Makes(j)
    BY <1>2, <2>1, <2>3, <2>4, GateMakers
  <2>6. \A h \in Gates : GateStays(h)
    BY <1>3, <2>3, <2>4
  <2>7. /\ InvoicesInv' /\ OpenInv' /\ PayersInv' /\ TaskInv' /\ BehindInv'
        /\ \A h \in Gates : GateKnows(h)'
    BY <1>2, <2>1, <2>2, <2>5, <2>6, TablesStep
  <2> QED
    BY <2>7 DEF GateInv
<1>10. CASE new_invoice(g)
  <2>1. PICK k \in Keys : k = r.key
    BY <1>1, <1>10 DEF new_invoice, GateStates
  <2>2. PICK b : b = (TaskMakes(k) \/ GatesMake(k) # {g})
    OBVIOUS
  <2>3. /\ r.pc = "invoice" /\ NamePrice \in Nat
        /\ UNCHANGED <<account, troubled, passed, overtaken>>
        /\ create_invoice_record(k, NamePrice, b)
    BY <1>10, <2>1, <2>2, PaymentsAssumption DEF new_invoice
  <2>4. gate' = [gate EXCEPT ![g] = Away] /\ Away.pc = "away"
    BY <1>10 DEF new_invoice, Leaves, Away
  <2>5. g \in GatesMake(k) /\ Makes(k)
    BY <2>1, <2>3 DEF GatesMake, Makes
  <2>6. \A j : Makes(j)' => Makes(j)
    BY <1>2, <2>4, GateMakers
  <2>7. Makes(k)' => b
    <3>1. gate'[g] = Away /\ \A h \in Gates \ {g} : gate'[h] = gate[h]
      BY <1>2, <2>4, GateMakers
    <3>2. g \notin GatesMake(k)' /\ GatesMake(k)' \subseteq GatesMake(k)
      BY <2>4, <3>1 DEF GatesMake
    <3>3. GatesMake(k)' # {} => GatesMake(k) # {g}
      BY <3>2
    <3> QED
      BY <1>2, <2>2, <3>3 DEF Makes, TaskMakes
  <2>8. \A h \in Gates : GateStays(h)
    BY <1>3, <2>4
  <2>9. /\ InvoicesInv' /\ OpenInv' /\ PayersInv' /\ TaskInv' /\ BehindInv'
        /\ \A h \in Gates : GateKnows(h)'
    BY <1>2, <2>3, <2>5, <2>6, <2>7, <2>8, RecordStep
  <2> QED
    BY <2>9 DEF GateInv
<1>11. CASE gate_admit(g)
  <2>1. /\ r.pc = "admit" /\ r.key \in Keys /\ HasPaid(r.key)
        /\ UNCHANGED <<invoices, credits, troubled, overtaken, raced>>
        /\ passed' = passed \cup {r.key}
    BY <1>1, <1>11 DEF gate_admit, GateStates, GateInv, GateKnows
  <2>2. \A k \in Keys : /\ account'[k].exists = account[k].exists
                        /\ account'[k].admitted = (account[k].admitted \/ k = r.key)
    BY <1>11, <2>1, ZenonT(40) DEF gate_admit, TypeInv
  <2>3. gate' = [gate EXCEPT ![g] = Away] /\ Away.pc = "away"
    BY <1>11 DEF gate_admit, Leaves, Away
  <2>4. \A j : Makes(j)' => Makes(j)
    BY <1>2, <2>3, GateMakers
  <2>5. \A h \in Gates : GateStays(h)
    BY <1>3, <2>3
  <2>6. /\ InvoicesInv' /\ OpenInv' /\ PayersInv' /\ TaskInv' /\ BehindInv'
        /\ \A h \in Gates : GateKnows(h)'
    BY <1>2, <2>1, <2>2, <2>4, <2>5, TablesStep
  <2> QED
    BY <2>6 DEF GateInv
<1>12. CASE gate_abandon(g)
  <2>1. gate' = [gate EXCEPT ![g] = Away] /\ Away.pc = "away"
    BY <1>12 DEF gate_abandon, Leaves, Away
  <2>2. UNCHANGED <<account, invoices, credits, overtaken, raced, passed, troubled>>
    BY <1>12 DEF gate_abandon
  <2>3. \A j : Makes(j)' => Makes(j)
    BY <1>2, <2>1, GateMakers
  <2>4. \A h \in Gates : GateStays(h)
    BY <1>3, <2>1
  <2>5. /\ InvoicesInv' /\ OpenInv' /\ PayersInv' /\ TaskInv' /\ BehindInv'
        /\ \A h \in Gates : GateKnows(h)'
    BY <1>2, <2>2, <2>3, <2>4, TablesStep
  <2> QED
    BY <2>5 DEF GateInv
<1> QED
  BY <1>5, <1>6, <1>7, <1>8, <1>9, <1>10, <1>11, <1>12 DEF Gate

\* Every step keeps the invariant.
LEMMA PaymentsStep == PaymentsInv /\ [Next]_vars => PaymentsInv'
<1> SUFFICES ASSUME PaymentsInv, [Next]_vars
             PROVE  PaymentsInv'
  OBVIOUS
<1>1. TypeInv /\ TypeInv'
  BY TypeStep DEF PaymentsInv
<1>2. \A m : Send(m) => (troubled => troubled')
  BY Zenon DEF Send, Put
<1>3. ASSUME UNCHANGED db, UNCHANGED names, paid \subseteq paid', troubled => troubled',
             task' = task \/ task' = Resting
      PROVE  PaymentsInv'
  BY <1>1, <1>3, QuietStep DEF db, names, Resting, TaskStays
<1>4. ASSUME NEW k \in Keys, account_page(k) \/ invoice_page(k) \/ publish_refused(k)
      PROVE  PaymentsInv'
  <2>1. \E m : Send(m)
    BY <1>4 DEF account_page, invoice_page, publish_refused
  <2> QED
    BY <1>2, <1>3, <1>4, <2>1 DEF account_page, invoice_page, publish_refused
<1>5. ASSUME NEW k \in Keys, publish(k)
      PROVE  PaymentsInv'
  BY <1>3, <1>5 DEF publish
<1>6. ASSUME NEW i \in DOMAIN invoices, webhook(i) \/ Pay(i)
      PROVE  PaymentsInv'
  BY <1>2, <1>3, <1>6 DEF webhook, Pay
<1>7. CASE charge
  <2>1. \A k \in Keys : /\ account'[k].exists = account[k].exists
                        /\ account'[k].admitted = account[k].admitted
    BY <1>1, <1>7 DEF charge, TypeInv
  <2>2. UNCHANGED <<invoices, credits, paid, task>> /\ (troubled => troubled') /\ UNCHANGED names
    BY <1>7 DEF charge
  <2> QED
    BY <1>1, <2>1, <2>2, QuietStep DEF names, TaskStays
<1>8. CASE Task
  BY <1>1, <1>8, TaskStep
<1>9. CASE abandon
  BY <1>3, <1>9 DEF abandon
<1>10. CASE Crash
  <2>1. /\ \A g \in Gates : gate'[g] = Away
        /\ UNCHANGED <<account, invoices, credits, overtaken, raced, passed, paid>>
        /\ troubled' /\ TaskStays
    BY <1>10 DEF Crash, db, TaskStays, Resting
  <2> QED
    BY <1>1, <2>1, QuietStep
<1>11. CASE \E g \in Gates : Gate(g)
  BY <1>1, <1>11, GateStep
<1>12. CASE UNCHANGED vars
  BY <1>3, <1>12 DEF vars, db, names
<1> QED
  BY <1>4, <1>5, <1>6, <1>7, <1>8, <1>9, <1>10, <1>11, <1>12 DEF Next

\* The invariant holds in every reachable state.
LEMMA PaymentsInvariant == Spec => []PaymentsInv
  BY PaymentsInit, PaymentsStep, PTL DEF Spec

\* Only a key with an invoice that was really paid is admitted: a webhook is not
\* believed, and no failure, restart or lost message puts the payment task or the
\* gate where it admits an author it has not seen the payment of.
THEOREM AdmissionIsPaid == Spec => []AdmittedHasPaid
<1>1. PaymentsInv => AdmittedHasPaid
  BY DEF PaymentsInv, PayersInv, AdmittedHasPaid
<1> QED
  BY <1>1, PaymentsInvariant, PTL

\* The paid gate of the name authority lets only keys through that have really
\* paid an invoice, over every interleaving of its calls with the payment task
\* and with other registrations, and whatever call fails.
THEOREM GateIsPaid == Spec => []PaidOnly
<1>1. PaymentsInv => PaidOnly
  BY DEF PaymentsInv, PayersInv, PaidOnly
<1> QED
  BY <1>1, PaymentsInvariant, PTL

\* update_invoice credits only an invoice that was paid, and credits it again only
\* if the gate recorded the payment while the task held an older answer of the
\* processor: no other order of pages, webhooks and registrations does it.
THEOREM CreditIsOnce == Spec => []CreditedOnce
<1>1. PaymentsInv => CreditedOnce
  <2> SUFFICES ASSUME PaymentsInv, NEW i \in DOMAIN invoices
               PROVE  /\ TypeOK
                      /\ credits[i] > 0 => i \in paid
                      /\ credits[i] > 1 => i \in overtaken
    BY TypeInvIsTypeOK DEF CreditedOnce, PaymentsInv
  <2>1. credits[i] \in Nat
    BY RowKeys DEF PaymentsInv
  <2> QED
    BY <2>1, TypeInvIsTypeOK DEF PaymentsInv, InvoicesInv
<1> QED
  BY <1>1, PaymentsInvariant, PTL

\* While no query failed, no message was lost and nothing restarted, an author
\* whom no two makers of invoices looked up at once, and none of whose payments
\* was overtaken, has at most one outstanding invoice.
THEOREM OpenInvoiceIsUnique == Spec => []OneOpenInvoice
<1>1. PaymentsInv => OneOpenInvoice
  <2> SUFFICES ASSUME PaymentsInv, ~troubled, NEW k \in Keys \ raced,
                      ~ \E i \in overtaken : invoices[i].key = k
               PROVE  Cardinality(Unpaid(k)) <= 1
    BY DEF OneOpenInvoice
  <2>1. \A i, j \in Unpaid(k) : i = j
    BY DEF PaymentsInv, OpenInv, Plain
  <2>2. CASE Unpaid(k) = {}
    BY <2>2, FS_EmptySet
  <2>3. CASE Unpaid(k) # {}
    <3>1. PICK i \in Unpaid(k) : TRUE
      BY <2>3
    <3>2. Unpaid(k) = {i}
      BY <2>1, <3>1
    <3>3. Cardinality({i}) = 1
      BY FS_Singleton
    <3> QED
      BY <3>2, <3>3
  <2> QED
    BY <2>2, <2>3
<1> QED
  BY <1>1, PaymentsInvariant, PTL

===============================================================================
