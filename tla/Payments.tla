------------------------------- MODULE Payments -------------------------------
(***************************************************************************)
(* Payments: accounts and invoices in the database, the payment task of     *)
(* pay to relay (Payment::run_internal), which takes one message at a time  *)
(* from the broadcast channel, those who send it messages (the pages        *)
(* /account and /invoice, the webhooks of the payment processor and the     *)
(* database writer, which also checks and charges the author of an event),  *)
(* and the paid gate of the name authority, which works on the same tables  *)
(* in the handlers of name registrations.                                   *)
(*                                                                         *)
(* An invoice is known by its number, which stands for its payment hash;    *)
(* the task and the gate use one processor.  The task answers on its own    *)
(* channel: answers are for the waiting pages, which are not modelled, and  *)
(* the task takes and ignores them.                                         *)
(***************************************************************************)
EXTENDS Integers, Sequences, FiniteSets

CONSTANTS
  Keys,           \* pubkeys of authors
  Gates,          \* handlers of registrations that may be in the paid gate
  AdmissionCost,  \* pay_to_relay.admission_cost
  CostPerEvent,   \* pay_to_relay.cost_per_event
  NamePrice,      \* the price of a name
  ChanCap,        \* capacity of the payment channel (4096)
  Failures,       \* may the database and the processor fail
  MaxInvoices,    \* bound on invoices: the processor refuses more
  MaxSends,       \* bound on messages and on registrations
  MaxCrashes,     \* bound on restarts of the relay
  NoKey

ASSUME PaymentsAssumption ==
  /\ {AdmissionCost, CostPerEvent, NamePrice, MaxInvoices, MaxSends, MaxCrashes} \subseteq Nat
  /\ ChanCap \in Nat \ {0}
  /\ Failures \in BOOLEAN
  /\ NoKey \notin Keys

VARIABLES
  account,   \* table account: per key [exists, admitted, balance]
  invoices,  \* table invoice: a sequence of [key, status, amount]
  paid,      \* external: the invoices that the processor has been paid
  chan,      \* messages the payment task has not received
  task,      \* the payment task: [pc, key, inv, told]
  gate,      \* per handler in the paid gate: [pc, key, inv, told]
  writer,    \* the key whose accepted event is being written, NoKey, or "gone"
  sends, crashes,
  credits,   \* history: per invoice, how often its amount was credited
  troubled,  \* history: a failure, a crash or a full channel has interfered
  passed,    \* history: the keys that the gate let through
  overtaken, \* history: invoices the gate recorded as paid while the task was
             \* about to record that they were not
  raced      \* history: keys for which two looked for an invoice and found none
             \* before either had recorded one

db    == <<account, invoices, credits>>
names == <<gate, passed, overtaken, raced>>
vars  == <<account, invoices, paid, chan, task, writer, sends, crashes, credits, troubled, names>>

Statuses == {"Unpaid", "Paid", "Expired"}

Resting == [pc |-> "idle", key |-> NoKey, inv |-> 0, told |-> "nothing"]
Away    == [pc |-> "away", key |-> NoKey, inv |-> 0, told |-> "nothing"]

Init ==
  /\ account = [k \in Keys |-> [exists |-> FALSE, admitted |-> FALSE, balance |-> 0]]
  /\ invoices = <<>> /\ credits = <<>>
  /\ paid = {}
  /\ chan = <<>>
  /\ task = Resting
  /\ gate = [g \in Gates |-> Away]
  /\ writer = NoKey
  /\ sends = 0 /\ crashes = 0
  /\ troubled = FALSE
  /\ passed = {} /\ overtaken = {} /\ raced = {}

-------------------------------------------------------------------------------
(* The repository *)

\* get_account_balance: no row is an error, and so is a balance that does not
\* fit the u64 it is read into.
Readable(k) == account[k].exists /\ account[k].balance >= 0

\* get_unpaid_invoice: the newest of the unpaid invoices of k.  (The order is by
\* seconds; two invoices of one author are taken to differ in theirs.)
Unpaid(k) == {i \in DOMAIN invoices : invoices[i].key = k /\ invoices[i].status = "Unpaid"}
Newest(S) == CHOOSE i \in S : \A j \in S : j <= i

\* Mutant: whatever the status was, an invoice reported as paid is credited.
update_invoice_anyStatus(i, status) ==
  LET k == invoices[i].key
      credit == status = "Paid"
  IN  /\ invoices' = [invoices EXCEPT ![i].status = status]
      /\ account' = IF credit THEN [account EXCEPT ![k].balance = @ + invoices[i].amount] ELSE account
      /\ credits' = IF credit THEN [credits EXCEPT ![i] = @ + 1] ELSE credits

\* update_invoice: a change from Unpaid to Paid credits the account.
update_invoice(i, status) ==
  LET k == invoices[i].key
      credit == invoices[i].status = "Unpaid" /\ status = "Paid"
  IN  /\ invoices' = [invoices EXCEPT ![i].status = status]
      /\ account' = IF credit THEN [account EXCEPT ![k].balance = @ + invoices[i].amount] ELSE account
      /\ credits' = IF credit THEN [credits EXCEPT ![i] = @ + 1] ELSE credits

\* Who has looked for an outstanding invoice of k, found none, and has not made
\* one yet.
TaskMakes(k) == task.pc = "invoice" /\ task.key = k
GatesMake(k) == {g \in Gates : gate[g].pc \in {"create", "invoice"} /\ gate[g].key = k}

\* processor.get_invoice and create_invoice_record: another maker may be at work
\* beside this one.  (The foreign key wants an account.)
create_invoice_record(k, amount, beside) ==
  /\ Len(invoices) < MaxInvoices /\ account[k].exists
  /\ invoices' = Append(invoices, [key |-> k, status |-> "Unpaid", amount |-> amount])
  /\ credits' = Append(credits, 0)
  /\ raced' = IF beside THEN raced \cup {k} ELSE raced

-------------------------------------------------------------------------------
(* The payment channel: a ring that drops the oldest message when it is full *)

Message(kind, k, i) == [kind |-> kind, key |-> k, inv |-> i]

Put(m, trouble) ==
  /\ chan' = IF Len(chan) < ChanCap THEN Append(chan, m) ELSE Append(Tail(chan), m)
  /\ troubled' = (troubled \/ trouble \/ Len(chan) >= ChanCap)

Send(m) ==
  /\ sends < MaxSends
  /\ sends' = sends + 1
  /\ Put(m, FALSE)

\* The task's own messages: Invoice and AccountAdmitted.
Answer(trouble) == Put(Message("Answer", NoKey, 0), trouble)

\* A webhook names an invoice, whether or not it has been paid.
webhook(i) ==
  /\ Send(Message("InvoicePaid", NoKey, i))
  /\ UNCHANGED db /\ UNCHANGED <<paid, task, writer, crashes, names>>

account_page(k) ==
  /\ Send(Message("CheckAccount", k, 0))
  /\ UNCHANGED db /\ UNCHANGED <<paid, task, writer, crashes, names>>

\* An admitted author is told so; others cause a message.
invoice_page(k) ==
  /\ ~(Readable(k) /\ account[k].admitted)
  /\ Send(Message(IF Readable(k) THEN "CheckAccount" ELSE "NewAccount", k, 0))
  /\ UNCHANGED db /\ UNCHANGED <<paid, task, writer, crashes, names>>

-------------------------------------------------------------------------------
(* The database writer, for an author who is not on the whitelist *)

\* The author is unknown, or not admitted: the event is refused with a message
\* (to the unknown, only if sign_ups and direct_message are on).
publish_refused(k) ==
  /\ writer = NoKey
  /\ \/ ~account[k].exists /\ Send(Message("NewAccount", k, 0))
     \/ Readable(k) /\ ~account[k].admitted /\ Send(Message("CheckAccount", k, 0))
  /\ UNCHANGED db /\ UNCHANGED <<paid, task, writer, crashes, names>>

\* The author may write: the event is persisted, and charged for afterwards.
\* (One whose balance is too small or cannot be read is refused: no change.)
publish(k) ==
  /\ writer = NoKey
  /\ Readable(k) /\ account[k].admitted /\ account[k].balance >= CostPerEvent
  /\ writer' = IF CostPerEvent > 0 THEN k ELSE NoKey
  /\ UNCHANGED db /\ UNCHANGED <<paid, chan, task, sends, crashes, troubled, names>>

\* update_account_balance; an error ends db_writer.
charge ==
  /\ writer \in Keys
  /\ \/ /\ account' = [account EXCEPT ![writer].balance = @ - CostPerEvent]
        /\ writer' = NoKey
        /\ UNCHANGED troubled
     \/ /\ Failures
        /\ writer' = "gone"
        /\ troubled' = TRUE
        /\ UNCHANGED account
  /\ UNCHANGED <<invoices, credits, paid, chan, task, sends, crashes, names>>

-------------------------------------------------------------------------------
(* The payment task *)

\* The first step for each kind of message.
First == [NewAccount |-> "create", CheckAccount |-> "lookup", InvoicePaid |-> "verify", Answer |-> "idle"]

receive ==
  /\ task.pc = "idle" /\ chan # <<>>
  /\ task' = [pc |-> First[Head(chan).kind], key |-> Head(chan).key,
               inv |-> Head(chan).inv, told |-> "nothing"]
  /\ chan' = Tail(chan)
  /\ UNCHANGED db /\ UNCHANGED <<paid, writer, sends, crashes, troubled, names>>

\* get_invoice_info: only an existing account can have an invoice to reuse.
create_account ==
  /\ task.pc = "create"
  /\ account' = [account EXCEPT ![task.key].exists = TRUE]
  /\ task' = [task EXCEPT !.pc = IF account[task.key].exists THEN "reuse" ELSE "invoice"]
  /\ UNCHANGED <<invoices, credits, paid, chan, writer, sends, crashes, troubled, names>>

\* Mutant: an outstanding invoice is not looked for.
reuse_invoice_never ==
  /\ task.pc = "reuse"
  /\ task' = [task EXCEPT !.pc = "invoice"]
  /\ UNCHANGED db /\ UNCHANGED <<paid, chan, writer, sends, crashes, troubled, names>>

\* Answer with the outstanding invoice.  A failed query counts as none found.
reuse_invoice ==
  /\ task.pc = "reuse"
  /\ \/ Unpaid(task.key) # {} /\ task' = Resting /\ Answer(FALSE)
     \/ Unpaid(task.key) = {} /\ task' = [task EXCEPT !.pc = "invoice"] /\ UNCHANGED <<chan, troubled>>
     \/ Failures /\ task' = [task EXCEPT !.pc = "invoice"] /\ troubled' = TRUE /\ UNCHANGED chan
  /\ UNCHANGED db /\ UNCHANGED <<paid, writer, sends, crashes, names>>

\* The processor is asked for an invoice, which is recorded and answered with;
\* the direct messages to the author may fail after the record is made.
create_invoice ==
  /\ task.pc = "invoice"
  /\ task' = Resting
  /\ \/ /\ create_invoice_record(task.key, AdmissionCost, GatesMake(task.key) # {})
        /\ \/ Answer(FALSE)
           \/ Failures /\ troubled' = TRUE /\ UNCHANGED chan
     \/ Len(invoices) >= MaxInvoices /\ UNCHANGED <<invoices, credits, raced, chan, troubled>>
  /\ UNCHANGED <<account, paid, writer, sends, crashes, gate, passed, overtaken>>

\* CheckAccount: look for an outstanding invoice, or else make one.
lookup_invoice ==
  /\ task.pc = "lookup"
  /\ \/ /\ Unpaid(task.key) # {}
        /\ task' = [task EXCEPT !.pc = "check", !.inv = Newest(Unpaid(task.key))]
        /\ UNCHANGED troubled
     \/ Unpaid(task.key) = {} /\ task' = [task EXCEPT !.pc = "create"] /\ UNCHANGED troubled
     \/ Failures /\ task' = [task EXCEPT !.pc = "create"] /\ troubled' = TRUE
  /\ UNCHANGED db /\ UNCHANGED <<paid, chan, writer, sends, crashes, names>>

\* What the processor says of invoice i; an answer that is not understood means
\* Expired.
Answers(i) ==
  {IF i \in paid THEN "Paid" ELSE "Unpaid"} \cup (IF Failures THEN {"Expired"} ELSE {})

\* check_invoice_status, its first half: the processor is asked.  The tables may
\* change before its answer is recorded.
ask_processor ==
  /\ task.pc \in {"check", "verify"}
  /\ \E status \in Answers(task.inv) :
       task' = [task EXCEPT !.pc = IF @ = "check" THEN "checked" ELSE "verified", !.told = status]
  /\ UNCHANGED db /\ UNCHANGED <<paid, chan, writer, sends, crashes, troubled, names>>

\* The second half for CheckAccount: the answer is recorded; the author of a paid
\* invoice is admitted, others are answered with the invoice.
checked ==
  /\ task.pc = "checked"
  /\ update_invoice(task.inv, task.told)
  /\ IF task.told = "Paid"
     THEN task' = [task EXCEPT !.pc = "welcome"] /\ UNCHANGED <<chan, troubled>>
     ELSE task' = Resting /\ Answer(task.told = "Expired")
  /\ UNCHANGED <<paid, writer, sends, crashes, names>>

\* Mutant: the webhook is believed.
verified_trusting ==
  /\ task.pc = "verified"
  /\ task' = [task EXCEPT !.pc = "confirm"]
  /\ UNCHANGED db /\ UNCHANGED <<paid, chan, writer, sends, crashes, troubled, names>>

\* The second half for InvoicePaid: a webhook is believed if the processor agrees.
verified ==
  /\ task.pc = "verified"
  /\ update_invoice(task.inv, task.told)
  /\ task' = IF task.told = "Paid" THEN [task EXCEPT !.pc = "confirm"] ELSE Resting
  /\ troubled' = (troubled \/ task.told = "Expired")
  /\ UNCHANGED <<paid, chan, writer, sends, crashes, names>>

\* Mutant: the account of the invoice is not admitted.
confirm_only ==
  /\ task.pc = "confirm"
  /\ update_invoice(task.inv, "Paid")
  /\ task' = Resting
  /\ UNCHANGED <<paid, chan, writer, sends, crashes, troubled, names>>

\* update_invoice once more, for the key of the invoice.
confirm ==
  /\ task.pc = "confirm"
  /\ update_invoice(task.inv, "Paid")
  /\ task' = [task EXCEPT !.pc = "admit", !.key = invoices[task.inv].key]
  /\ UNCHANGED <<paid, chan, writer, sends, crashes, troubled, names>>

\* admit_account: every admission takes the fee.  CheckAccount answers, the
\* webhook does not.
admit_account ==
  /\ \/ task.pc = "welcome" /\ Answer(FALSE)
     \/ task.pc = "admit" /\ UNCHANGED <<chan, troubled>>
  /\ account' = [account EXCEPT ![task.key].admitted = TRUE, ![task.key].balance = @ - AdmissionCost]
  /\ task' = Resting
  /\ UNCHANGED <<invoices, credits, paid, writer, sends, crashes, names>>

\* An error in any call of the task abandons the message (`?`).
abandon ==
  /\ Failures /\ task.pc # "idle"
  /\ task' = Resting
  /\ troubled' = TRUE
  /\ UNCHANGED db /\ UNCHANGED <<paid, chan, writer, sends, crashes, names>>

Task ==
  \/ receive \/ create_account \/ reuse_invoice \/ create_invoice
  \/ lookup_invoice \/ ask_processor \/ checked \/ verified \/ confirm \/ admit_account

-------------------------------------------------------------------------------
(* The paid gate of the name authority *)

atgate == <<paid, chan, task, writer, crashes>>

Goes(g, pc) == gate' = [gate EXCEPT ![g].pc = pc]
Leaves(g)   == gate' = [gate EXCEPT ![g] = Away]

\* paid_gate: a registration for k.  A key that is known to have paid goes
\* through; a balance that cannot be read counts as not paid.
paid_gate(g, k) ==
  /\ gate[g].pc = "away" /\ sends < MaxSends
  /\ sends' = sends + 1
  /\ \/ Readable(k) /\ account[k].admitted /\ passed' = passed \cup {k} /\ UNCHANGED gate
     \/ /\ ~(Readable(k) /\ account[k].admitted) \/ Failures
        /\ gate' = [gate EXCEPT ![g] = [Away EXCEPT !.pc = "find", !.key = k]]
        /\ UNCHANGED passed
  /\ UNCHANGED db /\ UNCHANGED atgate /\ UNCHANGED <<troubled, overtaken, raced>>

\* get_unpaid_invoice: a failed query counts as none found.
gate_find(g) ==
  /\ gate[g].pc = "find"
  /\ \/ /\ Unpaid(gate[g].key) # {}
        /\ gate' = [gate EXCEPT ![g].pc = "ask", ![g].inv = Newest(Unpaid(gate[g].key))]
        /\ UNCHANGED troubled
     \/ Unpaid(gate[g].key) = {} /\ Goes(g, "create") /\ UNCHANGED troubled
     \/ Failures /\ Goes(g, "create") /\ troubled' = TRUE
  /\ UNCHANGED db /\ UNCHANGED atgate /\ UNCHANGED <<sends, passed, overtaken, raced>>

\* processor.check_invoice.
gate_ask(g) ==
  /\ gate[g].pc = "ask"
  /\ \E status \in Answers(gate[g].inv) :
       gate' = [gate EXCEPT ![g].pc = "told", ![g].told = status]
  /\ UNCHANGED db /\ UNCHANGED atgate /\ UNCHANGED <<sends, troubled, passed, overtaken, raced>>

\* The task has an answer to record that says the invoice is not paid.
TaskBehind(i) == task.pc \in {"checked", "verified"} /\ task.inv = i /\ task.told = "Unpaid"

\* Mutant: an outstanding invoice is good enough.
gate_told_trusting(g) ==
  /\ gate[g].pc = "told"
  /\ Goes(g, "admit")
  /\ UNCHANGED db /\ UNCHANGED atgate /\ UNCHANGED <<sends, troubled, passed, overtaken, raced>>

\* Paid is recorded; Unpaid is answered with the invoice (402); Expired is
\* recorded, or not if that fails, and a new invoice is made.
gate_told(g) ==
  /\ gate[g].pc = "told"
  /\ \/ /\ gate[g].told = "Paid" /\ update_invoice(gate[g].inv, "Paid")
        /\ Goes(g, "admit")
        /\ overtaken' = IF TaskBehind(gate[g].inv) THEN overtaken \cup {gate[g].inv} ELSE overtaken
        /\ UNCHANGED troubled
     \/ gate[g].told = "Unpaid" /\ Leaves(g) /\ UNCHANGED db /\ UNCHANGED <<troubled, overtaken>>
     \/ /\ gate[g].told = "Expired" /\ Goes(g, "invoice")
        /\ update_invoice(gate[g].inv, "Expired") \/ UNCHANGED db
        /\ troubled' = TRUE
        /\ UNCHANGED overtaken
  /\ UNCHANGED atgate /\ UNCHANGED <<sends, passed, raced>>

\* First contact: create_account, whose error is ignored.
gate_create(g) ==
  /\ gate[g].pc = "create"
  /\ \/ account' = [account EXCEPT ![gate[g].key].exists = TRUE]
     \/ Failures /\ UNCHANGED account
  /\ Goes(g, "invoice")
  /\ UNCHANGED atgate /\ UNCHANGED <<invoices, credits, sends, troubled, passed, overtaken, raced>>

\* new_invoice: an invoice over the price of a name, answered with (402).
new_invoice(g) ==
  LET k == gate[g].key IN
  /\ gate[g].pc = "invoice"
  /\ create_invoice_record(k, NamePrice, TaskMakes(k) \/ GatesMake(k) # {g})
  /\ Leaves(g)
  /\ UNCHANGED atgate /\ UNCHANGED <<account, sends, troubled, passed, overtaken>>

\* admit_account, for the price of a name; the registration goes on.
gate_admit(g) ==
  LET k == gate[g].key IN
  /\ gate[g].pc = "admit"
  /\ account' = [account EXCEPT ![k].admitted = TRUE, ![k].balance = @ - NamePrice]
  /\ passed' = passed \cup {k}
  /\ Leaves(g)
  /\ UNCHANGED atgate /\ UNCHANGED <<invoices, credits, sends, troubled, overtaken, raced>>

\* The client leaves, or a call fails and the registration is refused (5xx).
gate_abandon(g) ==
  /\ gate[g].pc # "away"
  /\ Leaves(g)
  /\ UNCHANGED db /\ UNCHANGED atgate /\ UNCHANGED <<sends, troubled, passed, overtaken, raced>>

Gate(g) ==
  \/ \E k \in Keys : paid_gate(g, k)
  \/ gate_find(g) \/ gate_ask(g) \/ gate_told(g) \/ gate_create(g)
  \/ new_invoice(g) \/ gate_admit(g) \/ gate_abandon(g)

-------------------------------------------------------------------------------
\* The author pays an invoice at the processor.
Pay(i) ==
  /\ i \notin paid
  /\ paid' = paid \cup {i}
  /\ UNCHANGED db /\ UNCHANGED <<chan, task, writer, sends, crashes, troubled, names>>

\* The relay restarts: tables stay, messages and tasks do not.
Crash ==
  /\ crashes < MaxCrashes
  /\ crashes' = crashes + 1
  /\ chan' = <<>> /\ task' = Resting /\ writer' = NoKey
  /\ gate' = [g \in Gates |-> Away]
  /\ troubled' = TRUE
  /\ UNCHANGED db /\ UNCHANGED <<paid, sends, passed, overtaken, raced>>

Next ==
  \/ \E k \in Keys : account_page(k) \/ invoice_page(k) \/ publish_refused(k) \/ publish(k)
  \/ \E i \in DOMAIN invoices : webhook(i) \/ Pay(i)
  \/ charge
  \/ Task
  \/ abandon
  \/ \E g \in Gates : Gate(g)
  \/ Crash

Spec == Init /\ [][Next]_vars

\* The payment task is a future that the runtime polls, and it waits for nobody
\* but the database and the processor, which answer or fail.
FairSpec == Spec /\ WF_vars(Task)

-------------------------------------------------------------------------------
(* Properties *)

PCs == {"idle", "create", "reuse", "invoice", "lookup", "check", "checked", "verify", "verified",
        "confirm", "admit", "welcome"}
GatePCs == {"away", "find", "ask", "told", "create", "invoice", "admit"}
Told == Statuses \cup {"nothing"}

\* Types, and what each step of the task and of the gate knows: a key, the number
\* of an invoice that is in the table, or an answer of the processor.
TypeOK ==
  /\ account \in [Keys -> [exists : BOOLEAN, admitted : BOOLEAN, balance : Int]]
  /\ invoices \in Seq([key : Keys, status : Statuses, amount : Nat])
  /\ credits \in Seq(Nat) /\ Len(credits) = Len(invoices)
  /\ paid \subseteq DOMAIN invoices
  /\ chan \in Seq([kind : DOMAIN First, key : Keys \cup {NoKey}, inv : Nat])
  /\ \A n \in DOMAIN chan :
       /\ chan[n].kind = "InvoicePaid" => chan[n].inv \in DOMAIN invoices
       /\ chan[n].kind \in {"NewAccount", "CheckAccount"} => chan[n].key \in Keys
  /\ task \in [pc : PCs, key : Keys \cup {NoKey}, inv : Nat, told : Told]
  /\ task.pc \in {"create", "reuse", "invoice", "lookup", "check", "checked", "admit", "welcome"}
       => task.key \in Keys
  /\ task.pc \in {"check", "checked", "verify", "verified", "confirm"} => task.inv \in DOMAIN invoices
  /\ task.pc \in {"checked", "verified"} => task.told \in Statuses
  /\ gate \in [Gates -> [pc : GatePCs, key : Keys \cup {NoKey}, inv : Nat, told : Told]]
  /\ \A g \in Gates :
       /\ gate[g].pc # "away" => gate[g].key \in Keys
       /\ gate[g].pc \in {"ask", "told"} => gate[g].inv \in DOMAIN invoices
       /\ gate[g].pc = "told" => gate[g].told \in Statuses
  /\ writer \in Keys \cup {NoKey, "gone"}
  /\ sends \in Nat /\ crashes \in Nat /\ troubled \in BOOLEAN
  /\ passed \subseteq Keys /\ raced \subseteq Keys /\ overtaken \subseteq DOMAIN invoices

HasPaid(k) == \E i \in paid : invoices[i].key = k

\* Only a key with an invoice that was really paid is admitted, whatever
\* webhooks, failures and restarts do ("a forged webhook cannot fake a payment").
AdmittedHasPaid == \A k \in Keys : account[k].admitted => HasPaid(k)

\* The paid gate lets a registration pass only if its key has really paid an
\* invoice ("Fail closed: any error refuses the claim").
PaidOnly == \A k \in passed : HasPaid(k)

\* The amount of an invoice is credited only if it was paid, and more than once
\* only if the gate recorded the payment while the task held an older answer.
CreditedOnce ==
  /\ TypeOK
  /\ \A i \in DOMAIN invoices :
       /\ credits[i] > 0 => i \in paid
       /\ credits[i] > 1 => i \in overtaken

\* Extra: the amount of an invoice is credited at most once.  The gate and the
\* task together break this.
CreditedAtMostOnce == \A i \in DOMAIN invoices : credits[i] <= 1

\* An author has one outstanding invoice at a time ("This avoids recreating
\* admission invoices"), unless a query for it failed, the task and the gate, or
\* two handlers, looked for one at the same time, or a payment was overtaken.
OneOpenInvoice ==
  ~troubled =>
    \A k \in Keys \ raced :
      \/ Cardinality(Unpaid(k)) <= 1
      \/ \E i \in overtaken : invoices[i].key = k

\* The webhook of a paid invoice leads to the admission of its author, unless a
\* failure, a restart or a full channel comes in between.
PaidIsAdmitted ==
  \A i \in 1..MaxInvoices :
    (i \in paid /\ \E n \in DOMAIN chan : chan[n].kind = "InvoicePaid" /\ chan[n].inv = i)
      ~> (troubled \/ (i \in DOMAIN invoices /\ account[invoices[i].key].admitted))

\* An admitted author can write: the writer can read the balance and finds it
\* sufficient ("Once this invoice is paid the author can write to the relay").
AdmittedCanWrite ==
  \A k \in Keys : account[k].admitted => Readable(k) /\ account[k].balance >= CostPerEvent

===============================================================================
