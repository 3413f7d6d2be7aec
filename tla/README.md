# A TLA+ model of floonet-rs

floonet-rs is a nostr relay (a fork of nostr-rs-relay) with a built-in name
authority. This directory models the parts of it whose correctness depends on
the order in which things happen, checks the models with TLC on small
instances, and proves the main results with TLAPS for every value of the
constants. All source references are to files under `src/` at the repository
root; line numbers are in the `map` of `PROJECT.json`.

## 1. Inventory

The relay is one process on a multi-threaded tokio runtime.

| Part | State it keeps | Operations | Talks to |
|---|---|---|---|
| Connection task, `server.rs` `nostr_server`, `conn.rs` | subscriptions, running queries, NIP-42 challenge, receivers of its notice, query and broadcast channels | EVENT, REQ, CLOSE, AUTH, pings, passing on broadcasts, results and notices | the writer (bounded `event_tx`), the repository (queries), payment channel |
| Writer, `db.rs` `db_writer` | none of its own between events | take an event, decide, persist, broadcast, answer, charge, slow down | repository, broadcast channel, per-connection notice channel |
| Event store, `repo/sqlite.rs` `persist_event`, `write_event`, `delete_expired` | tables `event` and `tag` | write one event in one transaction; sweep expired events | – |
| Queries, `repo/sqlite.rs` `query_subscription`, `db_checkpoint_task` | reader permits, checkpoint lock | one blocking thread per query; WAL checkpoints | per-connection query channel, abandon oneshot |
| Name authority, `name_authority/` | table `name_claims`; in memory: used auth ids, one rate map | register, release, read endpoints, payment gate | GoblinPay through `payment/` |
| Payments, `payment/`, account and invoice operations of the repository, `/invoice`, `/account`, callbacks of `server.rs` | tables `account`, `invoice` | new account, check, callback, admission, charge | broadcast channel `payment_tx`, remote processor |
| NIP-05 verifier, `nip05.rs` | table `user_verification` | verify new metadata, re-verify on a timer | metadata channel of the writer, broadcast channel, HTTP |
| PostgreSQL store, `repo/postgres.rs` | the same tables | `write_event` as a transaction of several statements, sweep | writer and verifier, each on its own connection |
| Migrations, `repo/sqlite_migration.rs` | `user_version`, the schema | `upgrade_db` at start-up | – |
| Write guard and pools, `repo/sqlite.rs` | write mutex, pools of connections | taken by every writing operation | – |
| Pure decisions: `admission.rs`, `subscription.rs`, `delegation.rs`, `names.rs`, `nip98.rs` | none | classify an event, match a filter, check a condition or a header | called by the above |

What is hard here, and the property that answers it:

* **Order of arrival.** Replaceable events, deletions and the events they name
  may come in any order, and an event may come twice. The store must end in the
  same state (`Converged`), keep one version (`SlotUnique`), lose nothing else
  (`NothingLost`), honour a deletion in both orders (`DeletionHonoured`) and
  never let one take a gift wrap (`GiftWrapsDurable`).
* **Handlers that release their lock between check and use.** Registration
  takes five separate locks and awaits a payment. Keys must have one name
  (`OneNamePerKey`), the claims table must behave as a registry
  (`RefinesRegistry`), cooldowns must hold (`CooldownHonoured`).
* **Windows and limits.** Auth events are checked for their age on one clock and
  for their use on another (`OneUseWhileFresh`); rate limits and cooldowns with
  three windows share one map and its sweep (`WritesBounded`,
  `CooldownRemembered`).
* **Everyone waits for everyone.** Permits, a lock and a bounded channel are
  taken in different orders by connection tasks, query threads and the
  checkpoint task, and a client may stop reading. No permit may be lost
  (`PermitsConserved`), and what may keep a query for ever is named in
  `QueriesEnd`.
* **Two ways to a subscriber.** A stored event reaches a subscriber through the
  historical query or through the broadcast; none may fall between
  (`NoGap`, `EoseComplete`, `Delivered`), and what is acknowledged must be true
  (`SavedIsStored`) and must come (`Answered`).
* **One payment, many reports.** The page, the webhook and its repetitions report
  the same payment to a task that updates invoice and account in separate
  transactions and may fail between them, and the paid gate of the name authority
  works on the same two tables from its own handlers. Both wait for the processor
  in between. Who has not paid must neither be admitted (`AdmittedHasPaid`) nor
  get a name (`PaidOnly`), who has must be admitted (`PaidIsAdmitted`), and what
  the two do to each other's invoices is bounded (`CreditedOnce`,
  `OneOpenInvoice`, `AdmittedCanWrite`).
* **Several writers of one table.** The writer and the NIP-05 verifier both write
  metadata events, and the verification rows hang on those events. (A third task
  that calls `write_event`, the payment task at `payment/mod.rs:235`, writes direct
  messages of the relay's key, which nothing replaces.) Rows must stay
  unique and attached (`RecordsUnique`), a verification must be fresh when it is
  used (`FreshlyConfirmed`), the gate must hold (`StoredForVerified`), and rows
  must not stay for ever on an old confirmation (`RowsRenewedOrDropped`). On
  PostgreSQL they run in transactions that do not see each other
  (`VersionsBounded`, `NothingLost`, `DeletionHides`, `WritesEnd`).
* **Who may see what.** Authentication may come before or after a request, and
  results and broadcasts are queued in between (`PrivateToParties`). Admission,
  store and read gate judge the tags of a gift wrap independently of each other
  (`GiftWrapsReadable`); three pieces of code match a filter (`FiltersAgree`);
  delegations carry conditions (`DelegationHonoured`).
* **Upgrades cut short.** Eighteen scripts that commit statement by statement
  (`ServesComplete`, `OnlySupersededLost`, `PanicJustified`).

The list of hazards, each at its line, is in `PROJECT.json`, with those no
property covers yet.

## 2. Modules and the code

### EventStore

One step per SQLite transaction: `write_event` and the expiry sweep each run in
one. `stored` are the rows of `event` (their `tag` rows live and die with them
through `ON DELETE CASCADE`), `hidden` those with the flag set; `received` and
`saved` are histories of what was looked at and what was reported as added.
`persist_event` is `WriteIgnored` (its early returns) or `WriteInserted`, whose
new rows are computed statement by statement: `OlderReplaceable`,
`OlderParamReplaceable` (the `ORDER BY ... LIMIT -1 OFFSET 1` over the join with
the tag rows, so that events with no, several or repeated `d` tags behave as in
the code), `HiddenByDeletion`, `DeletedBefore`. Where SQL leaves the order of
equal timestamps open, `CHOOSE` picks one. Kinds are the real numbers; ids,
authors and tag values are small strings; an `e` tag keeps whether its hex was
lower case, because one of the two statements compares bytes and the other text.

### RateMap, RateLimiter, NameAuthority, NameRegistry

`RateMap` has the operations on the shared rate map, as functions of the map and
the time. The hits of a key, a `Vec<Instant>` of which only `retain`, `push`, `len`
and `any` are used, are a set of pairs of an instant and a number that tells apart
the hits of one instant. `RateLimiter` runs them alone, in any order; its history
`swept` has the keys that a sweep has dropped. `NameAuthority` is the
authority with concurrent handlers (`Workers`): a handler goes through the steps
`r_auth, r_fresh, r_cooldown, r_lookup, r_name_of, r_gate, r_insert` or `u_auth,
u_fresh, u_lookup, u_update, u_record`, each of which is one critical section of
the code, and any other handler, the clock or a restart may come between. The age
of an auth event is checked at `auth` in whole seconds (`unix_time`), its use at
`fresh` on the clock of `Instant`, whose ticks are finer; the system clock is taken
to run at the pace of the other and never to be set. Whether the paid gate lets
a key through is a choice at `r_gate`: the gate itself, with its awaits and its
tables, is in Payments. A request is its auth event; a failing database query is a
choice wherever the code turns it into "no row" or an error. A restart empties
what is in memory, and the histories of what memory promises with it.
`NameRegistry` is the abstract specification: free names can be taken by keys
without a name, taken names can become free.

### QueryPipeline

Queries as threads with a program counter, the connection task as a state
(`loop`, `sending` in `ws_stream.send` to a client that does not read, waiting for a
permit, `closed`), permits, the checkpoint lock and its holder, the number of
results in each connection's channel. A statement or a row that cannot be read
ends a query (`fail`). Momentary holds of
the lock (the gate, the `try_lock` probes) are separate lock and unlock steps.
Elapsed times are choices: shedding after five seconds in the queue and the
two-second cutoff may happen whenever the code could see the time elapsed.

### RelayPipeline

From EVENT to subscriber: connection tasks, the bounded event channel, the
writer with its steps write, broadcast, answer, the broadcast ring (a receiver
further behind than its capacity loses the oldest), notice channels written with
`try_send`, and one query per REQ that takes a snapshot of the store for each
filter and sends its rows, then EOSE. A query polls its abandon channel every
`CheckEvery` rows. What filters match and what admission decides are constants.
The store is a set here. EventStore has the rules for replacing and deleting; what is
kept of them is that an event of `Ignorable` (older than a stored version, or
deleted before it came) may be left out, in which case the writer answers
"duplicate" as it does for an event it has (`db.rs:410`). That a write may remove older
events is left out, as is a filter's `limit` other than 0. Waiting for permits, and
the bound of the result channel, are left to QueryPipeline.

### Payments

The tables `account` and `invoice`, the channel that drops its oldest message,
and the payment task, which takes one message at a time and goes through a step
per transaction and per call of the processor: `create, reuse, invoice`
(`get_invoice_info`), `lookup, check, checked, welcome` (CheckAccount), `verify,
verified, confirm, admit` (InvoicePaid). `check_invoice_status` is two steps: the
processor answers, and the answer is recorded, with anything between. An error in
any call abandons the message, a failed query for an unpaid invoice counts as none;
the direct messages to the author may fail after the invoice is on record.
`Gates` are the handlers in `paid_gate` of the name authority, which go through
`find, ask, told, create, invoice, admit` on the same tables; the task and the gate
are taken to use one processor, so that each asks about the other's invoices, and a
client may leave the gate anywhere. The pages, the webhooks and the writer send messages; the writer also checks an
author, stores the event and charges for it in a later step. The processor is
the set of invoices paid, and in a run with failures it may answer anything not
understood, which the code takes for expired. Balances are integers, read back
only if they fit an unsigned one. How `/invoice` waits for its answer and what
direct messages say is left out; `sign_ups` and `direct_message` are taken to be
on. History variables say what has happened: `troubled` (a failure, an expiry, a
restart or a lost message), `overtaken` (the gate recorded a payment while the
task held the answer Unpaid for the same invoice) and `raced` (two looked for an
outstanding invoice of a key, found none, and went on to make one each).

### Nip05Verifier

The writer (`lookup`, `decide`, `persist`) and the verifier (`receive`, `answer`,
`conclude_new`, `create_record`, `reverify`, `conclude_again`) as two tasks over
the stored events and the table `user_verification`, connected by the metadata
channel, a ring that loses its oldest entry. The web request is a pause between
two steps, during which the other task goes on; the head of the response comes
within the timeout of five seconds or the request is given up, but nothing limits
the wait for the body (`nip05.rs:270`), and the task may stay there (`hang`). With
`Failures` the verifier's own reads and writes of its table may fail. Timestamps are kept as ages that
stop growing once every comparison in the code gives the same result, which
makes the model finite without a bound on time; the jitter of a renewal is a
negative age. A replaced metadata event takes its row along (`ON DELETE
CASCADE`). A time unit is long compared with what the verifier does after an
answer. The process may restart at any point, also in the other mode. The table
is modelled on SQLite, whose write guard makes each operation one step; the
broadcast of what was inserted is in RelayPipeline.

### PostgresStore

`PostgresRepo::write_event` as a transaction with a step per group of statements:
`begin` (the two lookups for newer versions), `insert`, `older` and `purge` (a
DELETE chooses its rows when it begins, then locks and removes them one by one, in
any order, if they are still there), `mark` and `hide` (likewise for the UPDATE of
a deletion, and the lookup for a deletion on record), `commit`. The sweep of
`delete_expired` is a transaction of one such DELETE. A step that wants a row of another
transaction waits while its own transaction keeps the rows it has. The rules on kinds, versions and
deletions are those of EventStore, instantiated with the rows a statement sees.
Isolation, row locks, waiting and the deadlock detector, which fails a transaction in
a circle of waits, are external and modelled from PostgreSQL's READ
COMMITTED. Any transaction may fail and roll back.

### Filters, Admission, Delivery

`Filters` has the operators: a text is what it names and how it is spelt (lower
or upper case, a prefix, an odd number of digits, not hex), because Rust compares
strings, SQLite decoded bytes, and PostgreSQL one of two columns. An event has its
author as it spells it (`pubkey`) and as the key that decodes to (`author`).
Numbers are `u64` in filters and events, `i64` in SQL (`as_i64`, with 2^63 a
constant); PostgreSQL also wants dates that chrono knows (`ChronoLimit`, beyond
which `timestamp_opt().unwrap()` panics) and returns at most `PgLimit` rows. A
condition of a delegation is what the regex finds in one part of the query,
with values that fit 64 bits.
`Admission` is the decision of `admission.rs`. `Delivery` composes both with
EventStore (by INSTANCE), NIP-42 and the two ways to a subscriber: a connection
authenticates at most once, publishes, subscribes, closes; the writer stores and
broadcasts; queries answer filter by filter and then with EOSE; each event passes
`allowed_to_send` when it is sent. A query that gets no database connection
answers with EOSE alone, as in the code. A malformed signature in a delegation tag
panics the connection's task (`event_panics`). Channel limits are left to
RelayPipeline, as are the writer's other reasons to refuse an event (blacklist,
payment, NIP-05, gRPC) and writes that fail: with them less is stored. Keys have
64 digits here, so that `pubkey.len() == 64` in admission is part of the form; a batch of rows is sent in any order. The values of the tags with one
name (`tag_values_by_name`) are a function from the places of these tags, so that
"exactly one `p` tag" and "the first `p` tag" are statements about places.

### Migrations

`upgrade_db` over databases as records [version, items, tags, rows]. Scripts are
sequences of statements (create if absent, add a column, drop, set the version,
convert data); a statement is one step and the process may crash between any two.
The scripts that use an explicit transaction are one step. A database has a past:
earlier releases (`Releases`, each known by its `DB_VERSION`) upgraded it to their own
version, served from it and hid events that were deleted (`hide_event`), before a
later one is installed (`install`); `hiddenBefore` has what they hid. They are taken
to have run the same scripts as this release; their own
`INIT_SQL` is not in the repository. The schema of the
first release is not in the repository either and is taken from what the first two
scripts take for granted. Statements that fail for other reasons than what they
create (a full disk, stored JSON that does not parse) are left out.

## 3. Runs

| Run | Result | What it shows |
|---|---|---|
| `event_store` | pass | twelve events of two authors (replaceable and parameterized versions with ties, expiry, a gift wrap, deletions by author and stranger, with upper-case ids, of a deletion), every order, repetitions, three instants |
| `rate_limiter` | pass | windows in the order of the shipped settings (reads shortest, writes longest): limits and cooldowns hold for their window until a sweep drops the key, and for the shortest window from then on |
| `name_authority` | pass | two handlers, two keys, two names, two ticks a second: claims, a release, a refused body, a gate that lets through or not, a restart |
| `query_pipeline` | pass | three queries of one connection, one permit, a client that may stop reading, rows that fail: no lost permit, and every query ends unless the connection is held up for ever |
| `relay_pipeline` | pass | two filters, a live-only subscription under the same id, CLOSE, ring of one, ephemeral, refused and ignored events, failures |
| `relay_pipeline_live` | pass | two connections, a blocked event: answers come, stored events arrive |
| `payments` | pass | two authors, a handler in the paid gate, two invoices, four messages or registrations, failures, a full channel, a restart: only payers are admitted and pass the gate, and an announced payment admits |
| `payments_fee` | violation | `/account` and the webhook report one payment: the fee is taken twice, the balance is negative and unreadable, the author cannot write |
| `nip05` | pass | two authors, three metadata events, two of which claim one name; passive and enabled mode, domains that confirm, deny, time out or never finish their answer, a gRPC service, restarts |
| `postgres_store` | pass | writer, verifier and sweep in concurrent transactions over seven events, row lock by row lock, failures, deadlocks |
| `delivery` | pass | ten messages, one of which spells its author in upper case, four AUTH events, four requests, three configurations |
| `migrations` | pass | a new, an old (any subset of four events) and a too new database, releases with versions 3, 13 and 19 that serve and hide in between, three crashes |

The type invariants of QueryPipeline, RelayPipeline, Payments, Nip05Verifier,
PostgresStore, Delivery and Migrations are conjuncts of the first invariant of
their module (`PermitsConserved`, `SavedIsStored`, `CreditedOnce`,
`RecordsUnique`, `VersionsBounded`, `GiftWrapsReadable`, `ServesComplete`); all but
the last are also proved, as are those of EventStore and NameAuthority.

**Bounds and why they are enough.** The event catalogue is small but has each of
the cases the SQL distinguishes: an older, an equal and a newer version, an
expiring one, a deletion that comes before and after what it names, a deletion
of a deletion, a stranger's. Two invoices and four messages let one author be asked
by page, webhook, writer and gate about one payment and hold a second invoice, or
two authors interfere in a channel of two; a second handler in the gate is in
`MCPaymentsGate.cfg` and in the theorems. Two handlers suffice for the authority because each
property speaks of at most two requests, and its theorems remove the bound for
most. The windows are 0 to 3 units because only their order matters; that order is
the shipped one in `rate_limiter`. Rate limiting has a run of its own, so that in the
authority's run one write per unit and a map that never fills are enough.
`MapLimit` is 2 in place of 50,000 in `rate_limiter`, `CheckEvery` 2 in place of
100, channels hold one or two messages: each is small enough for the limit to be
met. `query_pipeline` has three queries on one connection, which is what it takes for
a connection to be held up by its own queries (`MCQueryPipelineStuck.cfg`, section 4);
`MCQueryPipelineTwo.cfg`, which passes as well, has them on two connections. `MaxQueries` and
`MaxSubmits` bound the relay's runs to two requests and two events, which is
what a gap or a stale query needs. The relay's runs, the queries' and the payments'
switch the deadlock check off, as the system rests when the bounded clients are
served, or, in `query_pipeline`, when a client never reads again.

**Bounds of the newer runs.** `nip05`: expiration, frequency, jitter and the number
of failures are 1, so that each limit is met and passed; ages need no bound. The run
has `Failures = FALSE` because a database that fails every time keeps a row for ever;
its safety properties with failures are checked by `MCNip05Failures.cfg`, which passes,
and proved. `postgres_store`: the tasks whose events replace each other are the writer
and the verifier, which writes metadata only (the payment task's direct messages
neither replace nor delete); two deletions, one with nothing to delete, and two
instants. Parameterized events are in EventStore's run and in the theorems, which
hold for any number of writers. `delivery`: `PgLimit` is 1, so that it is met, and
2^63 and the last date are small numbers in the same order; two submissions and two requests, one publisher and one
reader: enough for a deletion after a gift wrap, a second subscription while the
first is answered, and an AUTH between request and delivery. `migrations`: three
crashes let an upgrade be cut twice on the way and once after. Where the system
may stop (a relay that panicked at start-up or serves), the deadlock check is
off.

**Fairness.** `QueryPipeline`: threads and tasks that can go on do
(weak fairness), and the tokio semaphore, mutex and channel queue their waiters,
so that what becomes free again and again is obtained (strong fairness of
the steps of `Waiting`, at most one of which is possible at a program point); `select!` picks among ready branches at random, hence
strong fairness of the drain, which is possible only while the task is in its loop:
no client has to read, and a task that waits in `ws_stream.send` may do so for ever; a channel that is full whenever it is looked at
meets the two-second cutoff (strong fairness). Clients and new checkpoints are
under no obligation. `Payments`: weak fairness of the payment task, which waits only for the database
and the processor; nobody must pay, call a webhook or open a page.
`RelayPipeline`: weak fairness of the writer, of each query
and of each branch of a connection's loop. No fairness of connect, disconnect or
any request is assumed.
`Nip05Verifier`: the relay stays up in the end (`<>[][~restart]_vars`); a request
without a response ends (a timeout of five seconds) and the task goes on, weakly fair,
but a response whose head has come need never be complete; time passes;
`select!` takes ready branches in random order and the oldest row is taken first,
so that a row due again and again gets its turn (strong fairness of `reverify`
for each event). `PostgresStore`: strong fairness of each transaction's steps,
because PostgreSQL queues those that wait for a row, and weak fairness of ending a
transaction in a circle of waits, which is what its deadlock detector does. No fairness
of other failures, new events or answers of a domain.

## 4. Known disagreements

A run marked violation checks one property that a comment or a document of the
repository states; the entry under `findings` quotes it. The following are of the
same kind; each has a configuration that reproduces it (`tlc -config X.cfg M`)
and is outside the list of runs.

| Configuration | Module | Property | What TLC shows |
|---|---|---|---|
| `MCEventStoreRepeated.cfg` | MCEventStore | `SavedIsVisible` | an event that repeats its `d` tag has two rows in the join of `sqlite.rs:190` and is removed by its own insertion, which is reported as added ("returning rows added", `sqlite.rs:105`) |
| `MCNameAuthorityRelease.cfg` | MCNameAuthority | `ReleaseByOwner` | the owner is looked up and the claim released under different locks (`name_authority/mod.rs:697`): a second release may hit the claim of the next owner |
| `MCRateLimiterSweep.cfg` | MCRateLimiter | `CooldownForWindow` | "blocks registering a new name for the window after letting one go" (`name_authority/mod.rs:451`), but above the limit of the map a read sweeps with its own window of 60 s the marks of cooldowns of 600 s (`mod.rs:248`, `config.rs:507`, `:510`) |
| `MCPaymentsGate.cfg` | MCPayments | `CreditedAtMostOnce` | the payment task holds the processor's Unpaid across an await (`payment/mod.rs:280`), the paid gate records Paid (`name_authority/mod.rs:599`), the task writes Unpaid over it, and the next report of the payment credits the invoice again |
| `MCPostgresDeadlock.cfg` | MCPostgresStore | `NoDeadlock` | the DELETE of older versions, the UPDATE of a deletion and the sweep lock several rows in no common order (`postgres.rs:204`, `:260`, `:67`): PostgreSQL ends one of them with an error, and its event is not stored |
| `MCDeliveryRecipients.cfg` | MCDelivery | `RecipientsOnly` | private events go to their recipients only according to `config.toml:134`, `README.md:95`, `config.rs:90` and `admission.rs:190`; `allowed_to_send` lets their author through as well (`server.rs:1165`). `PrivateToParties` is about both |
| `MCDeliverySpelling.cfg` | MCDelivery | `SpellingIgnored` | an event may spell its author in upper case (`event.rs:362`); SQL compares decoded keys and finds it (`sqlite.rs:114`), the broadcast compares texts and passes it to no subscription by author (`subscription.rs:311`) |
| `MCQueryPipelineStuck.cfg` | MCQueryPipeline | `SlowClientDropped` | rows and EOSE go through `blocking_send` (`sqlite.rs:506`): with a third query on the connection its task waits for a permit of a reader that waits for the task ("gets dropped", `sqlite.rs:403`) |
| `MCPostgresDeletion.cfg` | MCPostgresStore | `DeletionOnRecordHonoured` | the lookup for a deletion on record compares the decoded id with column `value` (`postgres.rs:283`), but ids in lower-case hex are in `value_hex`: an event that arrives after its deletion stays visible |
| `MCNip05Candidates.cfg` | MCNip05Verifier | `MetadataForwarded` | "All metadata events (regardless of verification status) are forwarded to a verifier module" (`docs/user-verification-nip05.md:182`), but in enabled mode `db.rs:316` refuses the event of an unverified author before it is forwarded at `db.rs:385`: nobody becomes verified in that mode |

Others, which the models show as well and whose narrower form is checked or
proved:

* A parameterized event without a `d` value has no row to join, so its versions
  pile up, though `sqlite.rs:187` says "remove other events"; an event with two
  different `d` tags is removed by a newer event for the second. `SlotUnique` and
  `NothingLost` are therefore proved for `TidyEvents`.
* `seen_auth` is "one-time use in the freshness window" (`mod.rs:78`). An event's
  age is checked in whole seconds, and its use is remembered for `MaxAge + Skew`
  seconds from the instant of the first one: an event post-dated by the whole skew
  and used at once is forgotten when its last second begins, and can be used again
  in that second, or later by a handler that checked its age in it.
  `OneUseWhileFresh` says that a second use never comes earlier than that.
* One rate map for all windows: above 50,000 keys, `allow` keeps the keys with a
  hit inside its caller's window (`mod.rs:248`), and the cooldown marks are in
  the same map. With the shipped windows a read (60 s) forgets running cooldowns
  (600 s) and write hits (3600 s, `config.rs:512`). `CooldownRemembered` and
  `WritesBounded` say what is left: the whole window until a sweep has dropped the
  key, the shortest window from then on.
* The cooldown "blocks registering a new name for the window after letting one
  go" (`mod.rs:451`), but a release that overtakes a claim already past its check
  is not seen. `CooldownHonoured` is about releases that were over when the
  request came.
* "check if a checkpoint is trying to run, and abort" (`sqlite.rs:436`) uses
  `try_lock`, so a query also aborts, without EOSE, because another one looks at
  the lock at the same moment (`probe_held` while the holder is a query).
* "the query is immediately aborted" (`sqlite.rs:330`): the abandon channel is
  looked at every 100 rows, so up to 99 rows and an EOSE may still arrive under
  an id that was closed or reused. `EoseComplete` excepts reused ids.

* With a cost per event, the admission fee is all that the invoice brings, so the
  balance after admission is 0 and the author still cannot post: there is no
  invoice for topping up (the TODO at `db.rs:247`). `payments_fee` has
  `CostPerEvent = 0` so as to show the other, unintended, way.
* An error or crash between `update_invoice` and `admit_account` leaves the
  invoice paid and the author not admitted; unless the webhook is repeated,
  the next check makes a second invoice. `PaidIsAdmitted` excepts this
  (`troubled`), and `CreditedOnce` holds all the same.
* The payment task and the gate, or two registrations of one key, that look for an
  outstanding invoice at the same time each make one, and a payment that was
  overtaken leaves an invoice open that is paid (`OneOpenInvoice` excepts both).
* A client that stops reading blocks its connection's task (`server.rs:1309`), and
  then the readers of its queries in `blocking_send`, with their permits, for ever.
  `QueriesEnd` excepts it (`HeldUp`).
* A domain that sends the head of a response and never the body keeps the only
  verifier for ever (`RowsRenewedOrDropped` excepts it).
* "Duplicate" is the answer also for an event that is not stored because it is
  older than a version on record or was deleted (`db.rs:410`).
* 11 -> 12 counts hidden versions when it looks for the newest: if that one was
  deleted, the version before it is hidden as well, and 14 -> 15 deletes both
  (`OnlySupersededLost` says so).
* `docs/user-verification-nip05.md` says that an old verification remains valid
  until it expires when the name changes (41–44); the new metadata event takes
  the row of the old one along. A name that could not be checked because its
  domain timed out is not tried again until the next metadata event.
* Filters agree only when they are plain (`PlainFilter`): the broadcast matches
  ids and authors by prefix and case, SQL compares decoded bytes, so prefixes
  match live only and upper case in SQL only; SQLite does not look at the
  delegator; an empty set of tag values matches everything on SQLite, nothing in
  the broadcast; PostgreSQL drops values with an odd number of hex digits, and a
  filter with ids and tags fails there because the column `id` is ambiguous. An
  `until` of 2^63 or more is negative there and selects nothing
  (`postgres.rs:887`), a time that is no date for chrono panics, and so does the
  write of such an event; at most 1000 rows are returned, and an event whose tags
  match twice takes two of them.
* With `nip42_dms` but without a relay URL nobody can authenticate, and private
  events are readable by nobody; a REQ that is answered before AUTH silently
  leaves private events out.
* A delegation tag whose signature is not hex of the right length panics the
  connection's task (`delegation.rs:116`).
* `INIT_SQL` sets `user_version` before it creates anything, so that a creation
  cut short is not resumed (`ServesComplete` excepts it), and the scripts 1→2,
  6→7 and 16→17 fail for ever when they are cut after `ALTER TABLE ADD`
  (`PanicJustified` names them).

## 5. Theorems

Eight modules hold proofs, for every value of the constants that satisfies the
named assumptions. Each is about the specification of the module it is named
after; EventStoreProofs also has the theorems on Migrations, the other half of
the SQLite database, and NameAuthorityProofs those on RateLimiter, whose map it
shares (so these two modules name their specifications `UpgradeSpec` and
`LimiterSpec`, and RateLimiter its variables `map` and `clock`). The
assumptions are types (kinds and times are natural numbers, tags are sequences,
what a writer offers are events), finiteness where a number is compared
(`WritersAssumption`), and what distinguishes one thing from another (an id
determines its event; EOSE is no event and a connection no subscription,
`PipelineAssumption`). `DeliveryAssumption` moreover says that `dedup` of a request
is a sequence of its filters: it is computed with `SelectSeq`, of which the
provers know nothing, and TLC evaluates the assumption for the requests of the
run. The theorems on Migrations have the hypothesis `OldDatabases` (an old database
has finitely many events, and they have times), and `CooldownIsHonoured`
`SweepSpares`, explained there. The inductive invariants were checked by TLC on the
module's run before they were proved, except those of Migrations and of the rate
map, where only the properties were.

**EventStoreProofs.**

* `DeletionInv` is `TypeOK`, `DeletionHonoured` and `HiddenJustified` together:
  inductive because flags never outlive rows and every statement that adds a row
  looks at the deletions stored. It gives `DeletionsAreHonoured` and
  `HidingIsJustified`.
* `GiftWrapInv` adds that saved gift wraps are stored until they expire and are
  not hidden; expiry is monotone. It gives `GiftWrapsAreDurable`.
* `StoreInv` adds `SlotUnique` and `NothingLost`. Both need `TidyEvents` (one
  `d` tag, with a value), without which they fail (section 4); then the
  insertion removes exactly the older versions of the place (lemma `RowsTidy`).
  It gives `OneVersionPerPlace`, `AddedEventsAreDurable` and, as an action
  property, `AddedEventsAreVisible`.
* `ConvergenceInv` says, when all that was received is ordinary, that each place
  is held by a latest version and that what is hidden is what is deleted. It
  gives `StoreConverges`; no assumption on the catalogue is needed, as `Settled`
  speaks of what was received.
* Migrations: `ScriptsGood` states what is used of the nineteen scripts (only a first
  statement can fail, what a version stands for is made before the version is
  set, `INIT_SQL` excepted). `UpgradeInv` says where the running script has
  brought the version (`VersionInv`); that a database has a column of a later
  version only when the script that adds it was cut (`ColumnInv`); that it has what
  its version stands for and what the statements run so far made (`ItemsInv`);
  and that up to version 11 nothing is gone and only what a release hid is hidden
  (`RowsInv`), so that 11 -> 12 chooses the newest among all events of a slot
  (`KeptIsNewest`, by `FiniteMax`).
  It gives `UpgradedDatabaseIsComplete`, `UpgradeFailsWithCause` and
  `UpgradeKeepsNewest`, for every old database, any releases in between and any
  number of crashes.

**NameAuthorityProofs.** `TypeCorrect`; `ClaimsStep` classifies how a step can
change the claims, from which `AuthorityImplementsRegistry` (initial states map
to initial states, each step to a registry step or a stutter) and
`KeysHaveOneName`; `ReplayInv` (the last use of an event is remembered or
`MaxAge + Skew` seconds ago, no use comes before the first instant at which the event
is not post-dated too far, and a handler between the two checks is past that instant)
gives `AuthEventsAreUsedOnce`, for any number of ticks in a second and any delay
between the checks.
For the rate map, `PushOK` and `RecentOK` show that a pushed hit is always a new one,
and `AllowHits` and `CooldownHits` what each method does to the recent hits of every
key. `SweepSpares(w)` says that a sweep cannot drop a hit younger than w: w is at
most the read and the write window, or all keys ever used fit in the map. With the
default windows the second is what holds, until there are 50,000 keys;
beyond that cooldowns are cut short (section 4). `CooldownInv` says that releases in
force are in the map and that a handler past the check came later; it gives
`CooldownIsHonoured`, the one theorem with this hypothesis. On the limiter,
`WritesKnown` and `ReleasesKnown` compare the map with the histories inside the
window a key still has (`Kept`: its own, or the shortest of all once it was swept),
which is inductive for any windows and any number of keys, and give
`WritesAreBounded` and `CooldownsAreRemembered`.

**RelayPipelineProofs.** `SavedInv`: what the writer has yet to broadcast or report as
saved is stored or ephemeral, while a reported duplicate is stored or ignorable; with the types (`PipeType`) it gives `SavedIsTrue`. `NoGap`
is itself inductive once `QueriesInv` is known: the query in `running_queries` is
one of its subscription, still wanted and not told to stop, so that a wanted
stored event the client has not seen is with the writer before its broadcast, in
the ring ahead of the receiver, among the results, or ahead of the query, whose
later filters read later states of the store; each step of a task moves the event
from one of these places to the next. That gives `GapNever`. `EoseInv` says of an id in
its first use that it has one query and that what was stored at the REQ was sent,
is in the channel before EOSE, or is ahead of the query; it gives
`EoseIsComplete`.

**DeliveryProofs.** `DrivesTheStore` is a refinement: the composition implements
EventStore with the parsed messages for its events. `FlowInv` (whatever is queued,
stored, in a channel or sent is a parsed message) and `AuthInv` (a key a connection
speaks for was proven over this connection) give `PrivateStaysPrivate`; `SubsInv` gives
`FiltersMeanOneThing`, for which the ways to match a filter are compared
clause by clause, spellings and conversions of numbers included (`AsI64`), and then
the answers of the two databases (`DatabasesAgree`); `DelegationIsCovered` compares the evaluation of conditions with
their meaning. `WrapsReachTheirReaders` needs `WrapInv` (gift wraps in the queue or
the store passed admission, are never hidden, and a saved one is stored) and
`OwedInv` (what a query owes its client was sent, is before the EOSE in the
channel, or is selected by a filter still to run).

**PostgresStoreProofs.** The steps of a transaction are restated field by field
(`Local`, `Commits`, `Cleans`, lemma `NextMoves`), which gives `TypeCorrect`.
`NamedInv` follows what a deletion names from the beginning of its UPDATE to its
commit and gives `DeletionsHide`. `LostInv` says that each row a transaction has
chosen or deleted has a rival as new that was received or comes with the same
transaction; it rests on `OlderVersionsReplace`, what the two DELETE statements
choose, and on `FiniteMax`, since the row they spare is a greatest of a finite
set. It gives `AddedEventsAreDurable`. `OwnInv` is an invariant with a witness: there
is a function from the stored rows to the writers that committed them, in which
two versions for one place have different owners, because a writer whose new row
survives replaces the row it owned. With `ExclInv` (an id is inserted by one
transaction at a time, two never delete one row) it is inductive, and an
injection of the versions into the writers gives `VersionsAreBounded`. The last
two assume `TidyEvents` as EventStoreProofs does.

**PaymentsProofs.** `PaymentsInv` is the types, what the table says of an invoice
(`InvoicesInv`: credited only if paid, and, unless overtaken, at most once and not
while outstanding), what the payment task has established at each step (`TaskInv`: at
`confirm` the invoice was paid, at `welcome` and `admit` its key has paid), that an
invoice the task holds an old Unpaid for is not yet recorded as paid unless it is
overtaken (`BehindInv`), what each handler in the gate has established (`GateInv`),
that an undisturbed author has one outstanding invoice and none while somebody is about
to make one (`OpenInv`), and that only payers are admitted or let through
(`PayersInv`). It gives `TypeCorrect`, `AdmissionIsPaid`, `GateIsPaid`, `CreditIsOnce`
and `OpenInvoiceIsUnique`, for any number of handlers in the gate.

**QueryPipelineProofs.** `QueryInv`: free permits and the queries at a point that holds
one add up, a query at a point with a guard has the checkpoint lock, and a query
that deals with a row has one. It gives `PermitsAddUp` and `GuardsExclude`.

**Nip05VerifierProofs.** `VerifierInv` is the types, what both tasks know at each of their
steps (`TasksInv`: in enabled mode the writer writes only for an author it found
valid; an answer just received is fresh) and that rows belong to stored events,
share neither name nor author, and claim no confirmation younger than the last
one, jitter apart (`RowsInv`). It gives `RowsAreUnique` and the action properties
`ConfirmationIsFresh` and `StoredIsVerified`.

Left to TLC: all liveness (`QueriesEnd`, `Answered`, `Delivered`, `PaidIsAdmitted`,
`RowsRenewedOrDropped`, `WritesEnd`). Every invariant that a passing run checks is
stated by a theorem.

## 6. Not modelled, and the plan

Not modelled because there is no behaviour to explore or no way to express it:
JSON parsing, hashing and signatures, the text of SQL and the choice of an index,
HTML and JSON pages, configuration, the bulk loader, the gRPC client (its refusal
is a choice of the writer). Of PostgreSQL the accounts, invoices, verification
rows and migrations: the first three are single statements like those on SQLite.
Of the connection task pings, shutdown and per-client rate limits.

Planned, in this order:

1. The `/invoice` page on top of `Payments`: it subscribes to the channel anew for
   every message it waits for, after it has sent its own, and may wait for ever.
2. `SqliteLocks`: the order of write guard and pooled connection over all
   writing operations; absence of deadlock with a write pool of two.
