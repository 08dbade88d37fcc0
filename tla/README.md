# Wager service: models and proofs

A TLA+ development kept beside the wager service: a Go application that
processes betting operations (BET, WIN, LOSS, REFUND, ROLLBACK) against
wallets in PostgreSQL, receives them over HTTP and from an SQS FIFO queue, and
announces what happened on another FIFO queue through a transactional outbox.

* `*.tla` without prefix are the specifications, one per component.
* `MC*.tla` and `*.cfg` are the instances TLC checks.
* `*Proofs.tla` hold the theorems and their TLAPS proofs.
* `PROJECT.json` relates every definition to the source lines it models, and
  lists components, runs, hazards, findings, theorems and, for each checked
  property, a mutation of the model that breaks it (the operators marked
  *Fault* in the modules).

Paths below are relative to `src/`; unqualified Go names live in the file the
paragraph is about.

## 1. Inventory

| Part | State it keeps | Operations | Talks to |
| --- | --- | --- | --- |
| Wager service `internal/app/wager/service.go` | none of its own | `Process`, `ResumeDue` | repositories, in one transaction |
| Reference resolver `internal/app/references` | none | a loop around `ResumeDue` | wager service |
| Wallet service `internal/app/wallets/service.go` | none | `Open`, `Reconcile`, reads | repositories |
| Repositories `internal/adapters/postgres` | the tables | guarded SQL statements, `WithinTransaction` with savepoints | PostgreSQL, READ COMMITTED |
| Domain `internal/domain/{money,wallet,ledger,wagering,events}` | values | arithmetic, movements, status machine, envelopes | - |
| Inbox handler `internal/app/consumer` | `inbox_messages` | claim, `Process`, complete | wager service |
| SQS consumer `internal/adapters/sqs` | receipts of its batch | receive, handle, delete, dead-letter | input queue, handler |
| Outbox publisher `internal/app/outbox` | locks in `outbox_events` | claim, publish, confirm, reschedule | events queue |
| Migrations `internal/platform/migrate` | `schema_migrations` | `Up`, `Down` | PostgreSQL |
| Lifecycle `internal/bootstrap`, `internal/platform/worker` | contexts, done channels | start, stop | everything |
| HTTP API and authentication `internal/adapters/{httpapi,oidc}` | none | who may call what, the status of a reply, cursors | services, identity provider |
| Configuration, ports, errors, observability | none | settings, interfaces, logs | everything |

The application keeps no business state in memory. Several instances run at
once and meet only in the database and in the two queues, so what is hard is:

* **Interleaving.** Two requests, or a request and the resolver, read a wallet
  and the rows around it before either writes. Correctness rests on the
  version predicate of `UpdateBalance`, four unique indexes, row locks taken
  with `SKIP LOCKED`, and loops that retry on fresh state.
* **Order.** An operation may arrive before the one it references. It is
  parked, woken by the other's commit or by its backoff, and expires.
* **Crashes and lost replies**, before and after a commit, while rows are
  claimed, locked or woken, and between the broker and the database.
* **Redelivery** on the way in (visibility timeouts) and on the way out
  (expired locks), against deduplication that forgets.
* **Representation.** `int64` arithmetic, its overflow tests, decimal texts.
* **Start and stop** of several instances and of several loops in one.

What makes each part correct is stated in section 3, next to its module. The
hazards, each at its line, are in `PROJECT.json`.

## 2. Plan

Order of work, most important first. Done means modelled, checked by the runs
of section 4 and, where section 5 says so, proved.

1. `WagerTypes`, `WagerService`: operations, transactions, retries, resolver.
   Done; every safety property proved.
2. `WagerLedger`: what the service promises, without transactions; refined by
   `WagerService`. Done and proved.
3. `OutboxPublisher`: claims, locks, delivery, order; `EventStream`: what it
   promises, without rows, locks or publishers. Done and proved.
4. `InboxConsumer`: queue, consumer, inbox; `MessageIntake`: what it promises,
   without deliveries, receipts or consumers. Done and proved.
5. `Money`: arithmetic and texts. Done and proved for every word size.
6. `Migrations`, `WalletAccounts`, `Lifecycle`. Done and proved.
7. `ResolverQueue` (the order of due rows and what one that always fails does
   to the others), `Backoff` (the doubling in `int64`), `LedgerPages` (pages
   under concurrent inserts), `WagerAggregate` (a transaction and its row),
   `WagerApi` (roles, providers, statuses), `Bootstrap` (several processes
   starting, one stopping). Done and proved.
8. Left: a composition of `WagerService`'s commits with `OutboxPublisher`,
   events of one wallet from instant to queue, in which a retry takes a new
   instant.

The modules that proofs are planned for contain no recursive operators, state
their assumptions on constants by name, and have one action per statement.

## 3. Modules

### WagerTypes, WagerService, WagerLedger

`WagerService` models `service.go` over the repositories. Its processes are
*servers* (executions of `Process`, from HTTP or SQS alike) and *resolvers*
(iterations of `ResumeDue`). One action is one SQL statement with the Go code
up to the next one:

| Action | Code |
| --- | --- |
| `Submit` | a caller enters `Process` |
| `LookupExternal`, `LookupKey` | the two replay look-ups of `processOnce` |
| `Insert` | `transactions.Insert`, its unique-index waits and its foreign key |
| `LoadWallet` | `GetByID`, owner and currency checks, dispatch on the kind |
| `ResolveReference`, `FindReversal`, `FindCrossReversal` | `resolveReference` |
| `Move` | `Wallet.Debit`/`Credit` on the snapshot, then `UpdateBalance` |
| `Finish` | `transactions.Update`, `WakeDependents` |
| `Commit`, `CommitUnacknowledged`, `Abort` | the end of `WithinTransaction` |
| `Claim` | `ClaimOne`, FOR UPDATE SKIP LOCKED |
| `BecomeDue` | `next_attempt_at` passes |

State: `wallets`, `txs`, `ledger`, `outbox` are the committed tables (`txs` is
`wager_transactions` indexed by external identifier). What a transaction has
written but not committed lives in the process (`cmd`, `snap`, `out`, `woken`)
and becomes visible in `Commit`, all at once; statements read committed data,
which is READ COMMITTED. Locks are not variables: they follow from the program
counters (`HoldsWallet`, `HoldsRow`, `InsertBlocked`), so they cannot be
forgotten at a rollback. A retry by a server is a new transaction; a retry by
a resolver is a savepoint, so the claimed row stays locked.

Correct means: the ledger is a chain that ends at the balance (`LedgerChain`);
a processed operation moved money once, any other never (`ExactlyOnce`); a
stake comes back at most once (`SingleReversal`); a final reply is the
persisted one (`RepliesPersisted`), one key belongs to one operation
(`KeysUnique`); terminal rows stay (`TerminalIsFinal`); events tell what the
tables tell (`OutboxMatchesTables`); somebody can always run (`SomeoneRuns`);
parked operations settle and calls return (`ParkedSettles`, `Answered`).

`WagerLedger` is the abstract specification: balances, operations and their
states, four actions, no transactions. `Process` there is one atomic step
whose guard says when money may move. `WagerService!KeepsPromise` is the
refinement: the mapping reads the committed tables only, every commit is an
abstract step and everything else stutters. It leaves open *when* an operation
may be rejected, because a rejection decided on an old snapshot is allowed by
the code and moves no money.

Two facts came out of the model. The partial unique index on reversals never
fires: two reversals of one BET also compete for the wallet's version, and
that turns the loser away first. And the branch of `applyOperation` that
reports `WALLET_NOT_FOUND` is never reached, because the insert before it
breaks the foreign key (section 4).

Abstractions: one provider (providers share no row, key or reference;
`WagerApi` has several); a
payload hash is equality of the business fields; instants appear only as
`due`, and which due row is the oldest is not kept (any may be claimed, so
what is shown holds for every order; `ResolverQueue` has the order);
statements other than the modelled waits do not fail by themselves, `Abort`
standing for failures; `PENDING` is never committed and so is not a status of
a row.

### WagerAggregate

One transaction in memory (`internal/domain/wagering`) and its row: the
methods of the aggregate with their guards, what `Insert` and `Update` of
`transaction_repo.go` write, the CHECKs and the trigger of `0001_init.up.sql`,
and what `scanTransaction` and `Rehydrate` make of a row. The calls come in
any order the aggregate allows, which is more than the service makes of it.
Correct means: the schema never refuses a row the aggregate produced
(`NeverRefused`), and every row comes back as it was stored (`ComesBack`), but
for the currency of the balance (section 4).

### ResolverQueue, Backoff

`ResolverQueue` is `ResumeDue` over `ClaimOne` as a queue: `due` rows, of which
`older` says whose `next_attempt_at` is earlier (rows woken together have the
same, and their order by `created_at` is left open), batches, rows skipped while locked, wake-ups that
put rows behind those already due, and the end of a tick at the first error.
`Poison` names the rows whose resume fails every time. Correct means: nobody
is overtaken twice (`NoSecondTurn`) and every row that can settle does
(`OthersSettle`). A row that was rescheduled becomes due again only after the
transaction that rescheduled it.

`Backoff` is the arithmetic of the delays, one iteration of a loop a step:
`referenceBackoff` of the service with the settings as they are, `backoff` of
the publisher with its defaults. Correct means (`DelaysRight`): the delay is
the documented one whenever doubling the settings fits into an `int64`, and an
outbox event is never scheduled into the past.

### OutboxPublisher, EventStream

`publisher.go` over `outbox_repo.go` and the FIFO events queue. `TakeInstant`
and `Insert` are the two moments of a transaction that emits an event: the
instant is taken when it starts, the row appears when it commits. `Claim`
selects the earliest unpublished event of each aggregate that is due and not
locked; `Publish`, `Confirm`, `Reschedule` are the loop of `PublishDue`; each
may fail, and a send that fails may have reached the queue. `Abandoned` and
`Outlived` are the two ways a lock gets older than its TTL. `Forget` ends the
queue's five-minute deduplication. Attempts and the length of the backoff are
left out: an event that was rescheduled becomes due again (`Backoff` says
when).

`EventStream` is what readers of the queue may rely on: events are emitted
with the set of those they follow, each may be delivered any number of times
but only behind all it follows, and an event is settled only after it was
delivered. In the refinement mapping `emitted` is the table, `before` the order
wherever instants and commits agree (`Follows`), `stream` what the queue took
in, `settled` the rows with `published_at`; claims, locks, reschedulings and
crashes are stuttering steps.

Correct means: the publishers implement the stream (`DeliversStream`), order
within an aggregate is kept wherever instants and commits agree (`OrderKept`),
duplicates have a cause (`DuplicatesExplained`), and every event goes out
(`EventuallyPublished`). `VersionOrder`, the stronger order the documentation
promises, fails (`OutboxVersions`).

### InboxConsumer, MessageIntake

`consumer.go` of `internal/adapters/sqs` and the handler of
`internal/app/consumer` with `inbox_repo.go`. The queue is FIFO per group,
with visibility timeouts, receipt handles that only the latest delivery may
use, and a redrive policy. `wager.Process` appears as what `WagerService`
guarantees of it: the first payload committed for an identifier stands
(`Accepted`), which also lets HTTP bring the same operation (`Elsewhere`). The
inner transaction of `Process` is a savepoint of the handler's, so claim,
operation and completion commit together in `Process`.

`MessageIntake` is what a producer may rely on: a message that was sent takes
effect in one step, under an identifier not used before and only where no other
payload is in force; or it is refused, only when nothing can ever apply it; or
it is given up; and it leaves after one of these. In the refinement mapping
`completed` and `applied` are the tables, `refused` and `givenUp` the two kinds
of dead letters, `left` what the queue has let go; receives, claims, timeouts,
failures and crashes are stuttering steps.

Correct means: the consumers implement the intake (`KeepsIntake`), nothing
leaves the queue without a durable outcome (`NothingDropped`), a dead-letter
verdict is never contradicted (`VerdictsStand`), every entry leaves
(`EveryEntryLeaves`). That an inbox row stands for an operation in force and is
written once (`InboxTellsTheTruth`) is proved beside it.
Per-wallet order is not kept after a transient failure (section 4).

### Money

`money.go` with `Wallet.Debit`/`Credit` and `Entry.validate`. `Half` stands for
2^63; sums wrap around before their overflow test sees them, as in Go. A
decimal text is a record of sign, whole part, number of places and digits,
which is what the regular expression lets through. Each call is an action that
records operands and result.

### Migrations

`migrate.go`: what is pending is read before the advisory lock, each migration
runs in its own transaction under it. `present` is what exists in the schema,
`recorded` is `schema_migrations`. Instances run `Up`, operators `Down`. The
repository has one migration; the runner is written for any number and is
checked with two. `CREATE TABLE IF NOT EXISTS schema_migrations` is taken to
succeed.

### WalletAccounts, LedgerPages

`wallets/service.go`: look-up, insert against the unique index on player and
currency, and the rest of the transaction, with lost replies and repeated
requests; movements as `WagerService` commits them; and `Reconcile`, which is
one statement and therefore sees balance and ledger of one moment. Correct
means: one client opens a wallet, the ledger starts from its balance and every
balance is announced once (`OpenedOnce`); a reconciliation raises no false
alarm (`NoFalseAlarm`). The totals of a reconciliation are sums over the whole
history scanned into `int64`: a wallet whose credits ever exceed it can be
used but no longer reconciled. The model reports that as `"error"`, and no
property forbids it.

`LedgerPages` is the listing of `ledger_repo.go` with the cursor of
`httpapi/cursor.go`, a statement per page, while entries are inserted before
the cursor, behind it and in its instant. `StablePages` says that nothing that
was there at the start is skipped and nothing is shown twice.

### WagerApi

The wagering routes of `internal/adapters/httpapi` for several providers:
authentication as its outcome (accepted or not, roles, the provider claim),
`RequireRoles`, `authorizeProvider`, the order of the refusals, the idempotency
key, and the status of every reply; `Process` as its two look-ups, the unique
indexes and some verdict. Replies are lost and requests repeated, under other
keys and by other clients. The reading routes change nothing and are operators
(`GetShows`, `GetByExternalShows`, `WalletShows`). Correct means: a provider
sees and changes its own operations only (`ProviderIsolation`), a verdict
stands (`VerdictForGood`), and so does a conflict (`ConflictForGood`).

### Lifecycle

`bootstrap/app.go`, `worker.go` and the loop of the SQS consumer while the
process stops. The order of the hooks, that a hook is skipped once the stop
deadline has passed, and that an error of a hook does not stop the next one
are those of the fx library as the application uses it. Its initial state is a
process that has started.

`Bootstrap` adds the start of several processes: the pool, `Migrations`, OIDC
discovery and `EnsureQueues`, with their retry loops and deadlines, an
identity provider and a broker that come and go, processes that die, and
queues that keep the attributes of whoever created them. `ExitsExplained` says
that a process gives up only over a failed migration or a dependency that did
not answer it; `StartsEnd`, that no start hangs.

### Modules that others share or that join them

`Words` holds the machine word (`Half`, wrap-around). `MCDomain` joins `Money`,
`Backoff` and `WagerAggregate`, and `MCWallets` joins `WalletAccounts` and
`LedgerPages`: the parts share no state, and a behaviour moves in one of them
only, so that one run looks at all of them without multiplying their states.
`MCBootstrap` gives two processes different settings for the queues.

### Not modelled

* JSON decoding, request identifiers, health and metrics routes: translation
  without state. A body is good or bad in `WagerApi`.
* The signature of a token and the rotation of keys: the library's.
* Configuration: getters with defaults. `validate` looks at no duration, which
  is why `Backoff` takes any, and malformed values fall back to their defaults.
* Ports, error values, logging, metrics: no business state.
* The JSON of events: which event is stored is in `WagerService`.
* `PendingCount` and the count of parked rows: metrics.
* The backoff of the consumer after a failed receive: its loop simply polls.
* The status FAILED in `WagerService`, which no code path produces
  (`WagerAggregate` has it).

## 4. Runs

| Run | Instance | Shows |
| --- | --- | --- |
| `WagerStories` | nine stories (below) on two servers and two resolvers | every safety property of `WagerService`, the two action properties and the refinement of `WagerLedger` |
| `WagerSettles` | a BET with two reversals and a crash, and operations that wait for each other or for nobody; fairness | parked rows settle or expire, calls return |
| `OutboxPublishing` | three events, two aggregates, two publishers, a mishap; fairness | the refinement of `EventStream`, order, duplicates, every event goes out |
| `OutboxVersions` | two events of one wallet | **violated**: versions of a wallet leave out of order |
| `InboxConsuming` | two consumers, two of five messages, two mishaps; fairness | the refinement of `MessageIntake`, nothing dropped, stable verdicts, every entry leaves |
| `InboxOrder` | two messages of one wallet, one mishap | **violated**: the second is completed first |
| `DomainExact` | every pair of 9-bit amounts, texts around both ends, settings of either sign, a transaction with every call | exact arithmetic and texts, right delays, no row refused, every row read back |
| `ResolverServes` | a REFUND, its ROLLBACK and a WIN that wait, two resolvers, a mishap; fairness | nobody is overtaken twice, every row settles |
| `ResolverStarves` | two rows of which one always fails, a resolver; fairness | **violated**: the other never settles |
| `ApiReplies` | two providers, the internal service, a token without claim, ten requests of which four are posted, two handlers | isolation, and what a reply promises |
| `WalletsOpenedAndRead` | three clients, two wallets, two crashes; three movements and a reader | one opener, no false alarm, stable pages |
| `InstanceLife` | two processes with different settings, an operator, two migrations, a mishap; then the stop of one with batches of two, two workers, two requests; fairness | somebody comes up, the record tells the schema, exits are explained, starts end; the pool outlives its users, a clean stop loses nothing, it completes |

A behaviour of `WagerStories` tells one of the stories of `MCWagerService`:
`TwoReversals` (a BET, its REFUND and its ROLLBACK, with a crash) and `Rivals`
(a second REFUND besides); `Spending` (two BETs of which the wallet can pay
one, two WINs of which it can hold one unless a BET made room, a crash);
`Keyed` (one operation under two keys, with another payload, and another
operation under its key, each twice, a crash); `Chain` (a BET, its WIN, the
WIN's ROLLBACK, a BET that competes for the money); `UndoneRefund` (a BET, its
REFUND, the ROLLBACK of the REFUND, a late WIN); `MisfitReferences`,
`MisfitKinds`, `MisfitWallets` (another round, amount, kind, player, currency
or wallet). Every order of arrival of a story's commands is a behaviour.

What a violated run contradicts is quoted in `PROJECT.json`, section
"findings". `ResolverStarves` is the one with consequences in operation: a row
that fails on every resume is claimed first in every tick, and no younger one
is resumed or rejected any more.

More disagreements between documentation, or an evident intention, and code
were met on the way. They are modelled as the code has them, and no property
is stated about them:

* An operation on an unknown wallet ends in a foreign-key error and a 500,
  where `ARCHITECTURE.en.md:486-489` lists `WALLET_NOT_FOUND`
  (`app/wager/service.go:235`).
* A parked WIN whose credit would overflow is never rejected, as its attempt
  count is rolled back with the rest (`app/wager/service.go:663`); it is the
  row that starves the others above.
* Two instances that start on a new database both read the migrations as
  pending; the second fails and exits (`platform/migrate/migrate.go:107`,
  against the file's own lines 3-4). `SomeoneComesUp` shows the rest.
* Backoff settings above 2^62 nanoseconds overflow when doubled
  (`app/wager/service.go:693`).
* The balance of an operation refused with `CURRENCY_MISMATCH` is stored
  without its currency and read back in that of the operation
  (`adapters/postgres/transaction_repo.go:234`).
* `IsCorrectableFailure` (`domain/wagering/transaction.go:115`) and
  `ARCHITECTURE.en.md:431` differ over `REFERENCE_NOT_PROCESSED`.
* The pages of a ledger are in the order of the instants at which operations
  began, not of the movements, as "newest to oldest" in `ports/ports.go:70`
  may suggest.
* `NewClient` means to give the broker 60 s (`adapters/sqs/client.go:60`), but
  gets a context of 30 s from its only caller (`bootstrap/app.go:117`).
* An existing queue keeps its attributes whatever the settings say
  (`adapters/sqs/client.go:132`).
* A failure to listen is logged and the process stays up
  (`adapters/httpapi/server.go:34-42`).
* The loop of `Consumer.Run` does not look at its context within a batch:
  after a signal the rest of it is handled too, where `ARCHITECTURE.en.md`
  speaks of the message in flight.
* `bootstrap/app.go` appends the hooks of the workers after that of HTTP, so
  the workers stop first; the document lists HTTP first.

**Bounds.** `MaxSubmissions`, `MaxCrashes`, `MaxSent`, `MaxMishaps`,
`MaxMovements` and `MaxRequests` bound what has no bound in the code; they
appear in guards only. In `WagerService` two servers are enough for every race
of two snapshots, and the two resolvers appear where a wake-up meets a claim
and where a resumed operation competes with another; `MaxWalletRetries = 1`
(5 in production) makes the loop both retry and give up. `ReferenceMaxAttempts`
of 2 or 3 lets an operation be parked, woken and expire. `MaxMinor = 20` with
an opening balance of 10 puts the sums of `Spending` on both sides of the top. One wallet suffices, since an operation touches one wallet
and rows of other wallets are only refused. Servers are interchangeable and
so are resolvers, hence the symmetry of `WagerStories`; runs under fairness use
none. In `OutboxPublisher` one mishap is a failed send that was delivered all
the same, a publisher that dies with its locks, or a lock that expires under
its holder. In `InboxConsumer` two messages suffice for every pair of copies
and conflicts, and two deliveries each reach the redrive policy. `Half = 256`
is a complete word size in which two digits of minor units fit; section 5
removes that bound. In `WagerAggregate` an amount of each sign and two attempts
reach every guard. Two resolvers and three rows reach every order of a wake-up,
a claim and a row that comes due; starvation needs one resolver and two rows.
Four posts on two handlers are enough for a request, a copy that overlaps it, a
copy after its reply, and a rival. Two instants and pages of at most two put
several entries into one instant and a page boundary between them. In
`InstanceLife` one retry stands for the retries before a deadline; one mishap
is a process that dies, a script that fails or a dependency that goes away.
The stop of `Me` follows a start in which nothing went wrong (`Settled`),
because its hooks do not depend on how the start went; the product with every
start would add states and no behaviour. `SomeoneComesUp`, and the absence of
gaps in `RecordTellsSchema`, speak of the time before the operator has read
what to revert: an operator that reverts while instances start can leave any
set of versions.

**Fairness.** `WagerService!Fairness`: a transaction that can take its next
statement does (PostgreSQL grants locks when their holder ends, and each
holder is itself fair); a backoff ends; the resolver loop polls for ever.
Clients owe nothing and crashes are bounded. `OutboxPublisher!FairSpec` and
`InboxConsumer!FairSpec`: each loop goes on with what it has and polls, and
time passes for backoffs, abandoned locks and visibility timeouts; mishaps are
bounded, since a queue that always fails never takes anything. `ResolverQueue`:
tickers fire, statements end, backoffs end; references owe nothing. `Bootstrap`:
statements are executed, a released lock is granted, and a retry loop goes on
to its next attempt, but no dependency need ever answer. `Lifecycle`: a message ends within its grace period,
an iteration because its context is cancelled, a request by the server's time
limits; a worker's return needs strong fairness because `select` picks at
random among ready cases, so a tick may win some rounds; the consumer's needs
only weak fairness because its loop tests the context.

`EveryEntryLeaves`, `EventuallyPublished` and `StartsEnd` speak of all
messages, events or processes at once (the queue is empty again and again)
rather than of each by itself: what has left, is published or has ended stays
so, hence this is no weaker, and TLC follows one formula instead of one for
each.

`CHECK_DEADLOCK FALSE` is set where the system may come to rest: every client
has submitted all its bound allows, every event is published, every message
has left, every process has exited.

## 5. Proofs

All for every value of the constants that satisfies the named assumptions of
the modules, which TLC evaluates in each run: `WalletsAssumption` (among others,
the opening entry is no operation's), `CommandsAssumption`,
`ServiceAssumption`, `OutboxAssumption`, `ConsumerAssumption` (`None` is no
message), `ApiAssumption`, `MoneyAssumption`, `BackoffAssumption`,
`AggregateAssumption` (`NULL` is no value of a column), `ResolverAssumption`,
`LifecycleAssumption`, `BootstrapAssumption` (migrations are finitely many),
`PagesAssumption`, `AccountsAssumption`. Where a property is an invariant it is
seldom inductive by itself; what has to be added, and why, is the substance of
each proof.

### `WagerServiceProofs`

**`TypeCorrect`: `Spec => []TypeOK`.** `TypeOK` bounds every stored, ledgered,
remembered and reported balance by `0..MaxMinor`. It is not inductive: `Commit`
copies what `Move` decided three statements earlier, so its bounds must be
remembered with the program counter. `TypeInv` adds `ProcessShape` (a busy
process has a command whose wallet exists from `"wallet"` on, and one with a
reference where references are looked up; an outcome that moves money has a
representable balance and is not a LOSS) and `RowShape` (a row holds a command
of its own identifier and of an existing wallet, which is what a resolver that
claims it relies on). There is one lemma for each way a step can end (`Return`,
`Retry`, `Decide`, `Goto`, `Write`) and one per action.

**`KeysStayUnique` and `TerminalStays`: `Spec => []KeysUnique`,
`Spec => TerminalIsFinal`.** Neither follows from the committed rows alone,
since a commit publishes what an insert checked many statements earlier.
`LockInv` says what the locks guarantee in between: an uncommitted row has an
identifier and a key that no committed and no other uncommitted row has
(`InsertedAlone`, the unique indexes); a resolver's row still waits and still
holds the command being executed (`ClaimedRow`, FOR UPDATE); woken rows still
wait and belong to a transaction that is about to commit (`WokenRows`); no row
is held twice (`RowsHeldOnce`). `RowsInv` is `TypeInv /\ LockInv`;
`TerminalStays` reads off `RowsKept`, what every step from such a state does to
the rows.

**`LedgerIsChain`: `Spec => []LedgerChain`.** The balance a commit stores was
computed from a snapshot read several statements earlier. `WalletInv` carries
the argument: a snapshot is never newer than the stored wallet, and when the
versions agree the balances do (`SnapHonest`); a process whose UPDATE has
matched the version holds the wallet, its snapshot is current and its result is
the snapshot moved by the amount (`MovementRight`); no two processes hold one
wallet (`WalletsHeldOnce`); and the reference that decides the direction of a
movement is PROCESSED and, by `RowsKept`, stays what it is until the commit
(`ReferenceSettled`). A process that waits with an old snapshot when another
commits is left behind by the version, which only grows. The lemma
`ChainExtended` is the one place where a chain gets longer.

**`AnswersArePersisted`: `Spec => []RepliesPersisted`.** `AnswerInv` says of
each process that its final reply is the committed row's verdict on the same
payload (`Replied`), and that an outcome on its way to the commit moves the
wallet exactly if it is a success other than a LOSS (`OutcomeRight`). Terminal
rows stay, so a reply that was right remains so.

**`MovesExactlyOnce`: `Spec => []ExactlyOnce`.** `BookedOnce` restates the
property entry by entry: a terminal success has one place in the ledgers, any
other operation none. It is kept because a commit writes a row that was not
terminal (`RowsWritten`), hence had no entry.

**`OutboxTellsTables`: `Spec => []OutboxMatchesTables`.** The outbox is the
union of three families (`EventsInv`): balance changes, one for each version of
a wallet after the first; outcomes, one for each terminal row; waits, one for
each attempt used up. A commit adds to the tables exactly what its events tell.

**`ReversedAtMostOnce`: `Spec => []SingleReversal`.** No index covers a REFUND
and a ROLLBACK of one BET together. What keeps them apart is that each moves
the BET's wallet, so its version grows. `Cleared` says that between a
transaction's look-up and its commit no rival has been processed *as long as
the version it read is the stored one*; a rival's commit changes the version
and the UPDATE of the other finds no row. `WalletOwned` and `ReferenceFits` say
that a process past the checks has an operation of the wallet's player and a
reference that fits it and is settled, which makes the rival's wallet the
same one; `RowsJustified` says so of the committed rows. The refusal of a
mismatched operation is thus part of what makes reversals exclusive.

**`PromiseIsKept`: `Spec => KeepsPromise`.** `ServiceInv` is the conjunction of
the above. Under it, every `Write` is the abstract acceptance, wait, rejection
or settlement on the committed tables of that moment, although it was decided
on older reads, and every other action stutters.

**`SomeoneAlwaysRuns`: `Spec => []SomeoneRuns`.** The order in which locks are
taken is not fixed, so the argument follows the waits: who waits on an insert
waits for a server past its own insert; who waits on a wallet waits for a
process about to finish or commit; who waits to wake a row waits for a resolver
that claimed it, and whose reference is therefore not processed, so it holds no
wallet and waits for nobody. The last point needed the guard of the waits in
`Finish` to say what the code does: only a success wakes dependents.

### `OutboxProofs`

**`OrderIsKept` and `StreamIsDelivered`: `Spec => []OrderKept`,
`Spec => DeliversStream`**, for any number of events, aggregates and publishers
and any batch size. `OrderKept` is not inductive: an event is sent some steps
after it was claimed, and what must not have happened in between is decided by
the claim. `StreamInv` adds `TypeOK` (`OutboxTypes`), `Known` (whatever a
publisher has, the queue took in or a row says is committed; only what the
queue has is being confirmed or is published) and `Led`: whoever is in a batch,
in a publisher's hands or in the queue follows nothing that is not published.
`Led` holds because `Claim` takes the earliest unpublished event of its
aggregate (`TakenBefore`), because confirmations are never taken back (`Kept`),
and because whether a committed event follows another is settled for good
(`FollowsSettled`: instants are taken once, before the commit, and later
commits come behind). A lock that expires, a second holder, a repeated send or
a crash does not touch any of it. `StreamSteps` maps each action to its step of
`EventStream` or to none.

**`CopiesAreExplained`: `Spec => []DuplicatesExplained`.** The bound on copies
is kept by an account (`Paid`): what was sent, what a publisher still has a
chance to send (`Chances`) and what may still be claimed (`Open`) are together
no more than the committed events and the mishaps. A claim turns an open event
into a chance, a send a chance into a copy, and only a mishap opens an event
again.

### `InboxProofs`

**`NothingIsDropped`, `InboxIsTrue`, `VerdictsAreFinal`:
`Spec => []NothingDropped`, `[]InboxTellsTheTruth`, `[]VerdictsStand`**, for
any number of consumers, copies, redeliveries, crashes and lost calls. A
consumer deletes a message some steps after the handler ended, when its
receipt may be stale and another consumer may be at the same message.
`InboxInv` carries over the gap what cannot be undone: inbox rows stay and tell
the truth (`RowsTrue`, `HandledAreRows`), a consumer that is about to delete
knows a completion or a dead letter that exists (`Informed`), two consumers
between claim and completion have different message identifiers
(`ClaimedAlone`), and a message is sent to the dead-letter queue by the handler
only if nothing can ever make it succeed (`LettersHopeless`): it cannot be
decoded, its identifier is completed with another body, or another payload of
its operation is in force. None of the three goes away.

**`IntakeIsKept`: `Spec => KeepsIntake`.** `IntakeSteps` maps each action to its
step of `MessageIntake` or to none, from `InboxInv` and `Held`: whatever a
consumer still has in its batch was sent, although the queue may have shown it
to others, redriven it or let it go since. `Process` is the abstract completion
because its claim keeps the identifier to one consumer until the commit.

### `ApiProofs`

**`ProvidersAreIsolated`, `ConflictsStand`, `VerdictsStand`:
`Spec => []ProviderIsolation`, `[]ConflictForGood`, `[]VerdictForGood`**, for
any clients, tokens, providers and requests handled at once. A reply is
composed and then delivered, maybe lost, while others write. `ApiInv` says that
every reply composed or told is `Justified` by the tables: a conflict by a row
with other data or a key that belongs to another operation (`Contested`), a
verdict by the row (`Recorded`); that every row was written by a client entitled
to its provider (`RowsOwned`); and that keys are unique within a provider
(`KeysApart`). Rows keep payload, key and verdict (`RowsKept`), so what
justifies a reply once justifies it for good.

### `LifecycleProofs`

**`PoolOutlives`, `StopIsClean`: `Spec => []PoolOutlivesWork`,
`Spec => []CleanStop`**, for any batch size and number of requests;
`StartedStopsWell` says the same of a process that `Bootstrap` has started. The
invariant relates the hooks still to run, the hooks called and the loops that
run: a hook that has returned has no running loop and, for HTTP, no request
unless its timeout passed.

**`RecordIsSchema`, `SomeoneWins`: `BootSpec => []RecordTellsSchema`,
`[]SomeoneComesUp`**, for any number of processes, migrations and mishaps.
`SchemaInv` says that what is recorded is what is present; that until somebody
reverts the recorded versions have no gap and every process has still to apply,
in order, all that it has not seen recorded (`Upwards`); and that without a
mishap somebody `Leads`: it has not looked yet, is done, or has nothing left to
apply that is recorded. The
step that could take the last leader away, another process's commit of a
version the leader has to apply, makes that other process the leader.

**`ExitsAreExplained`: `BootSpec => []ExitsExplained`**, by `BootInv`, whatever
order processes start, fail and create queues in.

### `WalletProofs`

**`PagesAreStable`: `WalletsSpec => []StablePages`.** `PageInv` says where the
reader stands: everything there at its start is read or behind its cursor,
what was read is before the cursor, in strictly descending order. The order
(instant, then identifier) is total and the page is the newest of what lies
behind the cursor, so a page that is full leaves only older entries
(`NextPage`); entries inserted meanwhile, on either side of the cursor or in
its instant, do not disturb it (`WriterPages`).

**`OpenedOnceOnly`: `WalletsSpec => []OpenedOnce`.** `OfficeInv` adds to the
types that whoever is about to commit an opening is alone and its owner has no
wallet yet (`OneOpens`, the unique index), what each client was told (`Told`),
and which versions of which wallets were announced (`Announcements`).

**`BooksAgree`: `WalletsSpec => []NoFalseAlarm`.** A reconciliation adds up a
ledger of any length, so the sums have to be reasoned about by induction. The
library's induction theorems cannot be applied here, but its theorem that `<` is
well founded can: `LeastOf` and `Counting` say of a *set* of numbers that holds
0 and every successor that it holds them all, `PartialSums` and `SumsUp` take
the set of lengths up to which a sum can be formed, and `SumOfAppend` and
`TotalsOfAppend` are what an entry more does to both totals. `BooksInv` is then
a step at a time: an opening writes the balance it announces, a movement moves
balance and one total by the same amount.

### `ResolverProofs`

**`NobodyIsOvertakenTwice`: `Spec => NoSecondTurn`**, for any number of rows,
resolvers, attempts and failures. `QueueInv` says of whoever went before a row
that still waits (`Behind`): it is being resumed, is not due, or is due with a
later instant. A row that comes back gets a later instant than those that wait,
and a wake-up that puts a row among them makes it wait anew.

### `DomainProofs`

**Money**, for any word size `Half > 100`, so in particular 2^63:
`ArithmeticIsExact` (the tests on the wrapped sum and difference report an
overflow exactly when there is one), `ParsingIsExact` (a text is read as what
it denotes, or refused exactly when no `int64` can hold it), `TextsRoundTrip`,
`MovementsAreBookable` (no negative balance, INSUFFICIENT_FUNDS exactly when
the amount exceeds the balance, and the ledger's own validation accepts every
movement). The lemmas `AddExact`, `SubExact`, `NegExact`, `ParseExact`,
`FormatExact` and `MovementExact` say what each operator returns; `CallsExact`
lifts them to calls. `AmountsAreExact` and `TextsAreExact` put them together as
`DomainExact` checks them.

**Backoff**, `DelaysAreRight`: `DomainSpec => []DelaysRight`, for any word
size, defaults and settings. The loop goes on only with the base or with a
value below the cap (`LoopInv`), so the next doubling fits whenever that of the
cap does, and nothing is scheduled into the past. That the delay is the power
of two it should be (`ExactInv`: after `i - 1` doublings the delay is
`base * 2^(i-1)`) needs `2^(n+1) = 2 * 2^n`, which the provers do not know of a
power. `PowerCounts`, `PowerGrows` and `PowerDoubles` get it from the library's
theorem that a set of `n` elements has `2^n` subsets: the subsets of `1..n+1`
are those of `1..n`, without and with `n + 1`.

**A transaction and its row**, `NothingIsRefused` and `EverythingComesBack`:
`DomainSpec => []NeverRefused`, `[]ComesBack`, for any amounts and currencies.
`AggregateInv`: the transaction in memory is one whose columns pass the CHECKs
and can be read (`Sound`); the row is such columns and keeps every field of
what was last written (`Keeps`); and memory and row agree on what UPDATE does
not set (`SameOperation`), without which an UPDATE could join two operations.
`ColumnsAreRows` and `RowsLoad` say that writing and reading are inverse but
for the currency of the balance.

### Only model-checked

* Liveness under fairness (`ParkedSettles`, `Answered`, `EventuallyPublished`,
  `EveryEntryLeaves`, `OthersSettle`, `StartsEnd`, `StopCompletes`), which is
  outside the reach of the prover.

Everything else the passing runs check, each invariant and each action
property, is a theorem.
