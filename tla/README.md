# Verification of the payment ledger

TLA+ models of the payment ledger (a Go API server over PostgreSQL, and a web
console that carries a ledger engine of its own), the TLC runs that check them on
small instances, and machine-checked proofs that hold for every instance: of the
database, the micro-batcher, the idempotency layer, the engine in the browser and
two of the console's pages. Paths below are relative to the repository.

## 1. The system

A POST passes the idempotency middleware, a handler and a service. Wallet
operations run their SQL statements in the handler's goroutine; transfers are
queued to one micro-batching worker per process, which calls a stored procedure
for up to 50 of them. Everything durable is in one PostgreSQL database. The
console is one TypeScript file. Its `request` sends to the server and, when the
fetch throws, asks `SimEngine` instead, a second ledger in the browser: so every
page works with answers of two ledgers, which may come late and in any order, and
may stand in for an answer the server gave and the page never got.

| Component | State | Operations | Interacts by |
|---|---|---|---|
| Ledger database (`migrations/*.sql`, `wallet_repository.go`, `transfer_repository.go`) | wallets, transactions, ledger entries, row locks, id sequences | create, deposit, withdraw, `process_transfer_batch` | row locks between sessions; commit or abort towards callers |
| Transfer micro-batcher (`transfer_service.go`) | job queue, slice, flush timer, stop channel, one result channel per job | `ProcessTransfer`, the worker loop, `executeBatch`, `Stop` | channels with callers, the batch procedure with the database, contexts from net/http |
| Idempotency (`idempotency_middleware.go`, `idempotency_repository.go`) | the `idempotency_keys` table, the response being written | `TryLock`, `Get`, `Update`, `Delete`, sweep | one table shared by every process; wraps every POST |
| Handlers and error mapping (`internal/handlers`) | none | parse, call a service, map errors to statuses | decide what the middleware stores (below 500) or releases (500 and up) |
| Server process (`cmd/server`) | the HTTP server, the worker, optional audit goroutine | start, graceful shutdown | stops the HTTP server, then the worker |
| Audit worker (`cmd/audit-worker`, `audit_service.go`) | none | one-statement reconciliation; sweep of keys over 24 hours old | reads the ledger, deletes keys |
| Read side (`ledger_service.go`, `ledger_repository.go`, `transaction_repository.go`) | none | pages of entries and transactions, per-wallet reconciliation | single statements |
| Seeder, migrations, entry point | none | run when a container starts | several containers may start together |
| Simulation engine (`SimEngine` in `web/app.tsx`) | wallets, transactions, chained entries, used keys, promise locks | the routes of the API | one call suspends at an await and others run |
| Console store and `request` (`web/app.tsx`) | wallet list, selection, revision | refresh, select, bump, open a wallet; send to one ledger or the other | every page reads it; its effects follow it |
| Ledger page | rows, reconciliation | load, refresh, reconcile | reads, on another selection and on a bump |
| Transact page | form, idempotency key, pin, attempts | edit, submit, retry, pin, draw a key | a POST, then reads, then a bump |
| Lab page | fixture wallets, results | four experiments, alone or in a row | posts to a ledger and judges it by what it reads back |
| Other console pages (overview, wallets, palette, API console, traces, health badge) | what they show | reads, free-form requests | `request` |

What is hard here:

- *interleaving*: statements of concurrent transactions under READ COMMITTED;
  copies of one request on several processes;
- *failure*: an abort at any statement, a commit whose acknowledgement is lost,
  a process that dies between the commit and the storing of its response;
- *time*: callers that give up while their job is queued, collected, or being
  executed; the 2 ms flush timer against a full batch; the 60 second lease and
  the 24 hour sweep of keys;
- *order*: transfers that depend on one another through batch, fallback and
  drain; lock order against rows that appear late;
- *limits*: the queue at its capacity, the batch boundary, the BIGINT range, the
  zero balance;
- *awaits*: in the browser, what a call or a page knew before an await and uses
  after it: the look at a key and its record, the wallet a load was made for, the
  key and the pin of the render a send was pressed in, the fixture of an
  experiment.

What makes each component correct:

- ledger database: balances equal the sums of their entries at every commit, no
  update is lost, operations are serialisable, refusals are on the merits, no
  deadlock among transfers of existing wallets;
- micro-batcher: a job is executed at most once and answered exactly once and
  truthfully, in queue order, whoever fails or gives up; nothing is stranded in
  the slice, and the shutdown drains what was queued;
- idempotency: one holder per key, responses replayed only to the same payload,
  no second effect, no key locked for good;
- read side and audit: what a snapshot shows is balanced;
- simulation engine: the same account book as the server's, one posting per key,
  books that agree at every moment, no call waiting for ever;
- console pages: what is shown belongs to the wallet it is shown for and is no
  older than the last movement the page knows of; a movement whose answer was lost
  can be claimed with the same key; a busy page comes back;
- Lab: only true claims are marked verified, and a sound server passes.

`PROJECT.json` lists every hazard at its line with the properties that cover it.

## 2. Modules

| Module | What it is |
|---|---|
| `Postings` | pure operators: what an operation posts, what a transfer does to the balances (`Move`, `Trail`), and the verdict of the batch procedure on one transfer and on a batch (`Verdict`, `BatchVerdict`) |
| `AccountBook` | abstract specification: operations take effect in one step, one after the other |
| `LedgerDB` | the database as its clients drive it, one SQL statement per step; implements `AccountBook` |
| `TransferService` | callers, queue and worker of one process, over a database that executes a batch whole or not at all |
| `Idempotency` | requests, keys and the operations behind them |
| `SimEngine` | the engine in the browser, one await to the next; implements `AccountBook` |
| `Console` | the console's store and `request` over two ledgers: variables and actions the pages below extend |
| `LedgerView` | the Ledger page over `Console` |
| `Transact` | the Transact page over `Console` |
| `Lab` | the Lab page over a server that may be faulty |
| `MC...` | the instances TLC checks |
| `Postings_proofs` | lemmas other proofs rest on: induction and recursion over `0 .. N`, sequences, what the operators of `Postings` return |
| `LedgerDB_proofs` | the inductive invariant of `LedgerDB`; safety of what is committed |
| `LedgerSerial_proofs` | over it: the refinement of `AccountBook`, true replies, no circular wait |
| `TransferService_proofs`, `Idempotency_proofs`, `SimEngine_proofs`, `LedgerView_proofs`, `Transact_proofs` | the inductive invariant of the module each is named after, and its theorems |

An operator whose comment starts with "Mutant" is a wrong version of the
definition that follows it. It takes no part in the model; putting it in that
definition's place must break one property, which shows that the property says
something about the code.

### LedgerDB

A session is a pool connection with its transaction. `pc` is the next statement,
`op` the operation, `todo` the wallets still to be locked, `cur` the loop index
of the batch (or the id a create got), `image` the version of a row its lock
holder sees, `pend` and `lines` the uncommitted ledger entries and transactions.
`rows`, `balance`, `posted` and `book` are committed state.

| Action | Code |
|---|---|
| `Begin` | `BeginTxx`, or the call of the procedure |
| `InsertWallet`, `RecordCash`, `Commit` | `WalletRepository.Create` |
| `LockRow`, `MissRow` | `SELECT ... FOR UPDATE` and `PERFORM ... FOR UPDATE` (the latter goes on without a row) |
| `UpdateDeposit`, `UpdateWithdraw` | `UPDATE wallets` after Go's own balance check |
| `CheckJob`, `Debit`, `Credit`, `RecordTransfer` | one turn of the procedure's loop |
| `Commit` | COMMIT; with faults, its acknowledgement may be lost |
| `Abort` | a broken connection, an ended context, a deadlock victim |

PostgreSQL is modelled from how the code uses it: a row lock is held to the end
of the transaction, a statement sees its own writes and committed rows, an
`UPDATE` takes the lock of a row it does not hold, the CHECK constraint and the
BIGINT range fail the statement and with it the transaction, ids come from a
sequence outside the transaction. An INSERT of a transaction and the INSERT of
its ledger entries are one step, since nobody sees either before the commit.
The lock an operation's foreign keys take is on rows it holds already.

### TransferService

`caller`, `ctx`, `chan`, `returned` are per call of `ProcessTransfer`; `queue`
is `jobQueue`; `worker` and `phase` are the place of the worker goroutine, and
`batch`, `timer`, `rest`, `valid`, `answer` its locals. `applied` and `accepted`
are the orders in which jobs were executed and queued, `quitters` the callers
who gave up before their batch was flushed. Go's `select` picks any ready case.
A batch takes effect in one step, which the refinement of `AccountBook` by
`LedgerDB` justifies.

### Idempotency

`record` is the table, `pc` where the middleware is with each request, `job` the
operation behind it, `status` and `source` the response and the execution it
comes from. The age of a row is "fresh", "stale" (60 seconds) or "expired" (24
hours). An operation takes effect at most once per request and may do so after
its handler stopped waiting. `mishaps` remembers the keys for which the layer
makes no promise any more.

### SimEngine

JavaScript runs one callback at a time, so a step is what lies between two awaits:
`Start` (the wait before the handler), `Ask` (one lock asked for; `Mutex` is a
promise chain, hence a queue whose head holds the lock), `Hold` (the wait that
stands for a row lock) and the steps that answer. Locks are released by the answer
(`finally`). A commit changes wallets, transactions and entries together. Hashes
are abstracted to the sequence number of the entry they chain to. The engine
posts both sides of every movement, with the settlement account as the other side
of cash; `SerialBook` maps its transactions to those of the database, whose cash
operations have one entry.

### Console, LedgerView, Transact

A ledger is the sequence of what was posted to it, so an answer to a read is a
source and a length. A read in flight carries the lengths at the time it was sent
and may be answered from any state since, by either ledger. `refreshes` are the
`GET /wallets` in flight, `revision` counts bumps. Actions of the store:
`ListArrives` (`refreshWallets`), `Select`, `SubmitWallet`, `WalletOpened`,
`WalletAnswered` and `WalletSimulated` (`CreateWallet`), `LabEnds` and `OthersPost`.

`Opened(a)` is where in the ledger the wallets an answer lists were opened, and
`BalanceAt` adds up a ledger as far as an answer goes.

`LedgerView` adds `loads` and `recons` in flight and what is shown; `Effects` are
the page's three effects after a render, part of each store action. `InOrder` is
an assumption about the network and the servers, not about the code: answers of
one kind come in the order of their requests, and a list of wallets never shows a
ledger in a state earlier than a list that came before did. `heard`, the latest
state of each ledger a list has shown, is a history variable for the second half:
it is not enough to compare with the list on the screen, which may be the other
ledger's (section 4).

`Transact` adds the form, the key and the sends. A send is a record of what its
render knew (key, body, pin) and of how far it is: `landed` on the server,
`answer`, and `since`, the moment the reads after the POST were sent. `Remount` is
leaving the page and coming back, which starts its state over while its sends go
on. `Verdict` is what either ledger answers in one step: the code that `SimEngine`,
`LedgerDB` and `Idempotency` model in detail, taken here as a contract. Texts are a whole part and the digits
behind the point.

### Lab

`run` holds the calls an experiment has yet to make and the answers it has heard;
`Call` makes the next one, `SendBatch` and `ServeBatch` are the concurrent
transfers, in any order. `Hear` is what the code does with an answer: throw, go
on, top up, conclude. `fault` is what is wrong with the server: it ignores keys,
ignores payloads, does not check funds, or loses an update among concurrent
transfers. `Requested` lets any fetch be answered, fail with a 500, or throw,
with or without effect.

## 3. Runs

| Run | Bounds | Shows |
|---|---|---|
| `LedgerDB_safety` | 2 sessions, 3 wallets (2 open), balances to 3, 3 operations out of 10, faults | types, reconciliation, no lost update, checked funds, sums, true replies, refusals on the merits, refinement of `AccountBook` |
| `LedgerDB_ring` | 3 sessions, 3 open wallets, 3 operations out of 5, no faults | no circular wait, every operation ends |
| `TransferService_safety` | 4 callers, queue 2, batch 2, aborts, cancellations | at most once, true replies, flush timer, fault isolation, early cancellation |
| `TransferService_live` | 4 callers, queue 2, batch 2, Stop, one posting by others | order, every queued job answered, Stop returns |
| `TransferService_lost_ack` | 3 callers, lost acknowledgements | **violation**: executed twice, reported once |
| `Idempotency_faults` | 1 key, 2 copies and 1 other payload, every fault except slow handlers | one holder, faithful replay, at most one effect without mishap, progress |
| `Idempotency_crash` | the same, crashes only | **violation**: two effects |
| `SimEngine_calls` | 3 calls out of 16 requests, 2 keys, 2 seeded wallets and up to 3 opened | books agree, one posting per key, refinement of `AccountBook`, every call ends |
| `LedgerView_in_order` | 2 server wallets, 1 simulated, one opened on each side, 2 reads of a kind in flight, 1 bump, 1 movement by others | rows of the selected wallet, fresh since the last bump, a new wallet shown |
| `LedgerView_late_answer` | the same, answers in any order | **violation**: another wallet's rows |
| `Transact_lost_answers` | 2 server wallets, 1 simulated, 3 keys, 2 bumps, 2 reads in flight, 1 attempt kept, $1.05 or all there is | a lost answer can be claimed, balances after include the movement, the form comes back, amounts survive being shown and typed |
| `Lab_verdicts` | 5 servers, batches of 2, 1 mishap, 2 clicks (up to 8 experiments) | verified means so, sound is verified, every experiment ends |

Why the bounds are enough to be interesting. In `LedgerDB`, sessions interact
through row locks and committed rows only; two of them with two or three wallets
give every overlap of lock phase, update and commit, and every interaction of two
needs at most one more operation before it to set up the balances. Circular waits need three
sessions on three wallets to tell a cycle of three from one of two. Amounts and
balances to 3 make funds and the BIGINT bound bite within two operations. In
`TransferService` a queue and a batch of two with four callers give a full queue, a
full batch, a batch closed by the timer, a left-over and a dependency between
batches. In `Idempotency` keys do not interact, and three requests give
a holder, a retry and a third that takes over, or reuses the key. In `SimEngine`
three calls give a holder, a waiter and a third that holds what the waiter has yet
to ask for, on a key and on wallets; three may also all open a wallet. In
`LedgerView` two reads of a kind and one bump
give each overlap of a selection, a refresh, a bump and the answers of two
requests; longer queues only repeat them. In `Transact` a second send may be made
while one of a page that was left is still on its way (`MaxKeys`, `MaxRevision` and
`MaxReads` count what is in flight as used, so that nothing is cut off between a
POST and its end); $1.05 and its multiples have cents with a zero in either place. In
`Lab`
an experiment makes its calls in sequence; two transfers are the least that can
race, their amount is the largest the page draws, and two clicks give every
ordered pair of experiments, a new fixture in between, and all four in a row.

Deadlock checking is off: operations, calls and requests are finite in number,
and the system may stop when all have ended. That nothing stops too early is
what the liveness properties say.

Fairness. `LedgerDB`: weak fairness of every session's next statement;
PostgreSQL runs a statement that can proceed. A session waiting for a lock is
disabled, so this assumes nothing about who gets a lock: with finitely many
operations weak fairness suffices, and the property fails if locks are kept.
`TransferService`: weak fairness of the worker, of the timer and of woken
callers, which is the Go scheduler; none for callers, cancellations or Stop.
`Idempotency`: weak fairness of the handler's normal steps, of the end of an
operation, and of time; none for faults, crashes and the sweeper.
`SimEngine`: weak fairness of each call, that is, timers fire and settled promises
resume; a call waiting for a lock is disabled. `Transact` and `Lab`: weak fairness of the
steps of a fetch, which returns or throws in the end; none for the user, so a send
or an experiment ends however the page is used meanwhile. `LedgerView` has safety
properties only.

### What the violation runs report

- `TransferService_lost_ack`: the fallback assumes that a failed call had no
  effect.
- `Idempotency_crash`: the operation and the storing of its response are separate
  transactions. `AtMostOneWithoutMishap` is what does hold.
- `LedgerView_late_answer`: a load and a reconciliation keep the wallet they were
  made for and nothing cancels them; with `InOrder` `OwnRows` holds.

### Where the code and its texts differ without a run

- A batch passes over a wallet that is not committed yet. When it is committed
  before the checks, the `UPDATE`s lock it in the order sender, receiver, and two
  such batches can deadlock; PostgreSQL aborts one and the fallback retries it.
  `LedgerDB_safety` runs this path, and no money is lost, but the README's
  "Mathematically eliminates circular wait conditions" holds only while no wallet
  is being created, which is how `LedgerDB_ring` is set up.
- Cash operations have one ledger entry, so "Every transaction generates balanced
  debit and credit entries" holds of transfers only, and of the browser's engine.
- `executeBatch` looks at the context before, not during, the database call: a
  caller may be told of a cancellation and charged. `GaveUpInTime` is what holds.
- A 500 releases the key whatever the operation does, also when the handler gave up
  on a job that still commits. With `SlowHandlers = TRUE` a live handler loses its
  key after 60 seconds, and `OneOwner` fails too.
- The server answers `chain_valid: true` without looking (`ledger_service.go:79`), so
  that "Hash chain intact" means something for the simulation only.
- The tampered payment of the Lab is for $9,000.00, more than its sender has. A
  server that ignores keys refuses it for want of funds; what keeps the claim from
  being verified is that such a refusal is a 400 and the experiment wants 409 or
  422. On the simulation, which refuses with 422, the two could not be told apart.
- The Lab's wallets are called isolated, but any page can use them: a movement
  between two calls of an experiment makes a sound server fail it (`SoundIsVerified`
  is about experiments without one).
- A send closes over the pin and the balances of its render: a key pinned while a
  send is under way is replaced all the same, although the page then says that
  "every submit reuses this key", and a replay may be shown with a difference that
  an earlier attempt made.
- The Ledger page sums the entries it has been given. The server gives 20 unless
  asked for more (`ledger_handler.go:30`), so that for longer histories its
  equation of credits, debits and balance does not add up.
- A deposit without a wallet makes the simulation throw on `(from ?? to)!`, and the
  form of that page stays busy.

## 4. Proofs

The theorems hold for every value of the constants that satisfies the assumption
of the module (`ConstantsAssumption`, `SimAssumption`, `ConsoleAssumption`, ...,
which TLC evaluates in every run); what else one assumes is in the table. Each
rests on an inductive invariant, the conjunction of named parts, with one lemma per
action and `Init`; the same formulas were model-checked on the instances of the runs
before they were proved.

| Module | Theorem | States | Assumes further |
|---|---|---|---|
| `LedgerDB_proofs` | `TypeCorrect` | `TypeOK`: no balance, committed or not, leaves `0 .. MaxBalance` | |
| | `AlwaysReconciled` | `Reconciled` | |
| | `NeverLostUpdate` | `NoLostUpdate` | |
| | `FundsStayChecked` | `CheckedFundsHold` | |
| | `BooksAddUp` | `BookSums` | |
| `LedgerSerial_proofs` | `ImplementsAccountBook` | `SerialSpec`: `LedgerDB` refines `AccountBook` | |
| | `RepliesAreTruthful` | `RepliesTruthful` | |
| | `RefusalsDeserved` | `RefusedOnMerits` | |
| | `NoDeadlock` | `NoCircularWait` | `[]NamesExist` |
| | `NoDeadlockOnOpened` | `NoCircularWait` | operations name opened wallets only |
| `TransferService_proofs` | `TypeCorrect` | `TypeOK` | |
| | `TimerFollowsBatch` | `NeverStranded` | |
| | `FirstComeFirstServedHolds` | `FirstComeFirstServed` | no lost acknowledgement |
| | `AtMostOnceHolds` | `AtMostOnce` | no lost acknowledgement |
| | `RepliesTruthfulHolds` | `RepliesTruthful` | no lost acknowledgement |
| | `GaveUpInTimeHolds` | `GaveUpInTime` | no lost acknowledgement |
| | `InnocentNeverRefusedHolds` | `InnocentNeverRefused` | no lost acknowledgement, finitely many requests |
| `Idempotency_proofs` | `OneOwnerHolds` | `OneOwner` | no slow handlers |
| | `AtMostOneWithoutMishapHolds` | `AtMostOneWithoutMishap` | no slow handlers |
| | `ReplayFaithfulHolds` | `ReplayFaithful` | no slow handlers |
| `SimEngine_proofs` | `SimTypeCorrect` | `TypeOK` | |
| | `BookOfRecordHolds` | `BookOfRecord` | |
| | `OncePerKeyHolds` | `OncePerKey` | |
| | `SimImplementsAccountBook` | `SerialBook`: `SimEngine` refines `AccountBook` | `[]AllFit` |
| `LedgerView_proofs` | `OwnRowsHolds` | `OwnRows` | `InOrder` |
| | `FreshSinceBumpHolds` | `FreshSinceBump` | `InOrder` |
| | `NoLimboHolds` | `NoLimbo` | `InOrder` |
| `Transact_proofs` | `TransactTypeCorrect` | `TypeOK` | |
| | `RetryStillPossibleHolds` | `RetryStillPossible` | |
| | `AfterIncludesPostingHolds` | `AfterIncludesPosting` | |
| | `AmountsRoundTripHolds` | `AmountsRoundTrip` | |

### What the theorems assume, and what happens without

- *No lost acknowledgement* (`"lostAck" \notin DbFaults`): a COMMIT whose answer is
  lost makes the fallback execute a batch again; `TransferService_lost_ack` is that
  execution.
- *No slow handlers* (`~SlowHandlers`): no request lives longer than the 60 second
  lease of its key. Nothing in the code enforces it: `ReadTimeout` and `WriteTimeout`
  (10 and 15 seconds) do not end a handler, and its database calls have no statement
  timeout. It is an assumption about operation: a statement waits only for row locks
  that are held for one batch. A handler that hangs beyond the lease loses its key,
  and nothing in the middleware notices.
- `NamesExist`: the operations under way name wallets that are committed. Without
  it the deadlock is real, see "Where the code and its texts differ": two creates may
  commit in the reverse order of their ids, so one batch passes over a row another
  one locks. `NoDeadlockOnOpened` gives a condition on the constants alone that
  implies it.
- `AllFit`: no balance in the browser exceeds the bound `Largest`, which only the
  account book has; the engine itself checks nothing, and its numbers are exact to
  2^53.
- `InOrder`: answers of a kind come in the order of their requests.
  `LedgerView_late_answer` is what happens otherwise. The proof of `NoLimbo` showed
  that comparing a list with the one on the screen is not enough: an old list of the
  server may come after a newer one of the server *and* one of the simulation, and
  take the selected wallet off the screen for good. TLC found that execution with
  three reads and two bumps; hence `heard`.
- `SeedAssumption`: the seeded transactions of `SimEngine` move money between the
  seeded wallets and overdraw none of them; that is a fact about six literals in the
  code. `ConsoleAssumption`: ids are positive, and the server's (numbers) and the
  simulation's (`wal_...`) are different.

### The inductive invariants

*`LedgerDB`.* `Reconciled` is not inductive: a commit adds `image` to `balance` and
`pend` to `posted`, so one must know that the two agree for every open transaction.
`IInv` adds `NoLostUpdate` (what a lock holder sees is the committed balance plus its
uncommitted entries plus what it has written and not recorded yet, `Due`) and
well-formedness of the control state: which operation is under way at which
statement, that the loop index is within the batch, that cash operations and creates
hold the row they write, that a row of an id the sequence has not reached is held by
nobody, and that the two wallets of the current transfer are distinct.

*Serialisability.* `SInv` adds to it `Unopened` and, per session, `Holdings` (who
may hold which lock), `CashOK` and `BatchOK`: what a session has recorded is exactly
the prefix of its operation it has executed, and every transfer in that prefix would
pass the checks of `AccountBook` on the balances committed *now* (`Funded`). The last
part is why the refinement holds: the locks the session keeps freeze the balances its
checks read, so at COMMIT the whole batch passes in one step. For replies and
refusals the same invariant is read at the step that ends an operation.

*Deadlock.* `AllInOrder`: a session that waits for a row holds only rows below it,
and nobody waits once the locking is done. From any set of sessions that wait for each
other, the one that waits for the largest row waits for nobody in the set.

*`TransferService`.* `Shape` says which channel, slice and timer go with which place
of the worker. `Arrivals` and `Order` relate all of them to one history, the order in
which the queue accepted jobs: what the worker has taken is a prefix of it, what is
applied is sorted by it, and what may yet be executed lies behind everything that was
(`Upcoming`). At most once and first come, first served are two consequences of that
order. `Truth`: nobody is told of a failure while the job may yet take effect
(`Open`). `Quits`: a job of a caller who gave up before the flush does not pass the
filter. For `InnocentNeverRefused` there is `Funds`: a wallet has lost no more than
what the requests executed so far, and the postings of others, took from it. What is
executed on its own has not been executed before (`Order`), so its share of the
opening balance is still there; without that order the premiss about the opening
balance would say nothing. The premiss counts well-formed requests only: a malformed
one with a negative amount, which `ProcessTransfer` rejects, would offset what others
ask for, and the statement would be false.

*`Idempotency`.* `OneHolder` ties the holder of a key to a locked row under a running
lease; `OwnResponse`, `Sources` and `Stored` follow a response from the operation that
gave it through the row into every replay; `Effective` says that without a mishap an
operation has taken effect only if its request still holds the key or the row has that
request's response. That is what stops the second effect: whoever takes over a row
finds it completed.

*`SimEngine`.* `BookOK` relates wallets, transactions and entries after any number of
postings; `CallsOK` and `LocksOK` say that a promise chain holds exactly the calls
that have asked for the lock and have not ended; `IdemOK` and `RepliesOK` relate used
keys, postings and answers. `OncePerKey` needs all of them: a call that looks up a key
is first in the chain of that key's lock, and whoever was there before it has posted
*and* recorded.

*`LedgerView`.* `StoreInv` and `PageInv` have one form: what is shown is right, or the
last answer still to come will be. It is stable because each of the page's effects
sends a request whenever it makes what is shown wrong.

*`Transact`.* `KeysOK`: every key a send or the server's ledger has is the current one
or one the user is done with; and as long as the page has to do with another key (its
send in flight, or the one "Retry last key" would use), the current one is unused. The
second half is needed where a send under an old key succeeds and draws a new key,
which must not drop a current key that moved money. `AnswersOK` carries a 201 from the
posting to the reads. `MoneyOK` gives `AmountsRoundTrip` its precondition: both ledgers
pay out only what they have, so that a balance is a natural number.

Induction over data is done without the library's induction theorems, whose operator
parameters no installed prover instantiates: `Postings_proofs` proves that a set of
numbers which contains 0 and is closed under successor contains `0 .. N`
(`Induction`, from the least element of what is missing, `LeastNatural`), and that a
function defined by recursion over `0 .. N` exists and unfolds (`Recursion`). The sums
over ledgers, lists of jobs and entries are all of that kind.

Only model-checked:

- every liveness property (fairness and ENABLED are out of the prover's reach);
- `Lab`, whose properties are about verdicts on faulty servers: its claims are the
  finite scripts of four experiments, and the runs go through all of them.

## 5. Not modelled

`process_transfer`, `UpdateBalance`, `CreateEntry`, `UpdateStatus` and the other
repository methods without a caller in the program; SQL migrations as steps;
configuration; connection pool limits (an instance of `Sessions`); logging, request
ids, request parsing; limits and offsets of pages; the seeder; benchmarks. Of the
console: rendering, toasts, traces, the health badge, the overview, the wallets
page, the palette and the API console, which keep no state that outlives an answer;
the reference of a movement; the length of time anything takes.

## 6. Plan

1. *Done*: `Postings`, `AccountBook`, `LedgerDB`, `TransferService`, `Idempotency`,
   `SimEngine`, `Console`, `LedgerView`, `Transact`, `Lab` and their runs; the proofs
   of section 4.
2. Proofs: what is left is `Lab` (its two action properties, by an invariant that says
   for each experiment what its script has heard so far), and the steps by which
   module 3 below would implement `TransferService` and `Idempotency`.
3. `PaymentServer`: middleware, worker and database of several processes in one
   module, with the server's shutdown (5 seconds for active handlers, then `Stop`).
4. `Pages` (limits and offsets while entries are added) and `Seeder` (containers that
   start together, against clients).
