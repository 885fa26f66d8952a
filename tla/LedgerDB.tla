------------------------------ MODULE LedgerDB ------------------------------
(***************************************************************************)
(* The PostgreSQL ledger as its clients drive it, one SQL statement per    *)
(* step: WalletRepository.Create, Deposit and Withdraw (Go, one round trip *)
(* per statement inside an explicit transaction) and the stored procedure  *)
(* process_transfer_batch of migration 000008 (one implicit transaction    *)
(* per call).  Sessions are pool connections of any number of processes.   *)
(*                                                                         *)
(* PostgreSQL itself is modelled from how the code uses it: READ COMMITTED *)
(* visibility, row locks held to the end of the transaction, all-or-       *)
(* nothing commit, the CHECK (balance >= 0), the BIGINT range, and SERIAL  *)
(* ids drawn outside the transaction.                                      *)
(***************************************************************************)
EXTENDS Postings, FiniteSets

CONSTANTS MaxWallet,      \* wallet ids are 1 .. MaxWallet
          Sessions,       \* database sessions
          NoSession,      \* the holder of a free row lock
          Operations,     \* the operations clients ask for
          Opening,        \* Opening[i]: balance wallet i was opened with
          MaxBalance,     \* the largest BIGINT
          MaxOps,         \* bound: operations begun in one behaviour
          Faults          \* may a connection break or a context be cancelled

Wallets == 1 .. MaxWallet
Amounts == 0 .. MaxBalance

Jobs == [from : Wallets, to : Wallets, amount : Int]

Creations == [kind : {"create"}, amount : Amounts]
CashOps   == [kind : {"deposit", "withdraw"}, wallet : Wallets,
              amount : Amounts \ {0}]
Batches   == [kind : {"batch"}, jobs : Seq(Jobs) \ {<<>>}]
NoOp      == [kind |-> "none"]

ASSUME ConstantsAssumption ==
    /\ MaxWallet \in Nat
    /\ MaxBalance \in Nat
    /\ MaxOps \in Nat
    /\ Faults \in BOOLEAN
    /\ NoSession \notin Sessions
    /\ Opening \in Seq(Amounts \ {0})
    /\ Len(Opening) <= MaxWallet
    /\ Operations \subseteq Creations \cup CashOps \cup Batches

VARIABLES
    rows,       \* committed wallets
    balance,    \* committed wallets.balance
    posted,     \* SUM(ledger_entries.amount) per wallet, committed rows
    book,       \* committed transactions with their ledger entries
    nextId,     \* the wallets_id_seq sequence
    lock,       \* holder of each wallet row's lock
    pc,         \* what each session does next
    op,         \* the operation each session executes
    todo,       \* wallets the session has yet to SELECT ... FOR UPDATE
    cur,        \* i of the batch loop; the RETURNING id of a create
    image,      \* the version of a row its lock holder sees, 0 elsewhere
    pend,       \* uncommitted ledger entries, summed per wallet
    lines,      \* uncommitted transactions
    outcome,    \* what the caller of the last operation was told
    issued      \* operations begun

committed == <<rows, balance, posted, book>>
vars == <<rows, balance, posted, book, nextId, lock, pc, op, todo, cur, image,
          pend, lines, outcome, issued>>

Zero == [w \in Wallets |-> 0]

Opened == 1 .. Len(Opening)
OpeningBalance == [w \in Wallets |-> IF w \in Opened THEN Opening[w] ELSE 0]

Init ==
    /\ rows = Opened
    /\ balance = OpeningBalance
    /\ posted = OpeningBalance
    /\ book = [w \in Opened |-> CashTxn("deposit", w, Opening[w], Opening[w])]
    /\ nextId = Len(Opening) + 1
    /\ lock = [w \in Wallets |-> NoSession]
    /\ pc = [s \in Sessions |-> "idle"]
    /\ op = [s \in Sessions |-> NoOp]
    /\ todo = [s \in Sessions |-> {}]
    /\ cur = [s \in Sessions |-> 0]
    /\ image = [s \in Sessions |-> Zero]
    /\ pend = [s \in Sessions |-> Zero]
    /\ lines = [s \in Sessions |-> <<>>]
    /\ outcome = [s \in Sessions |-> "none"]
    /\ issued = 0

-----------------------------------------------------------------------------

\* Mutant: a statement does not see its own transaction's earlier writes.
ViewCommitted(s) == balance

\* What a statement of session s reads: its own writes, else committed rows.
View(s) == [w \in Wallets |-> IF lock[w] = s THEN image[s][w] ELSE balance[w]]

\* The wallet of a create, deposit or withdrawal; the i-th job of a batch.
Target(s) == IF op[s].kind = "create" THEN cur[s] ELSE op[s].wallet
Job(s) == op[s].jobs[cur[s]]

\* The wallets an operation locks before it touches any of them.
LockSet(o) ==
    IF o.kind = "create" THEN {}
    ELSE IF o.kind = "batch"
         THEN UNION {{o.jobs[i].from, o.jobs[i].to} : i \in 1 .. Len(o.jobs)}
         ELSE {o.wallet}

\* Mutant: no ORDER BY, senders come first.
NextRowUnordered(s) ==
    LET senders == IF op[s].kind = "batch"
                   THEN {op[s].jobs[i].from : i \in 1 .. Len(op[s].jobs)} ELSE {}
    IN  CHOOSE w \in todo[s] : senders \cap todo[s] # {} => w \in senders

\* SELECT DISTINCT ... ORDER BY: the batch locks in ascending id order.
NextRow(s) == CHOOSE w \in todo[s] : \A v \in todo[s] : w <= v

\* Where the session goes once rest is what it still has to lock.
AfterLock(s, rest) ==
    IF rest # {} THEN "lock" ELSE IF op[s].kind = "batch" THEN "check" ELSE "update"

\* Mutant: the transaction is left open, its row locks with it.
FinishWithoutUnlock(s, result) ==
    /\ pc' = [pc EXCEPT ![s] = "idle"]
    /\ op' = [op EXCEPT ![s] = NoOp]
    /\ todo' = [todo EXCEPT ![s] = {}]
    /\ cur' = [cur EXCEPT ![s] = 0]
    /\ image' = [image EXCEPT ![s] = Zero]
    /\ pend' = [pend EXCEPT ![s] = Zero]
    /\ lines' = [lines EXCEPT ![s] = <<>>]
    /\ outcome' = [outcome EXCEPT ![s] = result]
    /\ UNCHANGED <<lock, nextId, issued>>

\* The transaction ends: locks, row versions and uncommitted rows go away.
Finish(s, result) ==
    /\ lock' = [w \in Wallets |-> IF lock[w] = s THEN NoSession ELSE lock[w]]
    /\ pc' = [pc EXCEPT ![s] = "idle"]
    /\ op' = [op EXCEPT ![s] = NoOp]
    /\ todo' = [todo EXCEPT ![s] = {}]
    /\ cur' = [cur EXCEPT ![s] = 0]
    /\ image' = [image EXCEPT ![s] = Zero]
    /\ pend' = [pend EXCEPT ![s] = Zero]
    /\ lines' = [lines EXCEPT ![s] = <<>>]
    /\ outcome' = [outcome EXCEPT ![s] = result]
    /\ UNCHANGED <<nextId, issued>>

Rollback(s, result) == Finish(s, result) /\ UNCHANGED committed

-----------------------------------------------------------------------------

\* A caller hands an idle session its next operation.
Begin(s) ==
    /\ pc[s] = "idle"
    /\ issued < MaxOps
    /\ issued' = issued + 1
    /\ \E o \in Operations :
         /\ op' = [op EXCEPT ![s] = o]
         /\ todo' = [todo EXCEPT ![s] = LockSet(o)]
         /\ pc' = [pc EXCEPT ![s] = IF o.kind = "create" THEN "insert" ELSE "lock"]
         /\ cur' = [cur EXCEPT ![s] = IF o.kind = "batch" THEN 1 ELSE 0]
    /\ outcome' = [outcome EXCEPT ![s] = "none"]
    /\ UNCHANGED <<committed, nextId, lock, image, pend, lines>>

\* Mutant: a wallet with funds is created without its initial deposit.
InsertWalletSilent(s) ==
    /\ pc[s] = "insert"
    /\ nextId \in Wallets
    /\ nextId' = nextId + 1
    /\ lock' = [lock EXCEPT ![nextId] = s]
    /\ image' = [image EXCEPT ![s][nextId] = op[s].amount]
    /\ cur' = [cur EXCEPT ![s] = nextId]
    /\ pc' = [pc EXCEPT ![s] = "commit"]
    /\ UNCHANGED <<committed, op, todo, pend, lines, outcome, issued>>

\* INSERT INTO wallets.  With a zero balance that statement is the whole
\* transaction; otherwise the deposit that explains the balance follows.
InsertWallet(s) ==
    /\ pc[s] = "insert"
    /\ nextId \in Wallets
    /\ nextId' = nextId + 1
    /\ lock' = [lock EXCEPT ![nextId] = s]
    /\ image' = [image EXCEPT ![s][nextId] = op[s].amount]
    /\ cur' = [cur EXCEPT ![s] = nextId]
    /\ pc' = [pc EXCEPT ![s] = IF op[s].amount = 0 THEN "commit" ELSE "record"]
    /\ UNCHANGED <<committed, op, todo, pend, lines, outcome, issued>>

\* Mutant: the row is read without FOR UPDATE.
LockRowUnguarded(s) ==
    /\ pc[s] = "lock"
    /\ NextRow(s) \in rows
    /\ lock' = [lock EXCEPT ![NextRow(s)] = s]
    /\ image' = [image EXCEPT ![s][NextRow(s)] = balance[NextRow(s)]]
    /\ todo' = [todo EXCEPT ![s] = @ \ {NextRow(s)}]
    /\ pc' = [pc EXCEPT ![s] = AfterLock(s, todo'[s])]
    /\ UNCHANGED <<committed, nextId, op, cur, pend, lines, outcome, issued>>

\* SELECT ... FOR UPDATE on a visible row: granted when nobody holds it.
LockRow(s) ==
    /\ pc[s] = "lock"
    /\ NextRow(s) \in rows
    /\ lock[NextRow(s)] = NoSession
    /\ lock' = [lock EXCEPT ![NextRow(s)] = s]
    /\ image' = [image EXCEPT ![s][NextRow(s)] = balance[NextRow(s)]]
    /\ todo' = [todo EXCEPT ![s] = @ \ {NextRow(s)}]
    /\ pc' = [pc EXCEPT ![s] = AfterLock(s, todo'[s])]
    /\ UNCHANGED <<committed, nextId, op, cur, pend, lines, outcome, issued>>

\* Mutant: FOR UPDATE SKIP LOCKED, so that a locked row seems not to be there.
MissRowSkipLocked(s) ==
    /\ pc[s] = "lock"
    /\ NextRow(s) \notin rows \/ lock[NextRow(s)] # NoSession
    /\ \/ /\ op[s].kind = "batch"
          /\ todo' = [todo EXCEPT ![s] = @ \ {NextRow(s)}]
          /\ pc' = [pc EXCEPT ![s] = AfterLock(s, todo'[s])]
          /\ UNCHANGED <<committed, nextId, lock, op, cur, image, pend, lines,
                         outcome, issued>>
       \/ /\ op[s].kind # "batch"
          /\ Rollback(s, "notfound")

\* The row is not there.  PERFORM ... FOR UPDATE locks nothing and goes on;
\* Deposit and Withdraw get sql.ErrNoRows and return ErrNotFound.
MissRow(s) ==
    /\ pc[s] = "lock"
    /\ NextRow(s) \notin rows
    /\ \/ /\ op[s].kind = "batch"
          /\ todo' = [todo EXCEPT ![s] = @ \ {NextRow(s)}]
          /\ pc' = [pc EXCEPT ![s] = AfterLock(s, todo'[s])]
          /\ UNCHANGED <<committed, nextId, lock, op, cur, image, pend, lines,
                         outcome, issued>>
       \/ /\ op[s].kind # "batch"
          /\ Rollback(s, "notfound")

\* Mutant: no CHECK constraint and no BIGINT range.
UpdateUnchecked(s, w, d, next) ==
    /\ lock[w] \in {s, NoSession}
    /\ lock' = [lock EXCEPT ![w] = s]
    /\ image' = [image EXCEPT ![s][w] = View(s)[w] + d]
    /\ pc' = [pc EXCEPT ![s] = next]
    /\ UNCHANGED <<committed, nextId, op, todo, cur, pend, lines, outcome, issued>>

\* UPDATE wallets SET balance = balance + d WHERE id = w.  A row the session
\* has not locked is locked by the UPDATE; a value outside 0 .. MaxBalance
\* breaks the CHECK constraint or the BIGINT range and fails the statement.
Update(s, w, d, next) ==
    /\ lock[w] \in {s, NoSession}
    /\ LET value == View(s)[w] + d
       IN  IF value \in Amounts
           THEN /\ lock' = [lock EXCEPT ![w] = s]
                /\ image' = [image EXCEPT ![s][w] = value]
                /\ pc' = [pc EXCEPT ![s] = next]
                /\ UNCHANGED <<committed, nextId, op, todo, cur, pend, lines,
                               outcome, issued>>
           ELSE Rollback(s, "error")

UpdateDeposit(s) ==
    /\ pc[s] = "update" /\ op[s].kind = "deposit"
    /\ Update(s, op[s].wallet, op[s].amount, "record")

\* if currentBalance < amount, with the balance SELECT ... FOR UPDATE returned
UpdateWithdraw(s) ==
    /\ pc[s] = "update" /\ op[s].kind = "withdraw"
    /\ IF image[s][op[s].wallet] < op[s].amount
       THEN Rollback(s, "insufficient")
       ELSE Update(s, op[s].wallet, -op[s].amount, "record")

\* Mutant: a transfer that fails its checks is skipped, the batch goes on.
CheckJobSkipping(s) ==
    /\ pc[s] = "check"
    /\ IF Verdict(rows, View(s), Job(s)) = "ok"
       THEN pc' = [pc EXCEPT ![s] = "debit"] /\ UNCHANGED cur
       ELSE IF cur[s] < Len(op[s].jobs)
       THEN cur' = [cur EXCEPT ![s] = @ + 1] /\ UNCHANGED pc
       ELSE pc' = [pc EXCEPT ![s] = "commit"] /\ UNCHANGED cur
    /\ UNCHANGED <<committed, nextId, lock, op, todo, image, pend, lines, outcome,
                   issued>>

\* The checks on the current transfer; a RAISE aborts the whole batch.
CheckJob(s) ==
    /\ pc[s] = "check"
    /\ LET verdict == Verdict(rows, View(s), Job(s))
       IN  IF verdict = "ok"
           THEN /\ pc' = [pc EXCEPT ![s] = "debit"]
                /\ UNCHANGED <<committed, nextId, lock, op, todo, cur, image,
                               pend, lines, outcome, issued>>
           ELSE Rollback(s, verdict)

Debit(s) ==
    /\ pc[s] = "debit"
    /\ Update(s, Job(s).from, -Job(s).amount, "credit")

Credit(s) ==
    /\ pc[s] = "credit"
    /\ Update(s, Job(s).to, Job(s).amount, "record")

\* INSERT INTO transactions, then its ledger entries.
Post(s, txn, sums, next) ==
    /\ lines' = [lines EXCEPT ![s] = Append(@, txn)]
    /\ pend' = [pend EXCEPT ![s] = sums]
    /\ pc' = [pc EXCEPT ![s] = next]
    /\ UNCHANGED <<committed, nextId, lock, op, todo, image, outcome, issued>>

RecordCash(s) ==
    /\ pc[s] = "record" /\ op[s].kind # "batch"
    /\ LET w == Target(s)
           a == op[s].amount
       IN  IF op[s].kind = "withdraw"
           THEN Post(s, CashTxn("withdrawal", w, a, -a),
                     [pend[s] EXCEPT ![w] = @ - a], "commit")
           ELSE Post(s, CashTxn("deposit", w, a, a),
                     [pend[s] EXCEPT ![w] = @ + a], "commit")
    /\ UNCHANGED cur

RecordTransfer(s) ==
    /\ pc[s] = "record" /\ op[s].kind = "batch"
    /\ Post(s, TransferTxn(Job(s)), Move(pend[s], Job(s)),
            IF cur[s] < Len(op[s].jobs) THEN "check" ELSE "commit")
    /\ cur' = [cur EXCEPT ![s] = IF @ < Len(op[s].jobs) THEN @ + 1 ELSE @]

\* COMMIT.  The acknowledgement may be lost: the caller then sees an error.
Commit(s) ==
    /\ pc[s] = "commit"
    /\ rows' = rows \cup (IF op[s].kind = "create" THEN {cur[s]} ELSE {})
    /\ balance' = [w \in Wallets |-> IF lock[w] = s THEN image[s][w] ELSE balance[w]]
    /\ posted' = [w \in Wallets |-> posted[w] + pend[s][w]]
    /\ book' = book \o lines[s]
    /\ \E result \in IF Faults THEN {"ok", "error"} ELSE {"ok"} : Finish(s, result)

\* The connection breaks, the context ends (sql.Tx rolls back), or the server
\* picks the session as a deadlock victim.
Abort(s) ==
    /\ Faults
    /\ pc[s] # "idle"
    /\ Rollback(s, "error")

\* What a session does without its caller or a fault intervening.
Step(s) == \/ InsertWallet(s) \/ LockRow(s) \/ MissRow(s)
           \/ UpdateDeposit(s) \/ UpdateWithdraw(s)
           \/ CheckJob(s) \/ Debit(s) \/ Credit(s)
           \/ RecordCash(s) \/ RecordTransfer(s) \/ Commit(s)

Next == \E s \in Sessions : Begin(s) \/ Step(s) \/ Abort(s)

Spec == Init /\ [][Next]_vars

\* PostgreSQL keeps executing a session whose statement can proceed.
Fairness == \A s \in Sessions : WF_vars(Step(s))

FairSpec == Spec /\ Fairness

-----------------------------------------------------------------------------
(* Properties *)

Entries == [wallet : Wallets, amount : Int]
Txns == [type : {"deposit", "withdrawal", "transfer"}, wallet : Wallets,
         to : Wallets \cup {NULL}, amount : Amounts, entries : Seq(Entries)]

\* Every variable has the type the schema and the code give it.
TypeOK ==
    /\ rows \subseteq Wallets
    /\ balance \in [Wallets -> Amounts]
    /\ posted \in [Wallets -> Int]
    /\ book \in Seq(Txns)
    /\ nextId \in 1 .. MaxWallet + 1
    /\ lock \in [Wallets -> Sessions \cup {NoSession}]
    /\ pc \in [Sessions -> {"idle", "insert", "lock", "update", "check", "debit",
                           "credit", "record", "commit"}]
    /\ op \in [Sessions -> Operations \cup {NoOp}]
    /\ todo \in [Sessions -> SUBSET Wallets]
    /\ cur \in [Sessions -> Nat]
    /\ image \in [Sessions -> [Wallets -> Amounts]]
    /\ pend \in [Sessions -> [Wallets -> Int]]
    /\ lines \in [Sessions -> Seq(Txns)]
    /\ outcome \in [Sessions -> {"none", "ok", "invalid", "notfound",
                                "insufficient", "error"}]
    /\ issued \in 0 .. MaxOps

\* The reconciliation the audit worker and GET /wallets/:id/reconcile rely on:
\* a committed balance is what the wallet's committed ledger entries add up
\* to, however statements of concurrent sessions interleave or fail.
Reconciled == \A w \in Wallets : balance[w] = posted[w]

\* What session s has written to the balance of w but not yet recorded as a
\* ledger entry: the two UPDATEs of a transfer precede its INSERTs.
Due(s, w) ==
    IF pc[s] = "credit" THEN IF w = Job(s).from THEN -Job(s).amount ELSE 0
    ELSE IF pc[s] # "record" THEN 0
    ELSE IF op[s].kind = "batch"
         THEN IF w = Job(s).from THEN -Job(s).amount
              ELSE IF w = Job(s).to THEN Job(s).amount ELSE 0
    ELSE IF w # Target(s) THEN 0
    ELSE IF op[s].kind = "withdraw" THEN -op[s].amount ELSE op[s].amount

SeesItsWrites(s) ==
    \A w \in Wallets :
        IF lock[w] = s THEN image[s][w] = balance[w] + pend[s][w] + Due(s, w)
                       ELSE pend[s][w] + Due(s, w) = 0

\* A row lock protects what its holder has seen: the holder's version of the
\* row is the committed balance plus the holder's own writes, and a session
\* has written nothing to rows it does not hold.
NoLostUpdate == \A s \in Sessions : SeesItsWrites(s)

\* posted is the SUM over the ledger entries themselves, for the committed
\* entries and for the ones each open transaction has inserted so far.
BookSums ==
    \A w \in Wallets :
        /\ posted[w] = EntrySum(book, w)
        /\ \A s \in Sessions : pend[s][w] = EntrySum(lines[s], w)

\* The balance a transfer was checked against still covers it when the UPDATE
\* runs, in every row the batch had locked up front: the CHECK constraint is
\* a second line of defence, never the one that catches an overdraft.
CheckedFundsHold ==
    \A s \in Sessions :
        pc[s] = "debit" /\ lock[Job(s).from] = s =>
            image[s][Job(s).from] >= Job(s).amount

\* The transactions the operation of session s posts when it succeeds.
PostedBy(s) ==
    LET o == op[s]
        w == Target(s)
    IN  CASE o.kind = "create" ->
               IF o.amount = 0 THEN <<>> ELSE <<CashTxn("deposit", w, o.amount, o.amount)>>
          [] o.kind = "deposit"  -> <<CashTxn("deposit", w, o.amount, o.amount)>>
          [] o.kind = "withdraw" -> <<CashTxn("withdrawal", w, o.amount, -o.amount)>>
          [] o.kind = "batch"    -> [i \in 1 .. Len(o.jobs) |-> TransferTxn(o.jobs[i])]

\* The errors that blame the request rather than the system.
Refusals == {"invalid", "notfound", "insufficient"}

Ends(s) == pc[s] # "idle" /\ pc'[s] = "idle"

\* What the caller is told is true: on success exactly the operation's own
\* transactions were committed, and a business error committed nothing.
RepliesTruthful ==
    [][\A s \in Sessions : Ends(s) =>
         /\ outcome'[s] = "ok" => book' = book \o PostedBy(s)
         /\ outcome'[s] \in Refusals => UNCHANGED committed]_vars

\* An operation run alone on the committed state would be refused for reason r.
Refuses(o, r) ==
    CASE o.kind = "create" -> FALSE
      [] o.kind \in {"deposit", "withdraw"} ->
           IF o.wallet \notin rows THEN r = "notfound"
           ELSE /\ r = "insufficient" /\ o.kind = "withdraw"
                /\ balance[o.wallet] < o.amount
      [] o.kind = "batch" ->
           \E n \in 1 .. Len(o.jobs) :
              /\ Verdict(rows, Trail(balance, o.jobs)[n - 1], o.jobs[n]) = r
              /\ \A m \in 1 .. n - 1 :
                   Verdict(rows, Trail(balance, o.jobs)[m - 1], o.jobs[m]) = "ok"

\* A business error is the verdict a serial execution would have reached on
\* the balances committed at that moment: no session is refused because of
\* what another one has written but not committed.
RefusedOnMerits ==
    [][\A s \in Sessions :
         Ends(s) /\ outcome'[s] \in Refusals => Refuses(op[s], outcome'[s])]_vars

\* The rows a session cannot go on without.
Wants(s) ==
    CASE pc[s] = "lock"   -> {NextRow(s)} \cap rows
      [] pc[s] = "debit"  -> {Job(s).from}
      [] pc[s] = "credit" -> {Job(s).to}
      [] OTHER            -> {}

WaitsFor(s, t) == s # t /\ \E w \in Wants(s) : lock[w] = t

\* README.md, "Mathematically eliminates circular wait conditions": no set of
\* sessions in which each one waits for another.
NoCircularWait ==
    \A C \in (SUBSET Sessions) \ {{}} :
        \E s \in C : \A t \in C : ~WaitsFor(s, t)

\* The account book, with the committed wallets as its open accounts.
Serial == INSTANCE AccountBook WITH open <- rows

\* Every step is a step of the account book: an operation takes effect at its
\* COMMIT, whole, on the balances committed by then.
SerialSpec == Serial!BookSpec

\* Every operation a session begins ends, whatever locks it has to wait for.
EveryOperationEnds ==
    \A s \in Sessions : pc[s] # "idle" ~> pc[s] = "idle"
=============================================================================
