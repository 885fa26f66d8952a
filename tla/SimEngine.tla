------------------------------ MODULE SimEngine ------------------------------
(***************************************************************************)
(* SimEngine of web/app.tsx: the ledger engine the console runs in the     *)
(* browser when no backend answers.  JavaScript runs one callback at a     *)
(* time, so a step is what happens between two awaits of a call: the wait  *)
(* before the handler, the promise of a lock, the wait that stands for a   *)
(* row lock held.  Locks are promise chains, served in order of arrival.   *)
(*                                                                         *)
(* A request is [kind, key, from, to, amount]; a deposit names only to, a  *)
(* withdrawal only from, and NULL is a name left out.  The other routes    *)
(* use kind and from ("wallet" opens a wallet, amount 0 being no owner).   *)
(* Hashes are abstracted to the sequence numbers they are computed from.   *)
(***************************************************************************)
EXTENDS Postings

CONSTANTS Keys,        \* the idempotency keys, and NoKey for a missing header
          NoKey,
          Wallets,     \* every wallet id there may ever be
          SeedWallets, \* the ones the constructor makes
          SeedTxs,     \* and the transactions it posts, a sequence of requests
          Requests,    \* the requests clients may make
          Calls        \* the calls of handle, each made at most once

SYSTEM_ACCOUNT == NULL
Locks == Keys \cup Wallets
Money == {"deposit", "withdrawal", "transfer"}

\* A deposit has no sender and a withdrawal no receiver, whatever its body says.
MoneyRequests ==
    {r \in [kind : Money, key : Keys, from : Wallets \cup {NULL},
            to : Wallets \cup {NULL}, amount : Int] :
        (r.kind = "deposit" => r.from = NULL) /\ (r.kind = "withdrawal" => r.to = NULL)}

OtherRequests ==
    [kind : {"list", "get", "transactions", "entries", "reconcile", "wallet"},
     key : Keys, from : Wallets \cup {NULL}, to : {NULL}, amount : Int]

ASSUME SimAssumption ==
    /\ Wallets \subseteq Nat \ {NULL} /\ SeedWallets \subseteq Wallets
    /\ NoKey \in Keys /\ Keys \cap Wallets = {} /\ NULL \notin Keys
    /\ Requests \subseteq MoneyRequests \cup OtherRequests

VARIABLES db,     \* wallets, txs and entries, changed together by commit
          idem,   \* used key -> the request it was used for and the response
          locks,  \* lock -> the calls in its promise chain; the first holds it
          call    \* call -> where it is, its request, locks and response

vars == <<db, idem, locks, call>>

-----------------------------------------------------------------------------
(* The book.                                                               *)

\* Mutant: the chain starts anew at every transaction.
PostUnchained(d, tx, w, direction, after) ==
    [d EXCEPT !.entries = Append(@,
        [tx |-> tx, wallet |-> w, direction |-> direction,
         amount |-> d.txs[tx].amount, balance_after |-> after,
         prev |-> IF direction = "debit" THEN 0 ELSE Len(@)])]

\* post: an entry chained to the last one written, of whatever wallet.
Post(d, tx, w, direction, after) ==
    [d EXCEPT !.entries = Append(@,
        [tx |-> tx, wallet |-> w, direction |-> direction,
         amount |-> d.txs[tx].amount, balance_after |-> after,
         prev |-> Len(@)])]

\* One side of commit: the wallet moves, or the settlement account stands in.
Leg(d, tx, w, direction) ==
    IF w = NULL THEN Post(d, tx, SYSTEM_ACCOUNT, direction, 0)
    ELSE LET change == d.txs[tx].amount * IF direction = "debit" THEN -1 ELSE 1
             moved  == [d EXCEPT !.wallets[w] = [balance |-> @.balance + change,
                                                version |-> @.version + 1]]
         IN  Post(moved, tx, w, direction, moved.wallets[w].balance)

Commit(d, r) ==
    LET tx == Len(d.txs) + 1
    IN  Leg(Leg([d EXCEPT !.txs = Append(@, r)], tx, r.from, "debit"), tx, r.to, "credit")

NewWallet == [balance |-> 0, version |-> 0]

\* The constructor: seed makes the wallets, applySync commits each transaction.
Seeded ==
    LET after[n \in 0 .. Len(SeedTxs)] ==
            IF n = 0 THEN [wallets |-> [w \in SeedWallets |-> NewWallet],
                           txs |-> <<>>, entries |-> <<>>]
            ELSE Commit(after[n - 1], SeedTxs[n])
    IN  after[Len(SeedTxs)]

\* The transactions of the seed are of wallets of the seed, and leave none of
\* them with less than nothing.
ASSUME SeedAssumption ==
    /\ SeedTxs \in Seq({r \in MoneyRequests : {r.from, r.to} \subseteq SeedWallets \cup {NULL}
                                             /\ r.from # r.to /\ r.amount > 0})
    /\ \A w \in SeedWallets : Seeded.wallets[w].balance >= 0

-----------------------------------------------------------------------------
(* The read routes, each answered from the book of one moment.             *)

EntriesOf(d, w) ==
    LET es == d.entries
        mine[n \in 0 .. Len(es)] ==
            IF n = 0 THEN <<>>
            ELSE IF es[n].wallet = w THEN Append(mine[n - 1], es[n]) ELSE mine[n - 1]
    IN  mine[Len(es)]

TransactionsOf(d, w) == SelectSeq(d.txs, LAMBDA t : w \in {t.from, t.to})

SignedAmount(e) == IF e.direction = "credit" THEN e.amount ELSE -e.amount

Reconcile(d, w) ==
    LET es == EntriesOf(d, w)
    IN  [cached_balance |-> d.wallets[w].balance,
         ledger_balance |-> SumOf([n \in 1 .. Len(es) |-> SignedAmount(es[n])]),
         entry_count |-> Len(es),
         chain_valid |-> \A n \in 2 .. Len(d.entries) : d.entries[n].prev = n - 1]

Response(status, body) == [status |-> status, body |-> body, replayed |-> FALSE]
Refusal(status) == Response(status, NULL)
NoResponse == Refusal(0)

Read(d, r) ==
    CASE r.kind = "list"         -> Response(200, d.wallets)
      [] r.kind = "transactions" -> Response(200, TransactionsOf(d, r.from))
      [] r.kind = "entries"      -> Response(200, EntriesOf(d, r.from))
      [] OTHER -> IF r.from \notin DOMAIN d.wallets THEN Refusal(404)
                  ELSE Response(200, IF r.kind = "get" THEN d.wallets[r.from]
                                     ELSE Reconcile(d, r.from))

-----------------------------------------------------------------------------
(* The calls.                                                              *)

NoRequest == [kind |-> "none", key |-> NoKey, from |-> NULL, to |-> NULL, amount |-> 0]
Idle == [pc |-> "idle", req |-> NoRequest, asked |-> {}, response |-> NoResponse]

Init == /\ db = Seeded
        /\ idem = [k \in {} |-> NULL]
        /\ locks = [l \in Locks |-> <<>>]
        /\ call = [c \in Calls |-> Idle]

Start(c) ==
    /\ call[c].pc = "idle"
    /\ \E r \in Requests :
         call' = [call EXCEPT ![c] = [@ EXCEPT !.pc = "arriving", !.req = r]]
    /\ UNCHANGED <<db, idem, locks>>

\* A call answers: finally, its locks go to the next call in each chain.
Answer(c, response) ==
    /\ call' = [call EXCEPT ![c] = [@ EXCEPT !.pc = "done", !.response = response]]
    /\ locks' = [l \in Locks |-> IF l \in call[c].asked THEN Tail(locks[l]) ELSE locks[l]]

AtRoute(c, kinds) == call[c].pc = "arriving" /\ call[c].req.kind \in kinds

AnswerRead(c) ==
    /\ AtRoute(c, {"list", "get", "transactions", "entries", "reconcile"})
    /\ Answer(c, Read(db, call[c].req))
    /\ UNCHANGED <<db, idem>>

\* POST /wallets ignores the key: each call that names an owner makes a wallet.
AnswerWallet(c) ==
    /\ AtRoute(c, {"wallet"})
    /\ IF call[c].req.amount = 0
       THEN Answer(c, Refusal(400)) /\ UNCHANGED db
       ELSE \E w \in Wallets \ DOMAIN db.wallets :
               /\ db' = [db EXCEPT !.wallets =
                           [v \in DOMAIN @ \cup {w} |-> IF v = w THEN NewWallet ELSE @[v]]]
               /\ Answer(c, Response(201, w))
    /\ UNCHANGED idem

\* Mutant: a wallet may be sent its own money.
InvalidUnlessToSelf(r) == r.key = NoKey \/ r.amount <= 0

Invalid(r) == \/ r.key = NoKey
              \/ r.amount <= 0
              \/ r.kind = "transfer" /\ r.from = r.to

RejectMoney(c) ==
    /\ AtRoute(c, Money)
    /\ Invalid(call[c].req)
    /\ Answer(c, Refusal(400))
    /\ UNCHANGED <<db, idem>>

\* Mutant: the key is not locked.
LockSetWalletsOnly(r) == {r.from, r.to} \ {NULL}

LockSet(r) == {r.key, r.from, r.to} \ {NULL}

\* Mutant: locks are taken in the order the request names them.
NextLockAsNamed(r, left) ==
    IF r.key \in left THEN r.key ELSE IF r.from \in left THEN r.from ELSE r.to

\* The locks sort with the keys' ("idem:...") before the wallets' ("wal_...").
NextLock(r, left) ==
    IF r.key \in left THEN r.key ELSE CHOOSE w \in left : \A v \in left : w <= v

Held(c) == {l \in call[c].asked : Head(locks[l]) = c}

\* withLocks asks for one lock at a time, the next one once this one is granted.
Ask(c) ==
    LET r    == call[c].req
        left == LockSet(r) \ call[c].asked
        l    == NextLock(r, left)
    IN  /\ \/ AtRoute(c, Money) /\ ~Invalid(r)
           \/ call[c].pc = "locking"
        /\ left # {} /\ Held(c) = call[c].asked
        /\ locks' = [locks EXCEPT ![l] = Append(@, c)]
        /\ call' = [call EXCEPT ![c] = [@ EXCEPT !.pc = "locking",
                                            !.asked = call[c].asked \cup {l}]]
        /\ UNCHANGED <<db, idem>>

Locked(c) == call[c].pc = "locking" /\ Held(c) = LockSet(call[c].req)
Known(c) == call[c].req.key \in DOMAIN idem

\* The key was used: its response again, or 422 for another payload.
Replay(c) ==
    LET prior == idem[call[c].req.key]
    IN  /\ Locked(c) /\ Known(c)
        /\ Answer(c, IF prior.fingerprint = call[c].req
                     THEN [prior.response EXCEPT !.replayed = TRUE] ELSE Refusal(422))
        /\ UNCHANGED <<db, idem>>

Unknown(r) == ~({r.from, r.to} \ {NULL} \subseteq DOMAIN db.wallets)

RejectUnknown(c) ==
    /\ Locked(c) /\ ~Known(c)
    /\ Unknown(call[c].req)
    /\ Answer(c, Refusal(404))
    /\ UNCHANGED <<db, idem>>

Hold(c) ==
    /\ Locked(c) /\ ~Known(c)
    /\ ~Unknown(call[c].req)
    /\ call' = [call EXCEPT ![c] = [@ EXCEPT !.pc = "holding"]]
    /\ UNCHANGED <<db, idem, locks>>

\* Mutant: the funds are not checked.
InsufficientNever(r) == FALSE

Insufficient(r) == r.from # NULL /\ db.wallets[r.from].balance < r.amount

RejectFunds(c) ==
    /\ call[c].pc = "holding" /\ Insufficient(call[c].req)
    /\ Answer(c, Refusal(422))
    /\ UNCHANGED <<db, idem>>

\* Neither wallet is named: the code reads the currency of null, and the promise
\* is rejected once finally has released the locks.
Throw(c) ==
    /\ call[c].pc = "holding" /\ {call[c].req.from, call[c].req.to} = {NULL}
    /\ Answer(c, NoResponse)
    /\ UNCHANGED <<db, idem>>

PostMoney(c) ==
    LET r == call[c].req
        response == Response(201, Len(db.txs) + 1)
    IN  /\ call[c].pc = "holding" /\ {r.from, r.to} # {NULL} /\ ~Insufficient(r)
        /\ db' = Commit(db, r)
        /\ idem' = [k \in DOMAIN idem \cup {r.key} |->
                      IF k = r.key THEN [fingerprint |-> r, response |-> response] ELSE idem[k]]
        /\ Answer(c, response)

Step(c) == \/ AnswerRead(c) \/ AnswerWallet(c) \/ RejectMoney(c)
           \/ Ask(c) \/ Replay(c) \/ RejectUnknown(c) \/ Hold(c)
           \/ RejectFunds(c) \/ Throw(c) \/ PostMoney(c)

Next == \E c \in Calls : Start(c) \/ Step(c)

\* Timers fire and granted promises resume, whatever else goes on.
Spec == Init /\ [][Next]_vars /\ \A c \in Calls : WF_vars(Step(c))

-----------------------------------------------------------------------------
(* Properties.                                                             *)

Answered(c, status) == call[c].pc = "done" /\ call[c].response.status = status

\* Types; a balance is never negative, so no withdrawal or transfer overdraws.
TypeOK ==
    /\ db.wallets \in [DOMAIN db.wallets -> [balance : Nat, version : Nat]]
    /\ SeedWallets \subseteq DOMAIN db.wallets /\ DOMAIN db.wallets \subseteq Wallets
    /\ \A n \in 1 .. Len(db.txs) : db.txs[n].amount \in Nat \ {0}
    /\ DOMAIN idem \subseteq Keys \ {NoKey}
    /\ \A l \in Locks : \A n \in 1 .. Len(locks[l]) : l \in call[locks[l][n]].asked
    /\ \A c \in Calls :
          /\ call[c].pc \in {"idle", "arriving", "locking", "holding", "done"}
          /\ call[c].pc = "holding" => Held(c) = LockSet(call[c].req)

\* What reconcile would answer at any moment is that the books agree: each
\* balance is the sum of its entries and the last of them, counted by the version;
\* the chain is whole; and the two entries of a transaction cancel out.
BookOfRecord ==
    /\ \A w \in DOMAIN db.wallets :
          LET r == Reconcile(db, w)
              es == EntriesOf(db, w)
          IN  /\ r.cached_balance = r.ledger_balance /\ r.chain_valid
              /\ r.entry_count = db.wallets[w].version
              /\ es # <<>> => es[Len(es)].balance_after = r.cached_balance
    /\ Len(db.entries) = 2 * Len(db.txs)
    /\ \A n \in 1 .. Len(db.txs) :
          LET debit == db.entries[2 * n - 1]
              credit == db.entries[2 * n]
          IN  /\ debit.tx = n /\ debit.direction = "debit"
              /\ credit.tx = n /\ credit.direction = "credit"
              /\ debit.amount = credit.amount /\ debit.wallet # credit.wallet

\* Calls that use one key, at the same time or later, post it at most once; all
\* that are told 201 made the same request and are told of the same transaction.
OncePerKey ==
    /\ \A c \in Calls :
          (call[c].req.kind \in Money /\ Answered(c, 201)) =>
             db.txs[call[c].response.body] = call[c].req
    /\ \A m, n \in Len(SeedTxs) + 1 .. Len(db.txs) :
          db.txs[m].key = db.txs[n].key => m = n

\* The engine "enforces the same invariants as the real ledger": it implements
\* the account book that the SQL of the backend implements, one step per commit.
\* A transfer that leaves out a wallet is a deposit or a withdrawal.
AsPosted(r) ==
    CASE r.from = NULL -> CashTxn("deposit", r.to, r.amount, r.amount)
      [] r.to = NULL   -> CashTxn("withdrawal", r.from, r.amount, -r.amount)
      [] OTHER         -> TransferTxn([from |-> r.from, to |-> r.to, amount |-> r.amount])

AsOperation(r) ==
    IF r.kind = "wallet" THEN [kind |-> "create", amount |-> 0]
    ELSE CASE r.from = NULL -> [kind |-> "deposit", wallet |-> r.to, amount |-> r.amount]
           [] r.to = NULL   -> [kind |-> "withdraw", wallet |-> r.from, amount |-> r.amount]
           [] OTHER -> [kind |-> "batch",
                        jobs |-> <<[from |-> r.from, to |-> r.to, amount |-> r.amount]>>]

Largest == 2^30   \* a bound no run comes near; the code has the doubles' 2^53

Ledger == INSTANCE AccountBook WITH
    Operations <- {AsOperation(r) : r \in {q \in Requests : q.kind \in Money \cup {"wallet"}}},
    MaxBalance <- Largest,
    open    <- DOMAIN db.wallets,
    balance <- [w \in Wallets |-> IF w \in DOMAIN db.wallets
                                  THEN db.wallets[w].balance ELSE 0],
    book    <- [n \in 1 .. Len(db.txs) |-> AsPosted(db.txs[n])]

SerialBook == Ledger!BookSpec

\* Every call is answered: locks are asked for in one order, so no calls wait for
\* each other, and whichever way a call ends it releases them.
EveryCallEnds == \A c \in Calls : call[c].pc # "idle" ~> call[c].pc = "done"

=============================================================================
