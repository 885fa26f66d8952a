----------------------------- MODULE AccountBook -----------------------------
(***************************************************************************)
(* The abstract specification of the ledger's database: a set of open      *)
(* wallets, their balances, and the book of posted transactions.  Every    *)
(* operation takes effect in one step or not at all, as if the operations  *)
(* ran one after the other; a batch of transfers takes effect as its       *)
(* transfers in order, each funded by the balance the previous ones left.  *)
(***************************************************************************)
EXTENDS Postings

CONSTANTS Wallets,        \* every wallet id there may ever be
          Operations,     \* the operations clients ask for
          MaxBalance      \* the largest BIGINT

VARIABLES open, balance, book

book_vars == <<open, balance, book>>

Amounts == 0 .. MaxBalance

Open(o) ==
    \E w \in Wallets \ open :
        /\ open' = open \cup {w}
        /\ balance' = [balance EXCEPT ![w] = o.amount]
        /\ book' = IF o.amount = 0 THEN book
                   ELSE Append(book, CashTxn("deposit", w, o.amount, o.amount))

Deposit(o) ==
    /\ o.wallet \in open
    /\ balance[o.wallet] + o.amount \in Amounts
    /\ balance' = [balance EXCEPT ![o.wallet] = @ + o.amount]
    /\ book' = Append(book, CashTxn("deposit", o.wallet, o.amount, o.amount))
    /\ UNCHANGED open

Withdraw(o) ==
    /\ o.wallet \in open
    /\ o.amount <= balance[o.wallet]
    /\ balance' = [balance EXCEPT ![o.wallet] = @ - o.amount]
    /\ book' = Append(book, CashTxn("withdrawal", o.wallet, o.amount, -o.amount))
    /\ UNCHANGED open

Transfers(jobs) ==
    LET after == Trail(balance, jobs)
    IN  /\ \A n \in 1 .. Len(jobs) :
             /\ Verdict(open, after[n - 1], jobs[n]) = "ok"
             /\ after[n][jobs[n].to] \in Amounts
        /\ balance' = after[Len(jobs)]
        /\ book' = book \o [n \in 1 .. Len(jobs) |-> TransferTxn(jobs[n])]
        /\ UNCHANGED open

Perform(o) == \/ o.kind = "create"   /\ Open(o)
              \/ o.kind = "deposit"  /\ Deposit(o)
              \/ o.kind = "withdraw" /\ Withdraw(o)
              \/ o.kind = "batch"    /\ Transfers(o.jobs)

\* The book starts with whatever wallets are already open.
BookInit == /\ open \subseteq Wallets
            /\ balance \in [Wallets -> Amounts]

BookNext == \E o \in Operations : Perform(o)

BookSpec == BookInit /\ [][BookNext]_book_vars

=============================================================================
