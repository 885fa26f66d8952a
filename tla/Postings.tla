------------------------------ MODULE Postings ------------------------------
(***************************************************************************)
(* What one operation of the ledger writes: the transaction rows and their *)
(* ledger entries, and the verdict of the stored procedure on one transfer.*)
(* Pure operators shared by the abstract account book and the SQL model.   *)
(*                                                                         *)
(* An operation is a record:                                               *)
(*   [kind |-> "create",   amount |-> a]               WalletRepository    *)
(*   [kind |-> "deposit",  wallet |-> w, amount |-> a] WalletRepository    *)
(*   [kind |-> "withdraw", wallet |-> w, amount |-> a] WalletRepository    *)
(*   [kind |-> "batch",    jobs |-> <<j1, j2, ...>>]   TransferRepository  *)
(* where a job is [from |-> w, to |-> v, amount |-> a].                    *)
(***************************************************************************)
EXTENDS Integers, Sequences

\* to_wallet_id is NULL on deposits and withdrawals; ids start at 1.
NULL == 0

Entry(w, a) == [wallet |-> w, amount |-> a]

\* A deposit or withdrawal posts a single ledger entry.
CashTxn(type, w, a, signed) ==
    [type |-> type, wallet |-> w, to |-> NULL, amount |-> a,
     entries |-> <<Entry(w, signed)>>]

\* Mutant: both entries of a transfer are credits.
TransferTxnUnsigned(j) ==
    [type |-> "transfer", wallet |-> j.from, to |-> j.to, amount |-> j.amount,
     entries |-> <<Entry(j.from, j.amount), Entry(j.to, j.amount)>>]

\* A transfer posts two entries, one per wallet.
TransferTxn(j) ==
    [type |-> "transfer", wallet |-> j.from, to |-> j.to, amount |-> j.amount,
     entries |-> <<Entry(j.from, -j.amount), Entry(j.to, j.amount)>>]

\* RunningSum(amounts)[n]: the sum of the first n amounts.
RunningSum(amounts) ==
    LET sum[n \in 0 .. Len(amounts)] == IF n = 0 THEN 0 ELSE sum[n - 1] + amounts[n]
    IN  sum

SumOf(amounts) == RunningSum(amounts)[Len(amounts)]

\* SUM(ledger_entries.amount) of wallet w over the entries of one transaction,
\* and over those of a list of transactions.
EntryAmount(e, w) == IF e.wallet = w THEN e.amount ELSE 0
TxnSum(t, w) == SumOf([i \in 1 .. Len(t.entries) |-> EntryAmount(t.entries[i], w)])
EntrySum(txns, w) == SumOf([i \in 1 .. Len(txns) |-> TxnSum(txns[i], w)])

\* The balances after one transfer.
Move(bal, j) == [bal EXCEPT ![j.from] = @ - j.amount, ![j.to] = @ + j.amount]

\* Trail(bal, jobs)[n]: the balances after the first n transfers of jobs.
Trail(bal, jobs) ==
    LET after[n \in 0 .. Len(jobs)] == IF n = 0 THEN bal ELSE Move(after[n - 1], jobs[n])
    IN  after

\* Mutant: the sender's funds are not checked.
VerdictNoFunds(rows, bal, j) ==
    IF j.from = j.to \/ j.amount <= 0 THEN "invalid"
    ELSE IF {j.from, j.to} \subseteq rows THEN "ok" ELSE "notfound"

\* The checks process_transfer_batch makes on one transfer, in its order.
Verdict(rows, bal, j) ==
    IF j.from = j.to \/ j.amount <= 0 THEN "invalid"
    ELSE IF {j.from, j.to} \subseteq rows
         THEN IF bal[j.from] < j.amount THEN "insufficient" ELSE "ok"
         ELSE "notfound"

\* How process_transfer_batch ends when nothing else touches the wallets: "ok",
\* or the first error its transfers, run in order, meet.  A balance beyond max
\* breaks the BIGINT range, an error of no business kind.
BatchVerdict(rows, bal, jobs, max) ==
    LET after == Trail(bal, jobs)
        StepVerdict(n) ==
            LET v == Verdict(rows, after[n - 1], jobs[n])
            IN  IF v = "ok" /\ after[n - 1][jobs[n].to] + jobs[n].amount > max
                THEN "error" ELSE v
        verdict[n \in 0 .. Len(jobs)] ==
            IF n = 0 THEN "ok"
            ELSE IF verdict[n - 1] # "ok" THEN verdict[n - 1] ELSE StepVerdict(n)
    IN  verdict[Len(jobs)]

=============================================================================
