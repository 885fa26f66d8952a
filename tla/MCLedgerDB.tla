----------------------------- MODULE MCLedgerDB -----------------------------
(***************************************************************************)
(* Small instances of LedgerDB for TLC.                                    *)
(***************************************************************************)
EXTENDS LedgerDB, TLC

CONSTANTS s1, s2, s3

J(f, t, a) == [from |-> f, to |-> t, amount |-> a]
Batch(jobs) == [kind |-> "batch", jobs |-> jobs]
Create(a) == [kind |-> "create", amount |-> a]
Cash(kind, w, a) == [kind |-> kind, wallet |-> w, amount |-> a]

Symmetry == Permutations(Sessions)

\* Two wallets, 2 and 1 units; the largest balance is 3.
TwoWallets == <<2, 1>>

\* Opposing transfers, pairs that only work in order, an overdraft, a transfer
\* to oneself, cash in and out, and wallets created while transfers, deposits
\* and withdrawals that name them are under way.
LedgerOps ==
    {Create(1), Create(0),
     Batch(<<J(1, 2, 1)>>), Batch(<<J(2, 1, 1), J(1, 2, 3)>>),
     Batch(<<J(1, 2, 2), J(2, 2, 1)>>), Batch(<<J(1, 2, 1), J(2, 1, 2)>>),
     Batch(<<J(3, 1, 1), J(1, 2, 1)>>),
     Cash("deposit", 2, 1), Cash("withdraw", 1, 2), Cash("withdraw", 3, 1)}

\* Transfers around a ring of three wallets, in both directions.
RingOps ==
    {Batch(<<J(1, 2, 1)>>), Batch(<<J(2, 3, 1)>>), Batch(<<J(3, 1, 1)>>),
     Batch(<<J(3, 2, 1), J(2, 1, 1)>>), Cash("withdraw", 3, 1)}

ThreeWallets == <<1, 1, 1>>
=============================================================================
