---------------------------- MODULE MCSimEngine ----------------------------
(***************************************************************************)
(* Small instances of SimEngine for TLC: two seeded wallets and one that   *)
(* may be opened, three calls.                                             *)
(***************************************************************************)
EXTENDS SimEngine

CONSTANTS k1, k2, none, c1, c2, c3

Request(kind, key, from, to, amount) ==
    [kind |-> kind, key |-> key, from |-> from, to |-> to, amount |-> amount]

Seed == << Request("deposit", NoKey, NULL, 1, 2),
           Request("transfer", NoKey, 1, 2, 1) >>

\* Retries of k1, another payload under k1, a transfer the other way, overdrafts,
\* a wallet that may not exist yet, names and keys left out, and the reads.
SomeRequests ==
    { Request("transfer", k1, 1, 2, 1), Request("transfer", k1, 1, 2, 2),
      Request("transfer", k2, 2, 1, 1), Request("transfer", k2, 1, NULL, 1),
      Request("deposit", k2, NULL, 3, 1), Request("withdrawal", k2, 2, NULL, 1),
      Request("deposit", k1, NULL, NULL, 1), Request("transfer", k1, 1, 1, 1),
      Request("deposit", none, NULL, 1, 1), Request("wallet", k1, NULL, NULL, 0),
      Request("wallet", k1, NULL, NULL, 1),
      Request("list", none, NULL, NULL, 0) }
    \cup { Request(kind, none, 3, NULL, 0) :
             kind \in {"get", "transactions", "entries", "reconcile"} }
=============================================================================
