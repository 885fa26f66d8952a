------------------------- MODULE MCTransferService -------------------------
(***************************************************************************)
(* Small instances of TransferService for TLC.                             *)
(***************************************************************************)
EXTENDS TransferService, TLC

J(f, t, a) == [from |-> f, to |-> t, amount |-> a]

\* Wallet 1 pays in full, wallet 2 only if wallet 1 has paid it first.
TwoWallets == (1 :> 3) @@ (2 :> 0)

FourRequests == 1 .. 4

\* An innocent transfer, one that depends on it, an overdraft, a malformed one.
MixedTransfers ==
    (1 :> J(1, 2, 1)) @@ (2 :> J(2, 1, 1)) @@ (3 :> J(2, 1, 3)) @@ (4 :> J(1, 1, 1))

ThreeRequests == 1 .. 3
=============================================================================
