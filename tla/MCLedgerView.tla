---------------------------- MODULE MCLedgerView ----------------------------
(***************************************************************************)
(* Small instances of LedgerView for TLC: two live wallets and one of the  *)
(* simulation, a wallet opened on the way, one movement by others.         *)
(***************************************************************************)
EXTENDS LedgerView

LiveIds == <<1, 2>>
SimIds  == <<11>>
NewIds  == [s \in Sources |-> IF s = "live" THEN {3} ELSE {12}]
Moves   == {[kind |-> "transfer", key |-> NULL, from |-> 1, to |-> 2, amount |-> 1]}
=============================================================================
