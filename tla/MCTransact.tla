----------------------------- MODULE MCTransact -----------------------------
(***************************************************************************)
(* A small instance of Transact for TLC: two live wallets, which get their *)
(* money from the deposits made on the page, one wallet of the simulation, *)
(* transfers and deposits of $1.05, or of all the sender has.              *)
(***************************************************************************)
EXTENDS Transact

LiveIds == <<1, 2>>
SimIds  == <<11>>
NewIds  == [s \in Sources |-> {}]
=============================================================================
