------------------------------- MODULE MCLab -------------------------------
(***************************************************************************)
(* A small instance of Lab for TLC: every backend, batches of two, one     *)
(* mishap, two clicks, which is up to eight experiments.                   *)
(***************************************************************************)
EXTENDS Lab

AllFaults == {"none", "no_keys", "no_fingerprint", "no_funds", "lost_update"}
\* $119 is the most a transfer of the batch is for.  What others add may make up for
\* an update of one that was lost; what they take leaves too little for one.
Most == {11900}
TakeAndGive == {-45000, 11900}
=============================================================================
