---------------------------- MODULE MCTransactions ----------------------------
(***************************************************************************)
(* Three calls at once, one of each kind, over a pool of two connections.  *)
(***************************************************************************)
EXTENDS Transactions, TLC

CONSTANTS callback, batch, single

OneOfEach ==
  (callback :> "callback") @@ (batch :> "batch") @@ (single :> "single")
=============================================================================
