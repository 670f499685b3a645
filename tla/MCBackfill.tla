----------------------------- MODULE MCBackfill -----------------------------
(***************************************************************************)
(* Three rows in batches of two, three writes of the application meanwhile *)
(* and two calls lost; a batch is sent at most twice.                      *)
(***************************************************************************)
EXTENDS Backfill
=============================================================================
