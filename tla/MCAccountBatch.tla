--------------------------- MODULE MCAccountBatch ---------------------------
(***************************************************************************)
(* Up to three mints in chunks of two, one request at a time.              *)
(***************************************************************************)
EXTENDS AccountBatch

CONSTANTS x, y, z
=============================================================================
