--------------------------- MODULE MCCuratorFees ----------------------------
(***************************************************************************)
(* Three sub-vaults: x is sound, y has sends that may fail, z is of a      *)
(* vault whose bank is not the registry's.  Curator k's keypair is loaded  *)
(* and has a token account, l's keypair is loaded and has none.            *)
(***************************************************************************)
EXTENDS CuratorFees

CONSTANTS x, y, z, k, l
=============================================================================
