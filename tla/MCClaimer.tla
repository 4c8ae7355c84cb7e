----------------------------- MODULE MCClaimer ------------------------------
(***************************************************************************)
(* Two markets and two sub-vaults.  x holds dust next to an atom, y is a   *)
(* seat of the same sub-vault in a market whose reads fail, z a seat of    *)
(* another sub-vault whose requests fail.                                  *)
(***************************************************************************)
EXTENDS Claimer, TLC

CONSTANTS m1, m2, v, w, x, y, z

MCMarketOf == x :> m1 @@ y :> m2 @@ z :> m1
MCVaultOf  == x :> v @@ y :> v @@ z :> w
MCShares   == x :> 3 @@ y :> 1 @@ z :> 2
=============================================================================
