--------------------------- MODULE MCOrigination ----------------------------
(***************************************************************************)
(* In the Switchboard market good the bid b crosses two asks: c, the best  *)
(* one, belongs to the bid's owner and never matches, a is a vault's.  The *)
(* reads of the market bad and the requests about p, a node of the same    *)
(* vault queued by an order placement, may fail for ever.  The promotion   *)
(* needs more compute than the default limit.                              *)
(***************************************************************************)
EXTENDS Origination, TLC

CONSTANTS good, bad, a, b, c, p

MCMarketOf == [x \in {a, b, c, p} |-> good]
MCRate     == b :> 5 @@ a :> 5 @@ c :> 4
MCKind     == a :> "vault" @@ c :> "wallet" @@ p :> "vault"
MCSelf     == {<<b, c>>}
=============================================================================
