---------------------------- MODULE MCLiquidator ----------------------------
(***************************************************************************)
(* Two markets, one with a Switchboard feed that both loans hang on.  a is *)
(* a small P2Pool loan whose full close takes 990 + 19 + 64 atoms, b a     *)
(* Fixed loan past the 1.05 prefilter.  With the update in front, the      *)
(* simulations have 400 thousand units and the update takes 230 of them:   *)
(* a can only be closed by settling it, and b only by liquidating it       *)
(* without the update, in a visit whose gateways all failed.               *)
(***************************************************************************)
EXTENDS Liquidator, TLC

CONSTANTS a, b, swb, pyth

Body(p, o, pr) == [p2pool |-> p, outstanding |-> o, principal |-> pr]

MCBodies   == a :> Body(TRUE, 990, 990) @@ b :> Body(FALSE, 1900, 1750)
MCMarketOf == a :> swb @@ b :> swb
MCCheckCu  == [l \in {a, b} |-> "liquidate" :> 120 @@ "settle" :> 60]
MCRealCu   == a :> ("liquidate" :> 200 @@ "settle" :> 160)
              @@ b :> ("liquidate" :> 180 @@ "settle" :> 330)
MCBps      == swb :> 500 @@ pyth :> 500
=============================================================================
