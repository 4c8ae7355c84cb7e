--------------------------- MODULE MCMarketCache ---------------------------
(* Two tasks; two markets, and an account that does not decode. *)
EXTENDS MarketCache, TLC
CONSTANTS c1, c2, m1, m2, bad
Symmetry == Permutations({c1, c2}) \union Permutations({m1, m2})
=============================================================================
