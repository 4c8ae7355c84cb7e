--------------------------- MODULE MCBankRegistry ---------------------------
(* Four markets over four mints: two with sound banks, one whose debt bank is *)
(* refused, and one that binds a known mint to a second bank.                 *)
EXTENDS BankRegistry
CONSTANTS usdc, sol, jup, bad, bUsdc, bUsdc2, bSol, bJup, bBad,
          solUsdc, jupUsdc, badUsdc, solUsdc2

MCDebt == [m \in Markets |-> CASE m = badUsdc  -> [mint |-> bad, bank |-> bBad]
                               [] m = solUsdc2 -> [mint |-> usdc, bank |-> bUsdc2]
                               [] OTHER        -> [mint |-> usdc, bank |-> bUsdc]]
MCColl == [m \in Markets |-> CASE m = jupUsdc -> [mint |-> jup, bank |-> bJup]
                               [] m = badUsdc -> [mint |-> usdc, bank |-> bUsdc]
                               [] OTHER       -> [mint |-> sol, bank |-> bSol]]
=============================================================================
