----------------------------- MODULE RepayMath ------------------------------
(***************************************************************************)
(* How much of a loan the liquidator offers to repay: the arithmetic of    *)
(* handlers/util.rs and of LiquidatorHandler::pick_repay_amount.  Amounts  *)
(* are u64 atoms; U64Max is the largest of them.  An Option is a set with  *)
(* at most one member.                                                     *)
(***************************************************************************)
EXTENDS Naturals

CONSTANT U64Max

\* No amount here is rounded to nothing by the width of the integers.
ASSUME U64MaxAssumption == U64Max \in Nat /\ U64Max >= 2000

Atoms == 0 .. U64Max

None    == {}
Some(v) == {v}

\* The program's sentinel: repay whatever is outstanding.
REPAY_FULL == 0

\* `const FLOOR: u64 = 1_000`
FLOOR == 1000

min(a, b) == IF a <= b THEN a ELSE b
max(a, b) == IF a >= b THEN a ELSE b

saturating_add(a, b) == min(a + b, U64Max)
saturating_sub(a, b) == IF a >= b THEN a - b ELSE 0

\* A marginfi debt is over-staged by 2% and 64 atoms for a full close.
p2pool_full_repay_staged_atoms(repay_atoms) ==
  saturating_add(saturating_add(repay_atoms, repay_atoms \div 50), 64)

\* The program's floor of a partial repay.
min_partial_repay_atoms(outstanding) == max(outstanding \div 100, FLOOR)

\* A loan body as the reader decodes it; P2Pool bodies do not accrue.
Loan == [p2pool : BOOLEAN, outstanding : Atoms, principal : Atoms]

outstanding_est(loan) ==
  IF loan.p2pool THEN max(loan.outstanding, loan.principal) ELSE loan.outstanding

full_required(loan) ==
  IF loan.p2pool THEN p2pool_full_repay_staged_atoms(outstanding_est(loan))
                 ELSE outstanding_est(loan)

\* mutant: a balance that is exactly the floor is turned down
PickFloorStrict(loan, ata) ==
  LET est == outstanding_est(loan) IN
  UNION { IF b >= full_required(loan) THEN Some(REPAY_FULL)
          ELSE IF b <= min_partial_repay_atoms(est) THEN None
          ELSE Some(min(b, saturating_sub(est, 1))) : b \in ata }

\* The amount to offer given the keeper's token account: missing (None), or
\* Some balance.
pick_repay_amount(loan, ata) ==
  LET est == outstanding_est(loan) IN
  UNION { IF b >= full_required(loan) THEN Some(REPAY_FULL)
          ELSE IF b < min_partial_repay_atoms(est) THEN None
          ELSE Some(min(b, saturating_sub(est, 1))) : b \in ata }

-----------------------------------------------------------------------------
(***************************************************************************)
(* The program, from what liquidator.rs and util.rs say of it: 0 and any   *)
(* amount not below the debt close the loan, which the account must fund,  *)
(* over-staged for P2Pool; a smaller amount must clear the partial floor   *)
(* and be in the account.                                                  *)
(***************************************************************************)
Closes(l, r) == r = REPAY_FULL \/ r >= l.outstanding

ProgramAccepts(l, bal, r) ==
  IF Closes(l, r)
    THEN bal >= IF l.p2pool THEN p2pool_full_repay_staged_atoms(l.outstanding)
                            ELSE l.outstanding
    ELSE r >= min_partial_repay_atoms(l.outstanding) /\ r <= bal

\* mutant: the amount asked for is taken, not the debt
SpentUnclamped(l, r) == r

Spent(l, r) == IF Closes(l, r) THEN l.outstanding ELSE r
=============================================================================
