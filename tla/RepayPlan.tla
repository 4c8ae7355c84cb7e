----------------------------- MODULE RepayPlan ------------------------------
(***************************************************************************)
(* The liquidator working one loan off over many rounds.  A round reads    *)
(* the keeper's token account, picks an amount, simulates the real         *)
(* instruction and submits it; debt accrues, the account is drained by a   *)
(* transaction that lands late and refilled by the operator in between.    *)
(***************************************************************************)
EXTENDS RepayMath

CONSTANTS StartLoans,    \* the loans a behaviour may start with
          AtaLevels,     \* balances the keeper's account may be moved to
          Accruals,      \* debt that may accrue between two steps of a round
          DebtBound,     \* accrual stops here
          MaxDisturbed,  \* accruals and account moves explored
          Refill         \* what the operator tops the account up to

ASSUME LoansAssumption    == StartLoans \subseteq Loan
ASSUME BalancesAssumption == AtaLevels \subseteq Atoms
ASSUME AccrualsAssumption == Accruals \subseteq Atoms /\ DebtBound \in Atoms
ASSUME OperatorAssumption == MaxDisturbed \in Nat /\ Refill \in Atoms

VARIABLES round,     \* "idle", "confirm" (the confirming sim), "send", "done"
          loan,      \* the loan body on chain
          seen,      \* the body the round works with
          account,   \* the keeper's debt token account: missing, or its balance
          read,      \* the account as pick_repay_amount read it
          offer,     \* repay_atoms_max, once picked
          disturbed  \* accruals and account moves so far

repayVars == <<round, loan, seen, account, read, offer, disturbed>>

RepayInit == /\ round = "idle"
             /\ loan \in StartLoans
             /\ seen = loan
             /\ account \in {None} \cup { Some(b) : b \in AtaLevels }
             /\ read = None
             /\ offer = None
             /\ disturbed = 0

-----------------------------------------------------------------------------
(* The round. *)

\* list_loans_for_market, then pick_repay_amount: None ends the round.
PickAmount == /\ round = "idle" /\ loan.outstanding > 0
              /\ seen' = loan
              /\ read' = account
              /\ offer' = pick_repay_amount(loan, account)
              /\ round' = IF offer' = None THEN "done" ELSE "confirm"
              /\ UNCHANGED <<loan, account, disturbed>>

\* The handler returns and forgets what it read.
Forget == /\ round = "done"
          /\ round' = "idle"
          /\ seen' = loan /\ read' = None /\ offer' = None
          /\ UNCHANGED <<loan, account, disturbed>>

Accepted == \E r \in offer, b \in account : ProgramAccepts(loan, b, r)

\* mutant: only a full close goes on to the send
ConfirmFullOnly ==
  /\ round = "confirm"
  /\ round' = IF Accepted /\ offer = Some(REPAY_FULL) THEN "send" ELSE "done"
  /\ UNCHANGED <<loan, seen, account, read, offer, disturbed>>

\* The confirming simulation of the instruction that will be sent.  Requests do not
\* fail in this module: a request that fails, the error of a token account too
\* short to read included, only ends the visit, which Liquidator has.
ConfirmAmount == /\ round = "confirm"
                 /\ round' = IF Accepted THEN "send" ELSE "done"
                 /\ UNCHANGED <<loan, seen, account, read, offer, disturbed>>

\* The transaction lands, and reverts when the state has moved too far.
Send == /\ round = "send"
        /\ round' = "done"
        /\ \/ \E r \in offer, b \in account :
                   /\ ProgramAccepts(loan, b, r)
                   /\ loan' = [loan EXCEPT !.outstanding = @ - Spent(loan, r)]
                   /\ account' = Some(b - Spent(loan, r))
           \/ ~Accepted /\ UNCHANGED <<loan, account>>
        /\ UNCHANGED <<seen, read, offer, disturbed>>

(* Everybody else. *)

Interfere == disturbed < MaxDisturbed /\ disturbed' = disturbed + 1

\* Interest is added to a Fixed body while a round is under way (once a round).
Accrue == /\ Interfere /\ round \in {"confirm", "send"} /\ ~loan.p2pool /\ loan = seen
          /\ \E d \in Accruals :
               /\ loan.outstanding + d <= DebtBound
               /\ loan' = [loan EXCEPT !.outstanding = @ + d]
          /\ UNCHANGED <<round, seen, account, read, offer>>

\* The account is emptied or refilled by another holder of the key.
Move == /\ Interfere /\ round # "done"
        /\ \E b \in AtaLevels : account' = Some(b)
        /\ UNCHANGED <<round, loan, seen, read, offer>>

\* The operator creates the account or tops it up.
TopUp == /\ \A b \in account : b < Refill
         /\ account' = Some(Refill)
         /\ UNCHANGED <<round, loan, seen, read, offer, disturbed>>

Round == PickAmount \/ ConfirmAmount \/ Send \/ Forget

RepayNext == Round \/ Accrue \/ Move \/ TopUp

\* The handler visits the loan tick after tick, and the operator keeps the account
\* at Refill.
RepayFairness == WF_repayVars(Round) /\ WF_repayVars(TopUp)

RepaySpec == RepayInit /\ [][RepayNext]_repayVars /\ RepayFairness

-----------------------------------------------------------------------------
(* Properties. *)

\* The type invariant: debts, balances and offers stay u64, so a repay never takes
\* more than the debt or than the account holds.
RepayTypeOK == /\ round \in {"idle", "confirm", "send", "done"}
               /\ loan \in Loan /\ seen \in Loan
               /\ account \in SUBSET Atoms /\ read \in SUBSET Atoms /\ offer \in SUBSET Atoms
               /\ disturbed \in 0 .. MaxDisturbed

\* The full-close sentinel is 0, and the capped partial amount is never 0 by
\* accident: a full close is offered only by an account that can stage it.
FullOnlyWhenStaged ==
  \A r \in offer, b \in read : r = REPAY_FULL => b >= full_required(seen)

\* A partial repay is strictly below the estimate, so the program takes its
\* partial path and asks for no over-stage, and it is in the account.
PartialStaysPartial ==
  \A r \in offer, b \in read :
     r # REPAY_FULL => r < outstanding_est(seen) /\ r <= b

ClearsFloor(l) ==
  \A r \in offer : r # REPAY_FULL => r >= min_partial_repay_atoms(outstanding_est(l))

\* The pick respects "the program's 1% / 1000-atom floor" (README) for Fixed loans
\* and for every loan above it; a P2Pool loan of at most 1000 atoms may be
\* picked less, which only the confirming simulation holds back.
LargeClearsFloor ==
  (~seen.p2pool \/ outstanding_est(seen) > FLOOR) => ClearsFloor(seen)

(***************************************************************************)
(* "Pick the largest repay_atoms_max the keeper's ATA can fund.  Returns   *)
(* None when even the program's partial floor would overshoot the          *)
(* balance": among the amounts the program takes of this body, the full    *)
(* close comes first, then the largest partial.  The fundable partials are *)
(* an interval that begins at the floor.                                   *)
(***************************************************************************)
Fundable(l, b, r) == /\ r >= min_partial_repay_atoms(outstanding_est(l))
                     /\ r < outstanding_est(l)
                     /\ r <= b

IsBest(l, b, p) ==
  IF b >= full_required(l) THEN p = Some(REPAY_FULL)
  ELSE IF Fundable(l, b, min_partial_repay_atoms(outstanding_est(l)))
         THEN \E r \in p : p = {r} /\ Fundable(l, b, r) /\ ~Fundable(l, b, r + 1)
         ELSE p = None

\* pick_repay_amount's answer is the best one for the balance it read.
PicksLargestFundable ==
  (~seen.p2pool \/ outstanding_est(seen) > FLOOR) =>
     \A b \in read : IsBest(seen, b, offer)

\* "an underfunded ATA never deadlocks a large loan" (README): an account
\* topped up to the floor of the loan works a Fixed loan off completely, however small
\* the account is beside the loan.
UnderfundedNeverDeadlocks ==
  (Refill >= min_partial_repay_atoms(loan.outstanding) /\ ~loan.p2pool)
     ~> (loan.outstanding = 0)
=============================================================================
