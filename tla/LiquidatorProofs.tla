-------------------------- MODULE LiquidatorProofs --------------------------
(***************************************************************************)
(* The safety properties of the liquidator for every set of markets and    *)
(* loans, every amount, any number of copies on the wire and any number of *)
(* price, feed and balance moves, and that it keeps the promise of Keeper. *)
(* Then the repay arithmetic for every u64 amount, and from it the         *)
(* properties of the rounds of RepayPlan.  Each part is about its own      *)
(* specification, Spec or RepaySpec.                                       *)
(***************************************************************************)
EXTENDS Liquidator, RepayPlan, FiniteSetTheorems, TLAPS

-----------------------------------------------------------------------------
(* The inductive invariant. *)

Visiting == {"banks", "check", "pick", "confirm", "submit", "await"}

AtMostOne(S) == \A x, y \in S : x = y

\* One visit at a time, one account, one amount; and what belongs to a
\* submission exists only during it.
Shape ==
  /\ cur = None \/ \E l \in Loans : cur = Some(l)
  /\ pc \in Visiting <=> cur # None
  /\ AtMostOne(ata) /\ AtMostOne(plan)
  /\ pc \notin {"submit", "await"} => ~touched
  /\ pc # "await" => recorded = "none" /\ \A tx \in wire : ~tx.mine

\* What is on the wire for the submission is what the simulation confirmed.
SentAsConfirmed ==
  \A tx \in wire : tx.mine => /\ tx.loan \in cur /\ tx.path = path
                              /\ tx.bundle = bundle /\ tx.amount \in plan

\* The verdict of the confirming simulation stands until the chain moves.
VerdictStands ==
  pc \in {"submit", "await"} /\ ~touched =>
     \A l \in cur, r \in plan : Executes(l, path, bundle, r)

IInv == /\ TypeOK /\ ClaimsMatchVisit /\ Shape
        /\ SentAsConfirmed /\ VerdictStands /\ RevertsOnlyAfterInterference

-----------------------------------------------------------------------------
(* Lemmas. *)

\* No loan, or one, is visited.
LEMMA OneVisit ==
  ASSUME NEW S, S = None \/ \E l \in Loans : S = Some(l)
  PROVE  Cardinality(S) <= 1
<1>1. CASE S = None
  BY <1>1, FS_EmptySet DEF None
<1>2. ASSUME NEW l \in Loans, S = Some(l) PROVE Cardinality(S) <= 1
  BY <1>2, FS_Singleton DEF Some
<1> QED
  BY <1>1, <1>2

\* What is picked from one account is at most one amount, and a u64.
LEMMA PickedAmount ==
  ASSUME NEW l \in Loan, NEW S \in SUBSET Atoms, AtMostOne(S)
  PROVE  pick_repay_amount(l, S) \subseteq Atoms /\ AtMostOne(pick_repay_amount(l, S))
<1> DEFINE est == outstanding_est(l)
           e(x) == IF x >= full_required(l) THEN Some(REPAY_FULL)
                   ELSE IF x < min_partial_repay_atoms(est) THEN None
                   ELSE Some(min(x, saturating_sub(est, 1)))
<1>1. pick_repay_amount(l, S) = UNION { e(x) : x \in S }
  BY DEF pick_repay_amount
<1>2. est \in Atoms
  BY DEF outstanding_est, Loan, max
<1>3. \A x \in S : min(x, saturating_sub(est, 1)) \in Atoms
  BY <1>2, U64MaxAssumption DEF min, saturating_sub, Atoms
<1>4. \A x \in S : e(x) \subseteq Atoms /\ \A p, q \in e(x) : p = q
  BY <1>3, U64MaxAssumption DEF Some, None, Atoms, REPAY_FULL
<1> HIDE DEF e
<1> QED
  BY <1>1, <1>4 DEF AtMostOne

\* An accepted repay takes no more than the debt, nor than the account holds.
LEMMA SpentIsFunded ==
  ASSUME NEW l \in Loan, NEW b \in Atoms, NEW r \in Atoms, ProgramAccepts(l, b, r)
  PROVE  /\ Spent(l, r) \in Nat /\ Spent(l, r) <= l.outstanding /\ Spent(l, r) <= b
         /\ l.outstanding - Spent(l, r) \in Atoms /\ b - Spent(l, r) \in Atoms
<1>1. l.outstanding \in Nat /\ l.outstanding <= U64Max /\ b \in Nat /\ b <= U64Max
      /\ r \in Nat /\ U64Max \in Nat
  BY U64MaxAssumption DEF Loan, Atoms
<1>2. CASE Closes(l, r)
  <2> DEFINE o == l.outstanding
  <2>1. o \div 50 \in Nat
    BY <1>1
  <2>2. p2pool_full_repay_staged_atoms(o) \in Nat /\ p2pool_full_repay_staged_atoms(o) >= o
    BY <1>1, <2>1 DEF p2pool_full_repay_staged_atoms, saturating_add, min
  <2>3. b >= IF l.p2pool THEN p2pool_full_repay_staged_atoms(o) ELSE o
    BY <1>2 DEF ProgramAccepts
  <2>4. b >= o
    BY <1>1, <2>2, <2>3
  <2> QED
    BY <1>1, <1>2, <2>4 DEF Spent, Atoms
<1>3. CASE ~Closes(l, r)
  <2>1. r < l.outstanding /\ r <= b
    BY <1>1, <1>3 DEF ProgramAccepts, Closes
  <2> QED
    BY <1>1, <1>3, <2>1 DEF Spent, Atoms
<1> QED
  BY <1>2, <1>3

\* The wire without the marks of the submission that is over.
Unmarked == { [tx EXCEPT !.mine = FALSE] : tx \in wire }

LEMMA UnmarkedWire ==
  ASSUME wire \subseteq Txs
  PROVE  Unmarked \subseteq Txs /\ \A tx \in Unmarked : ~tx.mine
  BY DEF Unmarked, Txs

\* Whatever a path returns, leaving it keeps the invariant.
LEMMA LeaveKeeps ==
  ASSUME IInv, NEW l \in Loans, cur = Some(l), NEW r, Leave(l, r),
         UNCHANGED <<todoMarkets, todoLoans, snap, matured, chainVars, moves>>
  PROVE  IInv'
<1> USE DEF IInv, Visiting
<1>1. wire' \subseteq Txs /\ \A tx \in wire' : ~tx.mine
  BY UnmarkedWire DEF Unmarked, Leave, TypeOK
<1>2. plan' = None /\ recorded' = "none" /\ touched' = FALSE
  BY DEF Leave
<1>3. CASE pc' = "banks" /\ path' = "settle" /\ UNCHANGED <<bundle, inflight, cur>>
  <2>1. TypeOK'
    BY <1>1, <1>2, <1>3 DEF TypeOK, Paths, chainVars, None
  <2>2. Shape' /\ ClaimsMatchVisit'
    BY <1>1, <1>2, <1>3 DEF Shape, ClaimsMatchVisit, chainVars, None, Some, AtMostOne
  <2> QED
    BY <1>1, <1>2, <1>3, <2>1, <2>2 DEF SentAsConfirmed, VerdictStands, RevertsOnlyAfterInterference
<1>4. CASE FinishVisit(l)
  <2>1. cur' = None /\ inflight' = {} /\ pc' = "loans" /\ path' = "settle" /\ bundle' = FALSE
    BY <1>4 DEF FinishVisit, EndVisit, ClaimsMatchVisit, Some
  <2>2. TypeOK'
    BY <1>1, <1>2, <2>1, OneVisit DEF TypeOK, Paths, chainVars, None
  <2>3. Shape' /\ ClaimsMatchVisit'
    BY <1>1, <1>2, <2>1 DEF Shape, ClaimsMatchVisit, chainVars, None, AtMostOne
  <2> QED
    BY <1>1, <1>2, <2>1, <2>2, <2>3 DEF SentAsConfirmed, VerdictStands, RevertsOnlyAfterInterference
<1> QED
  BY <1>3, <1>4 DEF Leave
\* A step of the loops over markets and loans, outside any visit.
LEMMA ScanKeeps ==
  ASSUME IInv, pc \in {"idle", "markets", "loans"}, pc' \in {"idle", "markets", "loans"},
         todoMarkets' \subseteq Markets, todoLoans' \subseteq Loans,
         snap' \in [Loans -> Loan], matured' \subseteq Loans,
         UNCHANGED <<cur, path, bundle, plan, inflight, chainVars, wire, recorded, moves, touched>>
  PROVE  IInv'
<1> USE DEF IInv
<1>1. TypeOK'
  BY DEF TypeOK, chainVars
<1>2. Shape' /\ ClaimsMatchVisit'
  BY DEF Shape, ClaimsMatchVisit, chainVars, AtMostOne, Visiting
<1> QED
  BY <1>1, <1>2 DEF SentAsConfirmed, VerdictStands, RevertsOnlyAfterInterference

\* A step of a visit that goes on to its next await.
LEMMA AdvanceKeeps ==
  ASSUME IInv, cur # None, pc' \in {"check", "pick", "confirm"}, pc \in Visiting,
         pc \notin {"submit", "await"},
         bundle' \in BOOLEAN, plan' \subseteq Atoms, AtMostOne(plan'),
         UNCHANGED <<todoMarkets, todoLoans, snap, matured, cur, path, inflight,
                     chainVars, wire, recorded, moves, touched>>
  PROVE  IInv'
<1> USE DEF IInv
<1>1. TypeOK'
  BY DEF TypeOK, chainVars
<1>2. Shape' /\ ClaimsMatchVisit'
  BY DEF Shape, ClaimsMatchVisit, chainVars, AtMostOne, Visiting
<1>3. SentAsConfirmed'
  BY DEF SentAsConfirmed, Shape
<1> QED
  BY <1>1, <1>2, <1>3 DEF VerdictStands, RevertsOnlyAfterInterference

\* A move on chain from outside: what it may break, the simulation's verdict, is
\* marked as touched.
LEMMA DisturbKeeps ==
  ASSUME IInv, Disturb, UNCHANGED <<handlerVars, wire, recorded>>,
         body' \in [Loans -> Loan], active' \subseteq Loans, breached' \subseteq Loans,
         fresh' \subseteq Markets, ata' \subseteq Atoms, AtMostOne(ata'), phase' = phase
  PROVE  IInv'
<1> USE DEF IInv
<1>1. moves' \in 0 .. MaxMoves /\ touched' = (pc \in {"submit", "await"}) /\ touched' \in BOOLEAN
  BY ShapeAssumption DEF Disturb, Touch, TypeOK
<1>2. TypeOK'
  BY <1>1 DEF TypeOK, handlerVars
<1>3. Shape' /\ ClaimsMatchVisit'
  BY <1>1 DEF Shape, ClaimsMatchVisit, handlerVars, AtMostOne
<1>4. SentAsConfirmed' /\ VerdictStands'
  BY <1>1 DEF SentAsConfirmed, VerdictStands, handlerVars
<1>5. RevertsOnlyAfterInterference'
  BY <1>1 DEF RevertsOnlyAfterInterference, Shape, handlerVars
<1> QED
  BY <1>2, <1>3, <1>4, <1>5

\* A copy on the wire is executed or recorded as failed.
LEMMA LandKeeps == ASSUME IInv, NEW tx \in wire, Land(tx) PROVE IInv'
<1> USE DEF IInv
<1>1. tx \in Txs /\ wire' = wire \ {tx} /\ UNCHANGED <<handlerVars, phase, breached, moves>>
  BY DEF Land, TypeOK
<1>2. tx.loan \in Loans /\ tx.amount \in Atoms /\ tx.mine \in BOOLEAN /\ tx.bundle \in BOOLEAN
      /\ MarketOf[tx.loan] \in Markets /\ body[tx.loan] \in Loan
  BY <1>1, ShapeAssumption DEF Txs, TypeOK
<1>3. tx.mine => pc = "await"
  BY DEF Shape
<1>4. recorded' \in {"none", "ok", "err"} /\ (pc # "await" => recorded' = recorded)
  BY <1>2, <1>3 DEF Land, TypeOK
<1>5. CASE Executes(tx.loan, tx.path, tx.bundle, tx.amount)
  <2> DEFINE l == tx.loan
             paid == Spent(body[l], tx.amount)
  <2>1. PICK b \in ata : ProgramAccepts(body[l], b, tx.amount)
    BY <1>5 DEF Executes
  <2>2. b \in Atoms /\ ata = {b}
    BY <2>1 DEF TypeOK, Shape, AtMostOne
  <2>3. paid \in Nat /\ body[l].outstanding - paid \in Atoms /\ b - paid \in Atoms
    BY <1>2, <2>1, <2>2, SpentIsFunded
  <2>4. /\ body' = [body EXCEPT ![l].outstanding = @ - paid]
        /\ active' = IF body'[l].outstanding = 0 THEN active \ {l} ELSE active
        /\ ata' = { x - paid : x \in ata }
        /\ fresh' = IF tx.bundle THEN fresh \cup {MarketOf[l]} ELSE fresh
        /\ touched' = (pc \in {"submit", "await"})
        /\ recorded' = IF tx.mine /\ recorded = "none" THEN "ok" ELSE recorded
    BY <1>5 DEF Land, Touch
  <2> HIDE DEF paid
  <2>5. body' \in [Loans -> Loan]
    <3>1. [body[l] EXCEPT !.outstanding = @ - paid] \in Loan
      BY <1>2, <2>3 DEF Loan
    <3> QED
      BY <1>2, <2>4, <3>1 DEF TypeOK
  <2>6. ata' = {b - paid}
    BY <2>2, <2>4
  <2>7. active' \subseteq Loans /\ fresh' \subseteq Markets /\ touched' \in BOOLEAN
    BY <1>2, <2>4 DEF TypeOK
  <2>8. TypeOK'
    BY <1>1, <1>4, <2>3, <2>5, <2>6, <2>7 DEF TypeOK, handlerVars
  <2>9. Shape' /\ ClaimsMatchVisit'
    BY <1>1, <1>4, <2>4, <2>6 DEF Shape, ClaimsMatchVisit, handlerVars, AtMostOne
  <2>10. SentAsConfirmed' /\ VerdictStands' /\ RevertsOnlyAfterInterference'
    BY <1>1, <1>3, <2>4
    DEF SentAsConfirmed, VerdictStands, RevertsOnlyAfterInterference, Shape, handlerVars
  <2> QED
    BY <2>8, <2>9, <2>10
<1>6. CASE ~Executes(tx.loan, tx.path, tx.bundle, tx.amount)
  <2>1. recorded' = (IF tx.mine /\ recorded = "none" THEN "err" ELSE recorded)
        /\ UNCHANGED <<body, active, ata, fresh, touched>>
    BY <1>6 DEF Land
  <2>2. tx.mine => touched
    BY <1>3, <1>6 DEF VerdictStands, SentAsConfirmed, TypeOK
  <2>3. TypeOK'
    BY <1>1, <1>4, <2>1 DEF TypeOK, handlerVars
  <2>4. Shape' /\ ClaimsMatchVisit'
    BY <1>1, <1>4, <2>1 DEF Shape, ClaimsMatchVisit, handlerVars, AtMostOne
  <2>5. SentAsConfirmed'
    BY <1>1 DEF SentAsConfirmed, handlerVars
  <2>6. VerdictStands'
    BY <1>1, <2>1 DEF VerdictStands, Executes, Eligible, Priced, BundleCu, handlerVars
  <2>7. RevertsOnlyAfterInterference'
    BY <2>1, <2>2 DEF RevertsOnlyAfterInterference
  <2> QED
    BY <2>3, <2>4, <2>5, <2>6, <2>7
<1> QED
  BY <1>5, <1>6

\* Time only makes a settle eligible; the verdict of the simulation stands.
LEMMA TimeKeeps == ASSUME IInv, NEW l \in Loans, TimePasses(l) PROVE IInv'
<1> USE DEF IInv
<1>1. /\ phase' = [phase EXCEPT ![l] = @ + 1] /\ phase[l] < 2
      /\ UNCHANGED <<handlerVars, body, active, breached, fresh, ata, wire, recorded, moves, touched>>
  BY DEF TimePasses
<1>2. phase' \in [Loans -> 0 .. 2] /\ \A k \in Loans : phase[k] >= 1 => phase'[k] >= 1
  BY <1>1 DEF TypeOK
<1>3. TypeOK'
  BY <1>1, <1>2 DEF TypeOK, handlerVars
<1>4. Shape' /\ ClaimsMatchVisit' /\ SentAsConfirmed' /\ RevertsOnlyAfterInterference'
  BY <1>1 DEF Shape, ClaimsMatchVisit, SentAsConfirmed, RevertsOnlyAfterInterference, handlerVars, AtMostOne
<1>5. VerdictStands'
  <2>1. \A k \in Loans : \A p, bnd, r : Executes(k, p, bnd, r) => Executes(k, p, bnd, r)'
    BY <1>1, <1>2 DEF Executes, Eligible, Priced
  <2>2. cur \subseteq Loans
    BY DEF TypeOK
  <2> QED
    BY <1>1, <2>1, <2>2 DEF VerdictStands, handlerVars
<1> QED
  BY <1>3, <1>4, <1>5
-----------------------------------------------------------------------------
(* The invariant. *)

LEMMA InitIInv == Init => IInv
<1> SUFFICES ASSUME Init PROVE IInv
  OBVIOUS
<1>1. PICK b \in Balances : ata = Some(b)
  BY DEF Init
<1>2. TypeOK
  <2>1. Cardinality(cur) <= 1 /\ cur \subseteq Loans
    BY OneVisit DEF Init, None
  <2>2. phase \in [Loans -> 0 .. 2] /\ fresh \subseteq Markets /\ ata \subseteq Atoms
    BY <1>1, ShapeAssumption DEF Init, Some
  <2>3. snap \in [Loans -> Loan] /\ body \in [Loans -> Loan] /\ moves \in 0 .. MaxMoves
    BY ShapeAssumption DEF Init
  <2> QED
    BY <2>1, <2>2, <2>3 DEF Init, TypeOK, Paths, None
<1>3. Shape /\ ClaimsMatchVisit
  BY <1>1 DEF Init, Shape, ClaimsMatchVisit, Visiting, AtMostOne, None, Some
<1> QED
  BY <1>2, <1>3 DEF Init, IInv, SentAsConfirmed, VerdictStands, RevertsOnlyAfterInterference

LEMMA VisitKeeps == ASSUME IInv, NEW l \in Loans, Visit(l) PROVE IInv'
<1> USE DEF IInv
<1>1. CASE VisitLoan(l)
  <2>1. cur = None /\ inflight = {} /\ recorded = "none" /\ ~touched /\ \A tx \in wire : ~tx.mine
    BY <1>1 DEF VisitLoan, Shape, ClaimsMatchVisit, Visiting, None
  <2>2. /\ todoLoans' = todoLoans \ {l} /\ inflight' = {l} /\ cur' = {l} /\ pc' = "banks"
        /\ path' \in Paths
        /\ UNCHANGED <<todoMarkets, snap, matured, bundle, plan, chainVars, wire, recorded, moves, touched>>
    BY <1>1, <2>1 DEF VisitLoan, Paths, Some
  <2>3. TypeOK'
    BY <2>2, OneVisit DEF TypeOK, chainVars, Some
  <2>4. Shape' /\ ClaimsMatchVisit'
    BY <2>1, <2>2 DEF Shape, ClaimsMatchVisit, chainVars, AtMostOne, Visiting, Some, None
  <2> QED
    BY <2>1, <2>2, <2>3, <2>4 DEF SentAsConfirmed, VerdictStands, RevertsOnlyAfterInterference
<1>2. CASE Banks(l)
  <2>1. CASE MarketOf[l] \notin Banked
    BY <1>2, <2>1, LeaveKeeps DEF Banks
  <2>2. CASE MarketOf[l] \in Banked
    <3>1. bundle' \in BOOLEAN
      BY <1>2, <2>2, ShapeAssumption DEF Banks
    <3> QED
      BY <1>2, <2>2, <3>1, AdvanceKeeps DEF Banks, Shape, TypeOK, Visiting, Some, None
  <2> QED
    BY <2>1, <2>2
<1>3. CASE Check(l)
  <2>1. CASE pc' = "pick" /\ UNCHANGED <<path, bundle, inflight, cur, plan, recorded, wire, touched>>
    BY <1>3, <2>1, AdvanceKeeps DEF Check, Shape, TypeOK, Visiting, Some, None
  <2>2. CASE Leave(l, "false")
    BY <1>3, <2>2, LeaveKeeps DEF Check
  <2> QED
    BY <1>3, <2>1, <2>2 DEF Check
<1>4. CASE Pick(l)
  <2> DEFINE amount == pick_repay_amount(snap[l], ata)
  <2>1. amount \subseteq Atoms /\ AtMostOne(amount)
    BY PickedAmount DEF TypeOK, Shape
  <2>2. CASE Leave(l, "false")
    BY <1>4, <2>2, LeaveKeeps DEF Pick
  <2>3. CASE /\ plan' = amount /\ pc' = "confirm"
             /\ UNCHANGED <<path, bundle, inflight, cur, recorded, wire, touched>>
    BY <1>4, <2>1, <2>3, AdvanceKeeps DEF Pick, Shape, TypeOK, Visiting, Some, None
  <2> QED
    BY <1>4, <2>2, <2>3 DEF Pick
<1>5. CASE Confirm(l)
  <2>1. CASE Leave(l, "false")
    BY <1>5, <2>1, LeaveKeeps DEF Confirm
  <2>2. CASE /\ \E r \in plan : Executes(l, path, bundle, r) /\ pc' = "submit"
             /\ UNCHANGED <<path, bundle, inflight, cur, plan, recorded, wire, touched>>
    <3>1. /\ pc = "confirm" /\ cur = {l}
          /\ UNCHANGED <<todoMarkets, todoLoans, snap, matured, chainVars, moves>>
      BY <1>5 DEF Confirm, Some
    <3>2. TypeOK'
      BY <2>2, <3>1 DEF TypeOK, chainVars
    <3>3. Shape' /\ ClaimsMatchVisit'
      BY <2>2, <3>1 DEF Shape, ClaimsMatchVisit, chainVars, AtMostOne, Visiting
    <3>4. \A r \in plan : Executes(l, path, bundle, r)
      BY <2>2 DEF Shape, AtMostOne
    <3>5. \A r : Executes(l, path, bundle, r)' = Executes(l, path, bundle, r)
      BY <2>2, <3>1 DEF Executes, Eligible, Priced, chainVars
    <3>6. VerdictStands'
      BY <2>2, <3>1, <3>4, <3>5 DEF VerdictStands
    <3>7. SentAsConfirmed' /\ RevertsOnlyAfterInterference'
      BY <2>2, <3>1 DEF SentAsConfirmed, RevertsOnlyAfterInterference, Shape
    <3> QED
      BY <3>2, <3>3, <3>6, <3>7
  <2> QED
    BY <1>5, <2>1, <2>2 DEF Confirm
<1>6. CASE Submit(l)
  <2>1. PICK k \in 1 .. Copies, r \in plan :
            wire' = wire \cup { [loan |-> l, path |-> path, bundle |-> bundle, amount |-> r,
                                   copy |-> i, mine |-> TRUE] : i \in 1 .. k }
    BY <1>6 DEF Submit
  <2>2. /\ pc = "submit" /\ cur = {l} /\ pc' = "await"
        /\ UNCHANGED <<todoMarkets, todoLoans, snap, matured, cur, path, bundle, plan, inflight,
                       chainVars, recorded, moves, touched>>
    BY <1>6 DEF Submit, Some, chainVars
  <2>3. r \in Atoms /\ path \in Paths /\ bundle \in BOOLEAN /\ wire \subseteq Txs
    BY DEF TypeOK
  <2>4. \A i \in 1 .. k : [loan |-> l, path |-> path, bundle |-> bundle, amount |-> r,
                           copy |-> i, mine |-> TRUE] \in Txs
    BY <2>3, ShapeAssumption DEF Txs
  <2>5. wire' \subseteq Txs
    BY <2>1, <2>3, <2>4
  <2>6. TypeOK'
    BY <2>2, <2>5 DEF TypeOK, chainVars
  <2>7. Shape' /\ ClaimsMatchVisit'
    BY <2>2 DEF Shape, ClaimsMatchVisit, chainVars, AtMostOne, Visiting
  <2>8. SentAsConfirmed'
    BY <2>1, <2>2 DEF SentAsConfirmed
  <2>9. \A x \in cur : \A q : Executes(x, path, bundle, q)' = Executes(x, path, bundle, q)
    BY <2>2 DEF Executes, Eligible, Priced, chainVars
  <2>10. VerdictStands' /\ RevertsOnlyAfterInterference'
    BY <2>2, <2>9 DEF VerdictStands, RevertsOnlyAfterInterference
  <2> QED
    BY <2>6, <2>7, <2>8, <2>10
<1>7. CASE Answered(l)
  BY <1>7, LeaveKeeps DEF Answered
<1> QED
  BY <1>1, <1>2, <1>3, <1>4, <1>5, <1>6, <1>7 DEF Visit

\* Every step keeps the invariant.
LEMMA NextIInv == IInv /\ [Next]_vars => IInv'
<1> SUFFICES ASSUME IInv, [Next]_vars PROVE IInv'
  OBVIOUS
<1>1. CASE Tick
  <2>1. CASE StartTick
    BY <2>1, ScanKeeps DEF StartTick, IInv, TypeOK
  <2>2. CASE EndTick
    BY <2>2, ScanKeeps DEF EndTick, IInv, TypeOK
  <2>3. CASE EndMarket
    BY <2>3, ScanKeeps, ShapeAssumption DEF EndMarket, IInv, TypeOK
  <2>4. ASSUME NEW m \in Markets, ScanMarket(m) PROVE IInv'
    BY <2>4, ScanKeeps DEF ScanMarket, LoansOf, IInv, TypeOK
  <2>5. ASSUME NEW l \in Loans, Visit(l) PROVE IInv'
    BY <2>5, VisitKeeps
  <2> QED
    BY <1>1, <2>1, <2>2, <2>3, <2>4, <2>5 DEF Tick
<1>2. CASE Faults
  <2>1. ASSUME NEW m \in Markets, ScanFails(m) PROVE IInv'
    BY <2>1, ScanKeeps DEF ScanFails, IInv, TypeOK
  <2>2. ASSUME NEW l \in Loans, GatewayFails(l) PROVE IInv'
    BY <2>2, AdvanceKeeps DEF GatewayFails, IInv, Shape, TypeOK, Visiting, Some, None
  <2>3. ASSUME NEW l \in Loans, RequestFails(l) \/ SendFails(l) PROVE IInv'
    BY <2>3, LeaveKeeps DEF RequestFails, SendFails
  <2> QED
    BY <1>2, <2>1, <2>2, <2>3 DEF Faults
<1>3. CASE Environment
  <2>1. ASSUME NEW tx \in wire, Land(tx) PROVE IInv'
    BY <2>1, LandKeeps
  <2>2. ASSUME NEW tx \in wire, Drop(tx) PROVE IInv'
    <3>1. wire' \subseteq wire
          /\ UNCHANGED <<handlerVars, body, active, phase, breached, fresh, ata, recorded, moves, touched>>
      BY <2>2 DEF Drop
    <3>2. TypeOK' /\ Shape' /\ ClaimsMatchVisit' /\ SentAsConfirmed' /\ RevertsOnlyAfterInterference'
      BY <3>1 DEF IInv, TypeOK, Shape, ClaimsMatchVisit, SentAsConfirmed,
                  RevertsOnlyAfterInterference, handlerVars, AtMostOne
    <3>3. VerdictStands'
      BY <3>1 DEF IInv, VerdictStands, Executes, Eligible, Priced, handlerVars
    <3> QED
      BY <3>2, <3>3 DEF IInv
  <2>3. ASSUME NEW l \in Loans, PriceMoves(l) PROVE IInv'
    BY <2>3, DisturbKeeps DEF PriceMoves, IInv, TypeOK, Shape
  <2>4. ASSUME NEW l \in Loans, OtherCloses(l) PROVE IInv'
    <3>1. [body[l] EXCEPT !.outstanding = 0] \in Loan
      BY U64MaxAssumption DEF IInv, TypeOK, Loan, Atoms
    <3>2. body' \in [Loans -> Loan] /\ active' \subseteq Loans
      BY <2>4, <3>1 DEF OtherCloses, IInv, TypeOK
    <3> QED
      BY <2>4, <3>2, DisturbKeeps DEF OtherCloses, IInv, TypeOK, Shape
  <2>5. ASSUME NEW l \in Loans, TimePasses(l) PROVE IInv'
    BY <2>5, TimeKeeps
  <2>6. ASSUME NEW m \in Markets, FeedGoesStale(m) PROVE IInv'
    BY <2>6, DisturbKeeps DEF FeedGoesStale, IInv, TypeOK, Shape
  <2>7. CASE AccountMoves
    <3>1. ata' \subseteq Atoms /\ AtMostOne(ata')
      BY <2>7, ShapeAssumption DEF AccountMoves, Some, AtMostOne
    <3> QED
      BY <2>7, <3>1, DisturbKeeps DEF AccountMoves, IInv, TypeOK
  <2> QED
    BY <1>3, <2>1, <2>2, <2>3, <2>4, <2>5, <2>6, <2>7 DEF Environment
<1>4. CASE UNCHANGED vars
  <2>1. UNCHANGED handlerVars /\ UNCHANGED chainVars /\ UNCHANGED <<wire, recorded, moves, touched>>
    BY <1>4 DEF vars
  <2>2. TypeOK' /\ Shape' /\ ClaimsMatchVisit' /\ SentAsConfirmed' /\ RevertsOnlyAfterInterference'
    BY <2>1 DEF IInv, TypeOK, Shape, ClaimsMatchVisit, SentAsConfirmed,
                RevertsOnlyAfterInterference, handlerVars, chainVars, AtMostOne
  <2>3. VerdictStands'
    BY <2>1 DEF IInv, VerdictStands, Executes, Eligible, Priced, handlerVars, chainVars
  <2> QED
    BY <2>2, <2>3 DEF IInv
<1> QED
  BY <1>1, <1>2, <1>3, <1>4 DEF Next

THEOREM Invariance == Spec => []IInv
  BY InitIInv, NextIInv, PTL DEF Spec

\* The types of the handler and of the chain it works on; no landed copy takes
\* more than the debt or than the account holds, however many copies land late.
THEOREM TypeCorrect == Spec => []TypeOK
<1>1. IInv => TypeOK
  BY DEF IInv
<1> QED
  BY <1>1, Invariance, PTL

\* A claim is held exactly while its loan is visited, through every error path.
THEOREM ClaimsAreReleased == Spec => []ClaimsMatchVisit
<1>1. IInv => ClaimsMatchVisit
  BY DEF IInv
<1> QED
  BY <1>1, Invariance, PTL

\* The first recorded copy of a submission reverts only if the chain moved after
\* the confirming simulation.
THEOREM RevertsNeedInterference == Spec => []RevertsOnlyAfterInterference
<1>1. IInv => RevertsOnlyAfterInterference
  BY DEF IInv
<1> QED
  BY <1>1, Invariance, PTL
-----------------------------------------------------------------------------
(* The promise of Keeper. *)

\* What a step does to the stage of every loan, when the claim stays with cur.
LEMMA StageOf ==
  ASSUME IInv, NEW l \in Loans
  PROVE  Stage(l) = IF l \notin cur THEN "free" ELSE IF pc = "submit" THEN "cleared"
                    ELSE IF pc = "await" THEN "sent" ELSE "held"
  BY DEF IInv, ClaimsMatchVisit, Stage

\* Every step of the handler and of the chain is a step of Keeper or a stutter.
LEMMA StepImplementsKeeper == IInv /\ IInv' /\ [Next]_vars => [Gate!Next]_(Gate!vars)
<1> SUFFICES ASSUME IInv, IInv', [Next]_vars PROVE Gate!Next
  BY DEF Gate!vars
<1> DEFINE st == [l \in Loans |-> Stage(l)]
<1>0. /\ st = [l \in Loans |-> IF l \notin cur THEN "free" ELSE IF pc = "submit" THEN "cleared"
                                ELSE IF pc = "await" THEN "sent" ELSE "held"]
      /\ st' = [l \in Loans |-> IF l \notin cur' THEN "free" ELSE IF pc' = "submit" THEN "cleared"
                                 ELSE IF pc' = "await" THEN "sent" ELSE "held"]
  <2>1. \A l \in Loans : Stage(l)' = IF l \notin cur' THEN "free" ELSE IF pc' = "submit" THEN "cleared"
                                     ELSE IF pc' = "await" THEN "sent" ELSE "held"
    BY DEF IInv, ClaimsMatchVisit, Stage
  <2> QED
    BY <2>1, StageOf
<1>1. ASSUME cur' = cur,
             pc' = pc \/ (pc \notin {"submit", "await"} /\ pc' \notin {"submit", "await"})
      PROVE  Gate!Next
  <2>1. st' = st
    BY <1>0, <1>1
  <2> QED
    BY <2>1 DEF Gate!Next
<1>2. ASSUME NEW l \in Loans, VisitLoan(l) PROVE Gate!Next
  <2>1. cur = None /\ cur' = {l} /\ pc' = "banks"
    BY <1>2 DEF VisitLoan, IInv, Shape, ClaimsMatchVisit, Visiting, None, Some
  <2>2. st' = [st EXCEPT ![l] = "held"] /\ \A k \in Loans : st[k] = "free"
    BY <1>0, <2>1 DEF None
  <2> QED
    BY <2>2 DEF Gate!Next, Gate!Claim, Gate!Move
<1>3. ASSUME NEW l \in Loans, cur = Some(l), FinishVisit(l) PROVE Gate!Next
  <2>1. cur = {l} /\ cur' = {}
    BY <1>3 DEF FinishVisit, EndVisit, Some, None
  <2>2. st' = [st EXCEPT ![l] = "free"] /\ st[l] \in {"held", "cleared", "sent"}
    BY <1>0, <2>1
  <2> QED
    BY <2>2 DEF Gate!Next, Gate!Release, Gate!Move
<1>4. ASSUME NEW l \in Loans, NEW r, cur = Some(l), Leave(l, r), pc \notin {"submit", "await"} \/ r # "false"
      PROVE  Gate!Next
  <2>1. CASE FinishVisit(l)
    BY <1>3, <1>4, <2>1
  <2>2. CASE r = "false" /\ pc' = "banks" /\ cur' = cur
    BY <1>1, <1>4, <2>2
  <2> QED
    BY <1>4, <2>1, <2>2 DEF Leave
<1>5. ASSUME NEW l \in Loans, Confirm(l) PROVE Gate!Next
  <2>1. CASE Leave(l, "false")
    BY <1>4, <1>5, <2>1 DEF Confirm
  <2>2. CASE /\ \E r \in plan : Executes(l, path, bundle, r)
             /\ pc' = "submit" /\ cur' = cur
    <3>1. cur = {l} /\ pc = "confirm"
      BY <1>5 DEF Confirm, Some
    <3>2. st' = [st EXCEPT ![l] = "cleared"] /\ st[l] = "held" /\ l \in WouldExecute
      BY <1>0, <2>2, <3>1 DEF WouldExecute
    <3> QED
      BY <3>2 DEF Gate!Next, Gate!Clear, Gate!Move
  <2> QED
    BY <1>5, <2>1, <2>2 DEF Confirm
<1>6. ASSUME NEW l \in Loans, Submit(l) PROVE Gate!Next
  <2>1. cur = {l} /\ cur' = cur /\ pc = "submit" /\ pc' = "await"
    BY <1>6 DEF Submit, Some
  <2>2. st' = [st EXCEPT ![l] = "sent"] /\ st[l] = "cleared"
    BY <1>0, <2>1
  <2> QED
    BY <2>2 DEF Gate!Next, Gate!Send, Gate!Move
<1>7. CASE Tick
  <2>1. CASE StartTick \/ EndTick \/ EndMarket \/ \E m \in Markets : ScanMarket(m)
    BY <1>1, <2>1 DEF StartTick, EndTick, EndMarket, ScanMarket
  <2>2. ASSUME NEW l \in Loans, Banks(l) PROVE Gate!Next
    BY <1>1, <1>4, <2>2 DEF Banks
  <2>3. ASSUME NEW l \in Loans, Check(l) PROVE Gate!Next
    BY <1>1, <1>4, <2>3 DEF Check
  <2>4. ASSUME NEW l \in Loans, Pick(l) PROVE Gate!Next
    BY <1>1, <1>4, <2>4 DEF Pick
  <2>5. ASSUME NEW l \in Loans, Answered(l) PROVE Gate!Next
    BY <1>4, <2>5 DEF Answered
  <2> QED
    BY <1>2, <1>5, <1>6, <1>7, <2>1, <2>2, <2>3, <2>4, <2>5 DEF Tick, Visit
<1>8. CASE Faults
  <2>1. ASSUME NEW m \in Markets, ScanFails(m) PROVE Gate!Next
    BY <1>1, <2>1 DEF ScanFails
  <2>2. ASSUME NEW l \in Loans, GatewayFails(l) PROVE Gate!Next
    BY <1>1, <2>2 DEF GatewayFails
  <2>3. ASSUME NEW l \in Loans, RequestFails(l) \/ SendFails(l) PROVE Gate!Next
    BY <1>4, <2>3 DEF RequestFails, SendFails
  <2> QED
    BY <1>8, <2>1, <2>2, <2>3 DEF Faults
<1>9. CASE Environment
  <2>1. UNCHANGED handlerVars
    BY <1>9 DEF Environment, Land, Drop, PriceMoves, OtherCloses, TimePasses, FeedGoesStale, AccountMoves
  <2> QED
    BY <1>1, <2>1 DEF handlerVars
<1>10. CASE UNCHANGED vars
  BY <1>1, <1>10 DEF vars, handlerVars
<1> QED
  BY <1>7, <1>8, <1>9, <1>10 DEF Next

\* A loan is repaid under one claim at a time, at most once per claim and only
\* after the very bundle that is sent passed its simulation under that claim:
\* the handler refines the safety of Keeper.
THEOREM HandlerImplementsKeeper == Spec => Gate!Safety
<1>1. Init => Gate!Init
  <2> SUFFICES ASSUME Init PROVE [l \in Loans |-> Stage(l)] = [l \in Loans |-> "free"]
    BY DEF Gate!Init
  <2> QED
    BY DEF Init, Stage
<1>2. IInv /\ IInv' /\ [Next]_vars => [Gate!Next]_(Gate!vars)
  BY StepImplementsKeeper
<1> QED
  BY <1>1, <1>2, Invariance, PTL DEF Spec, Gate!Safety
-----------------------------------------------------------------------------
(***************************************************************************)
(* The safety half of MaturedLoansClose and of the promise that every      *)
(* visit ends: a tick moves on.  A visit goes through the liquidate path   *)
(* and then, at most once, through the settle path.                        *)
(***************************************************************************)
Within == [banks |-> 1, check |-> 2, pick |-> 3, confirm |-> 4, submit |-> 5, await |-> 6]

Place == IF pc \in Visiting THEN Within[pc] + (IF path = "liquidate" THEN 0 ELSE 6)
         ELSE IF pc = "loans" THEN 13 ELSE 14

Shrinks(T, S) == T \subseteq S /\ T # S

\* What the handler does during a tick, failures and the settle fallback
\* included, ends the tick, is done with a market, is done with a loan of this
\* market, or is a step forward of the visit: no loan is visited twice in a
\* sweep, and no path is entered again.
MovesOn == \/ pc' = "idle"
           \/ Shrinks(todoMarkets', todoMarkets)
           \/ todoMarkets' = todoMarkets /\ Shrinks(todoLoans', todoLoans)
           \/ UNCHANGED <<todoMarkets, todoLoans>> /\ Place' > Place

TicksMoveOn == [][pc # "idle" /\ handlerVars' # handlerVars => MovesOn]_vars

\* Leaving a path is a step forward.
LEMMA LeaveMovesOn ==
  ASSUME IInv, pc \in Visiting, NEW l \in Loans, NEW r, Leave(l, r), UNCHANGED <<todoMarkets, todoLoans>>
  PROVE  MovesOn
<1>1. Within[pc] \in 1 .. 6 /\ path \in Paths
  BY DEF Visiting, Within, IInv, TypeOK
<1>2. CASE path = "liquidate" /\ pc' = "banks" /\ path' = "settle"
  <2>1. Place = Within[pc] /\ Place' = 7
    BY <1>1, <1>2 DEF Place, Visiting, Within
  <2> QED
    BY <1>1, <2>1 DEF MovesOn
<1>3. CASE pc' = "loans"
  <2>1. Place' = 13 /\ Place <= 12 /\ Place \in Nat
    BY <1>1, <1>3 DEF Place, Visiting
  <2> QED
    BY <2>1 DEF MovesOn
<1> QED
  BY <1>2, <1>3 DEF Leave, FinishVisit, EndVisit

\* Going to a later place of the same path is a step forward.
LEMMA NextPlaceMovesOn ==
  ASSUME pc \in Visiting, pc' \in Visiting, path' = path, Within[pc'] > Within[pc],
         UNCHANGED <<todoMarkets, todoLoans>>
  PROVE  MovesOn
<1>1. Within[pc] \in Nat /\ Within[pc'] \in Nat
  BY DEF Visiting, Within
<1>2. /\ Place = Within[pc] + (IF path = "liquidate" THEN 0 ELSE 6)
      /\ Place' = Within[pc'] + (IF path = "liquidate" THEN 0 ELSE 6)
  BY DEF Place, Visiting, Within
<1> QED
  BY <1>1, <1>2 DEF MovesOn

\* Every step of a visit is a step forward.
LEMMA VisitMovesOn == ASSUME IInv, NEW l \in Loans, Visit(l) PROVE MovesOn
<1>1. CASE VisitLoan(l)
  <2>1. l \in todoLoans /\ todoLoans' = todoLoans \ {l} /\ todoMarkets' = todoMarkets
    BY <1>1 DEF VisitLoan
  <2> QED
    BY <2>1 DEF MovesOn, Shrinks
<1>2. CASE Banks(l)
  BY <1>2, LeaveMovesOn, NextPlaceMovesOn DEF Banks, Visiting, Within
<1>3. CASE Check(l)
  BY <1>3, LeaveMovesOn, NextPlaceMovesOn DEF Check, Visiting, Within
<1>4. CASE Pick(l)
  BY <1>4, LeaveMovesOn, NextPlaceMovesOn DEF Pick, Visiting, Within
<1>5. CASE Confirm(l)
  BY <1>5, LeaveMovesOn, NextPlaceMovesOn DEF Confirm, Visiting, Within
<1>6. CASE Submit(l)
  BY <1>6, NextPlaceMovesOn DEF Submit, Visiting, Within
<1>7. CASE Answered(l)
  BY <1>7, LeaveMovesOn DEF Answered, Visiting
<1> QED
  BY <1>1, <1>2, <1>3, <1>4, <1>5, <1>6, <1>7 DEF Visit

\* For every set of markets and loans, and whatever requests fail, a sweep goes
\* through its markets and their loans once: with finitely many of them every
\* tick takes a bounded number of steps.
THEOREM EveryTickMovesOn == Spec => TicksMoveOn
<1>1. IInv /\ [Next]_vars => [pc # "idle" /\ handlerVars' # handlerVars => MovesOn]_vars
  <2> SUFFICES ASSUME IInv, Next, pc # "idle", handlerVars' # handlerVars PROVE MovesOn
    OBVIOUS
  <2>1. CASE Tick
    <3>1. CASE EndTick
      BY <3>1 DEF EndTick, MovesOn
    <3>2. CASE EndMarket
      <4>1. Place = 13 /\ Place' = 14 /\ UNCHANGED <<todoMarkets, todoLoans>>
        BY <3>2 DEF EndMarket, Place, Visiting
      <4> QED
        BY <4>1 DEF MovesOn
    <3>3. ASSUME NEW m \in Markets, ScanMarket(m) PROVE MovesOn
      BY <3>3 DEF ScanMarket, MovesOn, Shrinks
    <3>4. ASSUME NEW l \in Loans, Visit(l) PROVE MovesOn
      BY <3>4, VisitMovesOn
    <3> QED
      BY <2>1, <3>1, <3>2, <3>3, <3>4 DEF Tick, StartTick
  <2>2. CASE Faults
    <3>1. ASSUME NEW m \in Markets, ScanFails(m) PROVE MovesOn
      BY <3>1 DEF ScanFails, MovesOn, Shrinks
    <3>2. ASSUME NEW l \in Loans, GatewayFails(l) PROVE MovesOn
      BY <3>2, NextPlaceMovesOn DEF GatewayFails, Visiting, Within
    <3>3. ASSUME NEW l \in Loans, RequestFails(l) \/ SendFails(l) PROVE MovesOn
      BY <3>3, LeaveMovesOn DEF RequestFails, SendFails, Visiting
    <3> QED
      BY <2>2, <3>1, <3>2, <3>3 DEF Faults
  <2>3. CASE Environment
    BY <2>3 DEF Environment, Land, Drop, PriceMoves, OtherCloses, TimePasses, FeedGoesStale, AccountMoves
  <2> QED
    BY <2>1, <2>2, <2>3 DEF Next
<1> QED
  BY <1>1, Invariance, PTL DEF Spec, TicksMoveOn

-----------------------------------------------------------------------------
(* The repay arithmetic. *)

\* Staging never asks for less than the debt, nor for more than a u64 holds.
LEMMA StagedBounds ==
  ASSUME NEW o \in Atoms
  PROVE  /\ p2pool_full_repay_staged_atoms(o) \in Atoms
         /\ p2pool_full_repay_staged_atoms(o) >= o
         /\ o < FLOOR => p2pool_full_repay_staged_atoms(o) >= o + 1
         /\ o <= 1 => p2pool_full_repay_staged_atoms(o) < FLOOR
<1>1. o \div 50 \in Nat /\ (o <= 1 => o \div 50 = 0)
  BY DEF Atoms
<1> QED
  BY <1>1, U64MaxAssumption
  DEF Atoms, p2pool_full_repay_staged_atoms, saturating_add, min, FLOOR

\* The partial floor is at least FLOOR, and a loan above FLOOR is above its
\* own partial floor.
LEMMA FloorBounds ==
  ASSUME NEW o \in Nat
  PROVE  /\ min_partial_repay_atoms(o) \in Nat
         /\ min_partial_repay_atoms(o) >= FLOOR
         /\ o > FLOOR => min_partial_repay_atoms(o) < o
  BY DEF min_partial_repay_atoms, max, FLOOR

\* The estimate and the balance it takes to close the loan are amounts.
LEMMA EstimateBounds ==
  ASSUME NEW l \in Loan
  PROVE  /\ outstanding_est(l) \in Atoms
         /\ full_required(l) \in Atoms
         /\ full_required(l) >= outstanding_est(l)
         /\ ~l.p2pool => full_required(l) = outstanding_est(l)
         /\ outstanding_est(l) <= 1 => full_required(l) < FLOOR
<1>1. outstanding_est(l) \in Atoms
  BY DEF outstanding_est, Loan, max
<1> QED
  BY <1>1, StagedBounds DEF full_required, Atoms, FLOOR

\* What pick_repay_amount answers for a balance b, case by case.
LEMMA PickCases ==
  ASSUME NEW l \in Loan, NEW b \in Atoms
  PROVE  /\ b >= full_required(l) => pick_repay_amount(l, {b}) = {0}
         /\ (b < full_required(l) /\ b < min_partial_repay_atoms(outstanding_est(l)))
               => pick_repay_amount(l, {b}) = {}
         /\ (b < full_required(l) /\ b >= min_partial_repay_atoms(outstanding_est(l)))
               => \E r \in Nat : /\ pick_repay_amount(l, {b}) = {r}
                                 /\ r = IF b < outstanding_est(l) THEN b ELSE outstanding_est(l) - 1
                                 /\ r >= 1
<1> DEFINE est == outstanding_est(l)
           e(x) == IF x >= full_required(l) THEN Some(REPAY_FULL)
                   ELSE IF x < min_partial_repay_atoms(est) THEN None
                   ELSE Some(min(x, saturating_sub(est, 1)))
<1>1. pick_repay_amount(l, {b}) = e(b)
  <2>1. pick_repay_amount(l, {b}) = UNION {e(x) : x \in {b}}
    BY DEF pick_repay_amount
  <2>2. {e(x) : x \in {b}} = {e(b)}
    OBVIOUS
  <2> QED
    BY <2>1, <2>2
<1>2. est \in Nat /\ full_required(l) \in Nat /\ b \in Nat
      /\ min_partial_repay_atoms(est) \in Nat /\ min_partial_repay_atoms(est) >= FLOOR
      /\ (est <= 1 => full_required(l) < FLOOR)
  BY EstimateBounds, FloorBounds, U64MaxAssumption DEF Atoms
<1>3. (b < full_required(l) /\ b >= min_partial_repay_atoms(est)) => est > 1 /\ b >= 1
  BY <1>2 DEF FLOOR
<1> HIDE DEF est
<1> QED
  BY <1>1, <1>2, <1>3 DEF Some, None, REPAY_FULL, min, saturating_sub, est

-----------------------------------------------------------------------------
(* The rounds of RepayPlan. *)

\* The inductive invariant: what a round offers is what pick_repay_amount
\* answers for the body and the account it read, and no round goes on without an
\* offer.
RepayIInv == /\ RepayTypeOK
             /\ offer = pick_repay_amount(seen, read)
             /\ round \in {"confirm", "send"} => offer # None
             /\ read = None \/ \E b \in Atoms : read = {b}
             /\ account = None \/ \E b \in Atoms : account = {b}

\* Nothing is offered for a missing account.
LEMMA PickOfMissing == ASSUME NEW l PROVE pick_repay_amount(l, None) = None
  BY DEF pick_repay_amount, None

\* An offer is an amount.
LEMMA PickIsAtoms ==
  ASSUME NEW l \in Loan, NEW a, a = None \/ \E b \in Atoms : a = {b}
  PROVE  pick_repay_amount(l, a) \in SUBSET Atoms
<1>1. CASE a = None
  BY <1>1, PickOfMissing DEF None
<1>2. ASSUME NEW b \in Atoms, a = {b} PROVE pick_repay_amount(l, a) \in SUBSET Atoms
  <2>1. outstanding_est(l) \in Atoms /\ full_required(l) \in Atoms
        /\ min_partial_repay_atoms(outstanding_est(l)) \in Nat
    BY EstimateBounds, FloorBounds DEF Atoms
  <2> QED
    BY <1>2, <2>1, PickCases, U64MaxAssumption DEF Atoms
<1> QED
  BY <1>1, <1>2

\* A full close is staged, a partial is below the estimate and funded, and it
\* clears the floor of a Fixed loan or a large one: the answers of
\* pick_repay_amount are what the properties say.
LEMMA PickIsSound == RepayIInv => /\ FullOnlyWhenStaged
                             /\ PartialStaysPartial
                             /\ LargeClearsFloor
                             /\ PicksLargestFundable
<1> SUFFICES ASSUME RepayIInv
             PROVE  FullOnlyWhenStaged /\ PartialStaysPartial /\ LargeClearsFloor /\ PicksLargestFundable
  OBVIOUS
<1>1. CASE read = None
  <2>1. offer = {} /\ read = {}
    BY <1>1, PickOfMissing DEF RepayIInv, None
  <2> QED
    BY <2>1 DEF FullOnlyWhenStaged, PartialStaysPartial, LargeClearsFloor, ClearsFloor, PicksLargestFundable
<1>2. ASSUME NEW b \in Atoms, read = {b}
      PROVE  FullOnlyWhenStaged /\ PartialStaysPartial /\ LargeClearsFloor /\ PicksLargestFundable
  <2> DEFINE est == outstanding_est(seen)
             full == full_required(seen)
             floor == min_partial_repay_atoms(est)
  <2>1. seen \in Loan /\ offer = pick_repay_amount(seen, {b})
    BY <1>2 DEF RepayIInv, RepayTypeOK
  <2>2. /\ est \in Nat /\ full \in Nat /\ b \in Nat /\ floor \in Nat /\ floor >= 1
        /\ full >= est
        /\ ~seen.p2pool => full = est
        /\ est > FLOOR => floor < est
    BY <2>1, EstimateBounds, FloorBounds, U64MaxAssumption DEF Atoms, FLOOR
  <2>3. /\ b >= full => offer = {0}
        /\ (b < full /\ b < floor) => offer = {}
        /\ (b < full /\ b >= floor) =>
              \E r \in Nat : offer = {r} /\ r = (IF b < est THEN b ELSE est - 1) /\ r >= 1
    BY <2>1, PickCases
  <2> HIDE DEF est, full, floor
  <2>4. \A r \in offer : r = 0 => b >= full
    BY <2>2, <2>3
  <2>5. \A r \in offer : r # 0 => r < est /\ r <= b
    BY <2>2, <2>3
  <2>6. (~seen.p2pool \/ est > FLOOR) => \A r \in offer : r # 0 => r >= floor
    BY <2>2, <2>3 DEF FLOOR
  <2>7. FullOnlyWhenStaged /\ PartialStaysPartial /\ LargeClearsFloor
    BY <1>2, <2>4, <2>5, <2>6
    DEF FullOnlyWhenStaged, PartialStaysPartial, LargeClearsFloor, ClearsFloor, REPAY_FULL, est, full, floor
  <2>8. ASSUME ~seen.p2pool \/ est > FLOOR PROVE IsBest(seen, b, offer)
    <3> DEFINE F(r) == r >= floor /\ r < est /\ r <= b
    <3>1. \A r : Fundable(seen, b, r) <=> F(r)
      BY DEF Fundable, est, floor
    <3>2. IF b >= full THEN offer = {0}
          ELSE IF F(floor)
            THEN \E r \in offer : offer = {r} /\ F(r) /\ ~F(r + 1)
            ELSE offer = {}
      <4>1. CASE b >= full
        BY <2>3, <4>1
      <4>2. CASE b < full /\ b < floor
        BY <2>2, <2>3, <4>2
      <4>3. CASE b < full /\ b >= floor
        <5>1. PICK r \in Nat : offer = {r} /\ r = (IF b < est THEN b ELSE est - 1) /\ r >= 1
          BY <2>3, <4>3
        <5>2. est > floor
          BY <2>2, <2>8, <4>3 DEF FLOOR
        <5>3. F(floor) /\ F(r) /\ ~F(r + 1)
          BY <2>2, <4>3, <5>1, <5>2
        <5> QED
          BY <2>2, <4>3, <5>1, <5>3
      <4> QED
        BY <2>2, <4>1, <4>2, <4>3
    <3> HIDE DEF F
    <3> QED
      BY <3>1, <3>2 DEF IsBest, Some, None, REPAY_FULL, est, full, floor
  <2> QED
    BY <1>2, <2>7, <2>8 DEF PicksLargestFundable, est
<1> QED
  BY <1>1, <1>2 DEF RepayIInv

\* A behaviour starts with nothing read and nothing offered.
LEMMA InitRepayIInv == RepayInit => RepayIInv
<1> SUFFICES ASSUME RepayInit PROVE RepayIInv
  OBVIOUS
<1>1. RepayTypeOK
  BY LoansAssumption, BalancesAssumption, OperatorAssumption DEF RepayInit, RepayTypeOK, None, Some
<1>2. account = None \/ \E b \in Atoms : account = {b}
  BY BalancesAssumption DEF RepayInit, Some
<1> QED
  BY <1>1, <1>2, PickOfMissing DEF RepayInit, RepayIInv

\* Paying what the program takes leaves an amount in the loan and in the account.
LEMMA PaymentKeepsAtoms ==
  ASSUME NEW l \in Loan, NEW b \in Atoms, NEW r \in Atoms, ProgramAccepts(l, b, r)
  PROVE  /\ l.outstanding - Spent(l, r) \in Atoms
         /\ b - Spent(l, r) \in Atoms
<1>1. l.outstanding \in Atoms
  BY DEF Loan
<1>2. p2pool_full_repay_staged_atoms(l.outstanding) \in Atoms
      /\ p2pool_full_repay_staged_atoms(l.outstanding) >= l.outstanding
  BY <1>1, StagedBounds
<1> QED
  BY <1>1, <1>2, U64MaxAssumption DEF ProgramAccepts, Spent, Closes, Atoms

\* The counter of accruals and account moves keeps to its bound.
LEMMA InterfereCounts == ASSUME RepayTypeOK, Interfere PROVE disturbed' \in 0 .. MaxDisturbed
  BY OperatorAssumption DEF RepayTypeOK, Interfere

\* Every step keeps the inductive invariant.
LEMMA NextRepayIInv == RepayIInv /\ [RepayNext]_repayVars => RepayIInv'
<1> SUFFICES ASSUME RepayIInv, [RepayNext]_repayVars PROVE RepayIInv'
  OBVIOUS
<1> USE DEF RepayIInv, RepayTypeOK
<1>1. CASE PickAmount
  <2>1. offer' \in SUBSET Atoms
    BY <1>1, PickIsAtoms DEF PickAmount
  <2> QED
    BY <1>1, <2>1 DEF PickAmount
<1>2. CASE ConfirmAmount
  BY <1>2 DEF ConfirmAmount
<1>3. CASE Send
  <2>1. CASE UNCHANGED <<loan, account>>
    BY <1>3, <2>1 DEF Send
  <2>2. ASSUME NEW r \in offer, NEW b \in account, ProgramAccepts(loan, b, r),
               loan' = [loan EXCEPT !.outstanding = @ - Spent(loan, r)],
               account' = Some(b - Spent(loan, r))
        PROVE  RepayIInv'
    <3>1. loan.outstanding - Spent(loan, r) \in Atoms /\ b - Spent(loan, r) \in Atoms
      BY <2>2, PaymentKeepsAtoms
    <3>2. loan' \in Loan
      BY <2>2, <3>1 DEF Loan
    <3> QED
      BY <1>3, <2>2, <3>1, <3>2 DEF Send, Some
  <2> QED
    BY <1>3, <2>1, <2>2 DEF Send
<1>4. CASE Forget
  BY <1>4, PickOfMissing DEF Forget, None
<1>5. CASE Accrue
  <2>1. PICK d \in Accruals : /\ loan.outstanding + d <= DebtBound
                              /\ loan' = [loan EXCEPT !.outstanding = @ + d]
    BY <1>5 DEF Accrue
  <2>2. loan.outstanding + d \in Atoms
    BY <2>1, AccrualsAssumption, U64MaxAssumption DEF Loan, Atoms
  <2>3. loan' \in Loan
    BY <2>1, <2>2 DEF Loan
  <2>4. disturbed' \in 0 .. MaxDisturbed
    BY <1>5, InterfereCounts DEF Accrue
  <2> QED
    BY <1>5, <2>3, <2>4 DEF Accrue
<1>6. CASE Move
  <2>1. disturbed' \in 0 .. MaxDisturbed
    BY <1>6, InterfereCounts DEF Move
  <2> QED
    BY <1>6, <2>1, BalancesAssumption DEF Move, Some
<1>7. CASE TopUp
  BY <1>7, OperatorAssumption DEF TopUp, Some
<1>8. CASE UNCHANGED repayVars
  BY <1>8 DEF repayVars
<1> QED
  BY <1>1, <1>2, <1>3, <1>4, <1>5, <1>6, <1>7, <1>8 DEF RepayNext, Round

\* What a round offers is always the answer of pick_repay_amount for what the
\* round has read.
THEOREM RepayInvariance == RepaySpec => []RepayIInv
  BY InitRepayIInv, NextRepayIInv, PTL DEF RepaySpec

\* Amounts stay u64 amounts: no subtraction of a repay goes below zero.
THEOREM RepayTypeCorrect == RepaySpec => []RepayTypeOK
  BY RepayInvariance, PTL DEF RepayIInv

\* The sentinel 0 is only sent by an account that can stage the full close.
THEOREM SentinelIsDeliberate == RepaySpec => []FullOnlyWhenStaged
  BY RepayInvariance, PickIsSound, PTL

\* A partial repay stays on the program's partial path and is funded.
THEOREM PartialsArePartial == RepaySpec => []PartialStaysPartial
  BY RepayInvariance, PickIsSound, PTL

\* Partials of Fixed loans, and of loans above the floor, clear the floor.
THEOREM PartialsClearFloor == RepaySpec => []LargeClearsFloor
  BY RepayInvariance, PickIsSound, PTL

\* For those loans the offer is the largest the account can fund.
THEOREM OffersAreLargest == RepaySpec => []PicksLargestFundable
  BY RepayInvariance, PickIsSound, PTL
-----------------------------------------------------------------------------
(* Why an underfunded account works a loan off. *)

\* An account that reaches the floor of a Fixed loan is offered an amount that the
\* program takes, also from an account that was topped up meanwhile: the whole
\* debt, or at least FLOOR atoms of it.
LEMMA FixedOfferIsTaken ==
  ASSUME NEW l \in Loan, ~l.p2pool, NEW b \in Atoms,
         b >= min_partial_repay_atoms(l.outstanding) \/ pick_repay_amount(l, {b}) # None
  PROVE  \E r \in Atoms :
           /\ pick_repay_amount(l, {b}) = {r}
           /\ \A c \in Atoms : c >= b => ProgramAccepts(l, c, r)
           /\ Spent(l, r) = l.outstanding \/ (Spent(l, r) >= FLOOR /\ Spent(l, r) < l.outstanding)
<1> DEFINE o == l.outstanding
           floor == min_partial_repay_atoms(o)
<1>1. /\ outstanding_est(l) = o /\ full_required(l) = o
      /\ o \in Nat /\ b \in Nat /\ U64Max \in Nat /\ o <= U64Max /\ b <= U64Max
      /\ \A c \in Atoms : c \in Nat
  BY U64MaxAssumption DEF outstanding_est, full_required, Loan, Atoms
<1>2. floor \in Nat /\ floor >= FLOOR
  BY <1>1, FloorBounds
<1>3. /\ b >= o => pick_repay_amount(l, {b}) = {0}
      /\ (b < o /\ b < floor) => pick_repay_amount(l, {b}) = {}
      /\ (b < o /\ b >= floor) => pick_repay_amount(l, {b}) = {b}
  BY <1>1, <1>2, PickCases
<1> HIDE DEF floor
<1>4. CASE b >= o
  <2>1. \A c \in Atoms : c >= b => ProgramAccepts(l, c, 0)
    BY <1>1, <1>4 DEF ProgramAccepts, Closes, REPAY_FULL
  <2>2. Spent(l, 0) = o
    BY DEF Spent, Closes, REPAY_FULL
  <2> QED
    BY <1>1, <1>3, <1>4, <2>1, <2>2 DEF Atoms
<1>5. CASE b < o
  <2>1. b >= floor /\ pick_repay_amount(l, {b}) = {b}
    BY <1>1, <1>2, <1>3, <1>5 DEF None, floor
  <2>2. ~Closes(l, b)
    BY <1>1, <1>2, <1>5, <2>1 DEF Closes, REPAY_FULL, FLOOR
  <2>3. \A c \in Atoms : c >= b => ProgramAccepts(l, c, b)
    BY <1>1, <2>1, <2>2 DEF ProgramAccepts, floor
  <2>4. Spent(l, b) = b /\ b >= FLOOR /\ b < o
    BY <1>1, <1>2, <1>5, <2>1, <2>2 DEF Spent, FLOOR
  <2> QED
    BY <2>1, <2>3, <2>4
<1> QED
  BY <1>1, <1>4, <1>5

\* A smaller debt has no higher floor: an account that reached the floor once, and is
\* kept at its level, reaches it until the loan is closed.
LEMMA FloorIsMonotone ==
  ASSUME NEW o \in Nat, NEW p \in Nat, p <= o
  PROVE  min_partial_repay_atoms(p) <= min_partial_repay_atoms(o)
<1>1. p \div 100 <= o \div 100 /\ p \div 100 \in Nat /\ o \div 100 \in Nat
  OBVIOUS
<1> QED
  BY <1>1 DEF min_partial_repay_atoms, max, FLOOR

\* The body is the one the round read, and the account has lost nothing since.
Undisturbed == seen = loan /\ \A b \in read : \E c \in account : c >= b

\* The account reaches the partial floor of the loan.
ReachesFloor == \E b \in account : b >= min_partial_repay_atoms(loan.outstanding)

\* The step argument behind "an underfunded ATA never deadlocks a large loan"
\* (README): with an account that reaches the floor a round of a Fixed loan makes
\* an offer; nobody disturbing it, the simulation confirms the offer and the
\* transaction takes the whole debt or at least FLOOR atoms; and no step but an
\* accrual asks more of the account in the next round.
FundedRoundsPay ==
  [][~loan.p2pool =>
       /\ PickAmount /\ ReachesFloor => round' = "confirm"
       /\ ConfirmAmount /\ Undisturbed => round' = "send"
       /\ Send /\ Undisturbed =>
            loan'.outstanding = 0 \/ loan'.outstanding + FLOOR <= loan.outstanding
       /\ ~Accrue => min_partial_repay_atoms(loan'.outstanding) <= min_partial_repay_atoms(loan.outstanding)
    ]_repayVars

\* Every funded round of a Fixed loan pays, for every debt, balance and accrual;
\* UnderfundedNeverDeadlocks adds that rounds keep coming.
THEOREM EveryFundedRoundPays == RepaySpec => FundedRoundsPay
<1> DEFINE Paying ==
      ~loan.p2pool =>
        /\ PickAmount /\ ReachesFloor => round' = "confirm"
        /\ ConfirmAmount /\ Undisturbed => round' = "send"
        /\ Send /\ Undisturbed =>
             loan'.outstanding = 0 \/ loan'.outstanding + FLOOR <= loan.outstanding
        /\ ~Accrue => min_partial_repay_atoms(loan'.outstanding) <= min_partial_repay_atoms(loan.outstanding)
<1>1. RepayIInv /\ RepayIInv' /\ [RepayNext]_repayVars => [Paying]_repayVars
  <2> SUFFICES ASSUME RepayIInv, RepayIInv', [RepayNext]_repayVars, ~loan.p2pool PROVE Paying
    OBVIOUS
  <2>1. /\ loan \in Loan /\ loan' \in Loan /\ seen \in Loan
        /\ loan.outstanding \in Nat /\ loan'.outstanding \in Nat
        /\ account \subseteq Atoms /\ read \subseteq Atoms
    BY U64MaxAssumption DEF RepayIInv, RepayTypeOK, Loan, Atoms
  <2>2. ASSUME PickAmount, NEW b \in account, b >= min_partial_repay_atoms(loan.outstanding)
        PROVE  round' = "confirm"
    <3>1. account = {b} /\ b \in Atoms
      BY <2>1, <2>2 DEF RepayIInv, None
    <3>2. pick_repay_amount(loan, account) # None
      BY <2>1, <2>2, <3>1, FixedOfferIsTaken DEF None
    <3> QED
      BY <2>2, <3>2 DEF PickAmount
  <2>3. ASSUME round \in {"confirm", "send"}, Undisturbed
        PROVE  /\ Accepted
               /\ \A r \in offer : Spent(loan, r) = loan.outstanding
                                  \/ (Spent(loan, r) >= FLOOR /\ Spent(loan, r) < loan.outstanding)
    <3>1. PICK b \in Atoms : read = {b}
      BY <2>3, PickOfMissing DEF RepayIInv
    <3>2. offer = pick_repay_amount(loan, {b}) /\ offer # None
      BY <2>3, <3>1 DEF RepayIInv, Undisturbed
    <3>3. PICK r \in Atoms : /\ offer = {r}
                             /\ \A c \in Atoms : c >= b => ProgramAccepts(loan, c, r)
                             /\ Spent(loan, r) = loan.outstanding
                                \/ (Spent(loan, r) >= FLOOR /\ Spent(loan, r) < loan.outstanding)
      BY <2>1, <3>2, FixedOfferIsTaken
    <3>4. PICK c \in account : c >= b
      BY <2>3, <3>1 DEF Undisturbed
    <3>5. Accepted
      BY <2>1, <3>3, <3>4 DEF Accepted
    <3> QED
      BY <3>3, <3>5
  <2>4. ASSUME ConfirmAmount, Undisturbed PROVE round' = "send"
    BY <2>3, <2>4 DEF ConfirmAmount
  <2>5. ASSUME Send, Undisturbed
        PROVE  loan'.outstanding = 0 \/ loan'.outstanding + FLOOR <= loan.outstanding
    <3>1. PICK r \in offer : loan' = [loan EXCEPT !.outstanding = @ - Spent(loan, r)]
      BY <2>3, <2>5 DEF Send
    <3>2. loan'.outstanding = loan.outstanding - Spent(loan, r)
      BY <2>1, <3>1 DEF Loan
    <3>3. Spent(loan, r) = loan.outstanding \/ (Spent(loan, r) >= FLOOR /\ Spent(loan, r) < loan.outstanding)
      BY <2>3, <2>5 DEF Send
    <3>4. Spent(loan, r) \in Nat
      BY <2>1 DEF Spent, RepayIInv, RepayTypeOK, Atoms
    <3> QED
      BY <2>1, <3>2, <3>3, <3>4 DEF FLOOR
  <2>6. ASSUME ~Accrue PROVE loan'.outstanding <= loan.outstanding
    <3>1. CASE Send
      <4>1. CASE UNCHANGED loan
        BY <2>1, <4>1
      <4>2. ASSUME NEW r \in offer, loan' = [loan EXCEPT !.outstanding = @ - Spent(loan, r)]
            PROVE  loan'.outstanding <= loan.outstanding
        <5>1. Spent(loan, r) \in Nat
          BY <2>1 DEF Spent, RepayIInv, RepayTypeOK, Atoms
        <5>2. loan'.outstanding = loan.outstanding - Spent(loan, r)
          BY <2>1, <4>2 DEF Loan
        <5> QED
          BY <2>1, <5>1, <5>2
      <4> QED
        BY <3>1, <4>1, <4>2 DEF Send
    <3>2. CASE ~Send
      BY <2>1, <2>6, <3>2 DEF RepayNext, Round, PickAmount, ConfirmAmount, Forget, Move, TopUp, repayVars
    <3> QED
      BY <3>1, <3>2
  <2> QED
    BY <2>1, <2>2, <2>4, <2>5, <2>6, FloorIsMonotone DEF ReachesFloor
<1> QED
  BY <1>1, RepayInvariance, PTL DEF RepaySpec, FundedRoundsPay
=============================================================================
