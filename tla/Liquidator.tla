----------------------------- MODULE Liquidator -----------------------------
(***************************************************************************)
(* LiquidatorHandler (src/handlers/liquidator.rs): tick after tick it      *)
(* scans the markets, and for every loan that looks matured or under water *)
(* runs a check simulation, picks a repay amount, simulates the real       *)
(* instruction and submits it.  One action per await of the handler, so    *)
(* prices, clocks, other keepers and its own late transactions move in     *)
(* between.  Submissions follow the Submission contract: a call may put    *)
(* several copies on the wire, and they may land after it has returned.    *)
(***************************************************************************)
EXTENDS RepayMath, FiniteSets

CONSTANTS
  Markets, Loans,
  MarketOf,        \* [Loans -> Markets]
  Bodies,          \* [Loans -> Loan]: the loan bodies at the start
  KeeperBps,       \* [Markets -> Nat]: liquidation_keeper_bps
  MinProfit,       \* min_liquidation_profit_atoms
  Paused,          \* markets whose is_paused flag is set
  Banked,          \* markets both of whose mints have a bank in the registry
  Switchboard,     \* markets whose collateral feed is Switchboard-pull
  HasCranker,      \* ctx.swb_cranker is Some
  Faulty,          \* markets and loans whose RPC requests may fail
  CheckCu, RealCu, \* [Loans -> [Paths -> Nat]]: compute of the check and of the
                   \* real instruction
  UpdateCu,        \* compute of the Switchboard update in front of them
  DefaultCu, V0Cu, \* default limit of an instruction, V0_COMPUTE_UNIT_LIMIT
  Balances,        \* balances the keeper's debt account may be moved to
  Copies,          \* transactions one submission may put on the wire
  MaxWire,         \* transactions on the wire at a time
  MaxMoves         \* price, oracle and balance moves explored

Paths == {"liquidate", "settle"}

ASSUME ShapeAssumption ==
  /\ MarketOf \in [Loans -> Markets] /\ Bodies \in [Loans -> Loan]
  /\ KeeperBps \in [Markets -> Nat] /\ MinProfit \in Nat
  /\ Paused \subseteq Markets /\ Banked \subseteq Markets /\ Switchboard \subseteq Markets
  /\ HasCranker \in BOOLEAN
  /\ Faulty \subseteq Markets \cup Loans
  /\ CheckCu \in [Loans -> [Paths -> Nat]] /\ RealCu \in [Loans -> [Paths -> Nat]]
  /\ UpdateCu \in Nat /\ DefaultCu \in Nat /\ V0Cu \in Nat /\ 2 * DefaultCu <= V0Cu
  /\ Balances \subseteq Atoms
  /\ Copies \in Nat \ {0} /\ MaxWire \in Nat /\ Copies <= MaxWire /\ MaxMoves \in Nat

VARIABLES
  \* the handler
  pc,
  todoMarkets,  \* markets of this tick not scanned yet
  todoLoans,    \* loans of the scanned market not visited yet
  snap,         \* loan bodies as list_loans_for_market returned them
  matured,      \* loans past maturity, grace and buffer at t_now
  cur,          \* the loan being visited: None, or Some loan
  path,         \* "liquidate" or "settle"
  bundle,       \* a Switchboard update is prepended
  plan,         \* repay_atoms_max
  inflight,     \* the claimed loans
  \* the chain
  body, active, \* loan bodies, and the ones in state Active
  phase,        \* per loan: 0 running, 1 past grace, 2 past the keeper's buffer
  breached,     \* loans whose LTV is over the limit
  fresh,        \* markets whose collateral feed is not stale
  ata,          \* the keeper's debt token account
  wire,         \* transactions broadcast and not recorded; mine: sent by the
                \* submission under way
  recorded,     \* what is recorded for the submission under way
  \* history
  moves,        \* environment moves so far
  touched       \* the chain changed since the confirming simulation

handlerVars == <<pc, todoMarkets, todoLoans, snap, matured, cur, path, bundle,
                 plan, inflight>>
chainVars   == <<body, active, phase, breached, fresh, ata>>
vars == <<handlerVars, chainVars, wire, recorded, moves, touched>>

LoansOf(m) == { l \in Loans : MarketOf[l] = m }

Txs == [loan : Loans, path : Paths, bundle : BOOLEAN,
        amount : Atoms, copy : 1 .. Copies, mine : BOOLEAN]

Init ==
  /\ pc = "idle" /\ todoMarkets = {} /\ todoLoans = {} /\ snap = Bodies /\ matured = {}
  /\ cur = None /\ path = "settle" /\ bundle = FALSE /\ plan = None
  /\ inflight = {}
  /\ body = Bodies /\ active = Loans /\ phase \in [Loans -> {0, 2}]
  /\ breached \in {{}, Loans} /\ fresh = Markets
  /\ ata \in { Some(b) : b \in Balances } /\ wire = {}
  /\ recorded = "none" /\ moves = 0 /\ touched = FALSE

-----------------------------------------------------------------------------
(* The program, from how the handler uses it. *)

\* Tag 34 / 35, and the gate inside tag 17 / 16: eligibility.  Reading a
\* collateral price needs a feed that is fresh or freshened by the bundle.
Priced(l, bnd)     == MarketOf[l] \in fresh \/ bnd
Eligible(l, pth)   == l \in active /\ IF pth = "liquidate" THEN l \in breached ELSE phase[l] >= 1

\* check_ltv reads prices, check_maturity does not.
CheckPasses(l, pth, bnd) == Eligible(l, pth) /\ (pth = "liquidate" => Priced(l, bnd))

\* The compute a bundle takes, and what each of its instructions brings when no
\* limit is asked for: the bare simulate_v0 asks for none, the send for V0Cu.
BundleCu(cu, bnd) == IF bnd THEN cu + UpdateCu ELSE cu
BareLimit(bnd)    == IF bnd THEN 2 * DefaultCu ELSE DefaultCu

\* The real instruction with this amount, under the limit of the send.
Executes(l, pth, bnd, r) ==
  /\ Eligible(l, pth) /\ Priced(l, bnd) /\ \E b \in ata : ProgramAccepts(body[l], b, r)
  /\ BundleCu(RealCu[l][pth], bnd) <= V0Cu

-----------------------------------------------------------------------------
(* Pure parts of the handler. *)

\* static_accrued_ratio_bps >= STATIC_LTV_PREFILTER_BPS: 1.05 x principal.
AccruedPastPrefilter(l) ==
  l.principal # 0 /\ l.outstanding * 10000 >= 10500 * l.principal

maybe_ltv_breach(l) == l.p2pool \/ AccruedPastPrefilter(l)

\* A market without a keeper share is measured by the whole debt.
expected_bonus(l) ==
  LET bps == KeeperBps[MarketOf[l]]
  IN  IF bps > 0 THEN (snap[l].outstanding * bps) \div 10000 ELSE snap[l].outstanding

-----------------------------------------------------------------------------
(* The handler. *)

\* The visit is over: log, next loan; its locals are gone.
EndVisit == /\ cur' = None /\ pc' = "loans"
            /\ path' = "settle" /\ bundle' = FALSE

FinishVisit(l) == EndVisit /\ inflight' = inflight \ {l}    \* release_inflight

\* mutant: an error skips release_inflight
LeaveLeaks(l, r) ==
  /\ IF path = "liquidate" /\ r = "false" /\ l \in matured
       THEN pc' = "banks" /\ path' = "settle" /\ UNCHANGED <<bundle, inflight, cur>>
       ELSE IF r = "err" THEN EndVisit /\ UNCHANGED inflight
       ELSE FinishVisit(l)
  /\ plan' = None /\ recorded' = "none" /\ touched' = FALSE
  /\ wire' = { [tx EXCEPT !.mine = FALSE] : tx \in wire }

\* mutant: a refused liquidation does not fall back to settle
LeaveNoFallback(l, r) ==
  /\ FinishVisit(l)
  /\ plan' = None /\ recorded' = "none" /\ touched' = FALSE
  /\ wire' = { [tx EXCEPT !.mine = FALSE] : tx \in wire }

\* mutant: the settle fallback goes out with the amount simulated for liquidate
LeaveToSubmit(l, r) ==
  /\ IF path = "liquidate" /\ r = "false" /\ l \in matured /\ plan # None
       THEN pc' = "submit" /\ path' = "settle" /\ UNCHANGED <<bundle, inflight, cur, plan>>
       ELSE IF path = "liquidate" /\ r = "false" /\ l \in matured
       THEN pc' = "banks" /\ path' = "settle" /\ plan' = None /\ UNCHANGED <<bundle, inflight, cur>>
       ELSE FinishVisit(l) /\ plan' = None
  /\ recorded' = "none" /\ touched' = FALSE
  /\ wire' = { [tx EXCEPT !.mine = FALSE] : tx \in wire }

\* One of the two paths returned.  Ok(false) of the liquidate path falls back
\* to settle when the loan is matured; Ok(true) and Err end the visit.
Leave(l, r) ==
  /\ IF path = "liquidate" /\ r = "false" /\ l \in matured
       THEN pc' = "banks" /\ path' = "settle" /\ UNCHANGED <<bundle, inflight, cur>>
       ELSE FinishVisit(l)
  /\ plan' = None /\ recorded' = "none" /\ touched' = FALSE
  /\ wire' = { [tx EXCEPT !.mine = FALSE] : tx \in wire }

\* tick: list_markets (a failure only ends the tick), paused markets dropped.
StartTick ==
  /\ pc = "idle"
  /\ todoMarkets' = Markets \ Paused
  /\ pc' = "markets"
  /\ UNCHANGED <<todoLoans, snap, matured, cur, path, bundle, plan, inflight,
                 chainVars, wire, recorded, moves, touched>>

EndTick ==
  /\ pc = "markets" /\ todoMarkets = {}
  /\ pc' = "idle"
  /\ UNCHANGED <<todoMarkets, todoLoans, snap, matured, cur, path, bundle, plan,
                 inflight, chainVars, wire, recorded, moves, touched>>

\* scan_market: list the loans, fix t_now, and keep the loans worth a visit in
\* the state they were listed in.
ScanMarket(m) ==
  /\ pc = "markets" /\ m \in todoMarkets
  /\ todoMarkets' = todoMarkets \ {m}
  /\ snap' = body
  /\ matured' = { l \in LoansOf(m) : phase[l] = 2 }
  /\ todoLoans' = { l \in LoansOf(m) \cap active :
                      body[l].outstanding # 0 /\ (l \in matured' \/ maybe_ltv_breach(body[l])) }
  /\ pc' = "loans"
  /\ UNCHANGED <<cur, path, bundle, plan, inflight, chainVars, wire, recorded, moves, touched>>

\* scan_market fails in its listing; tick goes on with the next market.
ScanFails(m) ==
  /\ pc = "markets" /\ m \in todoMarkets /\ m \in Faulty
  /\ todoMarkets' = todoMarkets \ {m}
  /\ UNCHANGED <<pc, todoLoans, snap, matured, cur, path, bundle, plan, inflight,
                 chainVars, wire, recorded, moves, touched>>

\* scan_market returns; its locals are gone.
EndMarket ==
  /\ pc = "loans" /\ todoLoans = {}
  /\ pc' = "markets"
  /\ snap' = Bodies /\ matured' = {}
  /\ UNCHANGED <<todoMarkets, todoLoans, cur, path, bundle, plan, inflight, chainVars, wire,
                 recorded, moves, touched>>

\* claim_inflight; a loan claimed already is passed over, else
\* try_settle_or_liquidate chooses the first path.
VisitLoan(l) ==
  /\ pc = "loans" /\ l \in todoLoans
  /\ todoLoans' = todoLoans \ {l}
  /\ inflight' = inflight \cup {l}
  /\ IF l \in inflight
       THEN UNCHANGED <<pc, cur, path>>
       ELSE /\ cur' = Some(l)
            /\ path' = IF maybe_ltv_breach(snap[l]) THEN "liquidate" ELSE "settle"
            /\ pc' = "banks"
  /\ UNCHANGED <<todoMarkets, snap, matured, bundle, plan, chainVars, wire, recorded, moves, touched>>

\* bank_pair, then fetch_swb_bundle: no feed to update, no cranker and a failing
\* gateway all give the empty bundle.
Banks(l) ==
  /\ pc = "banks" /\ cur = Some(l)
  /\ IF MarketOf[l] \notin Banked
       THEN Leave(l, "err")
       ELSE /\ pc' = "check"
            /\ bundle' = (MarketOf[l] \in Switchboard /\ HasCranker)
            /\ UNCHANGED <<path, inflight, cur, plan, recorded, wire, touched>>
  /\ UNCHANGED <<todoMarkets, todoLoans, snap, matured, chainVars, moves>>

GatewayFails(l) ==
  /\ pc = "banks" /\ cur = Some(l)
  /\ MarketOf[l] \in Banked \cap Switchboard /\ HasCranker /\ l \in Faulty
  /\ bundle' = FALSE
  /\ pc' = "check"
  /\ UNCHANGED <<todoMarkets, todoLoans, snap, matured, cur, path, plan, inflight,
                 chainVars, wire, recorded, moves, touched>>

\* The check simulation, under the default limit, and on the liquidate path the
\* profit threshold.
Check(l) ==
  /\ pc = "check" /\ cur = Some(l)
  /\ IF /\ CheckPasses(l, path, bundle)
        /\ BundleCu(CheckCu[l][path], bundle) <= BareLimit(bundle)
        /\ path = "liquidate" => expected_bonus(l) >= MinProfit
       THEN pc' = "pick" /\ UNCHANGED <<path, bundle, inflight, cur, plan, recorded, wire, touched>>
       ELSE Leave(l, "false")
  /\ UNCHANGED <<todoMarkets, todoLoans, snap, matured, chainVars, moves>>

\* pick_repay_amount: read the account, decide on the listed body.
Pick(l) ==
  /\ pc = "pick" /\ cur = Some(l)
  /\ LET amount == pick_repay_amount(snap[l], ata)
     IN  IF amount = None
           THEN Leave(l, "false")
           ELSE /\ plan' = amount /\ pc' = "confirm"
                /\ UNCHANGED <<path, bundle, inflight, cur, recorded, wire, touched>>
  /\ UNCHANGED <<todoMarkets, todoLoans, snap, matured, chainVars, moves>>

\* mutant: the check simulation is repeated instead of the real instruction
ConfirmRechecks(l) ==
  /\ pc = "confirm" /\ cur = Some(l)
  /\ IF CheckPasses(l, path, bundle)
       THEN pc' = "submit" /\ UNCHANGED <<path, bundle, inflight, cur, plan, recorded, wire, touched>>
       ELSE Leave(l, "false")
  /\ UNCHANGED <<todoMarkets, todoLoans, snap, matured, chainVars, moves>>

\* The confirming simulation of the real bundle, under the default limit.
Confirm(l) ==
  /\ pc = "confirm" /\ cur = Some(l)
  /\ IF /\ \E r \in plan : Executes(l, path, bundle, r)
        /\ BundleCu(RealCu[l][path], bundle) <= BareLimit(bundle)
       THEN pc' = "submit" /\ UNCHANGED <<path, bundle, inflight, cur, plan, recorded, wire, touched>>
       ELSE Leave(l, "false")
  /\ UNCHANGED <<todoMarkets, todoLoans, snap, matured, chainVars, moves>>

\* Any of these requests may fail, which is `?`: Err leaves the visit.
RequestFails(l) ==
  /\ pc \in {"check", "pick", "confirm"} /\ cur = Some(l)
  /\ l \in Faulty
  /\ Leave(l, "err")
  /\ UNCHANGED <<todoMarkets, todoLoans, snap, matured, chainVars, moves>>

\* send_signed_v0_labeled: one or more signed copies go out.
Submit(l) ==
  /\ pc = "submit" /\ cur = Some(l)
  /\ \E k \in 1 .. Copies, r \in plan :
     /\ Cardinality(wire) + k <= MaxWire
     /\ wire' = wire \cup { [loan |-> l, path |-> path, bundle |-> bundle, amount |-> r,
                               copy |-> i, mine |-> TRUE] : i \in 1 .. k }
  /\ pc' = "await"
  /\ UNCHANGED <<todoMarkets, todoLoans, snap, matured, cur, path, bundle, plan, inflight,
                 body, active, phase, breached, fresh, ata, recorded, moves, touched>>

\* Ok needs a recorded signature (a failed one will do); Err may come whatever
\* is on the wire.
Answered(l) ==
  /\ pc = "await" /\ cur = Some(l)
  /\ \/ recorded # "none" /\ Leave(l, "true")
     \/ recorded = "err" /\ Leave(l, "err")
     \/ recorded = "none" /\ ~(\E tx \in wire : tx.mine) /\ Leave(l, "err")
  /\ UNCHANGED <<todoMarkets, todoLoans, snap, matured, chainVars, moves>>

SendFails(l) ==
  /\ pc = "await" /\ cur = Some(l) /\ l \in Faulty
  /\ Leave(l, "err")
  /\ UNCHANGED <<todoMarkets, todoLoans, snap, matured, chainVars, moves>>

Visit(l) == VisitLoan(l) \/ Banks(l) \/ Check(l) \/ Pick(l) \/ Confirm(l)
            \/ Submit(l) \/ Answered(l)

Tick == \/ StartTick \/ EndTick \/ EndMarket
        \/ \E m \in Markets : ScanMarket(m)
        \/ \E l \in Loans : Visit(l)

Faults == \/ \E m \in Markets : ScanFails(m)
          \/ \E l \in Loans : GatewayFails(l) \/ RequestFails(l) \/ SendFails(l)

-----------------------------------------------------------------------------
(* The chain and everybody else. *)

Touch == touched' = (pc \in {"submit", "await"})

\* A transaction is executed, or recorded as failed.
Land(tx) ==
  /\ tx \in wire
  /\ wire' = wire \ {tx}
  /\ IF Executes(tx.loan, tx.path, tx.bundle, tx.amount)
       THEN LET paid == Spent(body[tx.loan], tx.amount)
            IN  /\ body' = [body EXCEPT ![tx.loan].outstanding = @ - paid]
                /\ active' = IF body'[tx.loan].outstanding = 0 THEN active \ {tx.loan} ELSE active
                /\ ata' = { b - paid : b \in ata }
                /\ fresh' = IF tx.bundle THEN fresh \cup {MarketOf[tx.loan]} ELSE fresh
                /\ Touch
                /\ recorded' = IF tx.mine /\ recorded = "none" THEN "ok" ELSE recorded
       ELSE /\ recorded' = IF tx.mine /\ recorded = "none" THEN "err" ELSE recorded
            /\ UNCHANGED <<body, active, ata, fresh, touched>>
  /\ UNCHANGED <<handlerVars, phase, breached, moves>>

Drop(tx) ==
  /\ tx \in wire
  /\ wire' = wire \ {tx}
  /\ UNCHANGED <<handlerVars, body, active, phase, breached, fresh, ata, recorded, moves, touched>>

Disturb == moves < MaxMoves /\ moves' = moves + 1 /\ Touch

PriceMoves(l) ==
  /\ Disturb
  /\ breached' = IF l \in breached THEN breached \ {l} ELSE breached \cup {l}
  /\ UNCHANGED <<handlerVars, body, active, phase, fresh, ata, wire, recorded>>

FeedGoesStale(m) ==
  /\ Disturb /\ m \in fresh \cap Switchboard
  /\ fresh' = fresh \ {m}
  /\ UNCHANGED <<handlerVars, body, active, phase, breached, ata, wire, recorded>>

AccountMoves ==
  /\ Disturb
  /\ ata' \in { Some(b) : b \in Balances } \ {ata}
  /\ UNCHANGED <<handlerVars, body, active, phase, breached, fresh, wire, recorded>>

\* Another keeper or the borrower closes the loan.
OtherCloses(l) ==
  /\ Disturb /\ l \in active
  /\ body' = [body EXCEPT ![l].outstanding = 0]
  /\ active' = active \ {l}
  /\ UNCHANGED <<handlerVars, phase, breached, fresh, ata, wire, recorded>>

TimePasses(l) ==
  /\ phase[l] < 2
  /\ phase' = [phase EXCEPT ![l] = @ + 1]
  /\ UNCHANGED <<handlerVars, body, active, breached, fresh, ata, wire, recorded, moves, touched>>

Environment == \/ \E tx \in wire : Land(tx) \/ Drop(tx)
               \/ \E l \in Loans : PriceMoves(l) \/ OtherCloses(l) \/ TimePasses(l)
               \/ \E m \in Markets : FeedGoesStale(m)
               \/ AccountMoves

Next == Tick \/ Faults \/ Environment

(***************************************************************************)
(* The supervisor ticks for ever, requests outside Faulty are answered,    *)
(* and a transaction sent again and again is not dropped every time.       *)
(***************************************************************************)
Fairness == /\ WF_vars(Tick)
            /\ \A l \in Loans : SF_vars(\E tx \in wire : tx.loan = l /\ Land(tx))

Spec == Init /\ [][Next]_vars /\ Fairness

-----------------------------------------------------------------------------
(* Properties. *)

\* The type invariant: one visit at a time, and no landed copy takes more than the
\* debt or than the keeper's account holds.
TypeOK ==
  /\ pc \in {"idle", "markets", "loans", "banks", "check", "pick", "confirm", "submit", "await"}
  /\ todoMarkets \subseteq Markets /\ todoLoans \subseteq Loans
  /\ snap \in [Loans -> Loan] /\ matured \subseteq Loans
  /\ cur \subseteq Loans /\ Cardinality(cur) <= 1
  /\ path \in Paths /\ bundle \in BOOLEAN
  /\ plan \subseteq Atoms /\ inflight \subseteq Loans
  /\ body \in [Loans -> Loan] /\ active \subseteq Loans
  /\ phase \in [Loans -> 0 .. 2] /\ breached \subseteq Loans /\ fresh \subseteq Markets
  /\ ata \subseteq Atoms /\ wire \subseteq Txs
  /\ recorded \in {"none", "ok", "err"} /\ moves \in 0 .. MaxMoves /\ touched \in BOOLEAN

\* A claim is held exactly while its loan is visited: every way out of a visit,
\* the `?` ones included, releases it, so no loan is passed over for ever.
ClaimsMatchVisit == inflight = cur

\* "skip rather than land a revert" (liquidator.rs 284-288, 416-419): the first
\* recorded copy of a submission fails only if something moved on chain after
\* the confirming simulation, whatever amount was picked.
RevertsOnlyAfterInterference == recorded = "err" => touched

Funded(l) == \E b \in ata : b >= full_required(body[l])

\* The two settle simulations of the loan fit the limit they run under.
SettleSimulates(l) ==
  LET bnd == MarketOf[l] \in Switchboard /\ HasCranker
  IN  \A cu \in {CheckCu[l]["settle"], RealCu[l]["settle"]} : BundleCu(cu, bnd) <= BareLimit(bnd)

Serviceable(l) == /\ l \notin Faulty /\ MarketOf[l] \notin Faulty \cup Paused
                  /\ MarketOf[l] \in Banked /\ SettleSimulates(l)

\* Isolation: a loan past its maturity that the keeper can fund and whose settle
\* bundle fits the limit of the bare simulations is closed in the end, whatever
\* keeps failing for other loans and other markets, whether it is under water or
\* not, also when its liquidate bundle is too heavy to be simulated, and even when
\* the first submissions are lost.
MaturedLoansClose ==
  \A l \in Loans : Serviceable(l) =>
     ([](phase[l] = 2 => Funded(l)) => (phase[l] = 2 ~> body[l].outstanding = 0))

\* How far the claim of a loan got, and the loans whose picked bundle the
\* program would execute now.
Stage(l) == CASE l \notin inflight -> "free"
              [] l \in inflight /\ pc = "submit" -> "cleared"
              [] l \in inflight /\ pc = "await" -> "sent"
              [] OTHER -> "held"

WouldExecute == { l \in cur : \E r \in plan : Executes(l, path, bundle, r) }

Gate == INSTANCE Keeper WITH Items <- Loans, stage <- [l \in Loans |-> Stage(l)],
                             able <- WouldExecute

\* A loan is repaid from one visit at a time, each with at most one submission, and
\* only after the bundle that is sent (this path, this amount, this prefix) passed
\* its own simulation in that visit, also when the first path was refused and the
\* visit fell back to settle; every visit comes to an end.
ImplementsKeeper == Gate!Spec
=============================================================================
