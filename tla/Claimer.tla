------------------------------- MODULE Claimer ------------------------------
(***************************************************************************)
(* ClaimerHandler (src/handlers/claimer.rs) with the two listings of       *)
(* ChainReader it starts from: sub-vaults with realised atoms, then the    *)
(* vault seats of every market, one market read after the other, and a     *)
(* claim, simulation and send per seat.  A market that cannot be read ends *)
(* the whole tick.  One action per await; the program is external.         *)
(***************************************************************************)
EXTENDS Naturals, FiniteSets

CONSTANTS
  Markets, Vaults,       \* Vaults: the (vault, sub_vault_id) pairs
  Seats,                 \* vault-owned seats, one per market and sub-vault
  MarketOf, VaultOf,     \* market and sub-vault of a seat
  Paused,                \* markets whose is_paused flag is set
  Banked,                \* markets whose debt mint has a bank in the registry
  Faulty,                \* markets and seats whose requests may fail
  ShareValue,            \* shares that make one atom
  Shares,                \* shares the seats start with
  RepayShares,           \* shares one repayment adds
  MaxShares,             \* most shares of a seat explored
  Copies, MaxWire,       \* transactions per submission, and on the wire
  MaxMoves               \* repayments, feed moves and other keepers' sweeps

ASSUME ClaimerAssumption ==
  /\ IsFiniteSet(Seats)
  /\ MarketOf \in [Seats -> Markets] /\ VaultOf \in [Seats -> Vaults]
  /\ ShareValue \in Nat \ {0} /\ RepayShares \in Nat /\ MaxShares \in Nat
  /\ Shares \in [Seats -> 0 .. MaxShares]
  /\ Copies \in Nat \ {0} /\ MaxWire \in Nat /\ Copies <= MaxWire /\ MaxMoves \in Nat

VARIABLES
  \* the handler
  pc,
  claimable,  \* sub-vaults with pending_claim_atoms > 0 when they were listed
  todo,       \* markets not read yet
  rows,       \* seats to sweep
  cur,        \* the seat being swept: {} or one seat
  inflight,   \* claimed seats
  \* the chain
  shares,     \* debt_withdrawable_shares of a seat
  pending,    \* pending_claim_atoms of a sub-vault
  fresh,      \* markets whose debt feed is not stale
  wire,       \* sweeps broadcast and not recorded
  recorded,   \* the submission under way has been recorded
  moves

handlerVars == <<pc, claimable, todo, rows, cur, inflight>>
chainVars   == <<shares, pending, fresh>>
vars == <<handlerVars, chainVars, wire, recorded, moves>>

SweepTxs == [seat : Seats, copy : 1 .. Copies, mine : BOOLEAN]

\* What a number of shares is worth, rounded down.
Worth(s) == s \div ShareValue

Init ==
  /\ pc = "idle" /\ claimable = {} /\ todo = {} /\ rows = {} /\ cur = {} /\ inflight = {}
  /\ shares = Shares
  /\ pending = [v \in Vaults |->
                  Cardinality({ atom \in Seats \X (1 .. MaxShares) :
                                  VaultOf[atom[1]] = v /\ atom[2] <= Worth(Shares[atom[1]]) })]
  /\ fresh \in SUBSET Markets /\ wire = {} /\ recorded = FALSE /\ moves = 0

\* ClaimRepaymentForSubVault: no shares is an error, and the marginfi withdrawal
\* needs a fresh price.
SweepExecutes(s) == shares[s] > 0 /\ MarketOf[s] \in fresh

-----------------------------------------------------------------------------
(* The handler. *)

\* The tick is over; its locals are gone.
EndTick == pc' = "idle" /\ claimable' = {} /\ todo' = {} /\ rows' = {}

\* mutant: the gate wants more than one atom
AtomGateHigh(v) == pending[v] > 1

\* The atom gate: something has been realised for this sub-vault.
AtomGate(v) == pending[v] > 0

\* list_sub_vaults; a failure, or no claimable sub-vault, is the end of the tick.
ListVaults ==
  /\ pc = "idle"
  /\ LET some == { v \in Vaults : AtomGate(v) }
     IN  IF some = {} THEN EndTick
         ELSE pc' = "markets" /\ claimable' = some /\ todo' = Markets \ Paused /\ UNCHANGED rows
  /\ UNCHANGED <<cur, inflight, chainVars, wire, recorded, moves>>

\* list_pending_vault_claims, one market: its vault seats that hold shares.
ReadMarket(m) ==
  /\ pc = "markets" /\ m \in todo
  /\ todo' = todo \ {m}
  /\ rows' = rows \cup { s \in Seats : MarketOf[s] = m /\ shares[s] > 0 }
  /\ UNCHANGED <<pc, claimable, cur, inflight, chainVars, wire, recorded, moves>>

\* The read fails: `?` leaves the listing and the tick.
ReadFails(m) ==
  /\ pc = "markets" /\ m \in todo /\ m \in Faulty
  /\ EndTick
  /\ UNCHANGED <<cur, inflight, chainVars, wire, recorded, moves>>

\* Every market is read: keep the seats of claimable sub-vaults.
Filter ==
  /\ pc = "markets" /\ todo = {}
  /\ rows' = { s \in rows : VaultOf[s] \in claimable }
  /\ pc' = "entries"
  /\ UNCHANGED <<claimable, todo, cur, inflight, chainVars, wire, recorded, moves>>

Done ==
  /\ pc = "entries" /\ rows = {}
  /\ EndTick
  /\ UNCHANGED <<cur, inflight, chainVars, wire, recorded, moves>>

\* sweep_one returned, with or without an error: release_inflight, next row.
Leave(s) ==
  /\ pc' = "entries" /\ cur' = {} /\ inflight' = inflight \ {s}
  /\ recorded' = FALSE /\ wire' = { [tx EXCEPT !.mine = FALSE] : tx \in wire }
  /\ UNCHANGED <<claimable, todo, rows, chainVars, moves>>

\* claim_inflight; a seat claimed already is passed over.
Visit(s) ==
  /\ pc = "entries" /\ s \in rows
  /\ rows' = rows \ {s}
  /\ IF s \in inflight
       THEN UNCHANGED <<pc, cur, inflight>>
       ELSE pc' = "sweep" /\ cur' = {s} /\ inflight' = inflight \cup {s}
  /\ UNCHANGED <<claimable, todo, chainVars, wire, recorded, moves>>

\* mutant: a simulation that fails is sent all the same
SimulateIgnored(s) ==
  /\ pc = "sweep" /\ cur = {s}
  /\ IF MarketOf[s] \in Banked
       THEN pc' = "submit" /\ UNCHANGED <<claimable, todo, rows, cur, inflight, chainVars, wire, recorded, moves>>
       ELSE Leave(s)

\* The debt bank, then the simulation of the exact instruction.
Simulate(s) ==
  /\ pc = "sweep" /\ cur = {s}
  /\ IF MarketOf[s] \in Banked /\ SweepExecutes(s)
       THEN pc' = "submit" /\ UNCHANGED <<claimable, todo, rows, cur, inflight, chainVars, wire, recorded, moves>>
       ELSE Leave(s)

SimulateFails(s) == pc = "sweep" /\ cur = {s} /\ s \in Faulty /\ Leave(s)

\* mutant: the retry loop signs once more than it may
SubmitOnceMore(s) ==
  /\ pc = "submit" /\ cur = {s}
  /\ wire' = wire \cup { [seat |-> s, copy |-> i, mine |-> TRUE] : i \in 1 .. Copies + 1 }
  /\ pc' = "await"
  /\ UNCHANGED <<claimable, todo, rows, cur, inflight, chainVars, recorded, moves>>

\* send_signed_labeled: one or more signed copies go out.
Submit(s) ==
  /\ pc = "submit" /\ cur = {s}
  /\ \E k \in 1 .. Copies :
     /\ Cardinality(wire) + k <= MaxWire
     /\ wire' = wire \cup { [seat |-> s, copy |-> i, mine |-> TRUE] : i \in 1 .. k }
  /\ pc' = "await"
  /\ UNCHANGED <<claimable, todo, rows, cur, inflight, chainVars, recorded, moves>>

Answered(s) ==
  /\ pc = "await" /\ cur = {s}
  /\ recorded \/ ~(\E tx \in wire : tx.mine)
  /\ Leave(s)

SendFails(s) == pc = "await" /\ cur = {s} /\ s \in Faulty /\ Leave(s)

Tick == \/ ListVaults \/ Filter \/ Done
        \/ \E s \in Seats : Visit(s) \/ Simulate(s) \/ Submit(s) \/ Answered(s)

Reads  == \E m \in Markets : ReadMarket(m)
Faults == \/ \E m \in Markets : ReadFails(m)
          \/ \E s \in Seats : SimulateFails(s) \/ SendFails(s)

-----------------------------------------------------------------------------
(* The chain and everybody else. *)

\* What a sweep does: 0 atoms zero a dust seat, else the seat and the realised
\* atoms shrink together, never below 0.
Sweep(s) ==
  LET atoms == Worth(shares[s]) IN
  /\ shares' = [shares EXCEPT ![s] = IF atoms = 0 THEN 0 ELSE @ - atoms * ShareValue]
  /\ pending' = [pending EXCEPT ![VaultOf[s]] = IF @ <= atoms THEN 0 ELSE @ - atoms]

Land(tx) ==
  /\ tx \in wire
  /\ wire' = wire \ {tx}
  /\ IF SweepExecutes(tx.seat) THEN Sweep(tx.seat) ELSE UNCHANGED <<shares, pending>>
  /\ recorded' = (recorded \/ tx.mine)
  /\ UNCHANGED <<handlerVars, fresh, moves>>

Drop(tx) ==
  /\ tx \in wire
  /\ wire' = wire \ {tx}
  /\ UNCHANGED <<handlerVars, chainVars, recorded, moves>>

Disturb == moves < MaxMoves /\ moves' = moves + 1 /\ UNCHANGED <<handlerVars, wire, recorded>>

\* A repay, settle or liquidation pays into the seat.
Repaid(s) ==
  /\ Disturb /\ shares[s] + RepayShares <= MaxShares
  /\ shares' = [shares EXCEPT ![s] = @ + RepayShares]
  /\ pending' = [pending EXCEPT ![VaultOf[s]] = @ + Worth(RepayShares)]
  /\ UNCHANGED fresh

FeedMoves(m) ==
  /\ Disturb
  /\ fresh' = IF m \in fresh THEN fresh \ {m} ELSE fresh \cup {m}
  /\ UNCHANGED <<shares, pending>>

OtherSweeps(s) == Disturb /\ SweepExecutes(s) /\ Sweep(s) /\ UNCHANGED fresh

Environment == \/ \E tx \in wire : Land(tx) \/ Drop(tx)
               \/ \E s \in Seats : Repaid(s) \/ OtherSweeps(s)
               \/ \E m \in Markets : FeedMoves(m)

Next == Tick \/ Reads \/ Faults \/ Environment

(***************************************************************************)
(* The handler is ticked for ever.  A read that may fail does not fail     *)
(* every time: that much the tick needs, since one failing read ends it.   *)
(* What is sent again and again is not dropped every time.                 *)
(***************************************************************************)
Fairness == /\ WF_vars(Tick \/ Reads)
            /\ \A m \in Markets : SF_vars(ReadMarket(m))
            /\ \A s \in Seats : SF_vars(\E tx \in wire : tx.seat = s /\ Land(tx))

Spec == Init /\ [][Next]_vars /\ Fairness

-----------------------------------------------------------------------------
(* Properties. *)

\* The type invariant.
TypeOK ==
  /\ pc \in {"idle", "markets", "entries", "sweep", "submit", "await"}
  /\ claimable \subseteq Vaults /\ todo \subseteq Markets /\ rows \subseteq Seats
  /\ cur \subseteq Seats /\ Cardinality(cur) <= 1 /\ inflight \subseteq Seats
  /\ shares \in [Seats -> 0 .. MaxShares] /\ pending \in [Vaults -> Nat]
  /\ fresh \subseteq Markets /\ wire \subseteq SweepTxs
  /\ recorded \in BOOLEAN /\ moves \in 0 .. MaxMoves

Stage(s) == CASE s \notin inflight -> "free"
              [] s \in inflight /\ pc = "submit" -> "cleared"
              [] s \in inflight /\ pc = "await" -> "sent"
              [] OTHER -> "held"

Gate == INSTANCE Keeper WITH Items <- Seats, stage <- [s \in Seats |-> Stage(s)],
                             able <- { s \in Seats : SweepExecutes(s) }

\* "skip instead of landing a revert": a sweep is sent from one visit of its seat,
\* after a simulation in that visit passed, and every claim is given back, also
\* when a tick is cut short by a market that cannot be read.
ImplementsKeeper == Gate!Spec

Serviceable(s) == /\ s \notin Faulty /\ MarketOf[s] \notin Paused /\ MarketOf[s] \in Banked

\* Once everybody else rests, realised atoms do not stay behind: a seat the
\* program would sweep has no shares left or its sub-vault no atoms, although one
\* failing read ends a tick for all markets; and the handler stops sending, for
\* dust seats and for seats the program refuses too.
SweepsSettle ==
  <>[]( /\ pc # "submit"
        /\ \A s \in Seats : Serviceable(s) /\ SweepExecutes(s) => pending[VaultOf[s]] = 0 )
=============================================================================
