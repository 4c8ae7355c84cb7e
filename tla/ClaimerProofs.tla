--------------------------- MODULE ClaimerProofs ----------------------------
(***************************************************************************)
(* The claimer for any markets, sub-vaults and seats, any share value and  *)
(* any number of copies on the wire: its types, its gates, the promise of  *)
(* Keeper, and why its ticks end.                                          *)
(***************************************************************************)
EXTENDS Claimer, FiniteSetTheorems, TLAPS

-----------------------------------------------------------------------------
(* The inductive invariant. *)

Sweeping == {"sweep", "submit", "await"}

\* One visit at a time, its seat claimed and no other; what is on the wire for a
\* submission is for that seat, and is there only while it is awaited.
Shape ==
  /\ cur = {} \/ \E s \in Seats : cur = {s}
  /\ inflight = cur
  /\ pc \in Sweeping <=> cur # {}
  /\ pc # "await" => ~recorded /\ \A tx \in wire : ~tx.mine
  /\ \A tx \in wire : tx.mine => tx.seat \in cur

\* A seat on its way to a sweep is of a market that was not paused and, once the
\* listing is filtered, of a sub-vault that had realised atoms; after the
\* simulation, of a market whose debt bank is known.
Gated ==
  /\ todo \cap Paused = {}
  /\ \A s \in rows \cup cur : MarketOf[s] \notin Paused
  /\ pc \in {"entries"} \cup Sweeping => \A s \in rows \cup cur : VaultOf[s] \in claimable
  /\ pc \in {"submit", "await"} => \A s \in cur : MarketOf[s] \in Banked

\* No sweep is ever sent for a seat of a paused market or of one without a debt
\* bank, and the one that is awaited is for a sub-vault that had realised atoms
\* when the tick listed it: what run_tick and list_pending_vault_claims leave out
\* stays out until the tick is over, whatever the chain does meanwhile.
SweepsAreGated ==
  \A tx \in wire : /\ MarketOf[tx.seat] \notin Paused /\ MarketOf[tx.seat] \in Banked
                   /\ tx.mine => VaultOf[tx.seat] \in claimable

IInv == TypeOK /\ Shape /\ Gated /\ SweepsAreGated

-----------------------------------------------------------------------------
(* Lemmas. *)

\* No item, or one, is visited.
LEMMA OneVisit ==
  ASSUME NEW T, NEW S, S = {} \/ \E x \in T : S = {x}
  PROVE  S \subseteq T /\ Cardinality(S) <= 1
<1>1. CASE S = {}
  BY <1>1, FS_EmptySet
<1>2. ASSUME NEW x \in T, S = {x} PROVE S \subseteq T /\ Cardinality(S) <= 1
  BY <1>2, FS_Singleton
<1> QED
  BY <1>1, <1>2

\* Shares are worth a whole number of atoms, none if they are fewer than
\* ShareValue; what a sweep of whole atoms leaves is less than one atom.
LEMMA WorthBounds ==
  ASSUME NEW n \in Nat
  PROVE  /\ Worth(n) \in Nat
         /\ Worth(n) = 0 <=> n < ShareValue
         /\ n - Worth(n) * ShareValue \in 0 .. ShareValue - 1
<1>1. ShareValue \in Nat /\ ShareValue > 0
  BY ClaimerAssumption
<1> DEFINE q == n \div ShareValue
           r == n % ShareValue
<1>2. q \in Nat /\ r \in 0 .. ShareValue - 1 /\ n = q * ShareValue + r
  BY <1>1
<1>3. q = 0 <=> n < ShareValue
  BY <1>1, <1>2
<1> QED
  BY <1>1, <1>2, <1>3 DEF Worth

\* What a sweep does to a seat and its sub-vault: whole atoms leave both, a seat
\* with less than an atom is emptied, and the realised atoms never go below 0.
LEMMA SweepEffect ==
  ASSUME TypeOK, NEW s \in Seats, Sweep(s)
  PROVE  /\ shares' \in [Seats -> 0 .. MaxShares] /\ pending' \in [Vaults -> Nat]
         /\ shares'[s] < ShareValue
         /\ shares[s] < ShareValue => shares'[s] = 0
         /\ \A k \in Seats \ {s} : shares'[k] = shares[k]
<1> DEFINE atoms == Worth(shares[s])
           left == IF atoms = 0 THEN 0 ELSE shares[s] - atoms * ShareValue
           v == VaultOf[s]
<1>1. shares[s] \in 0 .. MaxShares /\ shares[s] \in Nat /\ MaxShares \in Nat
      /\ ShareValue \in Nat /\ ShareValue > 0 /\ v \in Vaults
  BY ClaimerAssumption DEF TypeOK
<1>2. atoms \in Nat /\ (atoms = 0 <=> shares[s] < ShareValue)
      /\ shares[s] - atoms * ShareValue \in 0 .. ShareValue - 1
  BY <1>1, WorthBounds
<1> HIDE DEF atoms
<1>3. atoms * ShareValue \in Nat
  BY <1>1, <1>2
<1>4. left \in 0 .. MaxShares /\ left < ShareValue /\ (shares[s] < ShareValue => left = 0)
  BY <1>1, <1>2, <1>3
<1>5. shares' = [shares EXCEPT ![s] = left]
  BY DEF Sweep, atoms
<1>6. pending' = [pending EXCEPT ![v] = IF @ <= atoms THEN 0 ELSE @ - atoms]
  BY DEF Sweep, atoms
<1>7. pending' \in [Vaults -> Nat]
  BY <1>1, <1>2, <1>6 DEF TypeOK
<1> HIDE DEF left
<1> QED
  BY <1>1, <1>4, <1>5, <1>7 DEF TypeOK

\* sweep_one returned, on any path: the invariant is kept.
LEMMA LeaveKeeps ==
  ASSUME IInv, NEW s \in Seats, cur = {s}, Leave(s)
  PROVE  IInv'
<1> USE DEF IInv
<1>1. wire' \subseteq SweepTxs /\ \A tx \in wire' : ~tx.mine
  BY DEF Leave, TypeOK, SweepTxs
<1>2. cur' = {} /\ inflight' = {} /\ pc' = "entries" /\ recorded' = FALSE
  BY DEF Leave, Shape
<1>3. UNCHANGED <<claimable, todo, rows, shares, pending, fresh, moves>>
  BY DEF Leave, chainVars
<1>4. cur' \subseteq Seats /\ Cardinality(cur') <= 1
  BY <1>2, OneVisit
<1>5. TypeOK'
  BY <1>1, <1>2, <1>3, <1>4 DEF TypeOK
<1>6. Shape'
  BY <1>1, <1>2 DEF Shape, Sweeping
<1>7. pc \in Sweeping
  BY DEF Shape
<1>8. Gated' /\ SweepsAreGated'
  BY <1>1, <1>2, <1>3, <1>7 DEF Gated, SweepsAreGated, Leave, TypeOK, SweepTxs
<1> QED
  BY <1>5, <1>6, <1>8

\* A step of the listings, outside any visit.
LEMMA ListingKeeps ==
  ASSUME IInv, pc \notin Sweeping, pc' \in {"idle", "markets", "entries"},
         claimable' \subseteq Vaults, todo' \subseteq Markets, rows' \subseteq Seats,
         todo' \cap Paused = {}, \A s \in rows' : MarketOf[s] \notin Paused,
         pc' = "entries" => \A s \in rows' : VaultOf[s] \in claimable',
         UNCHANGED <<cur, inflight, chainVars, wire, recorded, moves>>
  PROVE  IInv'
<1>1. TypeOK'
  BY DEF IInv, TypeOK, chainVars
<1>2. Shape' /\ cur' = {} /\ \A tx \in wire : ~tx.mine
  BY DEF IInv, Shape, Sweeping
<1>3. Gated' /\ SweepsAreGated'
  BY <1>2 DEF IInv, Gated, SweepsAreGated, Sweeping
<1> QED
  BY <1>1, <1>2, <1>3 DEF IInv

\* A step of the chain that leaves the handler alone, takes nothing onto the
\* wire and records a submission only if it is awaited.
LEMMA ChainKeeps ==
  ASSUME IInv, UNCHANGED handlerVars,
         shares' \in [Seats -> 0 .. MaxShares], pending' \in [Vaults -> Nat],
         fresh' \subseteq Markets, moves' \in 0 .. MaxMoves, wire' \subseteq wire,
         recorded' \in BOOLEAN, pc # "await" => recorded' = recorded
  PROVE  IInv'
<1>1. TypeOK'
  BY DEF IInv, TypeOK, handlerVars
<1>2. Shape' /\ Gated' /\ SweepsAreGated'
  BY DEF IInv, TypeOK, Shape, Gated, SweepsAreGated, handlerVars
<1> QED
  BY <1>1, <1>2 DEF IInv
-----------------------------------------------------------------------------
(* The invariant holds. *)

LEMMA InitIInv == Init => IInv
<1> SUFFICES ASSUME Init PROVE IInv
  OBVIOUS
<1>1. pending \in [Vaults -> Nat]
  <2> DEFINE all == Seats \X (1 .. MaxShares)
             of(v) == { atom \in all : VaultOf[atom[1]] = v /\ atom[2] <= Worth(Shares[atom[1]]) }
  <2>1. IsFiniteSet(all)
    <3>1. IsFiniteSet(1 .. MaxShares)
      BY ClaimerAssumption, FS_Interval
    <3> QED
      BY <3>1, ClaimerAssumption, FS_Product
  <2>2. ASSUME NEW v \in Vaults PROVE Cardinality(of(v)) \in Nat
    <3>1. of(v) \subseteq all
      OBVIOUS
    <3>2. IsFiniteSet(of(v))
      BY <2>1, <3>1, FS_Subset
    <3> QED
      BY <3>2, FS_CardinalityType
  <2>3. pending = [v \in Vaults |-> Cardinality(of(v))]
    BY DEF Init
  <2> HIDE DEF of
  <2> QED
    BY <2>2, <2>3
<1>2. cur \subseteq Seats /\ Cardinality(cur) <= 1
  BY OneVisit DEF Init
<1>3. shares \in [Seats -> 0 .. MaxShares] /\ moves \in 0 .. MaxMoves
  BY ClaimerAssumption DEF Init
<1>4. TypeOK
  BY <1>1, <1>2, <1>3 DEF Init, TypeOK
<1>5. Shape
  BY DEF Init, Shape, Sweeping
<1>6. Gated /\ SweepsAreGated
  BY DEF Init, Gated, SweepsAreGated, Sweeping
<1> QED
  BY <1>4, <1>5, <1>6 DEF IInv

\* Taking a seat up, its simulation, its submission and the answer.
LEMMA VisitKeeps ==
  ASSUME IInv, NEW s \in Seats, Visit(s) \/ Simulate(s) \/ Submit(s) \/ Answered(s)
  PROVE  IInv'
<1> USE DEF IInv
<1>1. CASE Visit(s)
  <2>1. /\ cur = {} /\ inflight = {} /\ ~recorded /\ \A tx \in wire : ~tx.mine
        /\ rows' = rows \ {s} /\ UNCHANGED <<claimable, todo, shares, pending, fresh, wire, recorded, moves>>
    BY <1>1 DEF Visit, Shape, Sweeping, chainVars
  <2>2. pc' = "sweep" /\ cur' = {s} /\ inflight' = {s}
    BY <1>1, <2>1 DEF Visit
  <2>3. cur' \subseteq Seats /\ Cardinality(cur') <= 1
    BY <2>2, OneVisit
  <2>4. TypeOK'
    BY <2>1, <2>2, <2>3 DEF TypeOK
  <2>5. Shape'
    BY <2>1, <2>2 DEF Shape, Sweeping
  <2>6. Gated' /\ SweepsAreGated'
    BY <1>1, <2>1, <2>2 DEF Visit, Gated, SweepsAreGated, Sweeping
  <2> QED
    BY <2>4, <2>5, <2>6
<1>2. CASE Simulate(s)
  <2>1. CASE Leave(s)
    BY <1>2, <2>1, LeaveKeeps DEF Simulate
  <2>2. CASE /\ MarketOf[s] \in Banked /\ pc' = "submit"
             /\ UNCHANGED <<claimable, todo, rows, cur, inflight, chainVars, wire, recorded, moves>>
    <3>1. TypeOK'
      BY <2>2 DEF TypeOK, chainVars
    <3>2. Shape'
      BY <1>2, <2>2 DEF Simulate, Shape, Sweeping
    <3>3. Gated' /\ SweepsAreGated'
      BY <1>2, <2>2 DEF Simulate, Gated, SweepsAreGated, Sweeping
    <3> QED
      BY <3>1, <3>2, <3>3
  <2> QED
    BY <1>2, <2>1, <2>2 DEF Simulate
<1>3. CASE Submit(s)
  <2>1. PICK k \in 1 .. Copies :
            wire' = wire \cup { [seat |-> s, copy |-> i, mine |-> TRUE] : i \in 1 .. k }
    BY <1>3 DEF Submit
  <2>2. /\ pc = "submit" /\ cur = {s} /\ pc' = "await"
        /\ UNCHANGED <<claimable, todo, rows, cur, inflight, shares, pending, fresh, recorded, moves>>
    BY <1>3 DEF Submit, chainVars
  <2>3. \A i \in 1 .. k : [seat |-> s, copy |-> i, mine |-> TRUE] \in SweepTxs
    BY ClaimerAssumption DEF SweepTxs
  <2>4. TypeOK'
    BY <2>1, <2>2, <2>3 DEF TypeOK
  <2>5. Shape'
    BY <2>1, <2>2 DEF Shape, Sweeping
  <2>6. Gated' /\ SweepsAreGated'
    BY <2>1, <2>2 DEF Gated, SweepsAreGated, Sweeping
  <2> QED
    BY <2>4, <2>5, <2>6
<1>4. CASE Answered(s)
  BY <1>4, LeaveKeeps DEF Answered
<1> QED
  BY <1>1, <1>2, <1>3, <1>4

\* Sweeps land or are lost; others repay, sweep and move the feeds.
LEMMA EnvironmentKeeps == IInv /\ Environment => IInv'
<1> SUFFICES ASSUME IInv, Environment PROVE IInv'
  OBVIOUS
<1> USE ClaimerAssumption
<1>0. TypeOK
  BY DEF IInv
<1>1. ASSUME NEW tx \in wire, Land(tx) PROVE IInv'
  <2>1. tx.seat \in Seats /\ tx.mine \in BOOLEAN
    BY <1>0 DEF TypeOK, SweepTxs
  <2>2. shares' \in [Seats -> 0 .. MaxShares] /\ pending' \in [Vaults -> Nat]
    BY <1>0, <1>1, <2>1, SweepEffect DEF Land, TypeOK
  <2>3. recorded' \in BOOLEAN /\ (pc # "await" => recorded' = recorded)
    BY <1>1, <2>1 DEF Land, IInv, TypeOK, Shape
  <2> QED
    BY <1>0, <1>1, <2>2, <2>3, ChainKeeps DEF Land, TypeOK
<1>2. ASSUME NEW tx \in wire, Drop(tx) PROVE IInv'
  BY <1>0, <1>2, ChainKeeps DEF Drop, TypeOK, chainVars
<1>3. ASSUME Disturb PROVE moves' \in 0 .. MaxMoves
  BY <1>0, <1>3 DEF Disturb, TypeOK
<1>4. ASSUME NEW s \in Seats, Repaid(s) PROVE IInv'
  <2>1. Worth(RepayShares) \in Nat /\ VaultOf[s] \in Vaults
    BY WorthBounds
  <2>2. shares' \in [Seats -> 0 .. MaxShares] /\ pending' \in [Vaults -> Nat]
    BY <1>0, <1>4, <2>1 DEF Repaid, TypeOK
  <2> QED
    BY <1>0, <1>3, <1>4, <2>2, ChainKeeps DEF Repaid, Disturb, TypeOK
<1>5. ASSUME NEW s \in Seats, OtherSweeps(s) PROVE IInv'
  <2>1. shares' \in [Seats -> 0 .. MaxShares] /\ pending' \in [Vaults -> Nat]
    BY <1>0, <1>5, SweepEffect DEF OtherSweeps
  <2> QED
    BY <1>0, <1>3, <1>5, <2>1, ChainKeeps DEF OtherSweeps, Disturb, TypeOK
<1>6. ASSUME NEW m \in Markets, FeedMoves(m) PROVE IInv'
  BY <1>0, <1>3, <1>6, ChainKeeps DEF FeedMoves, Disturb, TypeOK
<1> QED
  BY <1>1, <1>2, <1>4, <1>5, <1>6 DEF Environment

\* Every step keeps the invariant.
LEMMA NextIInv == IInv /\ [Next]_vars => IInv'
<1> SUFFICES ASSUME IInv, [Next]_vars PROVE IInv'
  OBVIOUS
<1>1. CASE ListVaults
  BY <1>1, ListingKeeps DEF ListVaults, EndTick, IInv, TypeOK, Gated, Sweeping
<1>2. CASE Filter
  BY <1>2, ListingKeeps DEF Filter, IInv, TypeOK, Gated, Sweeping
<1>3. CASE Done
  BY <1>3, ListingKeeps DEF Done, EndTick, IInv, TypeOK, Sweeping
<1>4. ASSUME NEW m \in Markets, ReadMarket(m) \/ ReadFails(m) PROVE IInv'
  BY <1>4, ListingKeeps DEF ReadMarket, ReadFails, EndTick, IInv, TypeOK, Gated, Sweeping
<1>5. ASSUME NEW s \in Seats, SimulateFails(s) \/ SendFails(s) PROVE IInv'
  BY <1>5, LeaveKeeps DEF SimulateFails, SendFails
<1>6. CASE UNCHANGED vars
  BY <1>6 DEF vars, handlerVars, chainVars, IInv, TypeOK, Shape, Gated, SweepsAreGated
<1> QED
  BY <1>1, <1>2, <1>3, <1>4, <1>5, <1>6, VisitKeeps, EnvironmentKeeps DEF Next, Tick, Reads, Faults

\* The inductive invariant holds in every reachable state.
THEOREM Invariance == Spec => []IInv
  BY InitIInv, NextIInv, PTL DEF Spec

\* The claimer's types; one seat at most is visited, a seat never holds more
\* shares than were paid in, and the realised atoms of a sub-vault never go below
\* 0, however many late copies and foreign sweeps land.
THEOREM TypeCorrect == Spec => []TypeOK
<1>1. IInv => TypeOK
  BY DEF IInv
<1> QED
  BY <1>1, Invariance, PTL
\* What the listings leave out, paused markets, markets without a debt bank and
\* sub-vaults with nothing realised, is never swept in that tick.
THEOREM OnlyGatedSeatsAreSwept == Spec => []SweepsAreGated
<1>1. IInv => SweepsAreGated
  BY DEF IInv
<1> QED
  BY <1>1, Invariance, PTL

-----------------------------------------------------------------------------
(* The promise of Keeper. *)

\* Every step of the handler and of the chain is a step of Keeper or a stutter.
LEMMA StepImplementsKeeper == IInv /\ IInv' /\ [Next]_vars => [Gate!Next]_(Gate!vars)
<1> SUFFICES ASSUME IInv, IInv', [Next]_vars PROVE Gate!Next
  BY DEF Gate!vars
<1> DEFINE st == [s \in Seats |-> Stage(s)]
<1>0. /\ st = [s \in Seats |-> IF s \notin cur THEN "free" ELSE IF pc = "submit" THEN "cleared"
                                ELSE IF pc = "await" THEN "sent" ELSE "held"]
      /\ st' = [s \in Seats |-> IF s \notin cur' THEN "free" ELSE IF pc' = "submit" THEN "cleared"
                                 ELSE IF pc' = "await" THEN "sent" ELSE "held"]
  <2>1. \A s \in Seats : Stage(s) = IF s \notin cur THEN "free" ELSE IF pc = "submit" THEN "cleared"
                                    ELSE IF pc = "await" THEN "sent" ELSE "held"
    BY DEF IInv, Shape, Stage
  <2>2. \A s \in Seats : Stage(s)' = IF s \notin cur' THEN "free" ELSE IF pc' = "submit" THEN "cleared"
                                     ELSE IF pc' = "await" THEN "sent" ELSE "held"
    BY DEF IInv, Shape, Stage
  <2> QED
    BY <2>1, <2>2
<1>1. ASSUME cur' = cur, pc' = pc \/ cur = {} PROVE Gate!Next
  <2>1. st' = st
    BY <1>0, <1>1
  <2> QED
    BY <2>1 DEF Gate!Next
<1>2. ASSUME NEW s \in Seats, Visit(s) PROVE Gate!Next
  <2>1. cur = {} /\ cur' = {s} /\ pc' = "sweep"
    BY <1>2 DEF Visit, IInv, Shape, Sweeping
  <2>2. st' = [st EXCEPT ![s] = "held"] /\ \A k \in Seats : st[k] = "free"
    BY <1>0, <2>1
  <2> QED
    BY <2>2 DEF Gate!Next, Gate!Claim, Gate!Move
<1>3. ASSUME NEW s \in Seats, cur = {s}, Leave(s) PROVE Gate!Next
  <2>1. cur' = {}
    BY <1>3 DEF Leave
  <2>2. st' = [st EXCEPT ![s] = "free"] /\ st[s] \in {"held", "cleared", "sent"}
    BY <1>0, <1>3, <2>1
  <2> QED
    BY <2>2 DEF Gate!Next, Gate!Release, Gate!Move
<1>4. ASSUME NEW s \in Seats, Simulate(s) PROVE Gate!Next
  <2>1. CASE SweepExecutes(s) /\ pc' = "submit" /\ cur' = cur
    <3>1. cur = {s} /\ pc = "sweep"
      BY <1>4 DEF Simulate
    <3>2. st' = [st EXCEPT ![s] = "cleared"] /\ st[s] = "held" /\ s \in { k \in Seats : SweepExecutes(k) }
      BY <1>0, <2>1, <3>1
    <3> QED
      BY <3>2 DEF Gate!Next, Gate!Clear, Gate!Move
  <2> QED
    BY <1>3, <1>4, <2>1 DEF Simulate
<1>5. ASSUME NEW s \in Seats, Submit(s) PROVE Gate!Next
  <2>1. cur = {s} /\ cur' = cur /\ pc = "submit" /\ pc' = "await"
    BY <1>5 DEF Submit
  <2>2. st' = [st EXCEPT ![s] = "sent"] /\ st[s] = "cleared"
    BY <1>0, <2>1
  <2> QED
    BY <2>2 DEF Gate!Next, Gate!Send, Gate!Move
<1>6. CASE Tick
  <2>1. CASE ListVaults \/ Filter \/ Done
    BY <1>1, <2>1 DEF ListVaults, Filter, Done, IInv, Shape, Sweeping
  <2>2. ASSUME NEW s \in Seats, Answered(s) PROVE Gate!Next
    BY <1>3, <2>2 DEF Answered
  <2> QED
    BY <1>2, <1>4, <1>5, <1>6, <2>1, <2>2 DEF Tick
<1>7. CASE Reads \/ Faults
  <2>1. ASSUME NEW m \in Markets, ReadMarket(m) \/ ReadFails(m) PROVE Gate!Next
    BY <1>1, <2>1 DEF ReadMarket, ReadFails, IInv, Shape, Sweeping
  <2>2. ASSUME NEW s \in Seats, SimulateFails(s) \/ SendFails(s) PROVE Gate!Next
    BY <1>3, <2>2 DEF SimulateFails, SendFails
  <2> QED
    BY <1>7, <2>1, <2>2 DEF Reads, Faults
<1>8. CASE Environment
  <2>1. UNCHANGED handlerVars
    BY <1>8 DEF Environment, Land, Drop, Repaid, OtherSweeps, FeedMoves, Disturb
  <2> QED
    BY <1>1, <2>1 DEF handlerVars
<1>9. CASE UNCHANGED vars
  BY <1>1, <1>9 DEF vars, handlerVars
<1> QED
  BY <1>6, <1>7, <1>8, <1>9 DEF Next

\* A seat is swept under one claim at a time, at most once per claim and only after
\* its simulation passed under that claim, also when a market that cannot be read
\* cuts a tick short: the claimer refines the safety of Keeper.
THEOREM ClaimerImplementsKeeper == Spec => Gate!Safety
<1>1. Init => Gate!Init
  <2> SUFFICES ASSUME Init PROVE [s \in Seats |-> Stage(s)] = [s \in Seats |-> "free"]
    BY DEF Gate!Init
  <2> QED
    BY DEF Init, Stage
<1> QED
  BY <1>1, StepImplementsKeeper, Invariance, PTL DEF Spec, Gate!Safety

-----------------------------------------------------------------------------
(***************************************************************************)
(* The safety half of SweepsSettle: the claimer moves on.  It reads its    *)
(* markets once, then goes through the rows it kept.                       *)
(***************************************************************************)
Shrinks(T, S) == T \subseteq S /\ T # S

SeatPlace == [sweep |-> 1, submit |-> 2, await |-> 3, entries |-> 4]

SweepMovesOn ==
  \/ pc' = "idle"
  \/ pc = "markets" /\ Shrinks(todo', todo)
  \/ /\ todo' = todo /\ pc' # "markets"
     /\ \/ pc = "markets"
        \/ Shrinks(rows', rows)
        \/ rows' = rows /\ SeatPlace[pc'] > SeatPlace[pc]

\* What the claimer does during a tick, failing requests included, ends the tick,
\* is done with a market or a seat, or is a step forward of the sweep of one seat:
\* no market is read and no seat swept twice in a tick.
SweepsMoveOn == [][pc # "idle" /\ handlerVars' # handlerVars => SweepMovesOn]_vars

\* Every step of the claimer during a tick is one forward.
LEMMA TickMovesOn == ASSUME pc # "idle", Tick \/ Reads \/ Faults PROVE SweepMovesOn
<1> USE DEF SweepMovesOn, SeatPlace
<1>1. CASE Filter \/ Done
  BY <1>1 DEF Filter, Done, EndTick
<1>2. ASSUME NEW m \in Markets, ReadMarket(m) \/ ReadFails(m) PROVE SweepMovesOn
  BY <1>2 DEF ReadMarket, ReadFails, EndTick, Shrinks
<1>3. ASSUME NEW s \in Seats, Visit(s) PROVE SweepMovesOn
  <2>1. /\ s \in rows /\ rows' = rows \ {s} /\ todo' = todo
        /\ pc = "entries" /\ pc' \in {"entries", "sweep"}
    BY <1>3 DEF Visit
  <2> QED
    BY <2>1 DEF Shrinks
<1>4. ASSUME NEW s \in Seats, Simulate(s) \/ SimulateFails(s) \/ Submit(s) \/ Answered(s) \/ SendFails(s)
      PROVE  SweepMovesOn
  <2>1. /\ todo' = todo /\ rows' = rows
        /\ \/ pc = "sweep" /\ pc' \in {"submit", "entries"}
           \/ pc = "submit" /\ pc' = "await"
           \/ pc = "await" /\ pc' = "entries"
    BY <1>4 DEF Simulate, SimulateFails, Submit, Answered, SendFails, Leave
  <2> QED
    BY <2>1
<1> QED
  BY <1>1, <1>2, <1>3, <1>4 DEF Tick, Reads, Faults, ListVaults

\* For every set of markets, vaults and seats, and whatever requests fail, a tick
\* of the claimer reads every market once and visits every listed seat once.
THEOREM EverySweepMovesOn == Spec => SweepsMoveOn
<1>1. [Next]_vars => [pc # "idle" /\ handlerVars' # handlerVars => SweepMovesOn]_vars
  <2> SUFFICES ASSUME Next, pc # "idle", handlerVars' # handlerVars PROVE SweepMovesOn
    OBVIOUS
  <2>1. Tick \/ Reads \/ Faults
    BY DEF Next, Environment, Land, Drop, Repaid, FeedMoves, OtherSweeps, Disturb
  <2> QED
    BY <2>1, TickMovesOn
<1> QED
  BY <1>1, PTL DEF Spec, SweepsMoveOn
=============================================================================
