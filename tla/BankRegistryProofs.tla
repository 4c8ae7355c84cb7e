------------------------- MODULE BankRegistryProofs -------------------------
(***************************************************************************)
(* Proofs about the bank registry, for any markets, mints, banks and       *)
(* limits.  The inductive invariant says where every entry comes from: the *)
(* registry binds a mint only as some market on chain binds it (Sourced),  *)
(* and so do the banks a handler holds (PairSourced); Phases ties the registry to the stage of the boot.      *)
(***************************************************************************)
EXTENDS BankRegistry, TLAPS

Sourced(r) == \A t \in Mints :
                r[t] # NoBank => \E x \in Bindings(live) : x.mint = t /\ x.bank = r[t]

PairSourced ==
  pair # Nothing =>
    /\ \E x \in Bindings(live) : x.mint = Debt[pair.market].mint /\ x.bank = pair.debt
    /\ \E x \in Bindings(live) : x.mint = Coll[pair.market].mint /\ x.bank = pair.coll

Phases ==
  /\ stage \in {"discover", "resolve"} => banks = Empty
  /\ stage = "atas" => boot \subseteq Known(banks)
  /\ stage \in {"discover", "resolve", "atas"} => ~rejected
  /\ stage \in {"swb", "up"} /\ ~rejected => boot \subseteq atas
  /\ loop # "off" => stage = "up"

IInv == TypeOK /\ Sourced(banks) /\ PairSourced /\ Phases

\* A market's two sides are bindings of it, and more markets bind more.
LEMMA BindingFacts ==
  ASSUME NEW ms \in SUBSET Markets, NEW ns \in SUBSET ms
  PROVE  /\ Bindings(ms) \subseteq Sides
         /\ Bindings(ns) \subseteq Bindings(ms)
         /\ MintsOf(ms) \subseteq Mints
         /\ MintsOf(ns) \subseteq MintsOf(ms)
         /\ \A m \in ms : Debt[m] \in Bindings(ms) /\ Coll[m] \in Bindings(ms)
  BY BankRegistryAssumption DEF Bindings, MintsOf, Sides

\* What resolve_from_chain returns: exactly the mints of the markets found,
\* each with a bank one of them binds it to.
LEMMA ResolvedFacts ==
  ASSUME NEW ms \in SUBSET Markets
  PROVE  /\ Resolved(ms) \in Records
         /\ Known(Resolved(ms)) = MintsOf(ms)
         /\ \A t \in Mints : Resolved(ms)[t] # NoBank =>
              \E x \in Bindings(ms) : x.mint = t /\ x.bank = Resolved(ms)[t]
<1>1. ASSUME NEW t \in Mints, t \in MintsOf(ms)
      PROVE  /\ Resolved(ms)[t] \in Banks
             /\ \E x \in Bindings(ms) : x.mint = t /\ x.bank = Resolved(ms)[t]
  <2> DEFINE y == CHOOSE x \in Bindings(ms) : x.mint = t
  <2>1. \E x \in Bindings(ms) : x.mint = t
    BY <1>1 DEF MintsOf
  <2>2. y \in Bindings(ms) /\ y.mint = t
    BY <2>1
  <2>3. y \in Sides
    BY <2>2, BindingFacts
  <2>4. Resolved(ms)[t] = y.bank
    BY <1>1 DEF Resolved
  <2> QED
    BY <2>2, <2>3, <2>4 DEF Sides
<1>2. ASSUME NEW t \in Mints, t \notin MintsOf(ms) PROVE Resolved(ms)[t] = NoBank
  BY <1>2 DEF Resolved
<1>3. Resolved(ms) \in Records
  <2>1. \A t \in Mints : Resolved(ms)[t] \in Banks \union {NoBank}
    BY <1>1, <1>2
  <2> QED
    BY <2>1 DEF Resolved, Records
<1>4. Known(Resolved(ms)) = MintsOf(ms)
  <2>1. MintsOf(ms) \subseteq Mints
    BY BindingFacts
  <2> QED
    BY <1>1, <1>2, <2>1, BankRegistryAssumption DEF Known
<1> QED
  BY <1>1, <1>2, <1>3, <1>4

\* merge_from keeps every known entry and takes the others from the new
\* registry.
LEMMA MergeFacts ==
  ASSUME NEW r \in Records, NEW n \in Records
  PROVE  /\ merge_from(r, n) \in Records
         /\ \A t \in Known(r) : merge_from(r, n)[t] = r[t]
         /\ \A t \in Mints : merge_from(r, n)[t] \in {r[t], n[t]}
  BY DEF merge_from, Records, Known

\* The initial state satisfies the inductive invariant: the registry is empty.
LEMMA InitEstablishesIInv == Init => IInv
<1> SUFFICES ASSUME Init PROVE IInv
  OBVIOUS
<1>1. Empty \in Records
  BY DEF Empty, Records
<1>2. TypeOK
  BY <1>1 DEF Init, TypeOK
<1>3. Sourced(banks) 
  BY DEF Init, Sourced, Empty
<1>4. PairSourced /\ Phases
  BY DEF Init, PairSourced, Phases
<1> QED
  BY <1>2, <1>3, <1>4 DEF IInv

\* Every step of boot, refresh loop, handler and chain keeps the inductive
\* invariant.
LEMMA StepKeepsIInv == IInv /\ [Next]_vars => IInv'
<1> SUFFICES ASSUME IInv, [Next]_vars PROVE IInv'
  OBVIOUS
<1> USE DEF IInv
<1>0. /\ live \in SUBSET Markets /\ found \in SUBSET live /\ found \in SUBSET Markets
      /\ Rows \subseteq SUBSET live
  BY DEF TypeOK, Rows
<1>1. CASE BootDiscover
  BY <1>0, <1>1 DEF BootDiscover, Exit, TypeOK, Sourced, PairSourced, Phases
<1>2. CASE BootResolve
  <2>1. UNCHANGED <<live, atas, rejected, swb, loop, found, pair>> /\ stage = "resolve"
    BY <1>2 DEF BootResolve
  <2>2. CASE stage' = "atas" /\ banks' = Resolved(found) /\ boot' = MintsOf(found)
    <3>1. TypeOK' /\ boot' \subseteq Known(banks')
      BY <1>0, <2>1, <2>2, ResolvedFacts, BindingFacts DEF TypeOK
    <3>2. Sourced(banks)'
      BY <1>0, <2>1, <2>2, ResolvedFacts, BindingFacts DEF Sourced
    <3>3. PairSourced'
      BY <2>1 DEF Sourced, PairSourced
    <3>4. Phases'
      BY <2>1, <2>2, <3>1 DEF Phases
    <3> QED
      BY <3>1, <3>2, <3>3, <3>4
  <2>3. CASE Exit /\ UNCHANGED <<banks, boot>>
    BY <2>1, <2>3 DEF Exit, TypeOK, Sourced, PairSourced, Phases
  <2> QED
    BY <1>2, <2>2, <2>3 DEF BootResolve
<1>3. CASE EnsureAtas
  <2>1. UNCHANGED <<live, banks, boot, swb, loop, found, pair>> /\ stage = "atas"
    BY <1>3 DEF EnsureAtas
  <2>2. Known(banks) \subseteq MintsOf(live)
    BY DEF Known, Sourced, MintsOf
  <2>3. atas' \in SUBSET MintsOf(live)
    BY <1>3, <2>2 DEF EnsureAtas, Missing, TypeOK
  <2>4. /\ stage' \in {"swb", "down"} /\ rejected' \in BOOLEAN
        /\ stage' = "swb" /\ ~rejected' => boot \subseteq atas'
    BY <1>3 DEF EnsureAtas, Exit, Missing, Phases, TypeOK
  <2>5. TypeOK'
    BY <2>1, <2>3, <2>4 DEF TypeOK
  <2>6. Sourced(banks)' /\ PairSourced' /\ Phases'
    BY <2>1, <2>4 DEF Sourced, PairSourced, Phases
  <2> QED
    BY <2>5, <2>6
<1>4. CASE BootSwb
  <2>1. /\ UNCHANGED <<live, atas, banks, boot, rejected, found, pair>>
        /\ stage = "swb" /\ stage' = "up" /\ loop' = "discover"
        /\ swb' \in {"untried", "loaded", "failed"}
    BY <1>4 DEF BootSwb, TypeOK
  <2> QED
    BY <2>1 DEF TypeOK, Sourced, PairSourced, Phases
<1>5. CASE Restart
  <2>1. Empty \in Records
    BY DEF Empty, Records
  <2>2. TypeOK'
    BY <1>5, <2>1 DEF Restart, TypeOK
  <2>3. Sourced(banks)'
    BY <1>5 DEF Restart, Sourced, Empty
  <2>4. PairSourced' /\ Phases'
    BY <1>5 DEF Restart, PairSourced, Phases
  <2> QED
    BY <2>2, <2>3, <2>4
<1>6. CASE RefreshDiscover
  <2>1. /\ UNCHANGED <<live, atas, stage, banks, boot, rejected, swb, pair>>
        /\ loop = "discover" /\ loop' \in {"sleep", "resolve"} /\ found' \in SUBSET live
    BY <1>0, <1>6 DEF RefreshDiscover
  <2> QED
    BY <2>1 DEF TypeOK, Sourced, PairSourced, Phases
<1>7. CASE RefreshResolve
  <2>1. /\ UNCHANGED <<live, atas, stage, boot, rejected, swb, found, pair>>
        /\ loop = "resolve" /\ loop' = "sleep" /\ stage = "up"
    BY <1>7 DEF RefreshResolve, Phases
  <2>2. CASE banks' = merge_from(banks, Resolved(found))
    <3>1. banks \in Records /\ Resolved(found) \in Records
      BY <1>0, ResolvedFacts DEF TypeOK
    <3>2. banks' \in Records /\ \A t \in Mints : banks'[t] \in {banks[t], Resolved(found)[t]}
      BY <2>2, <3>1, MergeFacts
    <3>3. \A t \in Mints : Resolved(found)[t] # NoBank =>
            \E x \in Bindings(live) : x.mint = t /\ x.bank = Resolved(found)[t]
      BY <1>0, ResolvedFacts, BindingFacts
    <3>4. Sourced(banks)'
      BY <2>1, <3>2, <3>3 DEF Sourced
    <3>5. TypeOK'
      BY <2>1, <3>2 DEF TypeOK
    <3>6. PairSourced' /\ Phases'
      BY <2>1 DEF Sourced, PairSourced, Phases
    <3> QED
      BY <3>4, <3>5, <3>6
  <2>3. CASE UNCHANGED banks
    BY <2>1, <2>3 DEF TypeOK, Sourced, PairSourced, Phases
  <2> QED
    BY <1>7, <2>2, <2>3 DEF RefreshResolve
<1>8. CASE RefreshSleep
  BY <1>8 DEF RefreshSleep, TypeOK, Sourced, PairSourced, Phases
<1>9. CASE VisitEnds
  BY <1>9 DEF VisitEnds, TypeOK, Sourced, PairSourced, Phases
<1>10. ASSUME NEW m \in Markets, Visit(m) PROVE IInv'
  <2>1. /\ UNCHANGED <<live, atas, stage, banks, boot, rejected, swb, loop, found>>
        /\ m \in live
        /\ banks[Debt[m].mint] # NoBank /\ banks[Coll[m].mint] # NoBank
        /\ pair' = [market |-> m, debt |-> banks[Debt[m].mint], coll |-> banks[Coll[m].mint]]
    BY <1>10 DEF Visit, LookUp
  <2>2. Debt[m].mint \in Mints /\ Coll[m].mint \in Mints
    BY BankRegistryAssumption DEF Sides
  <2>3. banks[Debt[m].mint] \in Banks /\ banks[Coll[m].mint] \in Banks
    BY <2>1, <2>2 DEF TypeOK, Records
  <2>4. TypeOK'
    BY <2>1, <2>3 DEF TypeOK
  <2>5. PairSourced'
    BY <2>1, <2>2 DEF Sourced, PairSourced
  <2>6. Sourced(banks)' /\ Phases'
    BY <2>1 DEF Sourced, Phases
  <2> QED
    BY <2>4, <2>5, <2>6
<1>11. ASSUME NEW m \in Markets, CreateMarket(m) PROVE IInv'
  <2>1. UNCHANGED <<atas, stage, banks, boot, rejected, swb, loop, found, pair>>
    BY <1>11 DEF CreateMarket, procVars
  <2>2. live' \in SUBSET Markets /\ live \in SUBSET live'
    BY <1>0, <1>11 DEF CreateMarket
  <2>3. Bindings(live) \subseteq Bindings(live') /\ MintsOf(live) \subseteq MintsOf(live')
    BY <2>2, BindingFacts
  <2>4. TypeOK'
    BY <2>1, <2>2, <2>3 DEF TypeOK
  <2>5. Sourced(banks)' /\ PairSourced'
    BY <2>1, <2>3 DEF Sourced, PairSourced, Bindings
  <2>6. Phases'
    BY <2>1 DEF Phases
  <2> QED
    BY <2>4, <2>5, <2>6
<1>12. CASE UNCHANGED vars
  BY <1>12 DEF vars, procVars, TypeOK, Sourced, PairSourced, Phases
<1> QED
  BY <1>1, <1>2, <1>3, <1>4, <1>5, <1>6, <1>7, <1>8, <1>9, <1>10, <1>11, <1>12 DEF Next

\* The inductive invariant holds in every reachable state of the registry.
THEOREM IInvAlways == Spec => []IInv
  BY InitEstablishesIInv, StepKeepsIInv, PTL DEF Spec

\* Boot, refresh and handler keep the registry well typed; no handler
\* works with an unknown bank (bank_pair).
THEOREM TypeCorrect == Spec => []TypeOK
<1>1. IInv => TypeOK
  BY DEF IInv
<1> QED
  BY <1>1, IInvAlways, PTL

\* Whatever the refresh loop does while a handler holds its banks, the handler
\* works with a market's own banks unless two markets on chain disagree on a mint.
THEOREM BanksAreTheMarkets == Spec => []WrongBankOnlyAfterConflict
<1>1. IInv => WrongBankOnlyAfterConflict
  <2> SUFFICES ASSUME IInv, pair # Nothing, ~Conflict(live)
               PROVE  /\ pair.debt = Debt[pair.market].bank
                      /\ pair.coll = Coll[pair.market].bank
    BY DEF WrongBankOnlyAfterConflict
  <2>1. pair.market \in live /\ live \in SUBSET Markets
    BY DEF IInv, TypeOK
  <2>2. Debt[pair.market] \in Bindings(live) /\ Coll[pair.market] \in Bindings(live)
    BY <2>1, BindingFacts
  <2> QED
    BY <2>2 DEF IInv, PairSourced, Conflict
<1> QED
  BY <1>1, IInvAlways, PTL

\* When the handlers run, the fee payer has a token account for every mint the
\* boot discovered (ensure_atas_for), for every pair of limits, unless a create
\* transaction recorded as failed was taken for success in this boot.
THEOREM AtasBeforeHandlers == Spec => []BootMintsHaveAtas
<1>1. IInv => BootMintsHaveAtas
  BY DEF IInv, Phases, BootMintsHaveAtas
<1> QED
  BY <1>1, IInvAlways, PTL

\* refresh_banks only ever adds: no step of a running process drops or replaces
\* the bank of a known mint.
THEOREM RefreshOnlyAdds == Spec => KnownBanksStay
<1>1. IInv /\ [Next]_vars =>
        [stage' # "discover" => \A t \in Known(banks) : banks'[t] = banks[t]]_vars
  <2> SUFFICES ASSUME IInv, [Next]_vars, stage' # "discover", NEW t \in Known(banks)
               PROVE  banks'[t] = banks[t]
    OBVIOUS
  <2>1. CASE BootResolve
    BY <2>1 DEF BootResolve, IInv, Phases, Known, Empty
  <2>2. CASE RefreshResolve
    <3>1. banks \in Records /\ Resolved(found) \in Records
      BY ResolvedFacts DEF IInv, TypeOK
    <3> QED
      BY <2>2, <3>1, MergeFacts DEF RefreshResolve
  <2>3. CASE Restart
    BY <2>3 DEF Restart
  <2>4. CASE UNCHANGED banks
    BY <2>4
  <2>5. BootResolve \/ RefreshResolve \/ Restart \/ UNCHANGED banks
    BY DEF Next, BootDiscover, EnsureAtas, BootSwb, RefreshDiscover, RefreshSleep, VisitEnds,
           Visit, CreateMarket, procVars, vars
  <2> QED
    BY <2>1, <2>2, <2>3, <2>4, <2>5
<1> QED
  BY <1>1, IInvAlways, PTL DEF Spec, KnownBanksStay
=============================================================================
