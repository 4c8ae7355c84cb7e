------------------------- MODULE OriginationProofs --------------------------
(***************************************************************************)
(* The match cranker and the promoter over one chain, for every book,      *)
(* every set of nodes and any number of copies on the wire: neither sends  *)
(* what a simulation has not passed, and neither spoils the other's work   *)
(* but by drawing on the vault that both serve.                            *)
(***************************************************************************)
EXTENDS Origination, FiniteSetTheorems, WellFoundedInduction, TLAPS

-----------------------------------------------------------------------------
(* The inductive invariant: for each handler the shape of a visit, what is  *)
(* on the wire for it, and the verdict of its simulation, which stands      *)
(* until the chain moves under it.                                          *)

OneOf(S, T) == S = None \/ \E x \in T : S = Some(x)

CrankerShape ==
  /\ OneOf(mcCur, Markets) /\ mcInflight = mcCur
  /\ mcPc \in {"banks", "sim", "submit", "await"} <=> mcCur # None
  /\ mcPc \notin {"submit", "await"} => ~mcTouched /\ ~mcCut
  /\ mcPc # "await" => mcRecorded = "none" /\ \A tx \in mcWire : ~tx.mine

CrankSent == \A tx \in mcWire : tx.mine => tx.market \in mcCur /\ tx.bundle = mcBundle

CrankVerdict ==
  mcPc \in {"submit", "await"} /\ ~mcTouched =>
     \A m \in mcCur : CrankExecutes(m, mcBundle, V0Cu) /\ (mcCut \/ Fillable(m) # {})

CrankWaste == /\ mcRecorded = "err" => mcTouched
              /\ mcRecorded = "empty" => mcTouched \/ mcCut

CrankerInv == CrankerTypeOK /\ CrankerShape /\ CrankSent /\ CrankVerdict /\ CrankWaste

PromoterShape ==
  /\ OneOf(prCur, Nodes) /\ prInflight = prCur
  /\ prPc \in {"assemble", "sim", "submit", "await"} <=> prCur # None
  /\ prPc \notin {"submit", "await"} => ~prTouched
  /\ prPc # "await" => prRecorded = "none" /\ \A tx \in prWire : ~tx.mine

PromoteSent == \A tx \in prWire : tx.mine => tx.node \in prCur /\ tx.settle = prSettle

PromoteVerdict ==
  prPc \in {"submit", "await"} /\ ~prTouched =>
     \A n \in prCur : PromoteExecutes(n, prSettle, RoutineCu)

PromoteWaste == prRecorded = "err" => prTouched

PromoterInv == PromoterTypeOK /\ PromoterShape /\ PromoteSent /\ PromoteVerdict /\ PromoteWaste

IInv == BookTypeOK /\ CrankerInv /\ PromoterInv

-----------------------------------------------------------------------------
(* Lemmas. *)

LEMMA OneVisit == ASSUME NEW S, NEW T, OneOf(S, T) PROVE Cardinality(S) <= 1 /\ S \subseteq T
<1>1. CASE S = {}
  <2>1. Cardinality(S) = 0
    BY <1>1, FS_EmptySet
  <2> QED
    BY <1>1, <2>1
<1>2. ASSUME NEW x \in T, S = {x} PROVE Cardinality(S) <= 1 /\ S \subseteq T
  <2>1. Cardinality(S) = 1
    BY <1>2, FS_Singleton
  <2> QED
    BY <1>2, <2>1
<1> QED
  BY <1>1, <1>2 DEF OneOf, None, Some

\* The logs of a crank say how many pairs it filled, or, cut, nothing.
LEMMA LogsAreHonest ==
  ASSUME NEW b \in BOOLEAN, NEW k, NEW i \in 0 .. Len(CrankLogs(b, k))
  PROVE  parse_match_crank_fills(SubSeq(CrankLogs(b, k), 1, i)) \in {None, Some(k)}
<1> DEFINE full == CrankLogs(b, k)
           logs == SubSeq(full, 1, i)
           hits == { j \in DOMAIN logs : logs[j].kind = "MatchCrankLog" }
           Lines == {Line("alien", 7), Line("text", 0), Line("MatchCrankLog", k)}
           at == IF b THEN 3 ELSE 2
           other == {Line("alien", 7), Line("text", 0)}
<1>1. /\ full \in Seq(Lines) /\ Len(full) \in Nat
      /\ \A j \in 1 .. Len(full) : IF j = at THEN full[j] = Line("MatchCrankLog", k) ELSE full[j] \in other
  <2> DEFINE A == Line("alien", 7)
             X == Line("text", 0)
             K == Line("MatchCrankLog", k)
  <2>1. full = IF b THEN <<A, X, K, X>> ELSE <<X, K, X>>
    BY DEF CrankLogs
  <2> HIDE DEF A, X, K, full
  <2>2. CASE b
    <3>1. full = <<A, X, K, X>>
      BY <2>1, <2>2
    <3>2. full \in Seq({A, X, K}) /\ Len(full) = 4 /\ full[1] = A /\ full[2] = X /\ full[3] = K /\ full[4] = X
      BY <3>1
    <3> QED
      BY <2>2, <3>2 DEF A, X, K
  <2>3. CASE ~b
    <3>1. full = <<X, K, X>>
      BY <2>1, <2>3
    <3>2. full \in Seq({A, X, K}) /\ Len(full) = 3 /\ full[1] = X /\ full[2] = K /\ full[3] = X
      BY <3>1
    <3> QED
      BY <2>3, <3>2 DEF A, X, K
  <2> QED
    BY <2>2, <2>3
<1>2. \A j \in 1 .. Len(full) : full[j].kind = "MatchCrankLog" => full[j].fills = k /\ j = at
  BY <1>1 DEF Line
<1> HIDE DEF full
<1>3. Len(logs) = i /\ logs \in Seq(Lines) /\ \A j \in 1 .. i : logs[j] = full[j]
  BY <1>1 DEF full
<1>4. DOMAIN logs = 1 .. i
  BY <1>3
<1> HIDE DEF logs
<1>6. CASE hits = {}
  BY <1>6 DEF parse_match_crank_fills, logs, full
<1>7. CASE hits # {}
  <2>1. PICK h \in hits : TRUE
    BY <1>7
  <2>2. \A j \in hits : j \in 1 .. Len(full) /\ full[j] = logs[j] /\ full[j].kind = "MatchCrankLog"
    BY <1>1, <1>3, <1>4 DEF full
  <2>3. hits = {h} /\ logs[h].fills = k /\ h \in Nat
    BY <1>1, <1>2, <2>1, <2>2
  <2>4. (CHOOSE x \in hits : \A j \in hits : x <= j) = h
    BY <2>3
  <2> QED
    BY <1>7, <2>3, <2>4 DEF parse_match_crank_fills, logs, full
<1> QED
  BY <1>6, <1>7
\* A set of naturals has a least member, and a bounded one a greatest.
LEMMA LeastRate ==
  ASSUME NEW T, \A t \in T : t \in Nat, T # {} PROVE \E x \in T : \A y \in T : x <= y
<1> DEFINE R == OpToRel(<, Nat)
<1>1. IsWellFoundedOn(R, Nat)
  BY NatLessThanWellFounded
<1>2. R = { s \in Nat \X Nat : s[1] < s[2] }
  BY DEF OpToRel
<1> HIDE DEF R
<1>3. PICK x \in T : \A y \in T : ~(<<y, x>> \in R)
  BY <1>1, WFMin
<1>4. ASSUME NEW y \in T PROVE x <= y
  <2>1. x \in Nat /\ y \in Nat
    OBVIOUS
  <2>2. ~(<<y, x>> \in R)
    BY <1>3
  <2>3. y < x => <<y, x>> \in R
    BY <1>2, <2>1
  <2> QED
    BY <2>1, <2>2, <2>3
<1> QED
  BY <1>4

LEMMA GreatestRate ==
  ASSUME NEW T, \A t \in T : t \in 0 .. MaxRate, T # {} PROVE \E x \in T : \A y \in T : y <= x
<1> DEFINE U == { MaxRate - x : x \in T }
<1>1. MaxRate \in Nat
  BY DEF MaxRate
<1>2. \A x \in T : x \in Int /\ MaxRate - x \in Nat
  BY <1>1
<1>3. U # {} /\ \A u \in U : u \in Nat
  BY <1>2
<1>4. PICK u \in U : \A v \in U : u <= v
  BY <1>3, LeastRate
<1>5. PICK x \in T : u = MaxRate - x
  BY <1>4
<1>6. ASSUME NEW y \in T PROVE y <= x
  <2>1. MaxRate - x <= MaxRate - y
    BY <1>4, <1>5
  <2>2. x \in Int /\ y \in Int
    BY <1>2
  <2> QED
    BY <1>1, <2>1, <2>2
<1> QED
  BY <1>6

\* market_is_rate_crossed reads two nodes of the book and decides for all of it: it
\* says yes exactly when some resting bid crosses some resting ask, so the
\* cheap gate before the simulation hides no pair that could fill.
THEOREM GateIsExact ==
  ASSUME NEW m \in Markets, book \subseteq Orders
  PROVE  market_is_rate_crossed(m) <=> Crossed(m) # {}
<1> DEFINE B == { b \in Bids \cap book : MarketOf[b] = m }
           A == { a \in Asks \cap book : MarketOf[a] = m }
<1>1. \A o \in B \cup A : Rate[o] \in 0 .. MaxRate /\ Rate[o] \in Nat
  BY BookAssumption DEF Orders
<1>2. B # {} => BestBid(m) \in B /\ \A b \in B : Rate[b] <= Rate[BestBid(m)]
  <2> HAVE B # {}
  <2> DEFINE T == { Rate[b] : b \in B }
  <2>1. T # {} /\ \A t \in T : t \in 0 .. MaxRate
    BY <1>1
  <2>2. PICK x \in T : \A y \in T : y <= x
    BY <2>1, GreatestRate
  <2>3. PICK b \in B : Rate[b] = x
    BY <2>2
  <2>4. b \in Bids \cap book /\ MarketOf[b] = m /\ \A c \in Bids \cap book : MarketOf[c] = m => Rate[c] <= Rate[b]
    BY <2>2, <2>3
  <2> QED
    BY <2>4 DEF BestBid
<1>3. A # {} => BestAsk(m) \in A /\ \A a \in A : Rate[BestAsk(m)] <= Rate[a]
  <2> HAVE A # {}
  <2> DEFINE T == { Rate[a] : a \in A }
  <2>1. T # {} /\ \A t \in T : t \in Nat
    BY <1>1
  <2>2. PICK x \in T : \A y \in T : x <= y
    BY <2>1, LeastRate
  <2>3. PICK a \in A : Rate[a] = x
    BY <2>2
  <2>4. a \in Asks \cap book /\ MarketOf[a] = m /\ \A c \in Asks \cap book : MarketOf[c] = m => Rate[c] >= Rate[a]
    <3>1. \A c \in A : Rate[a] <= Rate[c]
      BY <2>2, <2>3
    <3>2. \A c \in A : Rate[c] \in Nat /\ Rate[a] \in Nat
      BY <1>1
    <3> QED
      BY <3>1, <3>2
  <2>5. BestAsk(m) \in Asks \cap book /\ MarketOf[BestAsk(m)] = m
        /\ \A c \in Asks \cap book : MarketOf[c] = m => Rate[c] >= Rate[BestAsk(m)]
    BY <2>4 DEF BestAsk
  <2>6. \A c \in A : Rate[c] \in Nat /\ Rate[BestAsk(m)] \in Nat
    BY <1>1, <2>5
  <2> QED
    BY <2>5, <2>6
<1>4. ASSUME market_is_rate_crossed(m) PROVE Crossed(m) # {}
  <2>1. B # {} /\ A # {} /\ Rate[BestBid(m)] >= Rate[BestAsk(m)]
    BY <1>4 DEF market_is_rate_crossed
  <2>2. <<BestBid(m), BestAsk(m)>> \in Crossed(m)
    BY <1>2, <1>3, <2>1 DEF Crossed
  <2> QED
    BY <2>2
<1>5. ASSUME Crossed(m) # {} PROVE market_is_rate_crossed(m)
  <2>1. PICK b \in B, a \in A : Rate[b] >= Rate[a]
    BY <1>5 DEF Crossed
  <2>2. Rate[b] <= Rate[BestBid(m)] /\ Rate[BestAsk(m)] <= Rate[a]
    BY <1>2, <1>3
  <2>3. Rate[b] \in Nat /\ Rate[a] \in Nat /\ Rate[BestBid(m)] \in Nat /\ Rate[BestAsk(m)] \in Nat
    BY <1>1, <1>2, <1>3
  <2>4. Rate[BestBid(m)] >= Rate[BestAsk(m)]
    BY <2>1, <2>2, <2>3
  <2> QED
    BY <2>4 DEF market_is_rate_crossed
<1> QED
  BY <1>4, <1>5
-----------------------------------------------------------------------------
(* The match cranker. *)

\* What a handler sees of the book.
LEMMA FillableDepends ==
  ASSUME UNCHANGED <<book, blocked>> PROVE \A m : Fillable(m)' = Fillable(m)
  BY DEF Fillable, Crossed

\* A request that fails moves nothing but the count of passing failures.
LEMMA FaultKeeps ==
  ASSUME BookTypeOK, NEW x, Fault(x)
  PROVE  BookTypeOK' /\ UNCHANGED <<book, blocked, node, ripe, fresh>>
  BY BookAssumption DEF BookTypeOK, Fault, Disturb

\* A draw on the vault only takes away.
LEMMA DrawKeeps ==
  ASSUME ripe \subseteq Nodes, blocked \subseteq Orders, NEW d, Draw(d)
  PROVE  ripe' \subseteq Nodes /\ blocked' \subseteq Orders
  BY DEF Draw, Orders

LEMMA UnmarkedCranks ==
  ASSUME mcWire \subseteq CrankTxs, mcWire' = { [tx EXCEPT !.mine = FALSE] : tx \in mcWire }
  PROVE  mcWire' \subseteq CrankTxs /\ \A tx \in mcWire' : ~tx.mine
  BY DEF CrankTxs

\* Leaving a market, for whatever reason, keeps the cranker's invariant.
LEMMA McLeaveKeeps ==
  ASSUME CrankerInv, NEW m \in Markets, mcCur = Some(m), McLeave(m), mcTodo' = mcTodo
  PROVE  CrankerInv'
<1> USE DEF CrankerInv
<1>1. mcWire' \subseteq CrankTxs /\ \A tx \in mcWire' : ~tx.mine
  BY UnmarkedCranks DEF McLeave, CrankerTypeOK
<1>2. /\ mcCur' = None /\ mcInflight' = {} /\ mcPc' = "markets" /\ mcBundle' = FALSE
      /\ mcRecorded' = "none" /\ mcCut' = FALSE /\ mcTouched' = FALSE
  BY DEF McLeave, CrankerShape, Some
<1>3. CrankerShape'
  BY <1>1, <1>2 DEF CrankerShape, OneOf, None
<1>4. CrankerTypeOK'
  BY <1>1, <1>2, OneVisit, mcTodo' = mcTodo DEF CrankerTypeOK, OneOf, None
<1> QED
  BY <1>1, <1>2, <1>3, <1>4 DEF CrankSent, CrankVerdict, CrankWaste

\* A step of the tick or of a visit that sends nothing and moves nothing on chain.
LEMMA McMoveKeeps ==
  ASSUME CrankerInv, McSame, mcTodo' \subseteq Markets, OneOf(mcCur', Markets), mcInflight' = mcCur',
         mcPc \notin {"submit", "await"}, mcPc' \in {"idle", "markets", "banks", "sim"},
         mcPc' \in {"banks", "sim"} <=> mcCur' # None, mcBundle' \in BOOLEAN
  PROVE  CrankerInv'
<1> USE DEF CrankerInv
<1>1. CrankerShape'
  BY DEF CrankerShape, McSame
<1>2. CrankerTypeOK'
  BY OneVisit DEF CrankerTypeOK, McSame
<1>3. CrankSent'
  BY DEF CrankSent, CrankerShape, McSame
<1> QED
  BY <1>1, <1>2, <1>3 DEF CrankVerdict, CrankWaste, CrankerShape, McSame

\* The gate lets through a crank that fills something, or one whose logs were cut.
LEMMA McSimulateKeeps ==
  ASSUME CrankerInv, NEW m \in Markets, McSimulate(m) PROVE CrankerInv'
<1> USE DEF CrankerInv
<1>1. mcPc = "sim" /\ mcCur = Some(m) /\ UNCHANGED <<mcTodo, bookVars>>
  BY DEF McSimulate
<1>2. CASE McLeave(m)
  BY <1>1, <1>2, McLeaveKeeps
<1>3. CASE ~McLeave(m)
  <2>1. CrankExecutes(m, mcBundle, SimV0Cu(mcBundle))
    BY <1>3 DEF McSimulate
  <2>2. PICK F \in Fills(m) : \E i \in 0 .. Len(CrankLogs(mcBundle, Cardinality(F))) :
             LET fills == parse_match_crank_fills(SubSeq(CrankLogs(mcBundle, Cardinality(F)), 1, i))
             IN  /\ fills # Some(0) /\ mcPc' = "submit" /\ mcCut' = (fills = None)
                 /\ UNCHANGED <<mcCur, mcInflight, mcBundle, mcWire, mcRecorded, mcTouched>>
    BY <1>3, <2>1 DEF McSimulate
  <2> DEFINE k == Cardinality(F)
  <2>3. PICK i \in 0 .. Len(CrankLogs(mcBundle, k)) :
             LET fills == parse_match_crank_fills(SubSeq(CrankLogs(mcBundle, k), 1, i))
             IN  /\ fills # Some(0) /\ mcPc' = "submit" /\ mcCut' = (fills = None)
                 /\ UNCHANGED <<mcCur, mcInflight, mcBundle, mcWire, mcRecorded, mcTouched>>
    BY <2>2
  <2> DEFINE fills == parse_match_crank_fills(SubSeq(CrankLogs(mcBundle, k), 1, i))
  <2>4. fills \in {None, Some(k)}
    BY LogsAreHonest DEF CrankerTypeOK
  <2>5. /\ fills # Some(0) /\ mcPc' = "submit" /\ mcCut' = (fills = None)
        /\ UNCHANGED <<mcCur, mcInflight, mcBundle, mcWire, mcRecorded, mcTouched>>
    BY <2>3
  <2> HIDE DEF fills
  <2>6. ~mcCut' => F # {}
    <3>1. F = {} => k = 0
      BY FS_EmptySet
    <3> QED
      BY <2>4, <2>5, <3>1
  <2>7. F \subseteq Fillable(m)
    BY DEF Fills
  <2>8. CrankExecutes(m, mcBundle, V0Cu)
    <3>1. SimV0Cu(mcBundle) <= V0Cu /\ SimV0Cu(mcBundle) \in Nat
      BY BookAssumption DEF SimV0Cu
    <3> QED
      BY <2>1, <3>1, BookAssumption DEF CrankExecutes
  <2>9. CrankVerdict'
    <3>1. CrankExecutes(m, mcBundle, V0Cu)' /\ (mcCut' \/ Fillable(m)' # {})
      BY <1>1, <2>5, <2>6, <2>7, <2>8, FillableDepends DEF CrankExecutes, bookVars
    <3>2. mcCur' = {m}
      BY <1>1, <2>5 DEF Some
    <3> QED
      BY <3>1, <3>2 DEF CrankVerdict
  <2>10. CrankerTypeOK'
    BY <1>1, <2>5 DEF CrankerTypeOK
  <2>11. CrankerShape'
    BY <1>1, <2>5 DEF CrankerShape, OneOf
  <2> QED
    BY <1>1, <2>5, <2>9, <2>10, <2>11 DEF CrankSent, CrankWaste, CrankerShape
<1> QED
  BY <1>2, <1>3

LEMMA McSubmitKeeps ==
  ASSUME CrankerInv, NEW m \in Markets, McSubmit(m) PROVE CrankerInv'
<1> USE DEF CrankerInv
<1>1. PICK k \in 1 .. Copies :
          mcWire' = mcWire \cup { [market |-> m, bundle |-> mcBundle, copy |-> i, mine |-> TRUE] : i \in 1 .. k }
  BY DEF McSubmit
<1>2. /\ mcPc = "submit" /\ mcCur = {m} /\ mcPc' = "await"
      /\ UNCHANGED <<mcTodo, mcCur, mcInflight, mcBundle, mcRecorded, mcCut, mcTouched, bookVars>>
  BY DEF McSubmit, Some
<1>3. \A i \in 1 .. k : [market |-> m, bundle |-> mcBundle, copy |-> i, mine |-> TRUE] \in CrankTxs
  BY BookAssumption DEF CrankTxs, CrankerTypeOK
<1>4. mcWire' \subseteq CrankTxs
  BY <1>1, <1>3 DEF CrankerTypeOK
<1>5. CrankerTypeOK'
  BY <1>2, <1>4 DEF CrankerTypeOK
<1>6. CrankerShape'
  BY <1>2 DEF CrankerShape, OneOf
<1>7. CrankSent'
  BY <1>1, <1>2 DEF CrankSent
<1>8. CrankVerdict'
  BY <1>2, FillableDepends DEF CrankVerdict, CrankExecutes, bookVars
<1> QED
  BY <1>2, <1>5, <1>6, <1>7, <1>8 DEF CrankWaste

\* A crank that lands: empty or failed only if the verdict no longer stood.
LEMMA McLandKeeps ==
  ASSUME BookTypeOK, CrankerInv, NEW tx \in mcWire, McLand(tx) PROVE BookTypeOK' /\ CrankerInv'
<1> USE DEF CrankerInv
<1>1. /\ tx \in CrankTxs /\ tx.market \in Markets /\ mcWire' = mcWire \ {tx}
      /\ UNCHANGED <<moves, mcPc, mcTodo, mcCur, mcInflight, mcBundle, mcCut>>
  BY DEF McLand, CrankerTypeOK, CrankTxs
<1>2. tx.mine => mcPc = "await" /\ tx.market \in mcCur /\ tx.bundle = mcBundle
  BY DEF CrankerShape, CrankSent
<1>3. CASE CrankExecutes(tx.market, tx.bundle, V0Cu)
  <2>1. PICK F \in Fills(tx.market) :
            /\ book' = book \ UNION { {p[1], p[2]} : p \in F }
            /\ node' = [n \in Nodes |-> IF \E p \in F : p[2] = n THEN "pending" ELSE node[n]]
            /\ fresh' = IF tx.bundle THEN fresh \cup {tx.market} ELSE fresh
            /\ Draw(\E p \in F : p[2] \in VaultNodes)
            /\ mcRecorded' = IF tx.mine /\ mcRecorded = "none"
                               THEN IF F = {} THEN "empty" ELSE "filled" ELSE mcRecorded
            /\ mcTouched' = (mcTouched \/ (mcPc \in {"submit", "await"} /\ F # {}))
    BY <1>3 DEF McLand, McRecord
  <2>2. book' \subseteq book /\ node' \in [Nodes -> {"none", "pending", "loan"}] /\ fresh' \subseteq Markets
    BY <1>1, <2>1 DEF BookTypeOK
  <2>3. BookTypeOK'
    BY <1>1, <2>1, <2>2, DrawKeeps DEF BookTypeOK
  <2>4. CrankerTypeOK'
    BY <1>1, <2>1 DEF CrankerTypeOK
  <2>5. CrankerShape'
    BY <1>1, <1>2, <2>1 DEF CrankerShape, OneOf
  <2>6. CrankSent'
    BY <1>1 DEF CrankSent
  <2>7. F = {} => UNCHANGED <<book, blocked>>
    BY <1>1, <2>1 DEF Draw
  <2>8. fresh \subseteq fresh'
    BY <2>1
  <2>9. CrankVerdict'
    BY <1>1, <2>1, <2>7, <2>8, FillableDepends DEF CrankVerdict, CrankExecutes
  <2>10. F = {} => Fillable(tx.market) = {}
    BY DEF Fills
  <2>11. CrankWaste'
    BY <1>1, <1>2, <2>1, <2>10 DEF CrankWaste, CrankVerdict
  <2> QED
    BY <2>3, <2>4, <2>5, <2>6, <2>9, <2>11
<1>4. CASE ~CrankExecutes(tx.market, tx.bundle, V0Cu)
  <2>1. mcRecorded' = (IF tx.mine /\ mcRecorded = "none" THEN "err" ELSE mcRecorded)
        /\ UNCHANGED <<book, blocked, node, ripe, fresh, mcTouched>>
    BY <1>4 DEF McLand, McRecord
  <2>2. tx.mine => mcTouched
    BY <1>2, <1>4 DEF CrankVerdict
  <2>3. BookTypeOK'
    BY <1>1, <2>1 DEF BookTypeOK
  <2>4. CrankerTypeOK'
    BY <1>1, <2>1 DEF CrankerTypeOK
  <2>5. CrankerShape'
    BY <1>1, <1>2, <2>1 DEF CrankerShape, OneOf
  <2>6. CrankSent' /\ CrankWaste'
    BY <1>1, <2>1, <2>2 DEF CrankSent, CrankWaste
  <2>7. CrankVerdict'
    BY <1>1, <2>1, FillableDepends DEF CrankVerdict, CrankExecutes
  <2> QED
    BY <2>3, <2>4, <2>5, <2>6, <2>7
<1> QED
  BY <1>3, <1>4

\* Every step of the cranker and of its transactions.
LEMMA CrankerKeeps ==
  ASSUME BookTypeOK, CrankerInv, CrankerNext PROVE BookTypeOK' /\ CrankerInv'
<1> USE DEF CrankerInv
<1>0. UNCHANGED bookVars => BookTypeOK'
  BY DEF BookTypeOK, bookVars
<1>1. CASE McStartTick \/ McEndTick
  <2>1. mcTodo' \subseteq Markets
    BY <1>1 DEF McStartTick, McEndTick, CrankerTypeOK
  <2> QED
    BY <1>0, <1>1, <2>1, McMoveKeeps DEF McStartTick, McEndTick, CrankerTypeOK, CrankerShape
<1>2. ASSUME NEW m \in Markets, McScan(m) PROVE BookTypeOK' /\ CrankerInv'
  <2>1. mcCur = None /\ mcInflight = {} /\ mcPc = "markets"
    BY <1>2 DEF McScan, CrankerShape, None
  <2>2. /\ mcTodo' \subseteq Markets /\ McSame /\ UNCHANGED <<mcBundle, bookVars>>
        /\ \/ mcPc' = "banks" /\ mcCur' = Some(m) /\ mcInflight' = mcInflight \cup {m}
           \/ UNCHANGED <<mcPc, mcCur, mcInflight>>
    BY <1>2 DEF McScan, CrankerTypeOK
  <2>3. mcInflight' = mcCur' /\ OneOf(mcCur', Markets) /\ (mcPc' \in {"banks", "sim"} <=> mcCur' # None)
    BY <2>1, <2>2 DEF OneOf, Some, None
  <2> QED
    BY <1>0, <2>1, <2>2, <2>3, McMoveKeeps DEF CrankerTypeOK
<1>3. ASSUME NEW m \in Markets, McBanks(m) PROVE BookTypeOK' /\ CrankerInv'
  <2>1. CASE McLeave(m)
    BY <1>0, <1>3, <2>1, McLeaveKeeps DEF McBanks
  <2>2. CASE ~McLeave(m)
    <3>1. /\ mcPc = "banks" /\ mcPc' = "sim" /\ mcBundle' = (m \in Switchboard /\ HasCranker)
          /\ McSame /\ UNCHANGED <<mcCur, mcInflight, mcTodo, bookVars>> /\ mcCur = Some(m)
      BY <1>3, <2>2 DEF McBanks
    <3>2. mcBundle' \in BOOLEAN
      BY <3>1, BookAssumption
    <3> QED
      BY <1>0, <3>1, <3>2, McMoveKeeps DEF CrankerTypeOK, CrankerShape, Some, None
  <2> QED
    BY <2>1, <2>2
<1>4. ASSUME NEW m \in Markets, McSimulate(m) PROVE BookTypeOK' /\ CrankerInv'
  BY <1>0, <1>4, McSimulateKeeps DEF McSimulate
<1>5. ASSUME NEW m \in Markets, McSubmit(m) PROVE BookTypeOK' /\ CrankerInv'
  BY <1>0, <1>5, McSubmitKeeps DEF McSubmit
<1>6. ASSUME NEW m \in Markets, McAnswered(m) PROVE BookTypeOK' /\ CrankerInv'
  BY <1>0, <1>6, McLeaveKeeps DEF McAnswered
<1>7. ASSUME NEW m \in Markets, McScanFails(m) PROVE BookTypeOK' /\ CrankerInv'
  BY <1>7, FaultKeeps, McMoveKeeps DEF McScanFails, CrankerTypeOK, CrankerShape
<1>8. ASSUME NEW m \in Markets, McGatewayFails(m) PROVE BookTypeOK' /\ CrankerInv'
  BY <1>8, FaultKeeps, McMoveKeeps DEF McGatewayFails, CrankerTypeOK, CrankerShape, Some, None
<1>9. ASSUME NEW m \in Markets, McSimFails(m) \/ McSendFails(m) PROVE BookTypeOK' /\ CrankerInv'
  BY <1>9, FaultKeeps, McLeaveKeeps DEF McSimFails, McSendFails
<1>10. ASSUME NEW tx \in mcWire, McLand(tx) PROVE BookTypeOK' /\ CrankerInv'
  BY <1>10, McLandKeeps
<1>11. ASSUME NEW tx \in mcWire, McDrop(tx) PROVE BookTypeOK' /\ CrankerInv'
  <2>1. mcWire' \subseteq mcWire
        /\ UNCHANGED <<bookVars, mcPc, mcTodo, mcCur, mcInflight, mcBundle, mcRecorded, mcCut, mcTouched>>
    BY <1>11 DEF McDrop
  <2>2. CrankerTypeOK' /\ CrankSent' /\ CrankWaste'
    BY <2>1 DEF CrankerTypeOK, CrankSent, CrankWaste
  <2>3. CrankerShape'
    BY <2>1 DEF CrankerShape, OneOf
  <2>4. CrankVerdict'
    BY <2>1, FillableDepends DEF CrankVerdict, CrankExecutes, bookVars
  <2> QED
    BY <1>0, <2>1, <2>2, <2>3, <2>4
<1> QED
  BY <1>1, <1>2, <1>3, <1>4, <1>5, <1>6, <1>7, <1>8, <1>9, <1>10, <1>11
  DEF CrankerNext, McTick, McFaults
-----------------------------------------------------------------------------
(* The promoter. *)

LEMMA UnmarkedPromotions ==
  ASSUME prWire \subseteq PromoteTxs, prWire' = { [tx EXCEPT !.mine = FALSE] : tx \in prWire }
  PROVE  prWire' \subseteq PromoteTxs /\ \A tx \in prWire' : ~tx.mine
  BY DEF PromoteTxs

\* Leaving a node, for whatever reason, keeps the promoter's invariant.
LEMMA PrLeaveKeeps ==
  ASSUME PromoterInv, NEW n \in Nodes, prCur = Some(n), PrLeave(n), UNCHANGED <<prTodo, prEntries>>
  PROVE  PromoterInv'
<1> USE DEF PromoterInv
<1>1. prWire' \subseteq PromoteTxs /\ \A tx \in prWire' : ~tx.mine
  BY UnmarkedPromotions DEF PrLeave, PromoterTypeOK
<1>2. /\ prCur' = None /\ prInflight' = {} /\ prPc' = "entries" /\ prSettle' = FALSE
      /\ prRecorded' = "none" /\ prTouched' = FALSE
  BY DEF PrLeave, PromoterShape, Some
<1>3. PromoterShape'
  BY <1>1, <1>2 DEF PromoterShape, OneOf, None
<1>4. UNCHANGED <<prTodo, prEntries>>
  OBVIOUS
<1>5. PromoterTypeOK'
  BY <1>1, <1>2, <1>4, OneVisit DEF PromoterTypeOK, OneOf, None
<1> QED
  BY <1>1, <1>2, <1>3, <1>5 DEF PromoteSent, PromoteVerdict, PromoteWaste

\* A step of the tick or of a visit that sends nothing and moves nothing on chain.
LEMMA PrMoveKeeps ==
  ASSUME PromoterInv, PrSame, prTodo' \subseteq Markets, prEntries' \subseteq Nodes,
         OneOf(prCur', Nodes), prInflight' = prCur',
         prPc \notin {"submit", "await"}, prPc' \in {"idle", "markets", "entries", "assemble", "sim"},
         prPc' \in {"assemble", "sim"} <=> prCur' # None, prSettle' \in BOOLEAN
  PROVE  PromoterInv'
<1> USE DEF PromoterInv
<1>1. PromoterShape'
  BY DEF PromoterShape, PrSame
<1>2. PromoterTypeOK'
  BY OneVisit DEF PromoterTypeOK, PrSame
<1>3. PromoteSent'
  BY DEF PromoteSent, PromoterShape, PrSame
<1> QED
  BY <1>1, <1>2, <1>3 DEF PromoteVerdict, PromoteWaste, PromoterShape, PrSame

\* What decides about a promotion.
LEMMA PromotionDepends ==
  ASSUME UNCHANGED <<node, ripe, fresh>>
  PROVE  \A n, s, cu : PromoteExecutes(n, s, cu)' = PromoteExecutes(n, s, cu)
  BY DEF PromoteExecutes, NeedsSettle

\* The simulation runs under the limit of the send.
LEMMA PrSimulateKeeps ==
  ASSUME PromoterInv, NEW n \in Nodes, PrSimulate(n) PROVE PromoterInv'
<1> USE DEF PromoterInv
<1>1. prPc = "sim" /\ prCur = Some(n) /\ UNCHANGED <<prTodo, prEntries, bookVars>>
  BY DEF PrSimulate
<1>2. CASE PrLeave(n)
  BY <1>1, <1>2, PrLeaveKeeps
<1>3. CASE ~PrLeave(n)
  <2>1. /\ PromoteExecutes(n, prSettle, RoutineCu) /\ prPc' = "submit"
        /\ UNCHANGED <<prWire, prRecorded, prTouched, prCur, prInflight, prSettle>>
    BY <1>3 DEF PrSimulate, SimulateCu, PrSame
  <2>2. PromoteVerdict'
    BY <1>1, <2>1, PromotionDepends DEF PromoteVerdict, bookVars, Some
  <2>3. PromoterTypeOK'
    BY <1>1, <2>1 DEF PromoterTypeOK
  <2>4. PromoterShape'
    BY <1>1, <2>1 DEF PromoterShape, OneOf
  <2> QED
    BY <1>1, <2>1, <2>2, <2>3, <2>4 DEF PromoteSent, PromoteWaste, PromoterShape
<1> QED
  BY <1>2, <1>3

LEMMA PrSubmitKeeps ==
  ASSUME PromoterInv, NEW n \in Nodes, PrSubmit(n) PROVE PromoterInv'
<1> USE DEF PromoterInv
<1>1. PICK k \in 1 .. Copies :
          prWire' = prWire \cup { [node |-> n, settle |-> prSettle, copy |-> i, mine |-> TRUE] : i \in 1 .. k }
  BY DEF PrSubmit
<1>2. /\ prPc = "submit" /\ prCur = {n} /\ prPc' = "await"
      /\ UNCHANGED <<prTodo, prEntries, prCur, prInflight, prSettle, prRecorded, prTouched, bookVars>>
  BY DEF PrSubmit, Some
<1>3. \A i \in 1 .. k : [node |-> n, settle |-> prSettle, copy |-> i, mine |-> TRUE] \in PromoteTxs
  BY BookAssumption DEF PromoteTxs, PromoterTypeOK
<1>4. prWire' \subseteq PromoteTxs
  BY <1>1, <1>3 DEF PromoterTypeOK
<1>5. PromoterTypeOK'
  BY <1>2, <1>4 DEF PromoterTypeOK
<1>6. PromoterShape'
  BY <1>2 DEF PromoterShape, OneOf
<1>7. PromoteSent'
  BY <1>1, <1>2 DEF PromoteSent
<1>8. PromoteVerdict'
  BY <1>2, PromotionDepends DEF PromoteVerdict, bookVars
<1> QED
  BY <1>2, <1>5, <1>6, <1>7, <1>8 DEF PromoteWaste

LEMMA PrLandKeeps ==
  ASSUME BookTypeOK, PromoterInv, NEW tx \in prWire, PrLand(tx) PROVE BookTypeOK' /\ PromoterInv'
<1> USE DEF PromoterInv
<1>1. /\ tx \in PromoteTxs /\ tx.node \in Nodes /\ prWire' = prWire \ {tx}
      /\ UNCHANGED <<book, fresh, moves, prPc, prTodo, prEntries, prCur, prInflight, prSettle>>
  BY DEF PrLand, PromoterTypeOK, PromoteTxs
<1>2. tx.mine => prPc = "await" /\ tx.node \in prCur /\ tx.settle = prSettle
  BY DEF PromoterShape, PromoteSent
<1>3. CASE PromoteExecutes(tx.node, tx.settle, RoutineCu)
  <2>1. /\ node' = [node EXCEPT ![tx.node] = "loan"] /\ Draw(tx.settle)
        /\ prRecorded' = IF tx.mine /\ prRecorded = "none" THEN "ok" ELSE prRecorded
        /\ prTouched' = (prTouched \/ prPc \in {"submit", "await"})
    BY <1>3 DEF PrLand, PrRecord
  <2>2. BookTypeOK'
    BY <1>1, <2>1, DrawKeeps DEF BookTypeOK
  <2>3. PromoterTypeOK'
    BY <1>1, <2>1 DEF PromoterTypeOK
  <2>4. PromoterShape'
    BY <1>1, <1>2, <2>1 DEF PromoterShape, OneOf
  <2> QED
    BY <1>1, <2>1, <2>2, <2>3, <2>4 DEF PromoteSent, PromoteVerdict, PromoteWaste
<1>4. CASE ~PromoteExecutes(tx.node, tx.settle, RoutineCu)
  <2>1. prRecorded' = (IF tx.mine /\ prRecorded = "none" THEN "err" ELSE prRecorded)
        /\ UNCHANGED <<blocked, node, ripe, prTouched>>
    BY <1>4 DEF PrLand, PrRecord
  <2>2. tx.mine => prTouched
    BY <1>2, <1>4 DEF PromoteVerdict
  <2>3. BookTypeOK'
    BY <1>1, <2>1 DEF BookTypeOK
  <2>4. PromoterTypeOK'
    BY <1>1, <2>1 DEF PromoterTypeOK
  <2>5. PromoterShape'
    BY <1>1, <1>2, <2>1 DEF PromoterShape, OneOf
  <2>6. PromoteSent' /\ PromoteWaste'
    BY <1>1, <2>1, <2>2 DEF PromoteSent, PromoteWaste
  <2>7. PromoteVerdict'
    BY <1>1, <2>1, PromotionDepends DEF PromoteVerdict
  <2> QED
    BY <2>3, <2>4, <2>5, <2>6, <2>7
<1> QED
  BY <1>3, <1>4

\* Every step of the promoter and of its transactions.
LEMMA PromoterKeeps ==
  ASSUME BookTypeOK, PromoterInv, PromoterNext PROVE BookTypeOK' /\ PromoterInv'
<1> USE DEF PromoterInv
<1>0. UNCHANGED bookVars => BookTypeOK'
  BY DEF BookTypeOK, bookVars
<1>1. CASE PrStartTick \/ PrEndTick \/ PrEndMarket
  <2>1. prTodo' \subseteq Markets
    BY <1>1 DEF PrStartTick, PrEndTick, PrEndMarket, PromoterTypeOK
  <2> QED
    BY <1>0, <1>1, <2>1, PrMoveKeeps DEF PrStartTick, PrEndTick, PrEndMarket, PromoterTypeOK, PromoterShape
<1>2. ASSUME NEW m \in Markets, PrRead(m) PROVE BookTypeOK' /\ PromoterInv'
  BY <1>0, <1>2, PrMoveKeeps DEF PrRead, PromoterTypeOK, PromoterShape
<1>3. ASSUME NEW n \in Nodes, PrVisit(n) PROVE BookTypeOK' /\ PromoterInv'
  <2>1. prCur = None /\ prInflight = {} /\ prPc = "entries"
    BY <1>3 DEF PrVisit, PromoterShape, None
  <2>2. /\ prEntries' \subseteq Nodes /\ PrSame /\ UNCHANGED <<prTodo, prSettle, bookVars>>
        /\ prPc' = "assemble" /\ prCur' = Some(n) /\ prInflight' = {n}
    BY <1>3, <2>1 DEF PrVisit, PromoterTypeOK
  <2>3. prInflight' = prCur' /\ OneOf(prCur', Nodes) /\ prCur' # None
    BY <2>2 DEF OneOf, Some, None
  <2> QED
    BY <1>0, <2>1, <2>2, <2>3, PrMoveKeeps DEF PromoterTypeOK
<1>4. ASSUME NEW n \in Nodes, PrAssemble(n) PROVE BookTypeOK' /\ PromoterInv'
  <2>1. CASE PrLeave(n)
    BY <1>0, <1>4, <2>1, PrLeaveKeeps DEF PrAssemble
  <2>2. CASE ~PrLeave(n)
    <3>1. /\ prPc = "assemble" /\ prPc' = "sim" /\ prSettle' \in BOOLEAN
          /\ PrSame /\ UNCHANGED <<prCur, prInflight, prTodo, prEntries, bookVars>> /\ prCur = Some(n)
      BY <1>4, <2>2 DEF PrAssemble
    <3> QED
      BY <1>0, <3>1, PrMoveKeeps DEF PromoterTypeOK, PromoterShape, Some, None
  <2> QED
    BY <2>1, <2>2
<1>5. ASSUME NEW n \in Nodes, PrSimulate(n) PROVE BookTypeOK' /\ PromoterInv'
  BY <1>0, <1>5, PrSimulateKeeps DEF PrSimulate
<1>6. ASSUME NEW n \in Nodes, PrSubmit(n) PROVE BookTypeOK' /\ PromoterInv'
  BY <1>0, <1>6, PrSubmitKeeps DEF PrSubmit
<1>7. ASSUME NEW n \in Nodes, PrAnswered(n) PROVE BookTypeOK' /\ PromoterInv'
  BY <1>0, <1>7, PrLeaveKeeps DEF PrAnswered
<1>8. ASSUME NEW m \in Markets, PrReadFails(m) PROVE BookTypeOK' /\ PromoterInv'
  BY <1>8, FaultKeeps, PrMoveKeeps DEF PrReadFails, PromoterTypeOK, PromoterShape
<1>9. ASSUME NEW n \in Nodes, PrRequestFails(n) \/ PrSendFails(n) PROVE BookTypeOK' /\ PromoterInv'
  BY <1>9, FaultKeeps, PrLeaveKeeps DEF PrRequestFails, PrSendFails
<1>10. ASSUME NEW tx \in prWire, PrLand(tx) PROVE BookTypeOK' /\ PromoterInv'
  BY <1>10, PrLandKeeps
<1>11. ASSUME NEW tx \in prWire, PrDrop(tx) PROVE BookTypeOK' /\ PromoterInv'
  <2>1. prWire' \subseteq prWire
        /\ UNCHANGED <<bookVars, prPc, prTodo, prEntries, prCur, prInflight, prSettle, prRecorded, prTouched>>
    BY <1>11 DEF PrDrop
  <2>2. PromoterTypeOK' /\ PromoteSent' /\ PromoteWaste'
    BY <2>1 DEF PromoterTypeOK, PromoteSent, PromoteWaste
  <2>3. PromoterShape'
    BY <2>1 DEF PromoterShape, OneOf
  <2>4. PromoteVerdict'
    BY <2>1, PromotionDepends DEF PromoteVerdict, bookVars
  <2> QED
    BY <1>0, <2>1, <2>2, <2>3, <2>4
<1> QED
  BY <1>1, <1>2, <1>3, <1>4, <1>5, <1>6, <1>7, <1>8, <1>9, <1>10, <1>11
  DEF PromoterNext, PrTick, PrFaults
-----------------------------------------------------------------------------
(* Both over one chain. *)

\* The cranker's transactions only add nodes and freshen feeds: what the promoter
\* has simulated stays executable unless they draw on the vault.
LEMMA CrankerSparesPromoter ==
  ASSUME BookTypeOK, CrankerInv, PromoterInv, CrankerNext, PromoterBeside PROVE PromoterInv'
<1>1. /\ fresh \subseteq fresh'
      /\ \A n \in Nodes : node[n] = "pending" => node'[n] = "pending"
  <2>1. CASE UNCHANGED <<book, blocked, node, ripe, fresh>>
    BY <2>1
  <2>2. ASSUME NEW tx \in mcWire, McLand(tx)
        PROVE  /\ fresh \subseteq fresh'
               /\ \A n \in Nodes : node[n] = "pending" => node'[n] = "pending"
    BY <2>2 DEF McLand, BookTypeOK
  <2>3. CASE McTick
    BY <2>1, <2>3 DEF McTick, McStartTick, McEndTick, McScan, McBanks, McSimulate, McSubmit, McAnswered, bookVars
  <2>4. CASE McFaults
    BY <2>1, <2>4 DEF McFaults, McScanFails, McGatewayFails, McSimFails, McSendFails, Fault
  <2>5. ASSUME NEW tx \in mcWire, McDrop(tx) PROVE UNCHANGED <<book, blocked, node, ripe, fresh>>
    BY <2>5 DEF McDrop, bookVars
  <2> QED
    BY <2>1, <2>2, <2>3, <2>4, <2>5 DEF CrankerNext
<1>2. /\ UNCHANGED <<prPc, prTodo, prEntries, prCur, prInflight, prSettle, prWire, prRecorded>>
      /\ prTouched' \in BOOLEAN /\ (prTouched => prTouched')
      /\ prTouched' => prTouched \/ prPc \in {"submit", "await"}
      /\ prPc \in {"submit", "await"} /\ ~prTouched' => ripe' = ripe
  BY DEF PromoterBeside, Drawn, PromoterInv, PromoterTypeOK
<1>3. ripe' = ripe =>
        \A n \in Nodes : PromoteExecutes(n, prSettle, RoutineCu) => PromoteExecutes(n, prSettle, RoutineCu)'
  BY <1>1, <1>2 DEF PromoteExecutes, NeedsSettle
<1>4. PromoteVerdict'
  BY <1>2, <1>3 DEF PromoterInv, PromoterTypeOK, PromoteVerdict
<1>5. PromoterTypeOK'
  BY <1>2 DEF PromoterInv, PromoterTypeOK
<1>6. PromoterShape'
  BY <1>2 DEF PromoterInv, PromoterShape, OneOf
<1> QED
  BY <1>2, <1>4, <1>5, <1>6 DEF PromoterInv, PromoteSent, PromoteWaste

\* The promoter's transactions touch neither orders nor prices: what the cranker
\* has simulated stays fillable unless they draw on the vault.
LEMMA PromoterSparesCranker ==
  ASSUME BookTypeOK, CrankerInv, PromoterNext, CrankerBeside PROVE CrankerInv'
<1>1. UNCHANGED <<book, fresh>>
  <2>1. CASE PrTick
    BY <2>1 DEF PrTick, PrStartTick, PrEndTick, PrEndMarket, PrRead, PrVisit, PrAssemble, PrSimulate,
                PrSubmit, PrAnswered, bookVars
  <2>2. CASE PrFaults
    BY <2>2 DEF PrFaults, PrReadFails, PrRequestFails, PrSendFails, Fault
  <2>3. ASSUME NEW tx \in prWire, PrLand(tx) \/ PrDrop(tx) PROVE UNCHANGED <<book, fresh>>
    BY <2>3 DEF PrLand, PrDrop, bookVars
  <2> QED
    BY <2>1, <2>2, <2>3 DEF PromoterNext
<1>2. /\ UNCHANGED <<mcPc, mcTodo, mcCur, mcInflight, mcBundle, mcWire, mcRecorded, mcCut>>
      /\ mcTouched' \in BOOLEAN /\ (mcTouched => mcTouched')
      /\ mcTouched' => mcTouched \/ mcPc \in {"submit", "await"}
      /\ mcPc \in {"submit", "await"} /\ ~mcTouched' => blocked' = blocked
  BY DEF CrankerBeside, Drawn, CrankerInv, CrankerTypeOK
<1>3. CrankVerdict'
  BY <1>1, <1>2, FillableDepends DEF CrankerInv, CrankVerdict, CrankExecutes
<1>4. CrankerTypeOK'
  BY <1>2 DEF CrankerInv, CrankerTypeOK
<1>5. CrankerShape'
  BY <1>2 DEF CrankerInv, CrankerShape, OneOf
<1> QED
  BY <1>2, <1>3, <1>4, <1>5 DEF CrankerInv, CrankSent, CrankWaste

\* Everybody else's moves are marked.
LEMMA WorldKeeps == ASSUME IInv, WorldMoves PROVE IInv'
<1> USE DEF IInv
<1>1. BookTypeOK'
  <2>1. BookMoves
    BY DEF WorldMoves
  <2>2. \A o \in Orders : OrderFlow(o) \/ GateFlips(o) => BookTypeOK'
    BY BookAssumption DEF OrderFlow, GateFlips, Disturb, Toggle, BookTypeOK
  <2>3. \A n \in Nodes : FundingMoves(n) => BookTypeOK'
    BY BookAssumption DEF FundingMoves, Disturb, Toggle, BookTypeOK
  <2>4. \A n \in Nodes : NodeMoves(n) => BookTypeOK'
    BY BookAssumption DEF NodeMoves, Disturb, BookTypeOK
  <2>5. \A m \in Markets : FeedMoves(m) => BookTypeOK'
    BY BookAssumption DEF FeedMoves, Disturb, Toggle, BookTypeOK
  <2> QED
    BY <2>1, <2>2, <2>3, <2>4, <2>5 DEF BookMoves
<1>2. CrankerInv'
  <2>1. /\ mcTouched' = (mcPc \in {"submit", "await"})
        /\ UNCHANGED <<mcPc, mcTodo, mcCur, mcInflight, mcBundle, mcWire, mcRecorded, mcCut>>
    BY DEF WorldMoves
  <2>2. CrankerTypeOK' /\ CrankSent' /\ CrankVerdict'
    <3>1. mcTouched' \in BOOLEAN
      BY <2>1
    <3>2. CrankerTypeOK'
      BY <2>1, <3>1 DEF CrankerInv, CrankerTypeOK
    <3>3. CrankSent' /\ CrankVerdict'
      BY <2>1 DEF CrankerInv, CrankSent, CrankVerdict
    <3> QED
      BY <3>2, <3>3
  <2>3. CrankerShape' /\ CrankWaste'
    BY <2>1 DEF CrankerInv, CrankerShape, OneOf, CrankWaste
  <2> QED
    BY <2>2, <2>3 DEF CrankerInv
<1>3. PromoterInv'
  <2>1. /\ prTouched' = (prPc \in {"submit", "await"})
        /\ UNCHANGED <<prPc, prTodo, prEntries, prCur, prInflight, prSettle, prWire, prRecorded>>
    BY DEF WorldMoves
  <2>2. PromoterTypeOK' /\ PromoteSent' /\ PromoteVerdict'
    <3>1. prTouched' \in BOOLEAN
      BY <2>1
    <3>2. PromoterTypeOK'
      BY <2>1, <3>1 DEF PromoterInv, PromoterTypeOK
    <3>3. PromoteSent' /\ PromoteVerdict'
      BY <2>1 DEF PromoterInv, PromoteSent, PromoteVerdict
    <3> QED
      BY <3>2, <3>3
  <2>3. PromoterShape' /\ PromoteWaste'
    BY <2>1 DEF PromoterInv, PromoterShape, OneOf, PromoteWaste
  <2> QED
    BY <2>2, <2>3 DEF PromoterInv
<1> QED
  BY <1>1, <1>2, <1>3

LEMMA InitIInv == Init => IInv
<1> SUFFICES ASSUME Init PROVE IInv
  OBVIOUS
<1>1. BookTypeOK
  BY BookAssumption DEF Init, BookInit, BookTypeOK, Orders
<1>2. CrankerInv
  <2>1. OneOf(mcCur, Markets) /\ mcCur \subseteq Markets /\ Cardinality(mcCur) <= 1
    BY OneVisit DEF Init, CrankerInit, OneOf
  <2> QED
    BY <2>1 DEF Init, CrankerInit, CrankerInv, CrankerTypeOK, CrankerShape, CrankSent, CrankVerdict,
                CrankWaste, None
<1>3. PromoterInv
  <2>1. OneOf(prCur, Nodes) /\ prCur \subseteq Nodes /\ Cardinality(prCur) <= 1
    BY OneVisit DEF Init, PromoterInit, OneOf
  <2> QED
    BY <2>1 DEF Init, PromoterInit, PromoterInv, PromoterTypeOK, PromoterShape, PromoteSent,
                PromoteVerdict, PromoteWaste, None
<1> QED
  BY <1>1, <1>2, <1>3 DEF IInv

LEMMA NextIInv == IInv /\ [Next]_vars => IInv'
<1> SUFFICES ASSUME IInv, [Next]_vars PROVE IInv'
  OBVIOUS
<1>1. CASE CrankerNext /\ PromoterBeside
  BY <1>1, CrankerKeeps, CrankerSparesPromoter DEF IInv
<1>2. CASE PromoterNext /\ CrankerBeside
  BY <1>2, PromoterKeeps, PromoterSparesCranker DEF IInv
<1>3. CASE WorldMoves
  BY <1>3, WorldKeeps
<1>4. CASE UNCHANGED vars
  <2>1. UNCHANGED bookVars /\ UNCHANGED crankerVars /\ UNCHANGED promoterVars
    BY <1>4 DEF vars
  <2>2. BookTypeOK'
    BY <2>1 DEF IInv, BookTypeOK, bookVars
  <2>3. CrankVerdict' /\ PromoteVerdict'
    BY <2>1, FillableDepends, PromotionDepends
    DEF IInv, CrankerInv, PromoterInv, CrankVerdict, PromoteVerdict, CrankExecutes, bookVars, crankerVars, promoterVars
  <2>4. CrankerInv'
    BY <2>1, <2>3 DEF IInv, CrankerInv, CrankerTypeOK, CrankerShape, OneOf, CrankSent, CrankWaste, crankerVars
  <2>5. PromoterInv'
    BY <2>1, <2>3 DEF IInv, PromoterInv, PromoterTypeOK, PromoterShape, OneOf, PromoteSent, PromoteWaste, promoterVars
  <2> QED
    BY <2>2, <2>4, <2>5 DEF IInv
<1> QED
  BY <1>1, <1>2, <1>3, <1>4 DEF Next

THEOREM Invariance == Spec => []IInv
  BY InitIInv, NextIInv, PTL DEF Spec

\* The types of the chain and of both handlers, for every book and every bound.
THEOREM TypeCorrect == Spec => []TypeOK
<1>1. IInv => TypeOK
  BY DEF IInv, TypeOK, CrankerInv, PromoterInv
<1> QED
  BY <1>1, Invariance, PTL

\* A crank or a promotion is wasted only when the chain moved after its simulation
\* (somebody else, an earlier copy, or a draw of the other handler on the
\* vault), or the crank's logs were cut.
THEOREM WasteNeedsInterference == Spec => []WasteOnlyAfterInterference
<1>1. IInv => WasteOnlyAfterInterference
  BY DEF IInv, CrankerInv, PromoterInv, CrankWaste, PromoteWaste, WasteOnlyAfterInterference
<1> QED
  BY <1>1, Invariance, PTL
-----------------------------------------------------------------------------
(* The promise of Keeper, kept by both handlers side by side. *)

\* A step of the cranker, of the promoter or of anybody else, seen from the cranker's gate.
LEMMA CrankStepImplementsKeeper == IInv /\ IInv' /\ [Next]_vars => [CrankGate!Next]_(CrankGate!vars)
<1> SUFFICES ASSUME IInv, IInv', [Next]_vars PROVE CrankGate!Next
  BY DEF CrankGate!vars
<1> DEFINE st == [i \in Markets |-> McStage(i)]
           of(cur, pc, i) == IF i \notin cur THEN "free" ELSE IF pc = "submit" THEN "cleared"
                             ELSE IF pc = "await" THEN "sent" ELSE "held"
<1>0. /\ st = [i \in Markets |-> of(mcCur, mcPc, i)]
      /\ st' = [i \in Markets |-> of(mcCur', mcPc', i)]
  <2>1. \A i \in Markets : McStage(i) = of(mcCur, mcPc, i)
    BY DEF IInv, CrankerInv, CrankerShape, McStage
  <2>2. \A i \in Markets : McStage(i)' = of(mcCur', mcPc', i)
    BY DEF IInv, CrankerInv, CrankerShape, McStage
  <2> QED
    BY <2>1, <2>2
<1>1. ASSUME mcCur' = mcCur,
             mcPc' = mcPc \/ (mcPc \notin {"submit", "await"} /\ mcPc' \notin {"submit", "await"})
      PROVE  CrankGate!Next
  <2>1. st' = st
    BY <1>0, <1>1
  <2> QED
    BY <2>1 DEF CrankGate!Next
<1>2. ASSUME NEW i \in Markets, mcCur = None, mcCur' = Some(i), mcPc' \notin {"submit", "await"} PROVE CrankGate!Next
  <2>1. st' = [st EXCEPT ![i] = "held"] /\ \A k \in Markets : st[k] = "free"
    BY <1>0, <1>2 DEF None, Some
  <2> QED
    BY <2>1 DEF CrankGate!Next, CrankGate!Claim, CrankGate!Move
<1>3. ASSUME NEW i \in Markets, mcCur = Some(i), McLeave(i) PROVE CrankGate!Next
  <2>1. mcCur' = {}
    BY <1>3 DEF McLeave, None
  <2>2. st' = [st EXCEPT ![i] = "free"] /\ st[i] \in {"held", "cleared", "sent"}
    BY <1>0, <1>3, <2>1 DEF Some
  <2> QED
    BY <2>2 DEF CrankGate!Next, CrankGate!Release, CrankGate!Move
<1>4. ASSUME NEW i \in Markets, McSimulate(i) PROVE CrankGate!Next
  <2>1. CASE McLeave(i)
    BY <1>3, <1>4, <2>1 DEF McSimulate
  <2>2. CASE ~McLeave(i)
    <3>1. mcCur = {i} /\ mcCur' = mcCur /\ mcPc = "sim" /\ mcPc' = "submit"
      BY <1>4, <2>2 DEF McSimulate, Some
    <3>2. i \in { m \in Markets : CrankExecutes(m, mcBundle, V0Cu) }
      <4>1. CrankExecutes(i, mcBundle, SimV0Cu(mcBundle))
        BY <1>4, <2>2 DEF McSimulate
      <4>2. SimV0Cu(mcBundle) <= V0Cu /\ SimV0Cu(mcBundle) \in Nat
        BY BookAssumption DEF SimV0Cu
      <4> QED
        BY <4>1, <4>2, BookAssumption DEF CrankExecutes
    <3>3. st' = [st EXCEPT ![i] = "cleared"] /\ st[i] = "held"
      BY <1>0, <3>1
    <3> QED
      BY <3>2, <3>3 DEF CrankGate!Next, CrankGate!Clear, CrankGate!Move
  <2> QED
    BY <2>1, <2>2
<1>5. ASSUME NEW i \in Markets, McSubmit(i) PROVE CrankGate!Next
  <2>1. mcCur = {i} /\ mcCur' = mcCur /\ mcPc = "submit" /\ mcPc' = "await"
    BY <1>5 DEF McSubmit, Some
  <2>2. st' = [st EXCEPT ![i] = "sent"] /\ st[i] = "cleared"
    BY <1>0, <2>1
  <2> QED
    BY <2>2 DEF CrankGate!Next, CrankGate!Send, CrankGate!Move
<1>6. CASE McTick
  <2>1. CASE McStartTick \/ McEndTick
    BY <1>1, <2>1 DEF McStartTick, McEndTick
  <2>2. ASSUME NEW i \in Markets, McScan(i) PROVE CrankGate!Next
    <3>1. mcCur = None
      BY <2>2 DEF McScan, IInv, CrankerInv, CrankerShape
    <3> QED
      BY <1>1, <1>2, <2>2, <3>1 DEF McScan
  <2>3. ASSUME NEW i \in Markets, McBanks(i) PROVE CrankGate!Next
    BY <1>1, <1>3, <2>3 DEF McBanks
  <2>4. ASSUME NEW i \in Markets, McAnswered(i) PROVE CrankGate!Next
    BY <1>3, <2>4 DEF McAnswered
  <2> QED
    BY <1>4, <1>5, <1>6, <2>1, <2>2, <2>3, <2>4 DEF McTick
<1>7. CASE McFaults
  <2>1. ASSUME NEW i \in Markets, McScanFails(i) \/ McGatewayFails(i) PROVE CrankGate!Next
    BY <1>1, <2>1 DEF McScanFails, McGatewayFails
  <2>2. ASSUME NEW i \in Markets, McSimFails(i) \/ McSendFails(i) PROVE CrankGate!Next
    BY <1>3, <2>2 DEF McSimFails, McSendFails
  <2> QED
    BY <1>7, <2>1, <2>2 DEF McFaults
<1>8. ASSUME NEW tx \in mcWire, McLand(tx) \/ McDrop(tx) PROVE CrankGate!Next
  BY <1>1, <1>8 DEF McLand, McDrop
<1>9. CASE WorldMoves \/ CrankerBeside \/ UNCHANGED crankerVars
  BY <1>1, <1>9 DEF WorldMoves, CrankerBeside, crankerVars
<1> QED
  BY <1>6, <1>7, <1>8, <1>9 DEF Next, CrankerNext, vars

\* The same, seen from the promoter's gate.
LEMMA PromoteStepImplementsKeeper == IInv /\ IInv' /\ [Next]_vars => [PromoteGate!Next]_(PromoteGate!vars)
<1> SUFFICES ASSUME IInv, IInv', [Next]_vars PROVE PromoteGate!Next
  BY DEF PromoteGate!vars
<1> DEFINE st == [i \in Nodes |-> PrStage(i)]
           of(cur, pc, i) == IF i \notin cur THEN "free" ELSE IF pc = "submit" THEN "cleared"
                             ELSE IF pc = "await" THEN "sent" ELSE "held"
<1>0. /\ st = [i \in Nodes |-> of(prCur, prPc, i)]
      /\ st' = [i \in Nodes |-> of(prCur', prPc', i)]
  <2>1. \A i \in Nodes : PrStage(i) = of(prCur, prPc, i)
    BY DEF IInv, PromoterInv, PromoterShape, PrStage
  <2>2. \A i \in Nodes : PrStage(i)' = of(prCur', prPc', i)
    BY DEF IInv, PromoterInv, PromoterShape, PrStage
  <2> QED
    BY <2>1, <2>2
<1>1. ASSUME prCur' = prCur,
             prPc' = prPc \/ (prPc \notin {"submit", "await"} /\ prPc' \notin {"submit", "await"})
      PROVE  PromoteGate!Next
  <2>1. st' = st
    BY <1>0, <1>1
  <2> QED
    BY <2>1 DEF PromoteGate!Next
<1>2. ASSUME NEW i \in Nodes, prCur = None, prCur' = Some(i), prPc' \notin {"submit", "await"} PROVE PromoteGate!Next
  <2>1. st' = [st EXCEPT ![i] = "held"] /\ \A k \in Nodes : st[k] = "free"
    BY <1>0, <1>2 DEF None, Some
  <2> QED
    BY <2>1 DEF PromoteGate!Next, PromoteGate!Claim, PromoteGate!Move
<1>3. ASSUME NEW i \in Nodes, prCur = Some(i), PrLeave(i) PROVE PromoteGate!Next
  <2>1. prCur' = {}
    BY <1>3 DEF PrLeave, None
  <2>2. st' = [st EXCEPT ![i] = "free"] /\ st[i] \in {"held", "cleared", "sent"}
    BY <1>0, <1>3, <2>1 DEF Some
  <2> QED
    BY <2>2 DEF PromoteGate!Next, PromoteGate!Release, PromoteGate!Move
<1>4. ASSUME NEW i \in Nodes, PrSimulate(i) PROVE PromoteGate!Next
  <2>1. CASE PrLeave(i)
    BY <1>3, <1>4, <2>1 DEF PrSimulate
  <2>2. CASE ~PrLeave(i)
    <3>1. prCur = {i} /\ prCur' = prCur /\ prPc = "sim" /\ prPc' = "submit"
      BY <1>4, <2>2 DEF PrSimulate, Some
    <3>2. i \in { n \in Nodes : PromoteExecutes(n, prSettle, RoutineCu) }
      BY <1>4, <2>2 DEF PrSimulate, SimulateCu
    <3>3. st' = [st EXCEPT ![i] = "cleared"] /\ st[i] = "held"
      BY <1>0, <3>1
    <3> QED
      BY <3>2, <3>3 DEF PromoteGate!Next, PromoteGate!Clear, PromoteGate!Move
  <2> QED
    BY <2>1, <2>2
<1>5. ASSUME NEW i \in Nodes, PrSubmit(i) PROVE PromoteGate!Next
  <2>1. prCur = {i} /\ prCur' = prCur /\ prPc = "submit" /\ prPc' = "await"
    BY <1>5 DEF PrSubmit, Some
  <2>2. st' = [st EXCEPT ![i] = "sent"] /\ st[i] = "cleared"
    BY <1>0, <2>1
  <2> QED
    BY <2>2 DEF PromoteGate!Next, PromoteGate!Send, PromoteGate!Move
<1>6. CASE PrTick
  <2>1. CASE PrStartTick \/ PrEndTick \/ PrEndMarket \/ \E m \in Markets : PrRead(m)
    BY <1>1, <2>1 DEF PrStartTick, PrEndTick, PrEndMarket, PrRead
  <2>2. ASSUME NEW i \in Nodes, PrVisit(i) PROVE PromoteGate!Next
    <3>1. prCur = None
      BY <2>2 DEF PrVisit, IInv, PromoterInv, PromoterShape
    <3> QED
      BY <1>1, <1>2, <2>2, <3>1 DEF PrVisit
  <2>3. ASSUME NEW i \in Nodes, PrAssemble(i) PROVE PromoteGate!Next
    BY <1>1, <1>3, <2>3 DEF PrAssemble
  <2>4. ASSUME NEW i \in Nodes, PrAnswered(i) PROVE PromoteGate!Next
    BY <1>3, <2>4 DEF PrAnswered
  <2> QED
    BY <1>4, <1>5, <1>6, <2>1, <2>2, <2>3, <2>4 DEF PrTick
<1>7. CASE PrFaults
  <2>1. ASSUME NEW m \in Markets, PrReadFails(m) PROVE PromoteGate!Next
    BY <1>1, <2>1 DEF PrReadFails
  <2>2. ASSUME NEW i \in Nodes, PrRequestFails(i) \/ PrSendFails(i) PROVE PromoteGate!Next
    BY <1>3, <2>2 DEF PrRequestFails, PrSendFails
  <2> QED
    BY <1>7, <2>1, <2>2 DEF PrFaults
<1>8. ASSUME NEW tx \in prWire, PrLand(tx) \/ PrDrop(tx) PROVE PromoteGate!Next
  BY <1>1, <1>8 DEF PrLand, PrDrop
<1>9. CASE WorldMoves \/ PromoterBeside \/ UNCHANGED promoterVars
  BY <1>1, <1>9 DEF WorldMoves, PromoterBeside, promoterVars
<1> QED
  BY <1>6, <1>7, <1>8, <1>9 DEF Next, PromoterNext, vars

\* Both handlers refine the safety of Keeper: one claim at a time, at most one send
\* per claim, and only what passed a simulation no laxer than the send under
\* that claim.
THEOREM HandlersImplementKeeper == Spec => CrankGate!Safety /\ PromoteGate!Safety
<1>1. Init => CrankGate!Init /\ PromoteGate!Init
  <2> SUFFICES ASSUME Init
               PROVE  /\ [m \in Markets |-> McStage(m)] = [m \in Markets |-> "free"]
                      /\ [n \in Nodes |-> PrStage(n)] = [n \in Nodes |-> "free"]
    BY DEF CrankGate!Init, PromoteGate!Init
  <2> QED
    BY DEF Init, CrankerInit, PromoterInit, McStage, PrStage
<1> QED
  BY <1>1, CrankStepImplementsKeeper, PromoteStepImplementsKeeper, Invariance, PTL
  DEF Spec, CrankGate!Safety, PromoteGate!Safety
-----------------------------------------------------------------------------
(***************************************************************************)
(* The safety half of WorkDrains: both handlers move on.  A crank or a     *)
(* promotion goes through its places once, a sweep through its markets.    *)
(***************************************************************************)
Shrinks(T, S) == T \subseteq S /\ T # S

McPlace == [idle |-> 0, banks |-> 1, sim |-> 2, submit |-> 3, await |-> 4, markets |-> 5]
PrPlace == [idle |-> 0, assemble |-> 1, sim |-> 2, submit |-> 3, await |-> 4, entries |-> 5, markets |-> 6]

McMovesOn == \/ mcPc' = "idle"
             \/ Shrinks(mcTodo', mcTodo)
             \/ mcTodo' = mcTodo /\ McPlace[mcPc'] > McPlace[mcPc]

PrMovesOn == \/ prPc' = "idle"
             \/ Shrinks(prTodo', prTodo)
             \/ prTodo' = prTodo /\ Shrinks(prEntries', prEntries)
             \/ UNCHANGED <<prTodo, prEntries>> /\ PrPlace[prPc'] > PrPlace[prPc]

\* What either handler does during a tick, failing requests included, ends the
\* tick, is done with a market or a queued node, or is a step forward of the
\* visit: nothing is visited twice in a sweep.
TicksMoveOn ==
  /\ [][mcPc # "idle" /\ <<mcPc, mcTodo>>' # <<mcPc, mcTodo>> => McMovesOn]_vars
  /\ [][prPc # "idle" /\ <<prPc, prTodo, prEntries>>' # <<prPc, prTodo, prEntries>> => PrMovesOn]_vars

\* Every step of the cranker during a tick is one forward.
LEMMA CrankerMovesOn == ASSUME mcPc # "idle", McTick \/ McFaults PROVE McMovesOn
<1> USE DEF McMovesOn, McPlace
<1>1. CASE McEndTick
  BY <1>1 DEF McEndTick
<1>2. ASSUME NEW m \in Markets, McScan(m) \/ McScanFails(m) PROVE McMovesOn
  <2>1. m \in mcTodo /\ mcTodo' = mcTodo \ {m}
    BY <1>2 DEF McScan, McScanFails
  <2> QED
    BY <2>1 DEF Shrinks
<1>3. ASSUME NEW m \in Markets, McBanks(m) \/ McGatewayFails(m) PROVE McMovesOn
  <2>1. mcPc = "banks" /\ mcPc' \in {"sim", "markets"} /\ mcTodo' = mcTodo
    BY <1>3 DEF McBanks, McGatewayFails, McLeave
  <2> QED
    BY <2>1
<1>4. ASSUME NEW m \in Markets, McSimulate(m) \/ McSimFails(m) PROVE McMovesOn
  <2>1. mcPc = "sim" /\ mcPc' \in {"submit", "markets"} /\ mcTodo' = mcTodo
    BY <1>4 DEF McSimulate, McSimFails, McLeave
  <2> QED
    BY <2>1
<1>5. ASSUME NEW m \in Markets, McSubmit(m) \/ McAnswered(m) \/ McSendFails(m) PROVE McMovesOn
  <2>1. /\ mcTodo' = mcTodo
        /\ (mcPc = "submit" /\ mcPc' = "await") \/ (mcPc = "await" /\ mcPc' = "markets")
    BY <1>5 DEF McSubmit, McAnswered, McSendFails, McLeave
  <2> QED
    BY <2>1
<1> QED
  BY <1>1, <1>2, <1>3, <1>4, <1>5 DEF McTick, McFaults, McStartTick

\* Every step of the promoter during a tick is one forward.
LEMMA PromoterMovesOn == ASSUME prPc # "idle", PrTick \/ PrFaults PROVE PrMovesOn
<1> USE DEF PrMovesOn, PrPlace
<1>1. CASE PrEndTick \/ PrEndMarket
  BY <1>1 DEF PrEndTick, PrEndMarket
<1>2. ASSUME NEW m \in Markets, PrRead(m) \/ PrReadFails(m) PROVE PrMovesOn
  <2>1. m \in prTodo /\ prTodo' = prTodo \ {m}
    BY <1>2 DEF PrRead, PrReadFails
  <2> QED
    BY <2>1 DEF Shrinks
<1>3. ASSUME NEW n \in Nodes, PrVisit(n) PROVE PrMovesOn
  <2>1. n \in prEntries /\ prEntries' = prEntries \ {n} /\ prTodo' = prTodo
    BY <1>3 DEF PrVisit
  <2> QED
    BY <2>1 DEF Shrinks
<1>4. ASSUME NEW n \in Nodes, PrAssemble(n) \/ PrSimulate(n) \/ PrRequestFails(n) PROVE PrMovesOn
  <2>1. /\ UNCHANGED <<prTodo, prEntries>>
        /\ \/ prPc = "assemble" /\ prPc' \in {"sim", "entries"}
           \/ prPc = "sim" /\ prPc' \in {"submit", "entries"}
    BY <1>4 DEF PrAssemble, PrSimulate, PrRequestFails, PrLeave
  <2> QED
    BY <2>1
<1>5. ASSUME NEW n \in Nodes, PrSubmit(n) \/ PrAnswered(n) \/ PrSendFails(n) PROVE PrMovesOn
  <2>1. /\ UNCHANGED <<prTodo, prEntries>>
        /\ (prPc = "submit" /\ prPc' = "await") \/ (prPc = "await" /\ prPc' = "entries")
    BY <1>5 DEF PrSubmit, PrAnswered, PrSendFails, PrLeave
  <2> QED
    BY <2>1
<1> QED
  BY <1>1, <1>2, <1>3, <1>4, <1>5 DEF PrTick, PrFaults, PrStartTick

\* For every set of markets, orders and nodes, and whatever requests fail, the
\* sweeps of both handlers go through their markets and nodes once.
THEOREM EveryTickMovesOn == Spec => TicksMoveOn
<1>1. [Next]_vars => [mcPc # "idle" /\ <<mcPc, mcTodo>>' # <<mcPc, mcTodo>> => McMovesOn]_vars
  <2> SUFFICES ASSUME Next, mcPc # "idle", <<mcPc, mcTodo>>' # <<mcPc, mcTodo>> PROVE McMovesOn
    OBVIOUS
  <2>1. McTick \/ McFaults
    BY DEF Next, CrankerNext, McLand, McDrop, WorldMoves, CrankerBeside
  <2> QED
    BY <2>1, CrankerMovesOn
<1>2. [Next]_vars =>
        [prPc # "idle" /\ <<prPc, prTodo, prEntries>>' # <<prPc, prTodo, prEntries>> => PrMovesOn]_vars
  <2> SUFFICES ASSUME Next, prPc # "idle",
                      <<prPc, prTodo, prEntries>>' # <<prPc, prTodo, prEntries>>
               PROVE  PrMovesOn
    OBVIOUS
  <2>1. PrTick \/ PrFaults
    BY DEF Next, PromoterNext, PrLand, PrDrop, WorldMoves, PromoterBeside
  <2> QED
    BY <2>1, PromoterMovesOn
<1> QED
  BY <1>1, <1>2, PTL DEF Spec, TicksMoveOn
=============================================================================
