---------------------------- MODULE Origination -----------------------------
(***************************************************************************)
(* The match cranker and the promoter as concurrent tasks over one chain:  *)
(* the cranker turns crossed orders into matched-loan nodes, the promoter  *)
(* turns nodes into loans, and order flow, deposits, oracles and other     *)
(* keepers move underneath both.                                           *)
(***************************************************************************)
EXTENDS MatchCranker, Promoter

vars == <<bookVars, crankerVars, promoterVars>>

Init == BookInit /\ CrankerInit /\ PromoterInit

\* Everybody else's move spoils what either handler has simulated.
WorldMoves ==
  /\ BookMoves
  /\ mcTouched' = (mcPc \in {"submit", "await"})
  /\ prTouched' = (prPc \in {"submit", "await"})
  /\ UNCHANGED <<mcPc, mcTodo, mcCur, mcInflight, mcBundle, mcWire, mcRecorded, mcCut>>
  /\ UNCHANGED <<prPc, prTodo, prEntries, prCur, prInflight, prSettle, prWire, prRecorded>>

\* A step of one handler leaves the other one alone, but the vault funds it draws
\* may be those of what the other one has simulated.
Drawn == <<blocked, ripe>>' # <<blocked, ripe>>

PromoterBeside ==
  /\ prTouched' = (prTouched \/ (prPc \in {"submit", "await"} /\ Drawn))
  /\ UNCHANGED <<prPc, prTodo, prEntries, prCur, prInflight, prSettle, prWire, prRecorded>>

CrankerBeside ==
  /\ mcTouched' = (mcTouched \/ (mcPc \in {"submit", "await"} /\ Drawn))
  /\ UNCHANGED <<mcPc, mcTodo, mcCur, mcInflight, mcBundle, mcWire, mcRecorded, mcCut>>

Next == \/ CrankerNext /\ PromoterBeside
        \/ PromoterNext /\ CrankerBeside
        \/ WorldMoves

(***************************************************************************)
(* Both handlers are ticked for ever, requests outside Faulty are          *)
(* answered, and what is sent again and again is not dropped every time.   *)
(***************************************************************************)
Fairness ==
  /\ WF_vars(McTick /\ PromoterBeside)
  /\ WF_vars(PrTick /\ CrankerBeside)
  /\ \A m \in Markets : SF_vars(\E tx \in mcWire : tx.market = m /\ McLand(tx) /\ PromoterBeside)
  /\ \A n \in Nodes : SF_vars(\E tx \in prWire : tx.node = n /\ PrLand(tx) /\ CrankerBeside)

Spec == Init /\ [][Next]_vars /\ Fairness

-----------------------------------------------------------------------------
(* Properties. *)

\* The type invariant of the chain and of both handlers.
TypeOK == BookTypeOK /\ CrankerTypeOK /\ PromoterTypeOK

\* The productive-crank gates: the first recorded copy of a crank or of a promotion
\* fails only if the chain moved after its simulation (somebody else moved, an
\* earlier copy landed, or the other handler drew on the vault), and a crank
\* fills nothing only then or when its logs were cut (fail open).
WasteOnlyAfterInterference ==
  /\ mcRecorded = "err" => mcTouched
  /\ mcRecorded = "empty" => mcTouched \/ mcCut
  /\ prRecorded = "err" => prTouched

\* What the header of match_cranker.rs says of its simulation (it cannot tell a fill
\* from a no-op, parsing MatchCrankLog.fills is future work) and src/README.md of
\* the handler (no fill detection): a crank that simulates without an error is
\* submitted, whatever it would fill.
NoFillDetection ==
  [][\A m \in Markets : McSimulate(m) /\ CrankExecutes(m, mcBundle, SimV0Cu(mcBundle))
                           => mcPc' = "submit"]_vars

McStage(m) == CASE m \notin mcInflight -> "free"
                [] m \in mcInflight /\ mcPc = "submit" -> "cleared"
                [] m \in mcInflight /\ mcPc = "await" -> "sent"
                [] OTHER -> "held"

PrStage(n) == CASE n \notin prInflight -> "free"
                [] n \in prInflight /\ prPc = "submit" -> "cleared"
                [] n \in prInflight /\ prPc = "await" -> "sent"
                [] OTHER -> "held"

CrankGate == INSTANCE Keeper WITH
  Items <- Markets,
  stage <- [m \in Markets |-> McStage(m)],
  able  <- { m \in Markets : CrankExecutes(m, mcBundle, V0Cu) }

PromoteGate == INSTANCE Keeper WITH
  Items <- Nodes,
  stage <- [n \in Nodes |-> PrStage(n)],
  able  <- { n \in Nodes : PromoteExecutes(n, prSettle, RoutineCu) }

\* Both handlers keep the promise of a keeper: what they send has passed, in the
\* same visit and under the claim, a simulation no laxer than the send, and every
\* claim is given back whatever fails.
ImplementKeeper == CrankGate!Spec /\ PromoteGate!Spec

\* A market nothing keeps the cranker from, and a node nothing keeps the promoter from.
Crankable(m) ==
  /\ m \notin Faulty \cup Paused /\ m \in DebtBanked \cap CollBanked
  /\ m \in fresh \/ (m \in Switchboard /\ HasCranker)
  /\ CrankCu <= SimV0Cu(m \in Switchboard /\ HasCranker)

Promotable(n) ==
  /\ n \notin Faulty /\ MarketOf[n] \notin Faulty \cup Paused \cup ForeignVault
  /\ MarketOf[n] \in DebtBanked
  /\ PromoteExecutes(n, NeedsSettle(n), RoutineCu)

\* Crosses become loans: once everybody else has come to rest, no fillable cross
\* stays in a market the cranker can serve and no promotable node stays queued,
\* whatever keeps failing for other markets and nodes and whichever transactions
\* were lost.
WorkDrains ==
  <>[]( /\ \A m \in Markets : Crankable(m) => Fillable(m) = {}
        /\ \A n \in Nodes : ~Promotable(n) )
=============================================================================
