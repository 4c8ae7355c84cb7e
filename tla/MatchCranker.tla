---------------------------- MODULE MatchCranker ----------------------------
(***************************************************************************)
(* MatchCrankerHandler (src/handlers/match_cranker.rs) with the            *)
(* rate-crossing gate of ChainReader: per market a two-node read, a claim, *)
(* a simulation whose logs are parsed for the number of fills, a submit.   *)
(* One action per await.                                                   *)
(***************************************************************************)
EXTENDS Book

VARIABLES
  mcPc,
  mcTodo,      \* markets of this tick not scanned yet
  mcCur,       \* the market being cranked: None or Some
  mcInflight,  \* claimed markets
  mcBundle,    \* a Switchboard update is prepended
  mcWire,      \* cranks broadcast and not recorded
  mcRecorded,  \* what is recorded first for the submission under way
  mcCut,       \* history: the simulation's logs had no MatchCrankLog line
  mcTouched    \* history: the book changed since the simulation

crankerVars == <<mcPc, mcTodo, mcCur, mcInflight, mcBundle, mcWire, mcRecorded, mcCut, mcTouched>>

CrankTxs == [market : Markets, bundle : BOOLEAN, copy : 1 .. Copies, mine : BOOLEAN]

CrankerInit ==
  /\ mcPc = "idle" /\ mcTodo = {} /\ mcCur = None /\ mcInflight = {} /\ mcBundle = FALSE
  /\ mcWire = {} /\ mcRecorded = "none" /\ mcCut = FALSE /\ mcTouched = FALSE

-----------------------------------------------------------------------------
(* Pure parts. *)

\* The node bids_best_index / asks_best_index points at: no worse one of its
\* side and market rests.
BestBid(m) == CHOOSE b \in Bids \cap book : MarketOf[b] = m
                /\ \A c \in Bids \cap book : MarketOf[c] = m => Rate[c] <= Rate[b]
BestAsk(m) == CHOOSE a \in Asks \cap book : MarketOf[a] = m
                /\ \A c \in Asks \cap book : MarketOf[c] = m => Rate[c] >= Rate[a]

market_is_rate_crossed(m) ==
  /\ \E b \in Bids \cap book : MarketOf[b] = m
  /\ \E a \in Asks \cap book : MarketOf[a] = m
  /\ Rate[BestBid(m)] >= Rate[BestAsk(m)]

\* mutant: any Program-data record is taken for the MatchCrankLog
ParseAnyRecord(logs) ==
  LET hits == { i \in DOMAIN logs : logs[i].kind # "text" }
  IN  IF hits = {} THEN None
      ELSE Some(logs[CHOOSE i \in hits : \A j \in hits : i <= j].fills)

\* The first line that is a MatchCrankLog record decides; text and records of
\* other programs are passed over.
parse_match_crank_fills(logs) ==
  LET hits == { i \in DOMAIN logs : logs[i].kind = "MatchCrankLog" }
  IN  IF hits = {} THEN None
      ELSE Some(logs[CHOOSE i \in hits : \A j \in hits : i <= j].fills)

\* What a simulation that fills k pairs prints.
Line(k, f)      == [kind |-> k, fills |-> f]
CrankLogs(b, k) ==
  IF b THEN <<Line("alien", 7), Line("text", 0), Line("MatchCrankLog", k), Line("text", 0)>>
       ELSE <<Line("text", 0), Line("MatchCrankLog", k), Line("text", 0)>>

\* simulate_v0 is bare: the default limit of each instruction of the bundle.
SimV0Cu(bnd) == IF bnd THEN 2 * DefaultCu ELSE DefaultCu

-----------------------------------------------------------------------------
(* The handler. *)

McSame == UNCHANGED <<mcWire, mcRecorded, mcCut, mcTouched>>

\* crank_one returned, with or without an error: release_inflight, next market.
McLeave(m) ==
  /\ mcPc' = "markets" /\ mcCur' = None /\ mcInflight' = mcInflight \ {m}
  /\ mcBundle' = FALSE /\ mcRecorded' = "none" /\ mcCut' = FALSE /\ mcTouched' = FALSE
  /\ mcWire' = { [tx EXCEPT !.mine = FALSE] : tx \in mcWire }

\* list_markets; a failure only ends the tick.
McStartTick ==
  /\ mcPc = "idle"
  /\ mcPc' = "markets" /\ mcTodo' = Markets \ Paused
  /\ McSame /\ UNCHANGED <<mcCur, mcInflight, mcBundle, bookVars>>

McEndTick ==
  /\ mcPc = "markets" /\ mcTodo = {}
  /\ mcPc' = "idle"
  /\ McSame /\ UNCHANGED <<mcTodo, mcCur, mcInflight, mcBundle, bookVars>>

\* scan_market: the gate, then claim_inflight.
McScan(m) ==
  /\ mcPc = "markets" /\ m \in mcTodo
  /\ mcTodo' = mcTodo \ {m}
  /\ IF market_is_rate_crossed(m) /\ m \notin mcInflight
       THEN mcPc' = "banks" /\ mcCur' = Some(m) /\ mcInflight' = mcInflight \cup {m}
       ELSE UNCHANGED <<mcPc, mcCur, mcInflight>>
  /\ McSame /\ UNCHANGED <<mcBundle, bookVars>>

\* The market cannot be read: warn, next market.
McScanFails(m) ==
  /\ mcPc = "markets" /\ m \in mcTodo /\ Fault(m)
  /\ mcTodo' = mcTodo \ {m}
  /\ McSame /\ UNCHANGED <<mcPc, mcCur, mcInflight, mcBundle>>

\* Both banks, then fetch_swb_bundle.
McBanks(m) ==
  /\ mcPc = "banks" /\ mcCur = Some(m)
  /\ IF m \in DebtBanked \cap CollBanked
       THEN /\ mcPc' = "sim" /\ mcBundle' = (m \in Switchboard /\ HasCranker)
            /\ McSame /\ UNCHANGED <<mcCur, mcInflight>>
       ELSE McLeave(m)
  /\ UNCHANGED <<mcTodo, bookVars>>

\* The gateway fails: go on without the prefix.
McGatewayFails(m) ==
  /\ mcPc = "banks" /\ mcCur = Some(m) /\ Fault(m)
  /\ m \in DebtBanked \cap CollBanked \cap Switchboard /\ HasCranker
  /\ mcPc' = "sim" /\ mcBundle' = FALSE
  /\ McSame /\ UNCHANGED <<mcTodo, mcCur, mcInflight>>

\* The simulation, its logs possibly cut, and the productive-crank gate:
\* no parseable record fails open.
McSimulate(m) ==
  /\ mcPc = "sim" /\ mcCur = Some(m)
  /\ IF CrankExecutes(m, mcBundle, SimV0Cu(mcBundle))
       THEN \E F \in Fills(m) :
            LET full == CrankLogs(mcBundle, Cardinality(F))
            IN  \E i \in 0 .. Len(full) :
                LET fills == parse_match_crank_fills(SubSeq(full, 1, i))
                IN  IF fills = Some(0)
                      THEN McLeave(m)
                      ELSE /\ mcPc' = "submit" /\ mcCut' = (fills = None)
                           /\ UNCHANGED <<mcCur, mcInflight, mcBundle, mcWire, mcRecorded, mcTouched>>
       ELSE McLeave(m)
  /\ UNCHANGED <<mcTodo, bookVars>>

McSimFails(m) ==
  /\ mcPc = "sim" /\ mcCur = Some(m) /\ Fault(m)
  /\ McLeave(m)
  /\ UNCHANGED mcTodo

\* send_signed_v0_labeled: one or more signed copies go out.
McSubmit(m) ==
  /\ mcPc = "submit" /\ mcCur = Some(m)
  /\ \E k \in 1 .. Copies :
     /\ Cardinality(mcWire) + k <= MaxWire
     /\ mcWire' = mcWire \cup { [market |-> m, bundle |-> mcBundle, copy |-> i, mine |-> TRUE] :
                                  i \in 1 .. k }
  /\ mcPc' = "await"
  /\ UNCHANGED <<mcTodo, mcCur, mcInflight, mcBundle, mcRecorded, mcCut, mcTouched, bookVars>>

\* The send answers once something is recorded or nothing of it is left.
McAnswered(m) ==
  /\ mcPc = "await" /\ mcCur = Some(m)
  /\ mcRecorded # "none" \/ ~(\E tx \in mcWire : tx.mine)
  /\ McLeave(m)
  /\ UNCHANGED <<mcTodo, bookVars>>

McSendFails(m) ==
  /\ mcPc = "await" /\ mcCur = Some(m) /\ Fault(m)
  /\ McLeave(m)
  /\ UNCHANGED mcTodo

McTick == McStartTick \/ McEndTick \/ \E m \in Markets : \/ McScan(m) \/ McBanks(m) \/ McSimulate(m)
                                                         \/ McSubmit(m) \/ McAnswered(m)

McFaults == \E m \in Markets : \/ McScanFails(m) \/ McGatewayFails(m)
                               \/ McSimFails(m) \/ McSendFails(m)

-----------------------------------------------------------------------------
(* The cluster. *)

\* The first own copy to be recorded counts.
McRecord(tx, o) == mcRecorded' = IF tx.mine /\ mcRecorded = "none" THEN o ELSE mcRecorded

\* A crank is executed, with or without a fill, or recorded as failed.
McLand(tx) ==
  /\ tx \in mcWire
  /\ mcWire' = mcWire \ {tx}
  /\ IF CrankExecutes(tx.market, tx.bundle, V0Cu)
       THEN \E F \in Fills(tx.market) :
            /\ book' = book \ UNION { {p[1], p[2]} : p \in F }
            /\ node' = [n \in Nodes |-> IF \E p \in F : p[2] = n THEN "pending" ELSE node[n]]
            /\ fresh' = IF tx.bundle THEN fresh \cup {tx.market} ELSE fresh
            /\ Draw(\E p \in F : p[2] \in VaultNodes)
            /\ McRecord(tx, IF F = {} THEN "empty" ELSE "filled")
            /\ mcTouched' = (mcTouched \/ (mcPc \in {"submit", "await"} /\ F # {}))
       ELSE McRecord(tx, "err") /\ UNCHANGED <<book, blocked, node, ripe, fresh, mcTouched>>
  /\ UNCHANGED <<moves, mcPc, mcTodo, mcCur, mcInflight, mcBundle, mcCut>>

McDrop(tx) ==
  /\ tx \in mcWire
  /\ mcWire' = mcWire \ {tx}
  /\ UNCHANGED <<bookVars, mcPc, mcTodo, mcCur, mcInflight, mcBundle, mcRecorded, mcCut, mcTouched>>

CrankerNext == McTick \/ McFaults \/ \E tx \in mcWire : McLand(tx) \/ McDrop(tx)

CrankerTypeOK ==
  /\ mcPc \in {"idle", "markets", "banks", "sim", "submit", "await"}
  /\ mcTodo \subseteq Markets /\ mcInflight \subseteq Markets
  /\ mcCur \subseteq Markets /\ Cardinality(mcCur) <= 1
  /\ mcBundle \in BOOLEAN /\ mcWire \subseteq CrankTxs
  /\ mcRecorded \in {"none", "filled", "empty", "err"}
  /\ mcCut \in BOOLEAN /\ mcTouched \in BOOLEAN
=============================================================================
