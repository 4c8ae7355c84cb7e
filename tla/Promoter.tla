------------------------------ MODULE Promoter ------------------------------
(***************************************************************************)
(* PromoterHandler (src/handlers/promoter.rs): reads the matched-loan      *)
(* queue of every market and promotes each node: claim, bank, the          *)
(* vault-settle accounts from a second read of the market, a simulation,   *)
(* a send.  One action per await.                                          *)
(***************************************************************************)
EXTENDS Book

VARIABLES
  prPc,
  prTodo,      \* markets of this tick not read yet
  prEntries,   \* nodes of the market that was read, not visited yet
  prCur,       \* the node being promoted: None or Some
  prInflight,  \* claimed nodes
  prSettle,    \* the vault-settle accounts are in the instruction
  prWire,      \* promotions broadcast and not recorded
  prRecorded,  \* what is recorded first for the submission under way
  prTouched    \* history: the chain moved against the node since the simulation

promoterVars == <<prPc, prTodo, prEntries, prCur, prInflight, prSettle, prWire, prRecorded, prTouched>>

PromoteTxs == [node : Nodes, settle : BOOLEAN, copy : 1 .. Copies, mine : BOOLEAN]

PromoterInit ==
  /\ prPc = "idle" /\ prTodo = {} /\ prEntries = {} /\ prCur = None /\ prInflight = {}
  /\ prSettle = FALSE /\ prWire = {} /\ prRecorded = "none" /\ prTouched = FALSE

PrSame == UNCHANGED <<prWire, prRecorded, prTouched>>

\* promote_one returned, with or without an error: release_inflight, next node.
PrLeave(n) ==
  /\ prPc' = "entries" /\ prCur' = None /\ prInflight' = prInflight \ {n}
  /\ prSettle' = FALSE /\ prRecorded' = "none" /\ prTouched' = FALSE
  /\ prWire' = { [tx EXCEPT !.mine = FALSE] : tx \in prWire }

PrStartTick ==
  /\ prPc = "idle"
  /\ prPc' = "markets" /\ prTodo' = Markets \ Paused
  /\ PrSame /\ UNCHANGED <<prEntries, prCur, prInflight, prSettle, bookVars>>

PrEndTick ==
  /\ prPc = "markets" /\ prTodo = {}
  /\ prPc' = "idle"
  /\ PrSame /\ UNCHANGED <<prTodo, prEntries, prCur, prInflight, prSettle, bookVars>>

\* read_pending_matched_loans: the whole queue of the market.
PrRead(m) ==
  /\ prPc = "markets" /\ m \in prTodo
  /\ prTodo' = prTodo \ {m}
  /\ prEntries' = { n \in Nodes : MarketOf[n] = m /\ node[n] = "pending" }
  /\ prPc' = "entries"
  /\ PrSame /\ UNCHANGED <<prCur, prInflight, prSettle, bookVars>>

\* The market cannot be read: warn, next market.
PrReadFails(m) ==
  /\ prPc = "markets" /\ m \in prTodo /\ Fault(m)
  /\ prTodo' = prTodo \ {m}
  /\ PrSame /\ UNCHANGED <<prPc, prEntries, prCur, prInflight, prSettle>>

PrEndMarket ==
  /\ prPc = "entries" /\ prEntries = {}
  /\ prPc' = "markets"
  /\ PrSame /\ UNCHANGED <<prTodo, prEntries, prCur, prInflight, prSettle, bookVars>>

\* claim_inflight; a node claimed already is passed over.
PrVisit(n) ==
  /\ prPc = "entries" /\ n \in prEntries
  /\ prEntries' = prEntries \ {n}
  /\ IF n \in prInflight
       THEN UNCHANGED <<prPc, prCur, prInflight>>
       ELSE prPc' = "assemble" /\ prCur' = Some(n) /\ prInflight' = prInflight \cup {n}
  /\ PrSame /\ UNCHANGED <<prTodo, prSettle, bookVars>>

\* Whom read_seat_at finds at the listed index: the lender vault while the node
\* is queued, anybody once the node is gone and the seat is used again.
SeatOwners(n) ==
  IF node[n] = "pending"
  THEN {IF MarketOf[n] \in ForeignVault THEN "foreign" ELSE "vault"}
  ELSE {"vault", "foreign", "wallet"}

\* The debt bank, then assemble_vault_settle: a seat that is not a vault's gives
\* no accounts, a vault that is not the bank's is an error.
PrAssemble(n) ==
  /\ prPc = "assemble" /\ prCur = Some(n)
  /\ \E o \in IF Kind[n] = "vault" THEN SeatOwners(n) ELSE {"none"} :
       IF MarketOf[n] \notin DebtBanked \/ o = "foreign"
       THEN PrLeave(n)
       ELSE /\ prPc' = "sim" /\ prSettle' = (o = "vault")
            /\ PrSame /\ UNCHANGED <<prCur, prInflight>>
  /\ UNCHANGED <<prTodo, prEntries, bookVars>>

\* mutant: the simulation runs without the compute-budget preamble
SimulateCuBare == DefaultCu

\* simulate prepends the preamble of the send path.
SimulateCu == RoutineCu

\* mutant: a simulation that fails is sent all the same
PrSimulateIgnored(n) ==
  /\ prPc = "sim" /\ prCur = Some(n)
  /\ prPc' = "submit" /\ PrSame /\ UNCHANGED <<prCur, prInflight, prSettle>>
  /\ UNCHANGED <<prTodo, prEntries, bookVars>>

\* The productive-crank gate.
PrSimulate(n) ==
  /\ prPc = "sim" /\ prCur = Some(n)
  /\ IF PromoteExecutes(n, prSettle, SimulateCu)
       THEN prPc' = "submit" /\ PrSame /\ UNCHANGED <<prCur, prInflight, prSettle>>
       ELSE PrLeave(n)
  /\ UNCHANGED <<prTodo, prEntries, bookVars>>

\* The second market read or the simulation request fails.
PrRequestFails(n) ==
  /\ prPc = "sim" \/ (prPc = "assemble" /\ Kind[n] = "vault")
  /\ prCur = Some(n) /\ Fault(n)
  /\ PrLeave(n)
  /\ UNCHANGED <<prTodo, prEntries>>

\* mutant: the retry loop signs once more than it may
PrSubmitOnceMore(n) ==
  /\ prPc = "submit" /\ prCur = Some(n)
  /\ prWire' = prWire \cup { [node |-> n, settle |-> prSettle, copy |-> i, mine |-> TRUE] :
                               i \in 1 .. Copies + 1 }
  /\ prPc' = "await"
  /\ UNCHANGED <<prTodo, prEntries, prCur, prInflight, prSettle, prRecorded, prTouched, bookVars>>

\* send_signed_labeled: one or more signed copies go out.
PrSubmit(n) ==
  /\ prPc = "submit" /\ prCur = Some(n)
  /\ \E k \in 1 .. Copies :
     /\ Cardinality(prWire) + k <= MaxWire
     /\ prWire' = prWire \cup { [node |-> n, settle |-> prSettle, copy |-> i, mine |-> TRUE] :
                                  i \in 1 .. k }
  /\ prPc' = "await"
  /\ UNCHANGED <<prTodo, prEntries, prCur, prInflight, prSettle, prRecorded, prTouched, bookVars>>

PrAnswered(n) ==
  /\ prPc = "await" /\ prCur = Some(n)
  /\ prRecorded # "none" \/ ~(\E tx \in prWire : tx.mine)
  /\ PrLeave(n)
  /\ UNCHANGED <<prTodo, prEntries, bookVars>>

PrSendFails(n) ==
  /\ prPc = "await" /\ prCur = Some(n) /\ Fault(n)
  /\ PrLeave(n)
  /\ UNCHANGED <<prTodo, prEntries>>

PrTick == \/ PrStartTick \/ PrEndTick \/ PrEndMarket \/ \E m \in Markets : PrRead(m)
          \/ \E n \in Nodes : \/ PrVisit(n) \/ PrAssemble(n) \/ PrSimulate(n)
                              \/ PrSubmit(n) \/ PrAnswered(n)

PrFaults == \/ \E m \in Markets : PrReadFails(m)
            \/ \E n \in Nodes : PrRequestFails(n) \/ PrSendFails(n)

-----------------------------------------------------------------------------
(* The cluster. *)

PrRecord(tx, o) == prRecorded' = IF tx.mine /\ prRecorded = "none" THEN o ELSE prRecorded

PrLand(tx) ==
  /\ tx \in prWire
  /\ prWire' = prWire \ {tx}
  /\ IF PromoteExecutes(tx.node, tx.settle, RoutineCu)
       THEN /\ node' = [node EXCEPT ![tx.node] = "loan"] /\ book' = book
            /\ Draw(tx.settle)
            /\ PrRecord(tx, "ok")
            /\ prTouched' = (prTouched \/ prPc \in {"submit", "await"})
       ELSE PrRecord(tx, "err") /\ UNCHANGED <<book, blocked, node, ripe, prTouched>>
  /\ UNCHANGED <<fresh, moves, prPc, prTodo, prEntries, prCur, prInflight, prSettle>>

PrDrop(tx) ==
  /\ tx \in prWire
  /\ prWire' = prWire \ {tx}
  /\ UNCHANGED <<bookVars, prPc, prTodo, prEntries, prCur, prInflight, prSettle, prRecorded, prTouched>>

PromoterNext == PrTick \/ PrFaults \/ \E tx \in prWire : PrLand(tx) \/ PrDrop(tx)

PromoterTypeOK ==
  /\ prPc \in {"idle", "markets", "entries", "assemble", "sim", "submit", "await"}
  /\ prTodo \subseteq Markets /\ prEntries \subseteq Nodes /\ prInflight \subseteq Nodes
  /\ prCur \subseteq Nodes /\ Cardinality(prCur) <= 1
  /\ prSettle \in BOOLEAN /\ prWire \subseteq PromoteTxs
  /\ prRecorded \in {"none", "ok", "err"} /\ prTouched \in BOOLEAN
=============================================================================
