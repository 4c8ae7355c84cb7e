-------------------------------- MODULE Book --------------------------------
(***************************************************************************)
(* The on-chain side of origination, from how the match cranker and the    *)
(* promoter use it: resting orders of the two-sided book, the queue of     *)
(* matched-loan nodes a fill leaves behind, the loans promoted from it,    *)
(* and the compute budget transactions and simulations run under.  An ask  *)
(* names the node its fill creates.                                        *)
(***************************************************************************)
EXTENDS Naturals, FiniteSets, Sequences

CONSTANTS
  Markets, Bids, Asks,
  Others,        \* nodes made by other instructions (placements that take, P2Pool, conversions)
  MarketOf,      \* market of an order or of a node
  Rate,          \* rate_bps of an order
  Kind,          \* lender of a node: "vault", "wallet", "p2pool", "presettled"
  SelfCross,     \* pairs <<bid, ask>> of one owner
  Paused,        \* markets whose is_paused flag is set
  DebtBanked,    \* markets whose debt mint has a bank in the registry
  CollBanked,    \* markets whose collateral mint has one
  ForeignVault,  \* markets whose lender vault is not the registry bank's
  Switchboard,   \* markets with a Switchboard-pull feed
  HasCranker,    \* ctx.swb_cranker is Some
  Faulty,        \* markets and nodes whose requests may fail for ever
  MaxFills,      \* match_cranker_max_fills
  CrankCu, PromoteCu,            \* compute the two instructions need
  DefaultCu, RoutineCu, V0Cu,    \* per-instruction default, COMPUTE_UNIT_LIMIT, v0 limit
  Copies,        \* transactions one submission may put on the wire
  MaxWire,       \* transactions of one handler on the wire at a time
  Moving,        \* orders, nodes and markets that moves of others are explored on
  MaxMoves       \* moves of everybody else, and passing failures, explored

\* u16::MAX, the largest rate_bps.
MaxRate == 65535

Orders == Bids \cup Asks
Nodes  == Asks \cup Others
Kinds  == {"vault", "wallet", "p2pool", "presettled"}

ASSUME BookAssumption ==
  /\ Bids \cap Asks = {} /\ Others \cap Orders = {}
  /\ MarketOf \in [Bids \cup Nodes -> Markets]
  /\ Rate \in [Orders -> 0 .. MaxRate] /\ Kind \in [Nodes -> Kinds]
  /\ HasCranker \in BOOLEAN /\ MaxFills \in Nat \ {0}
  /\ CrankCu \in Nat /\ PromoteCu \in Nat
  /\ DefaultCu \in Nat \ {0} /\ RoutineCu \in Nat /\ V0Cu \in Nat /\ 2 * DefaultCu <= V0Cu
  /\ Copies \in Nat \ {0} /\ MaxWire \in Nat /\ Copies <= MaxWire /\ MaxMoves \in Nat

VARIABLES book,     \* resting orders
          blocked,  \* orders that cannot fill now: no idle funds, LTV, sunset
          node,     \* per node: "none", "pending" in the queue, "loan"
          ripe,     \* nodes whose funding and seat checks pass
          fresh,    \* markets none of whose feeds is stale
          moves     \* moves of everybody else and passing failures so far

bookVars == <<book, blocked, node, ripe, fresh, moves>>

None    == {}
Some(x) == {x}

BookInit ==
  /\ book = Orders /\ blocked \in {{}, Asks} /\ node = [n \in Nodes |-> "none"]
  /\ ripe \in {{}, Nodes} /\ fresh \in {Markets, Markets \ Switchboard} /\ moves = 0

-----------------------------------------------------------------------------
(* The program. *)

Crossed(m) ==
  { p \in (Bids \cap book) \X (Asks \cap book) :
      MarketOf[p[1]] = m /\ MarketOf[p[2]] = m /\ Rate[p[1]] >= Rate[p[2]] }

Fillable(m) == { p \in Crossed(m) : {p[1], p[2]} \cap blocked = {} /\ p \notin SelfCross }

\* What one match_crank may fill: no order twice, something if there is something.
Fills(m) ==
  { F \in SUBSET Fillable(m) :
      /\ Cardinality(F) <= MaxFills
      /\ \A p, q \in F : p # q => p[1] # q[1] /\ p[2] # q[2]
      /\ F = {} => Fillable(m) = {} }

\* A crank with nothing to fill succeeds; it fails on stale prices and out of compute.
CrankExecutes(m, bnd, cu) == (m \in fresh \/ bnd) /\ CrankCu <= cu

\* Required iff non-presettled Fixed node against a vault lender.
NeedsSettle(n) == Kind[n] = "vault"

\* The node is removed only after every check has passed.  Vault settlement
\* reads the debt price.
PromoteExecutes(n, settle, cu) ==
  /\ node[n] = "pending" /\ n \in ripe
  /\ settle = NeedsSettle(n)
  /\ NeedsSettle(n) => MarketOf[n] \in fresh
  /\ PromoteCu <= cu

\* A fill of a vault's ask takes the vault's idle, a vault settlement its funds:
\* any vault ask that still rests may now be unfillable, any vault node still
\* queued unfunded.  A transaction that draws nothing leaves them all alone.
VaultNodes  == { n \in Nodes : Kind[n] = "vault" }
Draw(draws) ==
  IF draws
  THEN \E S \in SUBSET { n \in VaultNodes : node'[n] = "pending" },
          T \in SUBSET (VaultNodes \cap Asks \cap book') :
          ripe' = ripe \ S /\ blocked' = blocked \cup T
  ELSE UNCHANGED <<blocked, ripe>>

-----------------------------------------------------------------------------
(* Everybody else: order flow, deposits and repayments, oracles, other keepers. *)

Disturb == moves < MaxMoves /\ moves' = moves + 1

\* A request about x fails.
Fault(x) == /\ IF x \in Faulty THEN UNCHANGED moves ELSE Disturb
            /\ UNCHANGED <<book, blocked, node, ripe, fresh>>

Toggle(S, x) == IF x \in S THEN S \ {x} ELSE S \cup {x}

\* An ask is placed while no node of its name exists.
OrderFlow(o) ==
  /\ Disturb /\ (o \in Asks => node[o] = "none")
  /\ book' = Toggle(book, o)
  /\ UNCHANGED <<blocked, node, ripe, fresh>>

GateFlips(o) ==
  /\ Disturb
  /\ blocked' = Toggle(blocked, o)
  /\ UNCHANGED <<book, node, ripe, fresh>>

FundingMoves(n) ==
  /\ Disturb
  /\ ripe' = Toggle(ripe, n)
  /\ UNCHANGED <<book, blocked, node, fresh>>

FeedMoves(m) ==
  /\ Disturb /\ m \in Switchboard
  /\ fresh' = Toggle(fresh, m)
  /\ UNCHANGED <<book, blocked, node, ripe>>

\* Another instruction queues a node, or another keeper promotes one.
NodeMoves(n) ==
  /\ Disturb
  /\ \/ n \in Others /\ node[n] = "none" /\ node' = [node EXCEPT ![n] = "pending"]
     \/ node[n] = "pending" /\ node' = [node EXCEPT ![n] = "loan"]
  /\ UNCHANGED <<book, blocked, ripe, fresh>>

BookMoves == \/ \E o \in Orders \cap Moving : OrderFlow(o) \/ GateFlips(o)
             \/ \E n \in Nodes \cap Moving : FundingMoves(n) \/ NodeMoves(n)
             \/ \E m \in Markets \cap Moving : FeedMoves(m)

BookTypeOK ==
  /\ book \subseteq Orders /\ blocked \subseteq Orders
  /\ node \in [Nodes -> {"none", "pending", "loan"}]
  /\ ripe \subseteq Nodes /\ fresh \subseteq Markets /\ moves \in 0 .. MaxMoves
=============================================================================
