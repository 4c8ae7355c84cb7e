---------------------------- MODULE BankRegistry ----------------------------
(***************************************************************************)
(* The registry of marginfi banks by mint (bank_registry.rs, behind the    *)
(* RwLock of config.rs): discovery at boot (main.rs), the merge-only       *)
(* refresh loop (metrics.rs), and a handler that takes a market's banks    *)
(* from a snapshot and holds on to them while the loop goes on.            *)
(***************************************************************************)
EXTENDS Naturals, FiniteSets

CONSTANTS NoBank,        \* not a bank
          Markets,       \* markets that may come to exist
          Mints, Banks,
          Debt, Coll,    \* per market: its [mint, bank] on each side
          Resolvable,    \* banks resolve_from_chain accepts: present, owned by
                         \* marginfi, decodable, of the right mint, 1-5 oracles
          Pull,          \* banks priced by a Switchboard pull feed
          AccountLimit,  \* keys of one getMultipleAccounts call
          CreateLimit    \* create-ATA instructions that fit one transaction

Sides == [mint : Mints, bank : Banks]

ASSUME BankRegistryAssumption ==
  /\ Debt \in [Markets -> Sides] /\ Coll \in [Markets -> Sides]
  /\ Resolvable \subseteq Banks /\ Pull \subseteq Banks
  /\ NoBank \notin Banks
  /\ AccountLimit \in Nat /\ CreateLimit \in Nat

VARIABLES
  live,    \* markets on chain
  atas,    \* mints for which the fee payer has a token account on chain
  stage,   \* main: discover, resolve, atas, swb, up; or down
  banks,   \* cfg.banks
  boot,    \* history: mints known when the boot discovery ended
  rejected,\* history: this boot's create-ATAs transaction was recorded as failed
           \* and the sender answered Ok for it
  swb,     \* swb_cranker: untried, loaded, failed
  loop,    \* the refresh loop: off, discover, resolve, sleep
  found,   \* the markets the discovery under way has read
  pair     \* the handler: the banks of the market it visits, or Nothing

procVars == <<banks, boot, rejected, swb, loop, found, pair>>
vars     == <<live, atas, stage, procVars>>

Empty == [m \in Mints |-> NoBank]

Known(r) == {m \in Mints : r[m] # NoBank}

Nothing == [market |-> NoBank, debt |-> NoBank, coll |-> NoBank]

Init ==
  /\ live \in SUBSET Markets /\ atas = {} /\ stage = "discover"
  /\ banks = Empty /\ boot = {} /\ rejected = FALSE
  /\ swb = "untried" /\ loop = "off"
  /\ found = {} /\ pair = Nothing

-----------------------------------------------------------------------------
(* BankRegistry::discover_from_markets and resolve_from_chain *)

Bindings(ms) == {Debt[m] : m \in ms} \union {Coll[m] : m \in ms}

\* The scan that fills mint_to_bank bails at the first mint bound to two banks.
Conflict(ms) == \E x, y \in Bindings(ms) : x.mint = y.mint /\ x.bank # y.bank

MintsOf(ms) == {x.mint : x \in Bindings(ms)}

\* Every account of one batch is decoded and checked; the first refusal fails
\* the whole discovery.  Both batches name one account per mint.
CanResolve(ms) ==
  /\ Cardinality(MintsOf(ms)) <= AccountLimit
  /\ \A x \in Bindings(ms) : x.bank \in Resolvable

Resolved(ms) ==
  [t \in Mints |-> IF t \in MintsOf(ms)
                     THEN (CHOOSE x \in Bindings(ms) : x.mint = t).bank
                     ELSE NoBank]

\* merge_from: entry(mint).or_insert(info).
merge_from(known, new) ==
  [t \in Mints |-> IF known[t] # NoBank THEN known[t] ELSE new[t]]

\* What refresh_markets may return: the accounts, or zero rows under load.
Rows == {live, {}}

-----------------------------------------------------------------------------
(* main *)

Exit == stage' = "down"

\* discover_banks_from_markets, up to the conflict test.
BootDiscover ==
  /\ stage = "discover"
  /\ \/ \E ms \in Rows :
          \/ /\ Conflict(ms) /\ Exit /\ UNCHANGED found
          \/ /\ ~Conflict(ms) /\ stage' = "resolve" /\ found' = ms
     \/ Exit /\ UNCHANGED found
  /\ UNCHANGED <<live, atas, banks, boot, rejected, swb, loop, pair>>

\* The rest of it: the fresh registry is assigned.  No market, no RPC call.
BootResolve ==
  /\ stage = "resolve"
  /\ \/ /\ CanResolve(found) /\ stage' = "atas"
        /\ banks' = Resolved(found) /\ boot' = MintsOf(found)
     \/ found # {} /\ Exit /\ UNCHANGED <<banks, boot>>
  /\ UNCHANGED <<live, atas, rejected, swb, loop, found, pair>>

Missing == Known(banks) \ atas

\* mutant: a failure for the fee payer is only logged, as for a curator
EnsureAtasLenient ==
  /\ stage = "atas" /\ stage' = "swb" /\ atas' \in {atas, atas \union Missing}
  /\ UNCHANGED <<live, procVars>>

\* mutant: the plain create instruction, which fails on an account that exists
EnsureAtasCreate ==
  /\ stage = "atas"
  /\ \/ Known(banks) = {} /\ stage' = "swb" /\ UNCHANGED atas
     \/ /\ Known(banks) \intersect atas = {} /\ Cardinality(Known(banks)) <= CreateLimit
        /\ stage' \in {"swb", "down"} /\ atas' = atas \union Known(banks)
     \/ Known(banks) # {} /\ Exit /\ UNCHANGED atas
  /\ UNCHANGED <<live, procVars>>

\* ensure_atas_for(fee payer): one transaction creates all that are missing.
\* An error is fatal, also one returned after the transaction has landed.  The
\* sender's Ok also stands for an attempt the cluster recorded as failed, which
\* creates nothing, and boot goes on.
EnsureAtas ==
  /\ stage = "atas"
  /\ \/ Missing = {} /\ stage' = "swb" /\ UNCHANGED <<atas, rejected>>
     \/ /\ Missing # {} /\ Cardinality(Missing) <= CreateLimit
        /\ \/ stage' \in {"swb", "down"} /\ atas' = atas \union Missing /\ UNCHANGED rejected
           \/ stage' = "swb" /\ rejected' = TRUE /\ UNCHANGED atas
     \/ Known(banks) # {} /\ Exit /\ UNCHANGED <<atas, rejected>>
  /\ UNCHANGED <<live, banks, boot, swb, loop, found, pair>>

\* The Switchboard cranker is created if the registry has a pull feed now; its
\* failure is not fatal.  Then the loops and the handlers are spawned.
BootSwb ==
  /\ stage = "swb" /\ stage' = "up"
  /\ IF \E t \in Mints : banks[t] \in Pull
       THEN swb' \in {"loaded", "failed"}
       ELSE swb' = swb
  /\ loop' = "discover"
  /\ UNCHANGED <<live, atas, banks, boot, rejected, found, pair>>

\* The orchestrator starts a new process; the chain is as it was.
Restart ==
  /\ stage = "down" /\ stage' = "discover"
  /\ banks' = Empty /\ boot' = {} /\ rejected' = FALSE /\ swb' = "untried" /\ loop' = "off"
  /\ found' = {} /\ pair' = Nothing
  /\ UNCHANGED <<live, atas>>

-----------------------------------------------------------------------------
(* The refresh loop: refresh_banks, then the sleep. *)

\* mutant: the markets read at boot are used again
RefreshDiscoverCached ==
  /\ loop = "discover"
  /\ \/ found # {} /\ loop' = "resolve" /\ found' = found
     \/ found = {} /\ loop' = "resolve" /\ found' = live
     \/ loop' = "sleep" /\ UNCHANGED found
  /\ UNCHANGED <<live, atas, stage, banks, boot, rejected, swb, pair>>

\* An error is logged; zero rows leave the registry alone.
RefreshDiscover ==
  /\ loop = "discover"
  /\ \/ \E ms \in Rows :
          IF Conflict(ms) \/ ms = {} THEN loop' = "sleep" /\ UNCHANGED found
                                     ELSE loop' = "resolve" /\ found' = ms
     \/ loop' = "sleep" /\ UNCHANGED found
  /\ UNCHANGED <<live, atas, stage, banks, boot, rejected, swb, pair>>

\* mutant: the refresh assigns what it found, an empty registry on an error
RefreshWipes ==
  /\ loop = "resolve" /\ loop' = "sleep"
  /\ banks' \in {Resolved(found), Empty}
  /\ UNCHANGED <<live, atas, stage, boot, rejected, swb, found, pair>>

\* A failed RPC call or a bank that is refused leaves the registry alone.
RefreshResolve ==
  /\ loop = "resolve" /\ loop' = "sleep"
  /\ \/ CanResolve(found) /\ banks' = merge_from(banks, Resolved(found))
     \/ UNCHANGED banks
  /\ UNCHANGED <<live, atas, stage, boot, rejected, swb, found, pair>>

RefreshSleep ==
  /\ loop = "sleep" /\ loop' = "discover"
  /\ UNCHANGED <<live, atas, stage, banks, boot, rejected, swb, found, pair>>

-----------------------------------------------------------------------------
(* A handler. *)

\* mutant: the two sides are looked up in the wrong order
LookUpSwapped(m) == [market |-> m, debt |-> banks[Coll[m].mint], coll |-> banks[Debt[m].mint]]

\* bank_pair on a banks_snapshot: the banks are found by mint, not by the
\* addresses the market itself names.
LookUp(m) == [market |-> m, debt |-> banks[Debt[m].mint], coll |-> banks[Coll[m].mint]]

\* mutant: a market with an unknown side is not skipped
VisitUnknown(m) ==
  /\ stage = "up" /\ pair = Nothing /\ m \in live
  /\ pair' = LookUp(m)
  /\ UNCHANGED <<live, atas, stage, banks, boot, rejected, swb, loop, found>>

\* A listed market is visited; one with an unknown side ends in an error.  The
\* banks are cloned and used for every instruction built until the visit ends.
Visit(m) ==
  /\ stage = "up" /\ pair = Nothing /\ m \in live
  /\ LookUp(m).debt # NoBank /\ LookUp(m).coll # NoBank
  /\ pair' = LookUp(m)
  /\ UNCHANGED <<live, atas, stage, banks, boot, rejected, swb, loop, found>>

VisitEnds ==
  /\ pair # Nothing /\ pair' = Nothing
  /\ UNCHANGED <<live, atas, stage, banks, boot, rejected, swb, loop, found>>

\* Environment: a market is created; its account is never closed.
CreateMarket(m) ==
  /\ m \notin live /\ live' = live \union {m}
  /\ UNCHANGED <<atas, stage, procVars>>

Next == \/ BootDiscover \/ BootResolve \/ EnsureAtas \/ BootSwb \/ Restart
        \/ RefreshDiscover \/ RefreshResolve \/ RefreshSleep
        \/ VisitEnds
        \/ \E m \in Markets : Visit(m) \/ CreateMarket(m)

\* Every task keeps running and the orchestrator restarts the process; a call
\* to the node that is repeated for ever is answered in full again and again.
Fairness ==
  /\ WF_vars(BootDiscover \/ BootResolve \/ EnsureAtas \/ BootSwb \/ Restart)
  /\ WF_vars(RefreshDiscover \/ RefreshResolve \/ RefreshSleep)
  /\ SF_vars(BootDiscover /\ stage' = "resolve" /\ found' = live)
  /\ SF_vars(BootResolve /\ stage' = "atas")
  /\ SF_vars(EnsureAtas /\ stage' = "swb")
  /\ SF_vars(RefreshDiscover /\ loop' = "resolve")
  /\ SF_vars(RefreshResolve /\ banks' # banks)

Spec == Init /\ [][Next]_vars /\ Fairness

-----------------------------------------------------------------------------
(* Properties *)

Records == [Mints -> Banks \union {NoBank}]

\* The type invariant; token accounts exist for mints of markets on chain only,
\* and a handler never works with an unknown bank.
TypeOK ==
  /\ live \in SUBSET Markets /\ atas \in SUBSET MintsOf(live)
  /\ stage \in {"discover", "resolve", "atas", "swb", "up", "down"}
  /\ banks \in Records /\ boot \in SUBSET Mints /\ rejected \in BOOLEAN
  /\ swb \in {"untried", "loaded", "failed"}
  /\ loop \in {"off", "discover", "resolve", "sleep"}
  /\ found \in SUBSET live
  /\ pair \in [market : live, debt : Banks, coll : Banks] \union {Nothing}

\* The merge-only refresh: while the process runs, the bank of a known mint is
\* neither dropped nor replaced, whatever the node returns and whatever
\* market is created meanwhile.
KnownBanksStay ==
  [][stage' # "discover" => \A t \in Known(banks) : banks'[t] = banks[t]]_vars

\* Handlers find banks by mint and keep them over many awaits; they work with a
\* bank other than the market's own only when some market on chain binds a
\* mint to a second bank, never because of a stale copy or a half-done refresh.
WrongBankOnlyAfterConflict ==
  pair # Nothing /\ ~Conflict(live)
    => /\ pair.debt = Debt[pair.market].bank
       /\ pair.coll = Coll[pair.market].bank

\* "Create any missing ATAs for `owner` across every known mint" (bank_registry.rs
\* 283): once the handlers run, also after boots that failed half way, a mint
\* boot has found lacks its token account only if the very create transaction
\* of this boot was recorded as failed and the sender took that for success.
BootMintsHaveAtas == stage = "up" /\ ~rejected => boot \subseteq atas

\* The registry cannot be built from the markets on chain.
Blocked == Conflict(live) \/ ~CanResolve(live)

\* Boot comes to an end: restarted for ever, the process comes up unless the
\* markets on chain defeat discovery, or their token accounts do not fit one
\* transaction.
BootsUnlessStuck == <>(stage = "up" \/ Blocked \/ Cardinality(MintsOf(live)) > CreateLimit)

BanksKnown(m) == {Debt[m].mint, Coll[m].mint} \subseteq Known(banks)

\* A market created while the process runs is known to the registry in the
\* end, across failing calls and empty answers, unless some market blocks.
MarketsSurfaceUnlessBlocked ==
  \A m \in Markets : (stage = "up" /\ m \in live) ~> (BanksKnown(m) \/ Blocked)
=============================================================================
