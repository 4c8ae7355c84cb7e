# Verification of ydelta-crankers

TLA+ models of the yDelta keeper bot (`src/`, one Rust binary): TLC configurations that
check them on small instances, and TLAPS proofs of what matters most for every value of the
constants. Line numbers refer to the Rust files under `src/src/`.

## 1. The system

The bot is one process. `main` boots it (configuration, keys, bank discovery, token accounts,
metrics, health server), spawns background tasks and up to five *handlers*, and waits for the
handlers. Every handler loops: look at the shutdown flag and at the low-balance flag, run one
`tick`, sleep. A tick reads the chain through `ChainReader`, decides, simulates and submits
through `Rpc`. The chain, the RPC node and the Switchboard gateways are outside; so is the
on-chain program.

| component | source | state | operations | talks to |
|---|---|---|---|---|
| transaction sender | `rpc.rs` | per call: attempt, last signature; the stop flag | `send_signed_labeled`, `send_signed_v0_labeled`, their retry loops, `is_transient` | RPC node; called by every handler and by boot |
| repay sizing | `handlers/liquidator.rs`, `handlers/util.rs` | none (pure) | `pick_repay_amount`, the over-stage, the partial floor | the keeper's token account |
| liquidator | `handlers/liquidator.rs` | `inflight` set; locals of the visit | `tick`, `scan_market`, `try_settle_or_liquidate`, the two paths | market cache, bank registry, Switchboard cranker, sender |
| supervisor | `main.rs`, `handlers/mod.rs` | stop and ready flags, tasks | boot, `spawn` loop, signals, panic hook, exit | all tasks |
| balance poller | `metrics.rs` | `fee_payer_low` | `spawn_sol_balance_loop` | gates the handler loop |
| Switchboard cranker | `swb_cranker.rs` | gateways | `crank` with failover, `fetch_update_ixs`, warm-keeper loop | gateways; own RPC client |
| health server | `health_server.rs` | none | bind, serve, stop | reads `ready`, `stop` |
| market cache | `chain_reader.rs` | snapshot and its time stamp | `list_markets`, `refresh_markets` | shared by all handlers and the bank refresh |
| bank registry | `bank_registry.rs`, `config.rs` | banks by mint behind an `RwLock` | discovery, merge-only refresh, `ensure_atas_for`, look-up | market cache, sender; read by handlers |
| match cranker | `handlers/match_cranker.rs` | `inflight` set of markets | crossing gate, simulate, parse the fill count, submit | book on chain, bank registry, Switchboard cranker, sender |
| promoter | `handlers/promoter.rs` | `inflight` set of queue nodes | read the matched-loan queue, assemble vault-settle accounts, simulate, send | the queue the match cranker fills |
| claimer | `handlers/claimer.rs` | `inflight` set of seats | atom gate, seat scan over all markets, simulate, send | seats that settles and liquidations pay into |
| curator fee claimer | `handlers/curator_fee_claimer.rs` | `inflight` set of sub-vaults | list, test floor and key, send signed by the curator | not gated by the fee payer's balance |
| account batch, ATA gauge | `rpc.rs`, `metrics.rs` | permits, chunk tasks; the balance map | `batch_get_multiple_accounts`, `spawn_ata_balance_loop` | bank registry, RPC node |
| configuration, signers, marginfi decoder, metrics exposition | `config.rs`, `signer.rs`, `marginfi_bank.rs`, `metrics.rs` | none | parsing, decoding, gauges | - |

What is hard in it:

* **delivery**: a send may be lost, answered late, or land after the call has given up on it;
  the retry signs again over a new blockhash;
* **staleness**: every visit of a loan has six awaits between the listing and the send, while
  prices, feeds, balances, other keepers and earlier transactions of the bot move;
* **sharing**: one market snapshot and one registry are filled by overlapping fetches of
  several tasks; a fetch may return zero rows, and the older one may be stored last;
* **failure isolation**: a failing loan, market, gateway or balance request must not stop the
  rest, and a panic must not leave a bot that looks healthy;
* **shutdown**: the signal arrives anywhere in all of this.

`PROJECT.json` lists the hazards line by line with the properties aimed at them.

## 2. Modules

| module | models | state and actions |
|---|---|---|
| `Submission` | what a caller may rely on when it submits a bundle | `result`, `chain`; one answer, `Ok` only for a recorded signature, `Err` promises nothing |
| `TxSender` | one call of either sender with its retry loop | one action per await: `Enter`, `LoopHead`, `CheckStatus`, `GetBlockhash`, `Send`, `Confirm`, `ConfirmFails`, `Backoff`; the cluster `Land`s, `Drop`s and `Age`s |
| `RepayMath` | `pick_repay_amount` and `util.rs`, saturating u64 | operators; the program's acceptance rule is external |
| `RepayPlan` | rounds of pick, confirm, send on one loan | `PickAmount`, `ConfirmAmount`, `Send`, `Forget`; plus accrual, moves of the account, and an operator who tops it up |
| `Liquidator` | the whole handler over markets and loans | one action per await; `Leave` is the return of a path into `try_settle_or_liquidate` and `scan_market`; submissions follow `Submission` (several copies, late landings) |
| `Supervisor` | the process | boot stages, the handler loop, poller, warm-keeper, readiness, signal, panic |
| `MarketCache` | `list_markets` / `refresh_markets` | request sent, evaluated by the node, stored; a clock for the TTL |
| `BankRegistry` | discovery, refresh, boot ATAs, look-up | `banks`, the boot stages, the refresh loop, a handler that holds a pair of banks over its visit |
| `Keeper` | what every gated handler promises about its items | a `stage` per item: `Claim`, `Clear` (a simulation passed), `Send`, `Release`; one claim at a time, every claim returned |
| `Book` | the on-chain side of origination | orders, gates, the matched-loan queue, feeds, compute budgets; what others do to them |
| `MatchCranker` | the whole handler, with `market_is_rate_crossed` and `parse_match_crank_fills` | one action per await, names begin with `Mc` |
| `Promoter` | the whole handler, with `read_pending_matched_loans`, `read_seat_at` | one action per await, names begin with `Pr` |
| `Origination` | both as tasks over one `Book` | interleaves `CrankerNext`, `PromoterNext` and everybody else's moves |
| `Claimer` | the whole handler, with `list_sub_vaults`, `list_pending_vault_claims` | `ListVaults`, `ReadMarket` per market, `Filter`, then `Visit`, `Simulate`, `Submit`, `Answered` per seat |
| `CuratorFees` | the whole handler | `List`, then `Visit`, `Submit`, `Answered` per sub-vault |
| `AccountBatch` | `batch_get_multiple_accounts` inside the gauge loop | `Begin`; per chunk `Acquire`, `NodeAnswers` or `Fails`, `Join` or `JoinFailed`; `Finish` |
| `MC*` | instances for TLC | values of the constants only |
| `*Proofs` | theorems | extend the module of the same name; `ReaderProofs` is about `AccountBatch` and `MarketCache`, `LiquidatorProofs` about `Liquidator` and `RepayPlan` |

Composition. `TxSender` refines `Submission` (`ImplementsSubmission`), and the modules that
submit use that contract rather than the loop: `Liquidator` lets one submission put up to
`Copies` transactions on the wire, answer `Ok` only when one is recorded (as success or as
failure: that is the finding of `tx_sender_ok`) and `Err` at any time for a loan with failing requests; `Supervisor` keeps the three
steps that matter at its grain (stop check, broadcast, answer). The other handlers submit
the same way: up to `Copies` transactions, which may land after the visit that sent them.
`Liquidator`, `MatchCranker`, `Promoter` and `Claimer` refine `Keeper` (`ImplementsKeeper`,
`ImplementKeeper`): the stage of an item is read off the claim and the program counter, and
`able` is what the program would execute *under the send's compute limit*, so the refinement
says that no simulation is laxer than the send it clears. `CuratorFees` does not refine it,
since nothing simulates its claims. `BankRegistry` takes the sender at its word too: `EnsureAtas`
may go on after a create transaction that failed on chain (`rejected`). `Origination` composes the
two handlers that feed each other, and that draw on one vault: a fill takes the idle of its ask's
vault and a vault settlement its funds, after which any other resting vault ask may be blocked and any
queued vault node unfunded (`Draw`), whatever the other handler has simulated. `Liquidator` and `RepayPlan` share `RepayMath`. `MarketCache` justifies what `BankRegistry` assumes of `refresh_markets`
(all rows or none).

Abstractions. A signature is numbered by the blockhash it is signed over, because a retry
that is given the same blockhash signs the same transaction. Time in `Liquidator` is a phase
per loan (running, past grace, past the keeper's extra buffer). The order in which markets and
loans are visited is left open, since `getProgramAccounts` fixes none for loans; for markets
this allows more orders than the sort by address. Logging, metrics, labels and the accounts of an instruction are left
out. The accrual ratio of `static_accrued_ratio_bps` is compared exactly; the code computes
it in `f64` and truncates, which differs only when rounding meets 10500 exactly.
`markets_cache` and `RwLock` poisoning are left out: a panic ends the process.
`list_markets` or `list_sub_vaults` failing is an empty tick of the handler.
In `Book` an ask names the queue node its fill creates, a market is fresh or not as a whole,
and the logs of a simulation are a sequence of lines of three kinds (text, a record of another
program, the `MatchCrankLog`), cut anywhere. A transaction has one compute limit: in a bare
`simulate_v0` the default of each instruction of the bundle, in a send the one it asks for. In
`CuratorFees` everything the marginfi withdrawal looks at (a stale oracle, health, liquidity) is one
flag per sub-vault, `payable`, which moves like the pause flag. In `Claimer` a seat holds shares of which
`ShareValue` make an atom, so that dust (shares worth no atom) exists. In `AccountBatch` the
content of an account is its owner and a version, which tells a neighbour's balance and an old
one from the right one.

## 3. Runs

Passing runs (distinct states in brackets):

| run | shows |
|---|---|
| `tx_sender` [13 665] | three attempts against every mix of lost requests, lost answers, node errors, preflight and program errors, errors of no known kind, expiry, late landing and shutdown: `AtMostOneLateSend`, `OneTransactionPerAttempt`, refinement of `Submission`, and `CallReturns` (which the `unreachable!()` behind the loop would break) |
| `repay_plan` [225 614] | 16 loan bodies and 8 balances on both sides of every threshold, two accruals or account moves anywhere, an operator who tops the account up: `PicksLargestFundable`, and that a Fixed loan of 150 000 atoms is worked off from an account of 1500 (`UnderfundedNeverDeadlocks`) |
| `liquidator` [270 969] | a P2Pool and a Fixed loan of one market, two copies per submission, the Fixed loan and a second market failing at will, one environment move, and bundles on both sides of the simulations' compute limit (the P2Pool loan's liquidation is too heavy to simulate behind the update, its settlement is not): `ClaimsMatchVisit`, `RevertsOnlyAfterInterference`, refinement of `Keeper`, and `MaturedLoansClose` for the P2Pool loan, which has to go through the fallback |
| `supervisor` [378 077] | two handlers (one with its own signer), two gateways, two attempts: `NoDeadHandler`, `LateSendsPerHandler`, `LateWarmSends`, `ShutdownCompletes`, `FundedHandlersTick` |
| `market_cache` [2.1 M] | two tasks, two markets and a malformed account, TTL 2, latency 2, clock to 4: `OldMarketsListed`, `NoBlackout` |
| `bank_registry` [3 514] | four markets, one with a refused bank and one in conflict, restarts, a create transaction that fails and is answered `Ok`: `KnownBanksStay`, `WrongBankOnlyAfterConflict`, `BootMintsHaveAtas`, `BootsUnlessStuck`, `MarketsSurfaceUnlessBlocked` |
| `origination` [148 422] | a bid that crosses its owner's own best ask and a vault's ask, a node of the same vault whose requests may fail for ever, a market that cannot be read, one move of anybody else anywhere: `WasteOnlyAfterInterference`, refinement of `Keeper` by both handlers, and `WorkDrains`: crosses become nodes and nodes become loans |
| `claimer` [144 488] | an atom next to dust, a seat in a market whose reads abort the tick, a seat whose requests fail, two moves: refinement of `Keeper`, `SweepsSettle` |
| `curator_fees` [937 456] | a sound sub-vault, one with failing sends, one of a foreign bank; a curator without a token account; rotations, accruals, claims by hand, pauses, a bank that does not pay: `ClaimsFailForAReason`, `FeesClaimed` |
| `account_batch` [174 924] | up to three accounts in chunks of two under one permit, balances moving between the answers of the chunks, failing chunks, a growing registry: `RoundsAreTrue`, `RoundsEnd` |

Runs that refute a statement of the docs or comments (each is a finding in `PROJECT.json`):

| run | statement | what the code does |
|---|---|---|
| `tx_sender_ok` | a landed attempt is a success (`rpc.rs` 201) | a recorded failure is also returned as `Ok` |
| `no_fill_detection` | the crank's simulation cannot tell a fill from a no-op, so a crank that simulates is submitted (`README.md` 79, `match_cranker.rs` 17-23) | the fill count is parsed from the simulation's logs and a crank of 0 fills is skipped (`match_cranker.rs` 170-174); `WasteOnlyAfterInterference` is about the code, not the header |

Differences between text and code met on the way that have no run of their own:

* `README.md` 76 and 78 list no sim gate for the promoter and the claimer; both simulate before
  they send (`promoter.rs` 148, `claimer.rs` 175), and the refinements of `Keeper` rest on it;
* a landed attempt is to be returned, "instead of re-signing" (`rpc.rs` 192-194); it is signed
  again when the status request fails or the landing is late (206);
* "matured and under-water: `liquidate_loan` first" (`README.md` 37-39); a Fixed loan only past
  the 1.05 accrual prefilter (`liquidator.rs` 92-97, 180);
* "skip liquidations whose keeper bonus is below this" (`.env.example` 36); the bonus is that
  of the whole debt, also when a partial is submitted (`liquidator.rs` 354-361);
* "newly-created markets surface without a restart" (`README.md` 217-219); not while discovery
  fails on one market's bank (`bank_registry.rs` 159-196), which is why
  `MarketsSurfaceUnlessBlocked` has its premise;
* the claimer has no "share-level no-progress guard" (`README.md` 55-56): `claimer.rs` 88-93
  relies on the program zeroing dust, and `SweepsSettle` is about that;
* a preflight rejection (-32002) is in the range `is_transient` retries (`rpc.rs` 428; 418-422
  says a program error is not retried);
* `simulate_v0` runs under the default compute limit of its instructions (`rpc.rs` 266), the
  send under a larger one: a crank, a settle or a liquidate bundle that needs more than the default
  is refused by its gate and never sent (`Crankable` in `WorkDrains` and `SettleSimulates` in
  `MaturedLoansClose` have that premise); `simulate` agrees with its send;
* a P2Pool loan of at most 1000 atoms may be *picked* a partial below the floor just tested
  (`liquidator.rs` 492-493). Nothing of the kind is submitted: the confirming simulation refuses it,
  as the comment at 284-296 says; `PicksLargestFundable` leaves these loans out;
* "Create any missing ATAs" (`bank_registry.rs` 283): a create transaction recorded as failed on an
  attempt that is retried is answered `Ok` by the sender, and boot goes on without the accounts
  (337-342), which is the premise `~rejected` of `BootMintsHaveAtas`;
* the curator's claim is charged on chain when the bank's oracle is stale: nothing simulates it and
  no update is bundled (`curator_fee_claimer.rs` 128-146), although `claimer.rs` 104-106 knows such a
  withdrawal is rejected; `FeesClaimed` is about sub-vaults the bank pays out;
* handlers with their own signer do not pause on a low fee payer (`handlers/mod.rs` 65;
  `.env.example` 43 says all do);
* the conflict test of the registry guards boot; a conflicting market created later is visited
  with the first market's bank (`liquidator.rs` 505), which is why
  `WrongBankOnlyAfterConflict` has its premise;
* whether a Switchboard cranker exists is decided once, at boot (`main.rs` 108; 102-103 says
  whenever such a market exists);
* an empty boot discovery is logged, not fatal (`bank_registry.rs` 95; `chain_reader.rs`
  229-230 says fatal).

### Bounds

* `MaxAttempts = 3` is the code's; in `Supervisor` it is 2, which has a first and a last
  attempt, and the bounds proved do not depend on it.
* `U64Max` stands for the width of u64; it is large enough for every threshold of the
  arithmetic and small enough that the over-stage of the largest loan saturates.
* `MaxDisturbed = 2` and `DebtBound` in `RepayPlan`: an accrual and a move of the account in one
  round, or a stale body met by the next round. Rounds themselves are not bounded: the largest
  Fixed loan takes a hundred of them.
* `Copies = 2`, `MaxWire = 2`: one copy of a submission may land before and one after the
  answer, and a copy left over may meet the next visit. `MaxMoves = 1` already separates every
  pair of steps of a visit, since the move may come anywhere.
* `MaxItems = 1` with two attempts: a submission that is tried again after the signal, and ticks
  without a submission; the theorems hold for any number. `MaxFlips = 1` with both initial
  balances: drained while running, and refilled.
* `TTL = 2`, `MaxLatency = 2`, `MaxTime = 4`: the earliest instant at which the bound
  `TTL + MaxLatency` says anything is 4.
* `MaxMoves = 1` with `Moving = {a, p, good}` in `origination`: one move of an ask, of a node
  or of the feed, or one passing failure of a sound market, anywhere in either handler's visit;
  requests about `Faulty` things fail without being counted. The theorems need no bound.
* `CrankCu`, `PromoteCu` and the limits (200, 400, 1400) are thousands of compute units: a
  promotion exceeds the default limit and fits the configured one, a crank fits two default
  limits and not one. In `liquidator` the update takes 230, so that behind it one loan can only be
  settled and the other not closed at all, and without it the second can only be liquidated.
* `ShareValue = 2` with seats of 1, 2 and 3 shares: dust alone, an atom, an atom next to dust.
* `Floor = MaxFee = 2`: a fee reaches the floor exactly, or stays one short of it. A floor of 0,
  where every sub-vault without a fee is claimed in vain, is not in the run: the property excuses
  every failure there, and so does the theorem. `MaxMoves = 2` on `Moving = {x, y}`.
* `CHUNK_SIZE = 2`, `MAX_CONCURRENCY = 1` with three accounts: a full and a short chunk, and a
  task that waits for the other's permit. `MaxVersion = 1` tells before from after.
* `AccountLimit`, `CreateLimit` stand for the 100 keys of `getMultipleAccounts` and the size
  of a transaction.

### Fairness

* `TxSender`: the runtime polls ready futures, and slots pass (`Age`). Nothing forces a poll
  to fail, so `ConfirmFails` has no fairness; neither has any landing.
* `Supervisor`: every task is scheduled, a submission answers (that is `CallReturns`), and the
  balance request does not fail for ever (strong fairness of the successful read).
* `Liquidator`: the handler keeps ticking (`Supervisor`), requests outside `Faulty` are
  answered, and a loan's transactions, submitted again and again, are not all dropped (strong fairness of
  landing; without it nothing on a blockchain ever happens).
* `BankRegistry`: tasks run, the orchestrator restarts the process (`main.rs` 252-254), and a
  request repeated for ever is answered again and again. Restarting for ever is what `railway.toml`
  asks for with `restartPolicyType = "ALWAYS"`; it also names `restartPolicyMaxRetries = 10`, and if
  the platform stops at ten, `BootsUnlessStuck` holds only when one of these boots gets through.
* `RepayPlan`: the handler visits the loan again and again and the operator tops the account
  up to `Refill`; accrual and other moves are bounded, so they end.
* `Origination`, `CuratorFees`: the handlers keep ticking, requests outside `Faulty` fail at
  most `MaxMoves` times, and transactions submitted again and again are not all dropped (strong
  fairness of landing, per market, node and sub-vault).
* `Claimer`: the same, and strong fairness of reading each market, since one failed read ends
  the tick: with a market that can never be read, nothing is ever swept (`chain_reader.rs` 468).
* `AccountBatch`: the runtime runs every task that can run; nothing forces a request to fail.
* `MarketCache` has only safety properties.

Deadlock is checked in the runs of the handlers and of the registry. The others may stop: a call returns, a loan is
worked off, a process or a loop ends, the clock reaches its bound.

## 4. Proofs

Every theorem holds for all values of the constants under the named assumptions of the
modules (types, and: at least one attempt, at least one gateway, a TTL of at least one tick,
`U64Max >= 2000`, finitely many seats and mints). Each proof states an inductive invariant
`IInv`, shows that `Init` establishes it and that every action keeps it, and derives the
properties. `LiquidatorProofs` and `ReaderProofs` are about two specifications each: `Spec` of
`Liquidator` and `RepaySpec` of `RepayPlan`, which rest on the same arithmetic; `Spec` of
`MarketCache` and `BatchSpec` of `AccountBatch`. The two modules of a pair share no variable and
no constant but `U64Max`, and no statement is about both specifications.

* `TxSenderProofs`. `IInv` adds to the types how the loop variables hang together: the
  attempts bound the blockhashes signed over; `last_sig` is the signature of the latest
  failed attempt; nothing is on the wire before the first send; a late broadcast leaves no
  path back past the shutdown check. `CallImplementsSubmission` is the refinement, step by step.
* `LiquidatorProofs`, rounds of `RepayPlan`. Lemmas on `pick_repay_amount` for all amounts (what a `None`, a sentinel
  and a partial mean), then that `offer` is the value of that operator on `seen` and `read`
  while a round is under way.
* `SupervisorProofs`. `Armed` (a handler that is about to broadcast after the signal has not
  done so before), `Busy`, `WarmPaced` (late broadcasts of the warm-keeper never exceed the
  gateways tried) and `GoneMeansStop`.
* `BankRegistryProofs`. `Sourced` (every bank in the registry is the binding of some market on
  chain), `PairSourced` (the same of the pair a handler holds) and `Phases`.
* `LiquidatorProofs`, the handler. `IInv` says that at most one loan is claimed, the one under visit, that
  the record and the copies of a submission exist only during it, and that from the confirming
  simulation on, until somebody touches the chain, the transaction the visit is about to send
  (or has sent: every copy on the wire that is `mine`) would execute. The last part is what makes
  `RevertsOnlyAfterInterference` inductive; `HandlerImplementsKeeper` is the refinement, step
  by step.
* `OriginationProofs`. `GateIsExact`: the best bid and the best ask cross exactly when some pair
  does (a side that is not empty has a best order, since rates are u16; nothing is assumed of
  the number of orders). `IInv` is the
  two-handler form of the same argument: each handler's verdict stands until it is *touched*, and
  the other handler's landings touch it adversely only by what they draw from the vault (apart from
  that a crank only adds nodes and freshens feeds, and a promotion leaves the book alone).
* `ReaderProofs`, batch: the chunks cover every position and do not overlap (the chunk of a
  position is the least one whose end is not before it); `AnswersTrue` and `OutputTrue` say that
  what a task has answered, and what has been joined, is the content of the listed accounts at
  their positions, read since the round began. Cache: `InFlight` (a request is not older than
  the latency), `RowsComplete` (non-empty rows name every market older than the request) and
  `CacheComplete` (a snapshot names every market older than its stamp minus the latency): the
  last is what survives an older fetch that overwrites a newer one.
* `ClaimerProofs`. `Shape` (one seat claimed, the one under sweep; what is `mine` on the
  wire is for it and only while it is awaited) makes the types and the refinement go through;
  `Gated` (rows, seat and wire come from markets that are not paused, and from sub-vaults that
  were claimable) carries `SweepsAreGated` from the listing to the wire. That realised atoms and
  shares never go below 0 rests on two lemmas on `Worth` (rounding down never takes more than
  there is). `ClaimerImplementsKeeper` is the refinement, step by step.
* `CuratorFeesProofs`. No simulation gates a claim, so the argument is about the listing.
  `ListingStands` says that a sub-vault not touched since the listing still has the listed
  curator and a fee at the floor and is not paused, and one that was payable all the time still is; `SignedAsListed` that the copies of the submission under way
  are signed by that curator. Together they make `ClaimsFailForAReason` inductive. `ClaimsAreOurs`
  needs the keys tested at the listing to be those of the listed curators, which rotation
  does not change.

**Progress.** Liveness under fairness is outside the prover, but what its argument needs of the
steps is not, and is proved for all constants; what is left to TLC is that fairness makes the
steps happen.

| theorem | step argument behind |
|---|---|
| `TxSenderProofs!EveryStepAdvances` | `CallReturns`: each step of a call raises `Progress`, which ends at `7 * MaxAttempts`; no path of the retry loop comes back |
| `SupervisorProofs!ShutdownDrains`, `NoTickIsStuck` | `ShutdownCompletes`: after the signal each step of a handler lowers `Left`, at most `3 * MaxItems + 4`, and a tick in the middle of a retry still has its item |
| `ReaderProofs!EveryTaskMovesOn`, `NoCallIsStuck` | `RoundsEnd`: tasks only move forward, and a waiting task finds a permit unless another task can move |
| `LiquidatorProofs!EveryFundedRoundPays` | `UnderfundedNeverDeadlocks`: a round nobody disturbs picks, confirms and pays at least the floor, and the floor does not rise meanwhile |
| `LiquidatorProofs!EveryTickMovesOn` | `MaturedLoansClose`, `ClaimsReturned`: markets and loans of a sweep are left behind once, the settle fallback is taken at most once a visit |
| `OriginationProofs!EveryTickMovesOn` | `WorkDrains`, `ClaimsReturned`: the same of both handlers |
| `ClaimerProofs!EverySweepMovesOn`, `CuratorFeesProofs!EveryClaimMovesOn` | `SweepsSettle`, `FeesClaimed`: the same of the claimer and the fee claimer |

Only model-checked: everything under fairness (`CallReturns`, `UnderfundedNeverDeadlocks`,
`MaturedLoansClose`, `ShutdownCompletes`, `FundedHandlersTick`, `BootsUnlessStuck`,
`MarketsSurfaceUnlessBlocked`, `WorkDrains`, `SweepsSettle`, `FeesClaimed`, `RoundsEnd`, and
the part `ClaimsReturned` of the refinements of `Keeper`), which the prover does not do. Every
invariant and every action property of the passing runs is also a theorem.

Proved and not part of a run: consequences of one guard or of the properties above
(`NeverUnreachable`, `EarlyErrLeavesNoTrace`, `FullOnlyWhenStaged`, `PartialStaysPartial`,
`LargeClearsFloor`, `ReadyMeansSpawned`, the types of `RepayPlan`), the two gates `SweepsAreGated`
and `ClaimsAreOurs`, and the progress theorems above.

## 5. Not modelled

* configuration, key parsing, the marginfi decoder, market-tree walks: pure conversions of
  external formats, without state;
* the exposition of metrics: written, never read by the bot; the sockets of the health
  server (its `ready` flag is in `Supervisor`);
* `list_market_orders`: nothing in the bot calls it;
* the best-effort token accounts of curators at boot, as an action (which curators have one is
  the constant `Atas` of `CuratorFees`);
* the on-chain program beyond what the handlers rely on.

## 6. Order of the work, and what is left

Done, in this order: the sender and its contract; repay sizing; the liquidator; the
supervisor; the market cache; the bank registry; the abstract keeper and its refinement by the
liquidator; match cranker and promoter, alone and composed; the claimer; the curator fee
claimer; the account batch; proofs of the safety of all of these; the step arguments behind the
liveness properties.

Left:

1. The step arguments behind `FundedHandlersTick` (the poller's flag follows the balance),
   `BootsUnlessStuck` and `MarketsSurfaceUnlessBlocked`.
2. The gateway list of `SwbCranker::new` and the failover of `fetch_update_ixs` as steps of
   their own rather than one outcome.
