----------------------------- MODULE Supervisor -----------------------------
(***************************************************************************)
(* The process: boot in main.rs, the handler loops of handlers/mod.rs      *)
(* (spawn), the balance poller of metrics.rs, the Switchboard warm-keeper  *)
(* of swb_cranker.rs, the readiness flag, and shutdown.  A tick is a run of *)
(* items, each of which may submit through Rpc (TxSender at a coarser      *)
(* grain: the shutdown check, then the broadcast, then the answer).        *)
(***************************************************************************)
EXTENDS Naturals, FiniteSets

CONSTANTS Handlers,     \* the handlers enabled by configuration
          OwnSigner,    \* those whose requires_fee_payer() is false
          Warmkeeper,   \* SWITCHBOARD_WARMKEEPER
          Gateways,     \* number of Switchboard gateways
          MaxAttempts,  \* attempts of one submission
          MaxItems,     \* items of one tick
          MaxFlips      \* times the fee payer's balance crosses the threshold

ASSUME SupervisorAssumption ==
  /\ OwnSigner \subseteq Handlers /\ Warmkeeper \in BOOLEAN
  /\ Gateways \in Nat \ {0} /\ MaxAttempts \in Nat \ {0}
  /\ MaxItems \in Nat /\ MaxFlips \in Nat

VARIABLES
  stage,    \* main: init, slot, swb, spawn, await; or exited, killed, crashed
  stop,     \* the shutdown flag
  ready,    \* what /readyz answers
  hpc,      \* per handler: unborn, top, tick, armed, sent, sleep, gone
  items,    \* per handler: items left in the tick
  tries,    \* per handler: attempts of the submission under way
  low,      \* fee_payer_low
  poller,   \* the balance poller: off, read, store, sleep, gone
  seen,     \* the balance the poller read (TRUE: enough)
  warm,     \* the warm-keeper: off, top, fetch, send, sleep, gone
  gateway,  \* gateways tried by the crank under way
  funds,    \* the fee payer's balance on chain (TRUE: enough)
  flips,    \* how often funds has changed
  late,     \* history: per handler, broadcasts after stop
  lateWarm  \* history: warm-keeper broadcasts after stop

mainVars == <<stage, stop, ready>>
hVars    == <<hpc, items, tries, late>>
pollVars == <<low, poller, seen>>
warmVars == <<warm, gateway, lateWarm>>
envVars  == <<funds, flips>>
vars     == <<mainVars, hVars, pollVars, warmVars, envVars>>

Alive == stage \notin {"exited", "killed", "crashed"}

Init ==
  /\ stage = "init" /\ stop = FALSE /\ ready = FALSE
  /\ hpc = [h \in Handlers |-> "unborn"] /\ items = [h \in Handlers |-> 0]
  /\ tries = [h \in Handlers |-> 0] /\ late = [h \in Handlers |-> 0]
  /\ low = FALSE /\ poller = "off" /\ seen = TRUE
  /\ warm = "off" /\ gateway = 0 /\ lateWarm = 0
  /\ funds \in BOOLEAN /\ flips = 0

-----------------------------------------------------------------------------
(* main *)

\* The end of the process is the end of its background tasks.
ProcessEnds(s) ==
  /\ stage' = s
  /\ poller' = "gone" /\ warm' = "gone" /\ gateway' = 0
  /\ UNCHANGED <<low, seen, lateWarm>>

\* Configuration, keys, bank discovery, the fee payer's token accounts, the
\* metrics exporter: any failure leaves main with `?`.  Then the health server
\* is spawned, which only reads ready; nothing depends on it.
BootInit ==
  /\ stage = "init"
  /\ \/ stage' = "slot" /\ UNCHANGED <<pollVars, warmVars>>
     \/ ProcessEnds("exited")
  /\ UNCHANGED <<stop, ready, hVars, envVars>>

\* get_slot, then the signal task.
BootSlot ==
  /\ stage = "slot"
  /\ \/ stage' = "swb" /\ UNCHANGED <<pollVars, warmVars>>
     \/ ProcessEnds("exited")
  /\ UNCHANGED <<stop, ready, hVars, envVars>>

\* The Switchboard cranker may fail to load, which is not fatal; its loop is
\* only spawned on request.  The balance poller is spawned.
BootSwb ==
  /\ stage = "swb"
  /\ stage' = "spawn"
  /\ \E loaded \in BOOLEAN : warm' = IF loaded /\ Warmkeeper THEN "top" ELSE "off"
  /\ poller' = "read"
  /\ UNCHANGED <<stop, ready, hVars, low, seen, gateway, lateWarm, envVars>>

SpawnHandler(h) ==
  /\ stage = "spawn" /\ hpc[h] = "unborn"
  /\ hpc' = [hpc EXCEPT ![h] = "top"]
  /\ UNCHANGED <<mainVars, items, tries, late, pollVars, warmVars, envVars>>

BecomeReady ==
  /\ stage = "spawn" /\ \A h \in Handlers : hpc[h] # "unborn"
  /\ ready' = TRUE /\ stage' = "await"
  /\ UNCHANGED <<stop, hVars, pollVars, warmVars, envVars>>

\* mutant: main also awaits the warm-keeper, spawned or not
MainAwaitsWarm ==
  /\ stage = "await" /\ (\A h \in Handlers : hpc[h] = "gone") /\ warm = "gone"
  /\ ProcessEnds("exited")
  /\ UNCHANGED <<stop, ready, hVars, envVars>>

\* main awaits the handlers only; its return ends every other task.
MainReturns ==
  /\ stage = "await" /\ \A h \in Handlers : hpc[h] = "gone"
  /\ ProcessEnds("exited")
  /\ UNCHANGED <<stop, ready, hVars, envVars>>

\* SIGTERM / SIGINT: the default action until the signal task has run, which is
\* spawned after get_slot.
Signal ==
  /\ Alive /\ ~stop
  /\ \/ stage \in {"init", "slot", "swb"} /\ ProcessEnds("killed") /\ UNCHANGED stop
     \/ /\ stage \notin {"init", "slot"} /\ stop' = TRUE
        /\ UNCHANGED <<stage, pollVars, warmVars>>
  /\ UNCHANGED <<ready, hVars, envVars>>

-----------------------------------------------------------------------------
(* handlers::spawn, for handler h *)

Goto(h, p) == hpc' = [hpc EXCEPT ![h] = p]

\* Top of the loop: stop, the low-balance gate, else a tick of n items.
LoopTop(h) ==
  /\ Alive /\ hpc[h] = "top"
  /\ \/ stop /\ Goto(h, "gone") /\ UNCHANGED items
     \/ ~stop /\ h \notin OwnSigner /\ low /\ Goto(h, "sleep") /\ UNCHANGED items
     \/ /\ ~stop /\ (h \in OwnSigner \/ ~low) /\ Goto(h, "tick")
        /\ \E n \in 0 .. MaxItems : items' = [items EXCEPT ![h] = n]
  /\ UNCHANGED <<mainVars, tries, late, pollVars, warmVars, envVars>>

\* The submission is over, with whatever answer: next item.
ItemDone(h) ==
  /\ Goto(h, "tick")
  /\ items' = [items EXCEPT ![h] = @ - 1]
  /\ tries' = [tries EXCEPT ![h] = 0]

\* mutant: the submission is started without the stop check
ItemUnchecked(h) ==
  /\ Alive /\ hpc[h] = "tick" /\ items[h] > 0
  /\ \/ tries[h] = 0 /\ ItemDone(h)
     \/ Goto(h, "armed") /\ UNCHANGED <<items, tries>>
  /\ UNCHANGED <<mainVars, late, pollVars, warmVars, envVars>>

\* An item is skipped, or ends in a submission that begins with the stop check.
Item(h) ==
  /\ Alive /\ hpc[h] = "tick" /\ items[h] > 0
  /\ \/ tries[h] = 0 /\ ItemDone(h)
     \/ stop /\ ItemDone(h)
     \/ ~stop /\ Goto(h, "armed") /\ UNCHANGED <<items, tries>>
  /\ UNCHANGED <<mainVars, late, pollVars, warmVars, envVars>>

Broadcast(h) ==
  /\ Alive /\ hpc[h] = "armed"
  /\ Goto(h, "sent")
  /\ late' = [late EXCEPT ![h] = IF stop THEN @ + 1 ELSE @]
  /\ UNCHANGED <<mainVars, items, tries, pollVars, warmVars, envVars>>

\* mutant: one attempt too many
AnswerOffByOne(h) ==
  /\ Alive /\ hpc[h] = "sent"
  /\ \/ ItemDone(h)
     \/ /\ tries[h] < MaxAttempts
        /\ Goto(h, "tick")
        /\ tries' = [tries EXCEPT ![h] = @ + 1] /\ UNCHANGED items
  /\ UNCHANGED <<mainVars, late, pollVars, warmVars, envVars>>

\* The answer: final, or transient with an attempt left.
Answer(h) ==
  /\ Alive /\ hpc[h] = "sent"
  /\ \/ ItemDone(h)
     \/ /\ tries[h] + 1 < MaxAttempts
        /\ Goto(h, "tick")
        /\ tries' = [tries EXCEPT ![h] = @ + 1] /\ UNCHANGED items
  /\ UNCHANGED <<mainVars, late, pollVars, warmVars, envVars>>

\* tick returns: all items done, or an Err that is logged and counted.
TickReturns(h) ==
  /\ Alive /\ hpc[h] = "tick" /\ tries[h] = 0
  /\ Goto(h, "sleep")
  /\ items' = [items EXCEPT ![h] = 0]
  /\ UNCHANGED <<mainVars, tries, late, pollVars, warmVars, envVars>>

\* The sleep looks at stop every second.
Sleep(h) ==
  /\ Alive /\ hpc[h] = "sleep"
  /\ Goto(h, IF stop THEN "gone" ELSE "top")
  /\ UNCHANGED <<mainVars, items, tries, late, pollVars, warmVars, envVars>>

\* mutant: the panic ends the task, not the process
PanicSwallowed(h) ==
  /\ Alive /\ hpc[h] \in {"tick", "armed", "sent"}
  /\ Goto(h, "gone")
  /\ UNCHANGED <<mainVars, items, tries, late, pollVars, warmVars, envVars>>

\* A panic inside a tick: the hook ends the process.
Panic(h) ==
  /\ Alive /\ hpc[h] \in {"tick", "armed", "sent"}
  /\ ProcessEnds("crashed")
  /\ UNCHANGED <<stop, ready, hVars, envVars>>

HandlerStep(h) == LoopTop(h) \/ Item(h) \/ Broadcast(h) \/ Answer(h) \/ TickReturns(h) \/ Sleep(h)

-----------------------------------------------------------------------------
(* spawn_sol_balance_loop *)

\* mutant: the flag is only ever raised
PollLatches ==
  /\ Alive
  /\ \/ poller = "read" /\ stop /\ poller' = "gone" /\ UNCHANGED <<seen, low>>
     \/ poller = "read" /\ ~stop /\ poller' = "store" /\ seen' = funds /\ UNCHANGED low
     \/ poller = "store" /\ poller' = "sleep" /\ low' = (low \/ ~seen) /\ UNCHANGED seen
     \/ poller = "sleep" /\ poller' = "read" /\ UNCHANGED <<seen, low>>
  /\ UNCHANGED <<mainVars, hVars, warmVars, envVars>>

\* get_balance, then the flag follows the threshold both ways.
Poll ==
  /\ Alive
  /\ \/ poller = "read" /\ stop /\ poller' = "gone" /\ UNCHANGED <<seen, low>>
     \/ poller = "read" /\ ~stop /\ poller' = "store" /\ seen' = funds /\ UNCHANGED low
     \/ poller = "store" /\ poller' = "sleep" /\ low' = ~seen /\ UNCHANGED seen
     \/ poller = "sleep" /\ poller' = "read" /\ UNCHANGED <<seen, low>>
  /\ UNCHANGED <<mainVars, hVars, warmVars, envVars>>

\* get_balance fails: the flag keeps its value.
PollFails ==
  /\ Alive /\ poller = "read" /\ ~stop
  /\ poller' = "sleep"
  /\ UNCHANGED <<mainVars, hVars, low, seen, warmVars, envVars>>

-----------------------------------------------------------------------------
(* spawn_swb_crank_loop and SwbCranker::crank *)

\* Nothing to crank, or the first gateway.
WarmTop ==
  /\ Alive /\ warm = "top"
  /\ warm' \in IF stop THEN {"gone"} ELSE {"sleep", "fetch"}
  /\ gateway' = 0
  /\ UNCHANGED <<mainVars, hVars, pollVars, lateWarm, envVars>>

\* try_crank against one gateway fails before the send ...
NextGateway ==
  /\ gateway' = gateway + 1
  /\ warm' = IF gateway' = Gateways THEN "sleep" ELSE "fetch"

WarmFetch ==
  /\ Alive /\ warm = "fetch"
  /\ \/ warm' = "send" /\ UNCHANGED gateway
     \/ NextGateway
  /\ UNCHANGED <<mainVars, hVars, pollVars, lateWarm, envVars>>

\* ... or sends with the cranker's own client, which knows no stop flag; an
\* error, a transaction that may still land included, goes to the next gateway.
WarmSend ==
  /\ Alive /\ warm = "send"
  /\ lateWarm' = IF stop THEN lateWarm + 1 ELSE lateWarm
  /\ \/ warm' = "sleep" /\ UNCHANGED gateway
     \/ NextGateway
  /\ UNCHANGED <<mainVars, hVars, pollVars, envVars>>

\* mutant: neither the sleep nor the top of the loop behind it looks at stop
WarmSleepDeaf ==
  /\ Alive /\ warm = "sleep"
  /\ warm' = "fetch" /\ gateway' = 0
  /\ UNCHANGED <<mainVars, hVars, pollVars, lateWarm, envVars>>

WarmSleep ==
  /\ Alive /\ warm = "sleep"
  /\ warm' = IF stop THEN "gone" ELSE "top"
  /\ gateway' = 0
  /\ UNCHANGED <<mainVars, hVars, pollVars, lateWarm, envVars>>

WarmStep == WarmTop \/ WarmFetch \/ WarmSend \/ WarmSleep

-----------------------------------------------------------------------------
\* The fee payer is drained or topped up.
FundsMove ==
  /\ Alive /\ flips < MaxFlips
  /\ funds' = ~funds /\ flips' = flips + 1
  /\ UNCHANGED <<mainVars, hVars, pollVars, warmVars>>

MainStep == BootInit \/ BootSlot \/ BootSwb \/ BecomeReady \/ MainReturns
            \/ \E h \in Handlers : SpawnHandler(h)

Next == \/ MainStep \/ Signal
        \/ \E h \in Handlers : HandlerStep(h) \/ Panic(h)
        \/ Poll \/ PollFails \/ WarmStep \/ FundsMove

(***************************************************************************)
(* The runtime schedules every task; a submission answers (CallReturns of  *)
(* TxSender); the balance request does not fail for ever.                  *)
(***************************************************************************)
Fairness == /\ WF_vars(MainStep)
            /\ \A h \in Handlers : WF_vars(HandlerStep(h))
            /\ SF_vars(Poll /\ poller = "read") /\ WF_vars(Poll) /\ WF_vars(WarmStep)

Spec == Init /\ [][Next]_vars /\ Fairness

-----------------------------------------------------------------------------
(* Properties. *)

\* The type invariant: a submission never counts more attempts than it has, and a
\* crank never more gateways than there are.
TypeOK ==
  /\ stage \in {"init", "slot", "swb", "spawn", "await", "exited", "killed", "crashed"}
  /\ stop \in BOOLEAN /\ ready \in BOOLEAN
  /\ hpc \in [Handlers -> {"unborn", "top", "tick", "armed", "sent", "sleep", "gone"}]
  /\ items \in [Handlers -> 0 .. MaxItems] /\ tries \in [Handlers -> 0 .. MaxAttempts - 1]
  /\ low \in BOOLEAN /\ poller \in {"off", "read", "store", "sleep", "gone"} /\ seen \in BOOLEAN
  /\ warm \in {"off", "top", "fetch", "send", "sleep", "gone"} /\ gateway \in 0 .. Gateways
  /\ funds \in BOOLEAN /\ flips \in 0 .. MaxFlips
  /\ late \in [Handlers -> Nat] /\ lateWarm \in Nat

\* "the bot keeps running with one dead handler" (main.rs) does not happen: a
\* handler task is only gone after a shutdown signal, or with the process.
NoDeadHandler == \A h \in Handlers : (Alive /\ hpc[h] = "gone") => stop

\* After the signal every handler broadcasts at most one more transaction,
\* however many items its tick still has: each later submission meets the stop
\* check first.
LateSendsPerHandler == \A h \in Handlers : late[h] <= 1

\* The warm-keeper has no such check between gateways: a failing crank may send
\* one transaction per gateway after the signal, and never more.
LateWarmSends == lateWarm <= Gateways

\* /readyz answers 200 only when every enabled handler has been started.
ReadyMeansSpawned == ready => \A h \in Handlers : hpc[h] # "unborn"

\* SIGTERM is obeyed: once the flag is raised the process ends, whatever the
\* handlers are in the middle of.
ShutdownCompletes == stop ~> ~Alive

\* A fee payer that is funded again gets every handler ticking again; a low
\* balance, a failing balance request or a stale flag never pauses one for good.
FundedHandlersTick ==
  <>[](funds /\ ~stop /\ Alive) => \A h \in Handlers : []<>(hpc[h] = "tick")
=============================================================================
