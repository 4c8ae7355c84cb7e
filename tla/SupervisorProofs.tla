-------------------------- MODULE SupervisorProofs --------------------------
(***************************************************************************)
(* Proofs about shutdown and readiness, for any set of handlers and any    *)
(* number of gateways, attempts and items.  The bounds on late broadcasts  *)
(* are not inductive: a handler that is armed has passed the stop check,   *)
(* so it has not yet broadcast late (Armed) and works on an item (Busy),   *)
(* and the warm-keeper has broadcast late at most once per gateway it is   *)
(* done with (WarmPaced).                                                  *)
(***************************************************************************)
EXTENDS Supervisor, TLAPS

Armed == \A h \in Handlers : (~stop \/ hpc[h] = "armed") => late[h] = 0

WarmPaced == /\ ~stop => lateWarm = 0
             /\ warm \in {"fetch", "send"} => lateWarm <= gateway /\ gateway < Gateways

Busy == \A h \in Handlers : hpc[h] \in {"armed", "sent"} => items[h] > 0

GoneMeansStop == \A h \in Handlers : hpc[h] = "gone" => stop

IInv == /\ TypeOK /\ Armed /\ Busy /\ WarmPaced /\ GoneMeansStop
        /\ LateSendsPerHandler /\ LateWarmSends /\ ReadyMeansSpawned

\* Nothing has been spawned or sent when the process starts.
LEMMA InitEstablishesIInv == Init => IInv
<1> SUFFICES ASSUME Init PROVE IInv
  OBVIOUS
<1> USE SupervisorAssumption
<1>1. TypeOK
  <2>1. /\ hpc \in [Handlers -> {"unborn", "top", "tick", "armed", "sent", "sleep", "gone"}]
        /\ items \in [Handlers -> 0 .. MaxItems] /\ tries \in [Handlers -> 0 .. MaxAttempts - 1]
        /\ late \in [Handlers -> Nat]
    BY DEF Init
  <2>2. gateway \in 0 .. Gateways /\ flips \in 0 .. MaxFlips /\ lateWarm \in Nat
    BY DEF Init
  <2>3. /\ stop \in BOOLEAN /\ ready \in BOOLEAN /\ low \in BOOLEAN
        /\ seen \in BOOLEAN /\ funds \in BOOLEAN
    BY Zenon DEF Init
  <2> QED
    BY <2>1, <2>2, <2>3 DEF Init, TypeOK
<1>2. Armed /\ Busy /\ WarmPaced /\ GoneMeansStop
  BY DEF Init, Armed, Busy, WarmPaced, GoneMeansStop
<1>3. LateSendsPerHandler /\ LateWarmSends /\ ReadyMeansSpawned
  BY DEF Init, LateSendsPerHandler, LateWarmSends, ReadyMeansSpawned
<1> QED
  BY <1>1, <1>2, <1>3 DEF IInv

\* Steps of main and the signal keep the invariant.
LEMMA MainKeepsIInv == IInv /\ (MainStep \/ Signal) => IInv'
<1> SUFFICES ASSUME IInv, MainStep \/ Signal PROVE IInv'
  OBVIOUS
<1> USE SupervisorAssumption DEF IInv, mainVars, hVars, pollVars, warmVars, envVars
<1>1. CASE BootInit \/ BootSlot
  BY <1>1 DEF BootInit, BootSlot, ProcessEnds, TypeOK, Armed, Busy, WarmPaced, GoneMeansStop,
              LateSendsPerHandler, LateWarmSends, ReadyMeansSpawned
<1>2. CASE BootSwb
  <2>1. TypeOK'
    BY <1>2 DEF BootSwb, TypeOK
  <2>2. Armed' /\ Busy' /\ WarmPaced' /\ GoneMeansStop'
    BY <1>2 DEF BootSwb, Armed, Busy, WarmPaced, GoneMeansStop
  <2>3. LateSendsPerHandler' /\ LateWarmSends' /\ ReadyMeansSpawned'
    BY <1>2 DEF BootSwb, LateSendsPerHandler, LateWarmSends, ReadyMeansSpawned
  <2> QED
    BY <2>1, <2>2, <2>3
<1>3. ASSUME NEW h \in Handlers, SpawnHandler(h) PROVE IInv'
  BY <1>3 DEF SpawnHandler, TypeOK, Armed, Busy, WarmPaced, GoneMeansStop,
              LateSendsPerHandler, LateWarmSends, ReadyMeansSpawned
<1>4. CASE BecomeReady
  <2>1. /\ UNCHANGED <<stop, hpc, items, tries, late, low, poller, seen, warm, gateway,
                       lateWarm, funds, flips>>
        /\ stage' = "await" /\ ready' = TRUE /\ \A h \in Handlers : hpc[h] # "unborn"
    BY <1>4 DEF BecomeReady
  <2>2. TypeOK' /\ ReadyMeansSpawned'
    BY <2>1 DEF TypeOK, ReadyMeansSpawned
  <2>3. Armed' /\ Busy' /\ WarmPaced' /\ GoneMeansStop' /\ LateSendsPerHandler' /\ LateWarmSends'
    BY <2>1 DEF Armed, Busy, WarmPaced, GoneMeansStop, LateSendsPerHandler, LateWarmSends
  <2> QED
    BY <2>2, <2>3
<1>5. ASSUME /\ UNCHANGED <<stop, ready, hVars, envVars>>
             /\ \E s \in {"exited", "killed", "crashed"} : ProcessEnds(s)
      PROVE  IInv'
  BY <1>5 DEF ProcessEnds, TypeOK, Armed, Busy, WarmPaced, GoneMeansStop,
              LateSendsPerHandler, LateWarmSends, ReadyMeansSpawned
<1>6. CASE MainReturns
  BY <1>5, <1>6 DEF MainReturns
<1>7. CASE Signal
  <2>1. CASE ProcessEnds("killed") /\ UNCHANGED stop
    BY <1>5, <1>7, <2>1 DEF Signal
  <2>2. CASE stop' = TRUE /\ ~stop /\ UNCHANGED <<stage, pollVars, warmVars>>
    <3>1. UNCHANGED <<stage, ready, hpc, items, tries, late, low, poller, seen, warm, gateway,
                      lateWarm, funds, flips>>
      BY <1>7, <2>2 DEF Signal
    <3>2. TypeOK'
      BY <2>2, <3>1 DEF TypeOK
    <3>3. Armed' /\ Busy' /\ WarmPaced' /\ GoneMeansStop'
      BY <2>2, <3>1 DEF Armed, Busy, WarmPaced, GoneMeansStop
    <3>4. LateSendsPerHandler' /\ LateWarmSends' /\ ReadyMeansSpawned'
      BY <3>1 DEF LateSendsPerHandler, LateWarmSends, ReadyMeansSpawned
    <3> QED
      BY <3>2, <3>3, <3>4
  <2> QED
    BY <1>7, <2>1, <2>2 DEF Signal
<1> QED
  BY <1>1, <1>2, <1>3, <1>4, <1>6, <1>7 DEF MainStep

\* Steps of one handler keep the invariant.
LEMMA HandlerKeepsIInv ==
  ASSUME NEW h \in Handlers
  PROVE  IInv /\ (HandlerStep(h) \/ Panic(h)) => IInv'
<1> SUFFICES ASSUME IInv, HandlerStep(h) \/ Panic(h) PROVE IInv'
  OBVIOUS
<1> USE SupervisorAssumption DEF IInv, mainVars, hVars, pollVars, warmVars, envVars
<1>1. CASE LoopTop(h)
  <2>1. TypeOK'
    BY <1>1 DEF LoopTop, Goto, TypeOK
  <2>2. Armed' /\ Busy' /\ WarmPaced' /\ GoneMeansStop'
    BY <1>1 DEF LoopTop, Goto, TypeOK, Armed, Busy, WarmPaced, GoneMeansStop
  <2>3. LateSendsPerHandler' /\ LateWarmSends' /\ ReadyMeansSpawned'
    BY <1>1 DEF LoopTop, Goto, TypeOK, LateSendsPerHandler, LateWarmSends, ReadyMeansSpawned
  <2> QED
    BY <2>1, <2>2, <2>3
<1>2. CASE Item(h)
  <2>1. TypeOK'
    BY <1>2 DEF Item, ItemDone, Goto, TypeOK
  <2>2. Armed' /\ Busy' /\ WarmPaced' /\ GoneMeansStop'
    BY <1>2 DEF Item, ItemDone, Goto, TypeOK, Armed, Busy, WarmPaced, GoneMeansStop
  <2>3. LateSendsPerHandler' /\ LateWarmSends' /\ ReadyMeansSpawned'
    BY <1>2 DEF Item, ItemDone, Goto, TypeOK, LateSendsPerHandler, LateWarmSends, ReadyMeansSpawned
  <2> QED
    BY <2>1, <2>2, <2>3
<1>3. CASE Broadcast(h)
  <2>1. TypeOK'
    BY <1>3 DEF Broadcast, Goto, TypeOK
  <2>2. Armed' /\ Busy' /\ WarmPaced' /\ GoneMeansStop'
    BY <1>3 DEF Broadcast, Goto, TypeOK, Armed, Busy, WarmPaced, GoneMeansStop
  <2>3. LateSendsPerHandler' /\ LateWarmSends' /\ ReadyMeansSpawned'
    BY <1>3 DEF Broadcast, Goto, TypeOK, Armed, LateSendsPerHandler, LateWarmSends, ReadyMeansSpawned
  <2> QED
    BY <2>1, <2>2, <2>3
<1>4. CASE Answer(h)
  <2>1. TypeOK'
    <3>1. CASE ItemDone(h)
      <4>1. items[h] \in 0 .. MaxItems /\ items[h] > 0
        BY <1>4 DEF Answer, TypeOK, Busy
      <4> QED
        BY <1>4, <3>1, <4>1 DEF Answer, ItemDone, Goto, TypeOK
    <3>2. CASE /\ tries[h] + 1 < MaxAttempts /\ Goto(h, "tick")
               /\ tries' = [tries EXCEPT ![h] = @ + 1] /\ UNCHANGED items
      BY <1>4, <3>2 DEF Answer, Goto, TypeOK
    <3> QED
      BY <1>4, <3>1, <3>2 DEF Answer
  <2>2. Armed' /\ Busy' /\ WarmPaced' /\ GoneMeansStop'
    BY <1>4 DEF Answer, ItemDone, Goto, TypeOK, Armed, Busy, WarmPaced, GoneMeansStop
  <2>3. LateSendsPerHandler' /\ LateWarmSends' /\ ReadyMeansSpawned'
    BY <1>4 DEF Answer, ItemDone, Goto, TypeOK, LateSendsPerHandler, LateWarmSends, ReadyMeansSpawned
  <2> QED
    BY <2>1, <2>2, <2>3
<1>5. CASE TickReturns(h) \/ Sleep(h)
  <2>1. TypeOK'
    BY <1>5 DEF TickReturns, Sleep, Goto, TypeOK
  <2>2. Armed' /\ Busy' /\ WarmPaced' /\ GoneMeansStop'
    BY <1>5 DEF TickReturns, Sleep, Goto, TypeOK, Armed, Busy, WarmPaced, GoneMeansStop
  <2>3. LateSendsPerHandler' /\ LateWarmSends' /\ ReadyMeansSpawned'
    BY <1>5 DEF TickReturns, Sleep, Goto, TypeOK, LateSendsPerHandler, LateWarmSends, ReadyMeansSpawned
  <2> QED
    BY <2>1, <2>2, <2>3
<1>6. CASE Panic(h)
  BY <1>6 DEF Panic, ProcessEnds, TypeOK, Armed, Busy, WarmPaced, GoneMeansStop,
              LateSendsPerHandler, LateWarmSends, ReadyMeansSpawned
<1> QED
  BY <1>1, <1>2, <1>3, <1>4, <1>5, <1>6 DEF HandlerStep

\* Steps of the balance poller, the warm-keeper and the chain keep the invariant.
LEMMA TasksKeepIInv == IInv /\ (Poll \/ PollFails \/ WarmStep \/ FundsMove) => IInv'
<1> SUFFICES ASSUME IInv, Poll \/ PollFails \/ WarmStep \/ FundsMove PROVE IInv'
  OBVIOUS
<1> USE SupervisorAssumption DEF IInv, mainVars, hVars, pollVars, warmVars, envVars
<1>1. CASE Poll \/ PollFails \/ FundsMove
  <2>1. UNCHANGED <<stage, stop, ready, hpc, items, tries, late, warm, gateway, lateWarm>>
    BY <1>1 DEF Poll, PollFails, FundsMove
  <2>2. poller' \in {"off", "read", "store", "sleep", "gone"} /\ flips' \in 0 .. MaxFlips
    BY <1>1 DEF Poll, PollFails, FundsMove, TypeOK
  <2>3. low' \in BOOLEAN /\ seen' \in BOOLEAN /\ funds' \in BOOLEAN
    BY <1>1, Zenon DEF Poll, PollFails, FundsMove, TypeOK
  <2>4. TypeOK'
    BY <2>1, <2>2, <2>3 DEF TypeOK
  <2>5. Armed' /\ Busy' /\ WarmPaced' /\ GoneMeansStop'
    BY <2>1 DEF Armed, Busy, WarmPaced, GoneMeansStop
  <2>6. LateSendsPerHandler' /\ LateWarmSends' /\ ReadyMeansSpawned'
    BY <2>1 DEF LateSendsPerHandler, LateWarmSends, ReadyMeansSpawned
  <2> QED
    BY <2>4, <2>5, <2>6
<1>2. CASE WarmStep
  <2>1. UNCHANGED <<stage, stop, ready, hpc, items, tries, late, low, poller, seen, funds, flips>>
    BY <1>2 DEF WarmStep, WarmTop, WarmFetch, WarmSend, WarmSleep
  <2>2. /\ warm' \in {"off", "top", "fetch", "send", "sleep", "gone"}
        /\ gateway' \in 0 .. Gateways /\ lateWarm' \in Nat
        /\ WarmPaced' /\ LateWarmSends'
    <3>1. CASE WarmTop
      BY <2>1, <3>1 DEF WarmTop, TypeOK, WarmPaced, LateWarmSends
    <3>2. CASE WarmFetch
      BY <2>1, <3>2 DEF WarmFetch, NextGateway, TypeOK, WarmPaced, LateWarmSends
    <3>3. CASE WarmSend
      BY <2>1, <3>3 DEF WarmSend, NextGateway, TypeOK, WarmPaced, LateWarmSends
    <3>4. CASE WarmSleep
      BY <2>1, <3>4 DEF WarmSleep, TypeOK, WarmPaced, LateWarmSends
    <3> QED
      BY <1>2, <3>1, <3>2, <3>3, <3>4 DEF WarmStep
  <2>3. TypeOK'
    BY <2>1, <2>2 DEF TypeOK
  <2>4. Armed' /\ Busy' /\ GoneMeansStop' /\ LateSendsPerHandler' /\ ReadyMeansSpawned'
    BY <2>1 DEF Armed, Busy, GoneMeansStop, LateSendsPerHandler, ReadyMeansSpawned
  <2> QED
    BY <2>2, <2>3, <2>4
<1> QED
  BY <1>1, <1>2

\* The inductive invariant holds in every reachable state of the process.
THEOREM IInvAlways == Spec => []IInv
<1>1. IInv /\ UNCHANGED vars => IInv'
  BY DEF IInv, vars, mainVars, hVars, pollVars, warmVars, envVars, TypeOK, Armed, Busy, WarmPaced,
         GoneMeansStop, LateSendsPerHandler, LateWarmSends, ReadyMeansSpawned
<1>2. IInv /\ [Next]_vars => IInv'
  BY <1>1, MainKeepsIInv, HandlerKeepsIInv, TasksKeepIInv DEF Next
<1> QED
  BY <1>2, InitEstablishesIInv, PTL DEF Spec

\* Every task of the process stays well typed: no attempt counter passes the
\* limit, no gateway index passes the last gateway.
THEOREM TypeCorrect == Spec => []TypeOK
<1>1. IInv => TypeOK
  BY DEF IInv
<1> QED
  BY <1>1, IInvAlways, PTL

\* However many handlers there are and however long their ticks, each one
\* broadcasts at most one transaction after the shutdown signal.
THEOREM ShutdownBoundsHandlers == Spec => []LateSendsPerHandler
<1>1. IInv => LateSendsPerHandler
  BY DEF IInv
<1> QED
  BY <1>1, IInvAlways, PTL

\* The warm-keeper broadcasts at most one transaction per gateway after the
\* shutdown signal, for any number of gateways.
THEOREM ShutdownBoundsWarmKeeper == Spec => []LateWarmSends
<1>1. IInv => LateWarmSends
  BY DEF IInv
<1> QED
  BY <1>1, IInvAlways, PTL

\* A handler task ends only after the shutdown signal: neither an error nor a
\* panic leaves the process running without one of its handlers.
THEOREM HandlersOutliveErrors == Spec => []NoDeadHandler
<1>1. IInv => NoDeadHandler
  BY DEF IInv, GoneMeansStop, NoDeadHandler
<1> QED
  BY <1>1, IInvAlways, PTL

\* /readyz answers 200 only after every enabled handler has been spawned, also
\* while the process shuts down.
THEOREM ReadinessIsHonest == Spec => []ReadyMeansSpawned
<1>1. IInv => ReadyMeansSpawned
  BY DEF IInv
<1> QED
  BY <1>1, IInvAlways, PTL
-----------------------------------------------------------------------------
(***************************************************************************)
(* The safety half of ShutdownCompletes: what a handler still has to do    *)
(* after the signal only gets less, and it is never stuck before it is     *)
(* gone.                                                                   *)
(***************************************************************************)
Phase == [gone |-> 0, top |-> 1, sleep |-> 1, unborn |-> 2, tick |-> 2, sent |-> 3, armed |-> 4]

Left(h) == Phase[hpc[h]] + 3 * items[h]

\* After the signal no handler starts over: every step it takes (an item, an
\* attempt, the answer to one, the sleep) leaves it less to do than before.
HandlersDrain ==
  [][stop => /\ stop'
             /\ \A h \in Handlers : <<hpc[h], items[h], tries[h]>>' # <<hpc[h], items[h], tries[h]>>
                                      => Left(h)' < Left(h)]_vars

\* A submission that counts an attempt belongs to an item of a running tick, so
\* a tick can always go on: with its next item, or by returning.
RetriesHaveAnItem ==
  \A h \in Handlers : tries[h] > 0 => items[h] > 0 /\ hpc[h] \in {"tick", "armed", "sent"}

\* What is left is a bounded number of steps.
LEMMA LeftIsBounded == ASSUME IInv, NEW h \in Handlers PROVE Left(h) \in 0 .. 3 * MaxItems + 4
<1>1. items[h] \in Nat /\ items[h] <= MaxItems /\ MaxItems \in Nat
  BY SupervisorAssumption DEF IInv, TypeOK
<1>2. Phase[hpc[h]] \in 0 .. 4
  BY DEF IInv, TypeOK, Phase
<1> QED
  BY <1>1, <1>2 DEF Left

\* After the signal every step of a handler leaves it less to do.
LEMMA HandlerStepDrains ==
  ASSUME IInv, IInv', stop, NEW h \in Handlers, HandlerStep(h) PROVE Left(h)' < Left(h)
<1>1. items[h] \in Nat /\ items'[h] \in Nat /\ DOMAIN hpc = Handlers /\ DOMAIN items = Handlers
  BY SupervisorAssumption DEF IInv, TypeOK
<1>2. Left(h) = Phase[hpc[h]] + 3 * items[h] /\ Left(h)' = Phase[hpc'[h]] + 3 * items'[h]
  BY DEF Left, Phase
<1>3. CASE LoopTop(h)
  <2>1. hpc[h] = "top" /\ hpc'[h] = "gone" /\ items'[h] = items[h]
    BY <1>1, <1>3 DEF LoopTop, Goto
  <2> QED
    BY <1>1, <1>2, <2>1 DEF Phase
<1>4. CASE Item(h)
  <2>1. hpc[h] = "tick" /\ hpc'[h] = "tick" /\ items'[h] = items[h] - 1
    BY <1>1, <1>4 DEF Item, ItemDone, Goto
  <2> QED
    BY <1>1, <1>2, <2>1 DEF Phase
<1>5. CASE Broadcast(h)
  <2>1. hpc[h] = "armed" /\ hpc'[h] = "sent" /\ items'[h] = items[h]
    BY <1>1, <1>5 DEF Broadcast, Goto
  <2> QED
    BY <1>1, <1>2, <2>1 DEF Phase
<1>6. CASE Answer(h)
  <2>1. hpc[h] = "sent" /\ hpc'[h] = "tick" /\ (items'[h] = items[h] - 1 \/ items'[h] = items[h])
    BY <1>1, <1>6 DEF Answer, ItemDone, Goto
  <2> QED
    BY <1>1, <1>2, <2>1 DEF Phase
<1>7. CASE TickReturns(h)
  <2>1. hpc[h] = "tick" /\ hpc'[h] = "sleep" /\ items'[h] = 0
    BY <1>1, <1>7 DEF TickReturns, Goto
  <2> QED
    BY <1>1, <1>2, <2>1 DEF Phase
<1>8. CASE Sleep(h)
  <2>1. hpc[h] = "sleep" /\ hpc'[h] = "gone" /\ items'[h] = items[h]
    BY <1>1, <1>8 DEF Sleep, Goto
  <2> QED
    BY <1>1, <1>2, <2>1 DEF Phase
<1> QED
  BY <1>3, <1>4, <1>5, <1>6, <1>7, <1>8 DEF HandlerStep

\* A step of one handler changes what that handler does and no other.
LEMMA OthersUnchanged ==
  ASSUME IInv, NEW g \in Handlers, HandlerStep(g), NEW h \in Handlers, h # g
  PROVE  hpc'[h] = hpc[h] /\ items'[h] = items[h] /\ tries'[h] = tries[h]
<1> USE DEF IInv, TypeOK, Goto
<1>1. CASE LoopTop(g)
  BY <1>1 DEF LoopTop
<1>2. CASE Item(g)
  BY <1>2 DEF Item, ItemDone
<1>3. CASE Broadcast(g)
  BY <1>3 DEF Broadcast
<1>4. CASE Answer(g)
  BY <1>4 DEF Answer, ItemDone
<1>5. CASE TickReturns(g) \/ Sleep(g)
  BY <1>5 DEF TickReturns, Sleep
<1> QED
  BY <1>1, <1>2, <1>3, <1>4, <1>5 DEF HandlerStep

\* Once the signal has come, any handler of any number of them is gone after at
\* most 3 * MaxItems + 4 steps of its own, wherever in a tick, a submission or a
\* sleep the signal finds it.
THEOREM ShutdownDrains ==
  Spec => HandlersDrain /\ [](\A h \in Handlers : Left(h) \in 0 .. 3 * MaxItems + 4)
<1> DEFINE Drains ==
      stop => /\ stop'
              /\ \A h \in Handlers : <<hpc[h], items[h], tries[h]>>' # <<hpc[h], items[h], tries[h]>>
                                       => Left(h)' < Left(h)
<1>1. IInv /\ IInv' /\ [Next]_vars => [Drains]_vars
  <2> SUFFICES ASSUME IInv, IInv', Next, stop PROVE Drains
    OBVIOUS
  <2>1. stop'
    BY DEF Next, MainStep, BootInit, BootSlot, BootSwb, BecomeReady, MainReturns, SpawnHandler, Signal,
           HandlerStep, LoopTop, Item, Broadcast, Answer, TickReturns, Sleep, Panic, Poll, PollFails,
           WarmStep, WarmTop, WarmFetch, WarmSend, WarmSleep, FundsMove, mainVars
  <2>2. ASSUME NEW g \in Handlers, HandlerStep(g) PROVE Drains
    <3>1. ASSUME NEW h \in Handlers,
                 <<hpc[h], items[h], tries[h]>>' # <<hpc[h], items[h], tries[h]>>
          PROVE  Left(h)' < Left(h)
      <4>1. h = g
        BY <2>2, <3>1, OthersUnchanged
      <4> QED
        BY <2>2, <4>1, HandlerStepDrains
    <3> QED
      BY <2>1, <3>1
  <2>3. ASSUME NEW g \in Handlers, SpawnHandler(g) PROVE Drains
    <3>1. ASSUME NEW h \in Handlers,
                 <<hpc[h], items[h], tries[h]>>' # <<hpc[h], items[h], tries[h]>>
          PROVE  Left(h)' < Left(h)
      <4>1. h = g /\ hpc[h] = "unborn" /\ hpc'[h] = "top" /\ items'[h] = items[h]
        BY <2>3, <3>1 DEF SpawnHandler, IInv, TypeOK
      <4>2. items[h] \in Nat
        BY SupervisorAssumption DEF IInv, TypeOK
      <4> QED
        BY <4>1, <4>2 DEF Left, Phase
    <3> QED
      BY <2>1, <3>1
  <2>4. ASSUME UNCHANGED <<hpc, items, tries>> PROVE Drains
    BY <2>1, <2>4
  <2>5. \/ \E g \in Handlers : HandlerStep(g) \/ SpawnHandler(g)
        \/ UNCHANGED <<hpc, items, tries>>
    BY DEF Next, MainStep, BootInit, BootSlot, BootSwb, BecomeReady, MainReturns, Signal, Panic, Poll,
           PollFails, WarmStep, WarmTop, WarmFetch, WarmSend, WarmSleep, FundsMove, hVars
  <2> QED
    BY <2>2, <2>3, <2>4, <2>5
<1>2. IInv => \A h \in Handlers : Left(h) \in 0 .. 3 * MaxItems + 4
  BY LeftIsBounded
<1> QED
  BY <1>1, <1>2, IInvAlways, PTL DEF Spec, HandlersDrain

\* No handler is ever stuck in a tick: a retry always has its item, so either the
\* item goes on or the tick returns.
THEOREM NoTickIsStuck == Spec => []RetriesHaveAnItem
<1>1. Init => RetriesHaveAnItem
  BY DEF Init, RetriesHaveAnItem
<1>2. ASSUME IInv, RetriesHaveAnItem, [Next]_vars PROVE RetriesHaveAnItem'
  <2>1. ASSUME NEW g \in Handlers, HandlerStep(g) PROVE RetriesHaveAnItem'
    <3>1. tries[g] \in Nat /\ items[g] \in Nat
      BY <1>2, SupervisorAssumption DEF IInv, TypeOK
    <3>2. tries'[g] > 0 => items'[g] > 0 /\ hpc'[g] \in {"tick", "armed", "sent"}
      <4> USE DEF IInv, TypeOK, RetriesHaveAnItem, Goto
      <4>1. CASE LoopTop(g)
        BY <1>2, <3>1, <4>1 DEF LoopTop
      <4>2. CASE Item(g)
        BY <1>2, <3>1, <4>2 DEF Item, ItemDone
      <4>3. CASE Broadcast(g)
        BY <1>2, <3>1, <4>3 DEF Broadcast
      <4>4. CASE Answer(g)
        BY <1>2, <3>1, <4>4 DEF Answer, ItemDone, Busy
      <4>5. CASE TickReturns(g) \/ Sleep(g)
        BY <1>2, <3>1, <4>5 DEF TickReturns, Sleep
      <4> QED
        BY <2>1, <4>1, <4>2, <4>3, <4>4, <4>5 DEF HandlerStep
    <3> QED
      BY <1>2, <2>1, <3>2, OthersUnchanged DEF RetriesHaveAnItem
  <2>2. ASSUME NEW g \in Handlers, SpawnHandler(g) PROVE RetriesHaveAnItem'
    BY <1>2, <2>2 DEF SpawnHandler, RetriesHaveAnItem, IInv, TypeOK
  <2>3. ASSUME UNCHANGED <<hpc, items, tries>> PROVE RetriesHaveAnItem'
    BY <1>2, <2>3 DEF RetriesHaveAnItem
  <2>4. \/ \E g \in Handlers : HandlerStep(g) \/ SpawnHandler(g)
        \/ UNCHANGED <<hpc, items, tries>>
    BY <1>2 DEF Next, MainStep, BootInit, BootSlot, BootSwb, BecomeReady, MainReturns, Signal, Panic,
           Poll, PollFails, WarmStep, WarmTop, WarmFetch, WarmSend, WarmSleep, FundsMove, hVars, vars
  <2> QED
    BY <2>1, <2>2, <2>3, <2>4
<1> QED
  BY <1>1, <1>2, IInvAlways, PTL DEF Spec
=============================================================================
