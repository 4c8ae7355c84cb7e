--------------------------- MODULE TxSenderProofs ---------------------------
(***************************************************************************)
(* Proofs about TxSender for every number of attempts: its safety          *)
(* properties, and that it implements Submission.                          *)
(***************************************************************************)
EXTENDS TxSender, TLAPS

(***************************************************************************)
(* The inductive invariant.  Attempts: the loop never runs past its range  *)
(* and never has more signatures than attempts begun.  Wire: what the      *)
(* cluster knows comes from those signatures.  Early: before an attempt    *)
(* fails, only one under confirmation has put anything on the wire.        *)
(* Shutdown: an attempt past the check has sent nothing since the signal.  *)
(***************************************************************************)
Attempts ==
  /\ pc # "unreachable"
  /\ pc \in {"enter", "head", "status", "blockhash"} => attempt < MaxAttempts /\ signed <= attempt
  /\ pc \in {"send", "confirm", "backoff"} => attempt < MaxAttempts /\ sig >= 1 /\ sig <= signed
  /\ pc = "backoff" => attempt < MaxAttempts - 1
  /\ pc = "status" => last_sig >= 1
  /\ signed <= attempt + 1
  /\ horizon <= signed

Wire == \A s \in Sigs : /\ (chain[s] # "none" \/ s \in inflight) => s <= signed
                        /\ s \in inflight => chain[s] = "none"

Early == (last_sig = 0 /\ pc # "confirm" /\ result.kind # "Ok") =>
            inflight = {} /\ \A s \in Sigs : chain[s] = "none"

Shutdown == /\ late <= 1
            /\ ~stop => late = 0
            /\ pc \in {"status", "blockhash", "send"} => late = 0

Answer == /\ pc # "done" => result = Call!Pending
          /\ pc = "done" => result # Call!Pending
          /\ result.kind = "Ok" => result.sig \in Sigs /\ chain[result.sig] # "none"

IInv == TypeOK /\ Attempts /\ Wire /\ Early /\ Shutdown /\ Answer

-----------------------------------------------------------------------------
\* The call starts with nothing signed, sent or answered.
LEMMA InitEstablishesIInv == Init => IInv
  BY MaxAttemptsAssumption
  DEF Init, IInv, TypeOK, Attempts, Wire, Early, Shutdown, Answer, PCs, Sigs, ErrorKinds,
      Call!Pending, Call!ResultKinds, Call!Outcomes

\* Every step of the call, of the cluster and of the operator keeps the
\* inductive invariant.
LEMMA NextKeepsIInv == IInv /\ [Next]_vars => IInv'
<1> SUFFICES ASSUME IInv, [Next]_vars PROVE IInv'
  OBVIOUS
<1> USE MaxAttemptsAssumption
    DEF IInv, TypeOK, Attempts, Wire, Early, Shutdown, Answer, PCs, Sigs, ErrorKinds,
        Call!Pending, Call!Ok, Call!Err, Call!ResultKinds, Call!Outcomes, Return, netVars, callVars
<1>1. CASE Enter
  BY <1>1 DEF Enter
<1>2. CASE LoopHead
  BY <1>2 DEF LoopHead, IntoAttempt
<1>3. CASE CheckStatus
  BY <1>3 DEF CheckStatus
<1>4. CASE GetBlockhash
  BY <1>4 DEF GetBlockhash, SignOver
<1>5. CASE Send
  <2>1. /\ sig \in Sigs
        /\ inflight' = inflight \/ (inflight' = inflight \cup {sig} /\ chain[sig] = "none")
        /\ UNCHANGED <<chain, sig, signed>>
    BY <1>5 DEF Send, Broadcast, Fail
  <2>2. late = 0 /\ late' <= 1 /\ late' \in Nat /\ (~stop => late' = 0) /\ UNCHANGED stop
    BY <1>5 DEF Send
  <2>3. Wire' /\ inflight' \subseteq Sigs
    <3>1. sig <= signed
      BY <1>5 DEF Send
    <3>2. CASE inflight' = inflight
      BY <2>1, <3>2
    <3>3. CASE inflight' = inflight \cup {sig} /\ chain[sig] = "none"
      BY <2>1, <3>1, <3>3
    <3> QED
      BY <2>1, <3>2, <3>3
  <2>4. \/ pc' = "confirm" /\ UNCHANGED <<error, last_sig, result>>
        \/ \E kind \in ErrorKinds : Fail(kind)
    BY <1>5 DEF Send
  <2>5. TypeOK'
    BY <1>5, <2>2, <2>3, <2>4 DEF Send, Fail
  <2>6. Attempts' /\ Early'
    BY <1>5, <2>1, <2>4 DEF Send, Fail
  <2>7. Shutdown' /\ Answer'
    BY <1>5, <2>2, <2>4 DEF Send, Fail
  <2> QED
    BY <2>3, <2>5, <2>6, <2>7
<1>6. CASE Confirm
  BY <1>6 DEF Confirm, Fail, is_transient
<1>7. CASE ConfirmFails
  BY <1>7 DEF ConfirmFails, Fail, is_transient
<1>8. CASE Backoff
  BY <1>8 DEF Backoff
<1>9. ASSUME NEW s \in Sigs, Land(s) PROVE IInv'
  BY <1>9 DEF Land
<1>10. ASSUME NEW s \in Sigs, Drop(s) PROVE IInv'
  BY <1>10 DEF Drop
<1>11. CASE Age
  BY <1>11 DEF Age
<1>12. CASE RaiseStop
  BY <1>12 DEF RaiseStop
<1>13. CASE UNCHANGED vars
  BY <1>13 DEF vars
<1> QED
  BY <1>1, <1>2, <1>3, <1>4, <1>5, <1>6, <1>7, <1>8, <1>9, <1>10, <1>11, <1>12, <1>13
  DEF Next, CallStep

\* The inductive invariant holds of every behaviour of a call.
THEOREM IInvAlways == Spec => []IInv
  BY InitEstablishesIInv, NextKeepsIInv, PTL DEF Spec

\* The variables keep their types, for every number of attempts.
THEOREM TypeCorrect == Spec => []TypeOK
  BY IInvAlways, PTL DEF IInv

\* The panic after the retry loop is dead code, for every number of attempts.
THEOREM LoopAlwaysReturns == Spec => []NeverUnreachable
<1>1. IInv => NeverUnreachable
  BY DEF IInv, Attempts, NeverUnreachable
<1> QED
  BY <1>1, IInvAlways, PTL

\* A call sends at most one transaction after the shutdown signal.
THEOREM ShutdownBoundsSends == Spec => []AtMostOneLateSend
<1>1. IInv => AtMostOneLateSend
  BY DEF IInv, Shutdown, AtMostOneLateSend
<1> QED
  BY <1>1, IInvAlways, PTL

\* k attempts put at most k transactions where the cluster can charge them.
THEOREM AttemptsBoundTransactions == Spec => []OneTransactionPerAttempt
<1>1. IInv => OneTransactionPerAttempt
  BY MaxAttemptsAssumption DEF IInv, TypeOK, Wire, Attempts, OneTransactionPerAttempt, Sigs
<1> QED
  BY <1>1, IInvAlways, PTL

\* An error before the first send is clean.
THEOREM EarlyErrIsClean == Spec => []EarlyErrLeavesNoTrace
<1>1. IInv => EarlyErrLeavesNoTrace
  BY DEF IInv, Early, Answer, EarlyErrLeavesNoTrace, Call!Pending
<1> QED
  BY <1>1, IInvAlways, PTL

-----------------------------------------------------------------------------
\* Every step of the call maps to a step of Submission, or to none.
LEMMA StepRefines == IInv /\ [Next]_vars => [Call!Next]_(Call!vars)
<1> SUFFICES ASSUME IInv, [Next]_vars PROVE [Call!Next]_(Call!vars)
  OBVIOUS
<1>1. CASE UNCHANGED <<result, chain>>
  BY <1>1 DEF Call!vars
<1>2. ASSUME NEW s \in Sigs, Land(s) PROVE Call!Next
  <2>1. chain[s] = "none"
    BY <1>2 DEF IInv, Wire, Land
  <2> QED
    BY <1>2, <2>1 DEF Land, Call!Next, Call!Record, callVars
<1>3. CASE CallStep /\ result' # result
  <2>1. UNCHANGED chain /\ result = Call!Pending
    BY <1>3 DEF CallStep, Enter, LoopHead, CheckStatus, GetBlockhash, Send, Confirm,
                ConfirmFails, Backoff, Fail, SignOver, Return, netVars, IInv, Answer
  <2>2. CASE result' = Call!Err
    BY <2>1, <2>2 DEF Call!Next, Call!AnswerErr
  <2>3. CASE result' # Call!Err
    <3>1. PICK s \in Sigs : result' = Call!Ok(s) /\ chain[s] # "none"
      <4>1. CASE CheckStatus
        BY <1>3, <2>3, <4>1 DEF CheckStatus, Return, IInv, TypeOK, Attempts, Sigs
      <4>2. CASE Confirm
        BY <1>3, <2>3, <4>2 DEF Confirm, Fail, Return, IInv, TypeOK, Attempts, Sigs
      <4> QED
        BY <1>3, <2>3, <4>1, <4>2
        DEF CallStep, Enter, LoopHead, GetBlockhash, Send, ConfirmFails, Backoff,
            Fail, SignOver, Return
    <3> QED
      BY <2>1, <3>1 DEF Call!Next, Call!AnswerOk
  <2> QED
    BY <2>2, <2>3
<1>4. CASE CallStep /\ result' = result
  BY <1>1, <1>4 DEF CallStep, Enter, LoopHead, CheckStatus, GetBlockhash, Send, Confirm,
                    ConfirmFails, Backoff, netVars
<1> QED
  BY <1>1, <1>2, <1>3, <1>4
  DEF Next, Drop, Age, RaiseStop, callVars, netVars, vars

\* The retry loop with its status check implements the contract its callers
\* use: one answer, and Ok only for a recorded signature.
THEOREM CallImplementsSubmission == Spec => ImplementsSubmission
<1>1. Init => Call!Init
  BY DEF Init, Call!Init
<1> QED
  BY <1>1, StepRefines, IInvAlways, PTL DEF Spec, ImplementsSubmission, Call!Spec
-----------------------------------------------------------------------------
(***************************************************************************)
(* The safety half of CallReturns.  Progress says how far a call has come: *)
(* an attempt has seven places, in the order the loop body visits them.      *)
(***************************************************************************)
Place == CASE pc = "enter"     -> 0
           [] pc = "head"      -> 1
           [] pc = "status"    -> 2
           [] pc = "blockhash" -> 3
           [] pc = "send"      -> 4
           [] pc = "confirm"   -> 5
           [] OTHER            -> 6

LastPlace == 7 * MaxAttempts
Progress  == IF pc = "done" THEN LastPlace ELSE 7 * attempt + Place

\* Whatever moves in the locals of the call moves it forward, whatever the
\* cluster answers and in whatever order: no path of the retry loop comes back
\* to a place it has been in.
CallAdvances == [][callVars' # callVars => Progress' > Progress]_vars

\* The progress of a call that has not returned is below its end.
LEMMA ProgressIsBounded ==
  ASSUME IInv PROVE Progress \in 0 .. LastPlace /\ (pc # "done" => Progress < LastPlace)
<1>1. attempt \in Nat /\ MaxAttempts \in Nat /\ Place \in 0 .. 6
  BY MaxAttemptsAssumption DEF IInv, TypeOK, Place
<1>2. LastPlace \in Nat
  BY <1>1 DEF LastPlace
<1>3. CASE pc = "done"
  BY <1>2, <1>3 DEF Progress
<1>4. CASE pc # "done"
  <2>1. attempt < MaxAttempts
    BY <1>4 DEF IInv, TypeOK, PCs, Attempts
  <2>2. Progress = 7 * attempt + Place
    BY <1>4 DEF Progress
  <2> QED
    BY <1>1, <2>1, <2>2 DEF LastPlace
<1> QED
  BY <1>3, <1>4

\* Every step of the call moves it forward.
LEMMA StepAdvances ==
  ASSUME IInv, CallStep, IInv' PROVE Progress' > Progress
<1>1. attempt \in Nat /\ MaxAttempts \in Nat
  BY MaxAttemptsAssumption DEF IInv, TypeOK
<1>2. CASE pc' = "done"
  <2>1. pc # "done"
    BY DEF CallStep, Enter, LoopHead, CheckStatus, GetBlockhash, Send, Confirm, ConfirmFails, Backoff
  <2>2. Progress < LastPlace /\ Progress' = LastPlace
    BY <1>2, <2>1, ProgressIsBounded DEF Progress, LastPlace
  <2>3. Progress \in 0 .. LastPlace /\ LastPlace \in Nat
    BY <1>1, ProgressIsBounded DEF LastPlace
  <2> QED
    BY <2>2, <2>3
<1>3. CASE pc' # "done"
  <2>1. pc # "done" /\ pc' # "unreachable"
    BY DEF CallStep, Enter, LoopHead, CheckStatus, GetBlockhash, Send, Confirm, ConfirmFails, Backoff,
           IInv, Attempts
  <2>2. Progress = 7 * attempt + Place /\ Progress' = 7 * attempt' + Place'
    BY <1>3, <2>1 DEF Progress
  <2>3. CASE Backoff
    <3>1. attempt' = attempt + 1 /\ Place = 6 /\ Place' = 1
      BY <2>3 DEF Backoff, Place
    <3> QED
      BY <1>1, <2>2, <3>1
  <2>4. CASE ~Backoff
    <3>1. attempt' = attempt /\ Place' > Place /\ Place \in Nat /\ Place' \in Nat
      <4>1. CASE Enter
        BY <1>3, <4>1 DEF Enter, Return, Place
      <4>2. CASE LoopHead
        BY <1>3, <2>1, <4>2 DEF LoopHead, IntoAttempt, Return, Place
      <4>3. CASE CheckStatus
        BY <1>3, <4>3 DEF CheckStatus, Return, Place
      <4>4. CASE GetBlockhash
        BY <1>3, <4>4 DEF GetBlockhash, SignOver, Return, Place
      <4>5. CASE Send
        <5>1. pc = "send" /\ pc' \in {"confirm", "backoff"} /\ attempt' = attempt
          BY <1>3, <4>5 DEF Send, Fail, Return
        <5> QED
          BY <5>1 DEF Place
      <4>6. CASE Confirm \/ ConfirmFails
        <5>1. pc = "confirm" /\ pc' = "backoff" /\ attempt' = attempt
          BY <1>3, <4>6 DEF Confirm, ConfirmFails, Fail, Return
        <5> QED
          BY <5>1 DEF Place
      <4> QED
        BY <2>4, <4>1, <4>2, <4>3, <4>4, <4>5, <4>6 DEF CallStep
    <3>2. \A a, p, q \in Nat : q > p => 7 * a + q > 7 * a + p
      OBVIOUS
    <3>3. 7 * attempt + Place' > 7 * attempt + Place
      BY <1>1, <3>1, <3>2
    <3> QED
      BY <2>2, <3>1, <3>3
  <2> QED
    BY <2>3, <2>4
<1> QED
  BY <1>2, <1>3

\* For every number of attempts, each step of a call brings it nearer to its
\* return: a call takes at most 7 * MaxAttempts steps, whatever the cluster does
\* between them.
THEOREM EveryStepAdvances == Spec => CallAdvances /\ [](Progress \in 0 .. LastPlace)
<1>1. IInv /\ IInv' /\ [Next]_vars => [callVars' # callVars => Progress' > Progress]_vars
  <2> SUFFICES ASSUME IInv, IInv', Next, callVars' # callVars PROVE Progress' > Progress
    OBVIOUS
  <2>1. CallStep
    BY DEF Next, Land, Drop, Age, RaiseStop
  <2> QED
    BY <2>1, StepAdvances
<1>2. IInv => Progress \in 0 .. LastPlace
  BY ProgressIsBounded
<1> QED
  BY <1>1, <1>2, IInvAlways, PTL DEF Spec, CallAdvances
=============================================================================
