------------------------------ MODULE TxSender ------------------------------
(***************************************************************************)
(* One call of Rpc::send_signed_labeled or send_signed_v0_labeled          *)
(* (src/rpc.rs): three attempts to sign and send the bundle, a shutdown    *)
(* check and a signature-status check before every re-sign, a 500 ms sleep *)
(* between attempts.  The RPC node and the cluster lose, delay and record  *)
(* transactions behind the caller's back.                                  *)
(*                                                                         *)
(* A signature is a function of the bundle and of the blockhash, so it is  *)
(* numbered by the blockhash it was signed over: 1 is the oldest blockhash *)
(* the call has seen, and a retry that is given the same blockhash again   *)
(* produces the same signature.                                            *)
(***************************************************************************)
EXTENDS Naturals, FiniteSets

CONSTANT MaxAttempts   \* `for attempt in 0..3`

ASSUME MaxAttemptsAssumption == MaxAttempts \in Nat \ {0}

VARIABLES pc,        \* where the call is
          attempt,   \* the loop variable
          error,     \* what the last failed attempt failed with
          last_sig,  \* signature of the previous failed attempt (0 = None)
          sig,       \* signature of the attempt under way (0 = none yet)
          signed,    \* number of distinct blockhashes signed over so far
          result,    \* what the call returns
          stop,      \* the process-wide shutdown flag
          chain,     \* cluster: what is recorded for each signature
          inflight,  \* cluster: signatures broadcast and not yet recorded
          horizon,   \* cluster: blockhashes 1..horizon are too old to land
          late       \* history: broadcasts begun after stop was raised

callVars == <<pc, attempt, error, last_sig, sig, signed, result>>
netVars  == <<chain, inflight, horizon>>
vars     == <<pc, attempt, error, last_sig, sig, signed, result, stop,
              chain, inflight, horizon, late>>

Sigs == 1 .. MaxAttempts

Call == INSTANCE Submission WITH Sigs <- Sigs, result <- result, chain <- chain

PCs == {"enter", "head", "status", "blockhash", "send", "confirm",
        "backoff", "unreachable", "done"}

(***************************************************************************)
(* What send_and_confirm_transaction can fail with, by the ClientErrorKind *)
(* that is_transient looks at.                                             *)
(*   Transport  Io / Reqwest: the request or its answer was lost           *)
(*   Node       RpcResponseError, code in -32099..=-32000: the node is     *)
(*              behind, unhealthy, refuses the request                     *)
(*   Preflight  RpcResponseError, code -32002, inside the same range: the  *)
(*              program rejected the transaction in the preflight run      *)
(*   Program    TransactionError: the transaction is recorded as failed    *)
(*   Expired    ForUser("unable to confirm transaction ..."): the          *)
(*              blockhash became invalid before a status was seen          *)
(*   Unknown    ForUser("Blockhash not found"): the one text of a ForUser  *)
(*              error that is retried                                      *)
(*   Other      an RpcResponseError outside the range, any other RpcError  *)
(*              and any other ClientErrorKind                              *)
(***************************************************************************)
ErrorKinds == {"Transport", "Node", "Preflight", "Program", "Expired",
               "Unknown", "Other"}

is_transient(kind) == kind \in {"Transport", "Node", "Preflight", "Unknown"}

Init == /\ pc = "enter" /\ attempt = 0 /\ error = "none" /\ last_sig = 0
        /\ sig = 0 /\ signed = 0
        /\ result = Call!Pending
        /\ stop \in BOOLEAN
        /\ chain = [s \in Sigs |-> "none"] /\ inflight = {} /\ horizon = 0
        /\ late = 0

Return(r) == pc' = "done" /\ result' = r

-----------------------------------------------------------------------------
(* The call. *)

\* send_signed_labeled: no signers is an early error; else enter the loop.
Enter ==
  /\ pc = "enter"
  /\ \/ Return(Call!Err)
     \/ pc' = "head" /\ UNCHANGED result
  /\ UNCHANGED <<attempt, error, last_sig, sig, signed, stop, netVars, late>>

\* Top of the loop: the process may be stopping, the range may be exhausted.
IntoAttempt == CASE attempt = MaxAttempts -> "unreachable"
                 [] last_sig # 0         -> "status"
                 [] OTHER                -> "blockhash"

\* mutant: the shutdown flag is not looked at again
LoopHeadIgnoresStop ==
  /\ pc = "head"
  /\ pc' = IntoAttempt
  /\ UNCHANGED <<result, attempt, error, last_sig, sig, signed, stop, netVars, late>>

LoopHead ==
  /\ pc = "head"
  /\ \/ attempt < MaxAttempts /\ stop /\ Return(Call!Err)
     \/ /\ attempt = MaxAttempts \/ ~stop
        /\ pc' = IntoAttempt /\ UNCHANGED result
  /\ UNCHANGED <<attempt, error, last_sig, sig, signed, stop, netVars, late>>

\* mutant: an answer without a status counts as landed
CheckStatusTrusting ==
  /\ pc = "status"
  /\ Return(Call!Ok(last_sig))
  /\ UNCHANGED <<attempt, error, last_sig, sig, signed, stop, netVars, late>>

\* get_signature_statuses([last_sig]): any status, failed ones included, is
\* returned as Ok; no status and a failing request both go on to re-sign.
CheckStatus ==
  /\ pc = "status"
  /\ \/ chain[last_sig] # "none" /\ Return(Call!Ok(last_sig))
     \/ chain[last_sig] = "none" /\ pc' = "blockhash" /\ UNCHANGED result
     \/ pc' = "blockhash" /\ UNCHANGED result         \* the request failed
  /\ UNCHANGED <<attempt, error, last_sig, sig, signed, stop, netVars, late>>

\* get_latest_blockhash, then sign.  The newest blockhash is a new one, or
\* still the one the previous attempt signed over.  A failing request, or a v0
\* message that does not compile, leaves the call with `?`.
SignOver(b) ==
  /\ sig' = b
  /\ signed' = IF b > signed THEN b ELSE signed
  /\ pc' = "send"
  /\ UNCHANGED result

GetBlockhash ==
  /\ pc = "blockhash"
  /\ \/ SignOver(signed + 1)
     \/ signed > horizon /\ SignOver(signed)
     \/ Return(Call!Err) /\ UNCHANGED <<sig, signed>>
  /\ UNCHANGED <<attempt, error, last_sig, stop, netVars, late>>

\* The Err arm of send_and_confirm_transaction.
Fail(kind) ==
  /\ last_sig' = sig
  /\ error' = kind
  /\ IF ~is_transient(kind) \/ attempt = MaxAttempts - 1
       THEN Return(Call!Err)
       ELSE pc' = "backoff" /\ UNCHANGED result

\* mutant: the previous attempt's transaction is sent instead of the new one
BroadcastStale == inflight' = inflight \cup {last_sig}

\* send_and_confirm_transaction, first half: submit.
Broadcast == inflight' = IF chain[sig] = "none" /\ sig > horizon
                           THEN inflight \cup {sig} ELSE inflight

Send ==
  /\ pc = "send"
  /\ late' = IF stop THEN late + 1 ELSE late
  /\ \/ /\ Broadcast /\ pc' = "confirm"
        /\ UNCHANGED <<error, last_sig, result>>
     \/ /\ Broadcast                             \* the answer was lost or unreadable
        /\ \E kind \in {"Transport", "Other"} : Fail(kind)
     \/ /\ UNCHANGED inflight                    \* the request was lost or refused
        /\ \E kind \in ErrorKinds \ {"Program", "Expired"} : Fail(kind)
  /\ UNCHANGED <<attempt, sig, signed, stop, chain, horizon>>

\* mutant: an expired blockhash does not end the polling
ConfirmPollsForever ==
  /\ pc = "confirm"
  /\ \/ /\ chain[sig] = "ok"
        /\ Return(Call!Ok(sig)) /\ UNCHANGED <<error, last_sig>>
     \/ chain[sig] = "err" /\ Fail("Program")
  /\ UNCHANGED <<attempt, sig, signed, stop, netVars, late>>

\* send_and_confirm_transaction, second half: poll until a status is seen or
\* the blockhash is no longer valid, which is asked after the status and so may
\* miss one recorded in between ...
Confirm ==
  /\ pc = "confirm"
  /\ \/ /\ chain[sig] = "ok"
        /\ Return(Call!Ok(sig)) /\ UNCHANGED <<error, last_sig>>
     \/ chain[sig] = "err" /\ Fail("Program")
     \/ sig <= horizon /\ Fail("Expired")
  /\ UNCHANGED <<attempt, sig, signed, stop, netVars, late>>

\* ... or one of the polls itself fails, whatever the cluster has recorded.
ConfirmFails ==
  /\ pc = "confirm"
  /\ \E kind \in {"Transport", "Node", "Unknown", "Other"} : Fail(kind)
  /\ UNCHANGED <<attempt, sig, signed, stop, netVars, late>>

\* mutant: the retry does not count as an attempt
BackoffUncounted ==
  /\ pc = "backoff"
  /\ pc' = "head"
  /\ UNCHANGED <<attempt, error, last_sig, sig, signed, result, stop, netVars, late>>

\* The 500 ms sleep, and the next value of the range.
Backoff ==
  /\ pc = "backoff"
  /\ pc' = "head"
  /\ attempt' = attempt + 1
  /\ UNCHANGED <<error, last_sig, sig, signed, result, stop, netVars, late>>

CallStep == \/ Enter \/ LoopHead \/ CheckStatus \/ GetBlockhash
            \/ Send \/ Confirm \/ ConfirmFails \/ Backoff

-----------------------------------------------------------------------------
(* The cluster and the operator. *)

\* A broadcast transaction is recorded while its blockhash is valid.
Land(s) == /\ s \in inflight /\ s > horizon
           /\ \E o \in {"ok", "err"} : chain' = [chain EXCEPT ![s] = o]
           /\ inflight' = inflight \ {s}
           /\ UNCHANGED <<callVars, stop, horizon, late>>

Drop(s) == /\ s \in inflight
           /\ inflight' = inflight \ {s}
           /\ UNCHANGED <<callVars, stop, chain, horizon, late>>

\* The oldest blockhash still valid becomes too old.
Age == /\ horizon < signed
       /\ horizon' = horizon + 1
       /\ UNCHANGED <<callVars, stop, chain, inflight, late>>

RaiseStop == /\ ~stop
             /\ stop' = TRUE
             /\ UNCHANGED <<callVars, netVars, late>>

Next == \/ CallStep
        \/ \E s \in Sigs : Land(s) \/ Drop(s)
        \/ Age
        \/ RaiseStop

(***************************************************************************)
(* The async runtime polls every ready future, each single request answers *)
(* or times out, and slots keep passing.  Nothing forces a poll of the     *)
(* confirmation loop to fail: ConfirmFails has no fairness.                *)
(***************************************************************************)
Fairness == /\ WF_vars(Enter \/ LoopHead \/ CheckStatus \/ GetBlockhash
                       \/ Send \/ Confirm \/ Backoff)
            /\ WF_vars(Age)

Spec == Init /\ [][Next]_vars /\ Fairness

-----------------------------------------------------------------------------
(* Properties. *)

\* The type invariant: no call numbers more signatures than it has attempts, and
\* only signatures of this call are on the wire or recorded.
TypeOK == /\ pc \in PCs
          /\ attempt \in 0 .. MaxAttempts
          /\ error \in ErrorKinds \cup {"none"}
          /\ last_sig \in 0 .. MaxAttempts
          /\ sig \in 0 .. MaxAttempts
          /\ signed \in 0 .. MaxAttempts
          /\ result \in [kind : Call!ResultKinds, sig : 0 .. MaxAttempts]
          /\ stop \in BOOLEAN
          /\ chain \in [Sigs -> Call!Outcomes]
          /\ inflight \subseteq Sigs
          /\ horizon \in 0 .. MaxAttempts
          /\ late \in Nat

\* The `unreachable!()` after the retry loop (rpc.rs 241, 386) is not reached,
\* whatever mix of errors the attempts meet: the last attempt always returns.
NeverUnreachable == pc # "unreachable"

\* Once shutdown is signalled a call broadcasts at most one more transaction:
\* the flag is only read between attempts, so the attempt that has already
\* passed the check still goes out, and nothing after it.
AtMostOneLateSend == late <= 1

\* Every transaction the cluster can ever charge for belongs to an attempt that
\* has begun: k attempts put at most k transactions on the wire, recorded,
\* in flight or lost.
OneTransactionPerAttempt ==
  \A s \in Sigs : (chain[s] # "none" \/ s \in inflight) => s <= attempt + 1

\* An error returned before anything was signed (no signers, shutdown at the
\* first check, no blockhash) leaves nothing on the wire, then or later, so the
\* handler's next tick starts clean.
EarlyErrLeavesNoTrace ==
  (result.kind = "Err" /\ last_sig = 0) =>
     inflight = {} /\ \A s \in Sigs : chain[s] = "none"

\* The call implements the contract its callers use: one answer, and Ok only
\* for a signature the cluster has recorded.
ImplementsSubmission == Call!Spec

\* Every call returns: no poll loop or retry goes on for ever, because the
\* blockhash expires and the attempts are bounded.
CallReturns == <>(pc = "done")

(* What a comment in rpc.rs says and the code does not do. *)

\* "previous tx landed; treating retry-trigger as success" (rpc.rs 198-201):
\* Ok is for a transaction that did its work.
OkMeansExecuted == \A s \in Sigs : result = Call!Ok(s) => chain[s] = "ok"
=============================================================================
