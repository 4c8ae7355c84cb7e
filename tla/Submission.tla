----------------------------- MODULE Submission -----------------------------
(***************************************************************************)
(* What a handler may rely on when it submits one bundle of instructions   *)
(* through Rpc::send_signed_labeled / send_signed_v0_labeled: the call     *)
(* answers once and the answer never changes; Ok(sig) is only answered for *)
(* a signature the cluster has already recorded; Err promises nothing at   *)
(* all, since a transaction broadcast earlier may be recorded even after   *)
(* the call has returned.  The call can sign and broadcast several         *)
(* transactions, so several signatures may be recorded.                    *)
(***************************************************************************)
CONSTANT Sigs      \* the signatures one call may produce

VARIABLES result,  \* what the call has answered
          chain    \* what the cluster recorded for each signature

vars == <<result, chain>>

ResultKinds == {"pending", "Ok", "Err"}
Outcomes    == {"none", "ok", "err"}

Pending == [kind |-> "pending", sig |-> 0]
Ok(s)   == [kind |-> "Ok", sig |-> s]
Err     == [kind |-> "Err", sig |-> 0]

Init == /\ result = Pending
        /\ chain = [s \in Sigs |-> "none"]

\* A signature is recorded at most once, as a success or as a failed transaction.
Record(s) == /\ chain[s] = "none"
             /\ \E o \in {"ok", "err"} : chain' = [chain EXCEPT ![s] = o]
             /\ UNCHANGED result

AnswerOk(s) == /\ result = Pending
               /\ chain[s] # "none"
               /\ result' = Ok(s)
               /\ UNCHANGED chain

AnswerErr == /\ result = Pending
             /\ result' = Err
             /\ UNCHANGED chain

Next == \/ \E s \in Sigs : Record(s) \/ AnswerOk(s)
        \/ AnswerErr

Spec == Init /\ [][Next]_vars
=============================================================================
