------------------------------- MODULE Keeper -------------------------------
(***************************************************************************)
(* What every gated handler of the keeper promises about the items it      *)
(* works on (loans, matched-loan nodes, markets, vault seats): it holds    *)
(* the claim of at most one item, puts a transaction on the wire only      *)
(* under that claim and only after a simulation of it passed while the     *)
(* claim was held, sends at most once per claim, and gives every claim     *)
(* back.  What the program would execute is not the keeper's to decide:    *)
(* able moves freely.                                                      *)
(***************************************************************************)
CONSTANT Items

VARIABLES stage,  \* per item: how far its claim got
          able    \* items whose transaction the program would execute now

vars == <<stage, able>>

Stages == {"free", "held", "cleared", "sent"}

Move(i, from, to) == stage[i] \in from /\ stage' = [stage EXCEPT ![i] = to]

Init == stage = [i \in Items |-> "free"]

Claim(i)   == Move(i, {"free"}, "held") /\ \A j \in Items : stage[j] = "free"
Clear(i)   == Move(i, {"held"}, "cleared") /\ i \in able
Send(i)    == Move(i, {"cleared"}, "sent")
Release(i) == Move(i, {"held", "cleared", "sent"}, "free")

\* able is an input: any step may come with another value of it.
Next == (\E i \in Items : Claim(i) \/ Clear(i) \/ Send(i) \/ Release(i)) \/ UNCHANGED stage

Safety == Init /\ [][Next]_vars

\* One claim at a time, so returning every claim is holding none again and again.
ClaimsReturned == []<>(\A i \in Items : stage[i] = "free")

Spec == Safety /\ ClaimsReturned
=============================================================================
