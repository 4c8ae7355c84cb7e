------------------------- MODULE CuratorFeesProofs --------------------------
(***************************************************************************)
(* The curator fee claimer for any sub-vaults and curators, any floor, any *)
(* fee and any number of copies on the wire: its types, why one of its     *)
(* claims may fail, who signs them, and why its ticks end.                 *)
(***************************************************************************)
EXTENDS CuratorFees, FiniteSetTheorems, TLAPS

-----------------------------------------------------------------------------
(* The inductive invariant. *)

\* One visit at a time, its sub-vault claimed and no other; a submission is
\* recorded, and has copies on the wire, only while it is awaited.
Shape ==
  /\ cur = {} \/ \E v \in Vaults : cur = {v}
  /\ inflight = cur
  /\ pc \in {"submit", "await"} <=> cur # {}
  /\ pc = "idle" => todo = {}
  /\ pc # "await" => recorded = "none" /\ \A tx \in wire : ~tx.mine

\* The awaited copies are the claim of the visited sub-vault, signed by the
\* curator it was listed with.
SignedAsListed == \A tx \in wire : tx.mine => tx.vault \in cur /\ tx.signer = listed[tx.vault]

\* What the listing said of a sub-vault not claimed yet still holds unless the
\* sub-vault was touched; which key signs for it was settled by the listing.
ListingStands ==
  \A v \in todo \cup cur :
    /\ listed[v] \in Keys
    /\ v \notin touched => v \notin paused /\ curator[v] = listed[v] /\ fee[v] >= Floor
    /\ v \notin unpaid => v \in payable

\* Every claim that is ever sent is signed and paid by a curator whose keypair is
\* loaded, for a sub-vault whose bank is the registry's, also when the curator is
\* rotated between the listing and the claim; the sub-vault claimed for is paused
\* only if that, too, came after the listing.
ClaimsAreOurs ==
  /\ cur \subseteq Banked \cap SameBank /\ cur \cap paused \subseteq touched
  /\ \A tx \in wire : tx.signer \in Keys /\ tx.vault \in Banked \cap SameBank

IInv == /\ TypeOK /\ Shape /\ SignedAsListed /\ ListingStands
        /\ ClaimsAreOurs /\ ClaimsFailForAReason

\* claim_one returned, on any path: the invariant is kept.
LEMMA LeaveKeeps ==
  ASSUME IInv, NEW v \in Vaults, cur = {v}, Leave(v)
  PROVE  IInv'
<1> USE DEF IInv
<1>1. /\ wire' \subseteq ClaimTxs
      /\ \A tx \in wire' : ~tx.mine /\ \E old \in wire : tx.vault = old.vault /\ tx.signer = old.signer
  BY DEF Leave, TypeOK, ClaimTxs
<1>2. cur' = {} /\ inflight' = {} /\ pc' = "vaults" /\ recorded' = "none"
  BY DEF Leave, Shape
<1>3. UNCHANGED <<todo, listed, fee, curator, paused, payable, touched, unpaid, moves>>
  BY DEF Leave, chainVars, history
<1>4. TypeOK'
  BY <1>1, <1>2, <1>3 DEF TypeOK
<1>5. Shape' /\ SignedAsListed' /\ ListingStands' /\ ClaimsFailForAReason'
  BY <1>1, <1>2, <1>3 DEF Shape, SignedAsListed, ListingStands, ClaimsFailForAReason
<1>6. ClaimsAreOurs'
  BY <1>1, <1>2 DEF ClaimsAreOurs
<1> QED
  BY <1>4, <1>5, <1>6

\* The fee, the curator or the pause flag of a sub-vault moves and the sub-vault is
\* marked: the handler and the wire are left alone, but for a copy that landed.
LEMMA TouchKeeps ==
  ASSUME IInv, NEW v \in Vaults, Touch(v),
         UNCHANGED <<pc, todo, listed, cur, inflight>>, wire' \subseteq wire,
         fee' \in [Vaults -> 0 .. MaxFee], curator' \in [Vaults -> Curators],
         paused' \subseteq Vaults, UNCHANGED <<payable, unpaid>>,
         \A u \in Vaults \ {v} : /\ fee'[u] = fee[u] /\ curator'[u] = curator[u]
                                 /\ u \in paused' <=> u \in paused,
         moves' \in 0 .. MaxMoves, recorded' \in {recorded, "ok"},
         pc # "await" => recorded' = recorded
  PROVE  IInv'
<1> USE DEF IInv
<1>1. touched' = IF pc = "idle" THEN {} ELSE touched \cup {v}
  BY DEF Touch
<1>2. TypeOK'
  BY <1>1 DEF TypeOK
<1>3. Shape' /\ SignedAsListed'
  BY DEF Shape, SignedAsListed
<1>4. ListingStands'
  <2>1. CASE pc = "idle"
    BY <2>1 DEF ListingStands, Shape
  <2>2. CASE pc # "idle"
    BY <1>1, <2>2 DEF ListingStands, TypeOK
  <2> QED
    BY <2>1, <2>2
<1>5. ClaimsFailForAReason'
  BY <1>1 DEF ClaimsFailForAReason, Shape
<1>6. ClaimsAreOurs'
  BY <1>1 DEF ClaimsAreOurs, Shape, TypeOK
<1> QED
  BY <1>2, <1>3, <1>4, <1>5, <1>6

\* A claim is executed, or recorded as failed: it fails for a reason.
LEMMA LandKeeps ==
  ASSUME IInv, NEW tx \in wire, Land(tx)
  PROVE  IInv'
<1> USE DEF IInv
<1>1. /\ tx.vault \in Vaults /\ tx.signer \in Curators /\ tx.mine \in BOOLEAN
      /\ (tx.mine => pc = "await")
  BY DEF TypeOK, ClaimTxs, Shape
<1>2. /\ wire' \subseteq wire /\ UNCHANGED <<curator, paused, payable, unpaid, moves>>
      /\ UNCHANGED <<pc, todo, listed, cur, inflight>>
  BY DEF Land, handlerVars
<1>3. CASE ClaimExecutes(tx.vault, tx.signer)
  <2>1. /\ fee' = [fee EXCEPT ![tx.vault] = 0] /\ Touch(tx.vault)
        /\ recorded' = IF tx.mine /\ recorded = "none" THEN "ok" ELSE recorded
    BY <1>3 DEF Land
  <2>2. /\ fee' \in [Vaults -> 0 .. MaxFee] /\ curator' \in [Vaults -> Curators]
        /\ \A u \in Vaults \ {tx.vault} : /\ fee'[u] = fee[u] /\ curator'[u] = curator[u]
                                          /\ u \in paused' <=> u \in paused
        /\ paused' \subseteq Vaults
        /\ moves' \in 0 .. MaxMoves
    BY <1>1, <1>2, <2>1, FeesAssumption DEF TypeOK
  <2>3. recorded' \in {recorded, "ok"} /\ (pc # "await" => recorded' = recorded)
    BY <1>1, <2>1
  <2> QED
    BY <1>1, <1>2, <2>1, <2>2, <2>3, TouchKeeps
<1>4. CASE ~ClaimExecutes(tx.vault, tx.signer)
  <2>1. /\ recorded' = IF tx.mine /\ recorded = "none" THEN "err" ELSE recorded
        /\ UNCHANGED <<fee, touched>>
    BY <1>4 DEF Land
  <2>2. TypeOK'
    BY <1>2, <2>1 DEF TypeOK
  <2>3. Shape' /\ SignedAsListed' /\ ListingStands' /\ ClaimsAreOurs'
    BY <1>1, <1>2, <2>1 DEF Shape, SignedAsListed, ListingStands, ClaimsAreOurs
  <2>4. ASSUME tx.mine
        PROVE  tx.vault \in touched \cup unpaid \/ Floor = 0 \/ listed[tx.vault] \notin Atas
    <3>1. tx.vault \in cur /\ tx.signer = listed[tx.vault]
      BY <2>4 DEF SignedAsListed
    <3>2. CASE tx.vault \notin touched \cup unpaid
      <4>1. /\ curator[tx.vault] = tx.signer /\ fee[tx.vault] >= Floor
            /\ tx.vault \notin paused /\ tx.vault \in payable
        BY <3>1, <3>2 DEF ListingStands
      <4>2. tx.signer \notin Atas \/ ~(fee[tx.vault] > 0)
        BY <1>4, <4>1 DEF ClaimExecutes
      <4>3. fee[tx.vault] \in Nat /\ Floor \in Nat
        BY <1>1, FeesAssumption DEF TypeOK
      <4> QED
        BY <3>1, <4>1, <4>2, <4>3
    <3> QED
      BY <3>2
  <2>5. ClaimsFailForAReason'
    <3>1. CASE tx.mine
      <4>1. tx.vault \in cur /\ \A v \in cur : v = tx.vault
        BY <3>1 DEF SignedAsListed, TypeOK
      <4> QED
        BY <1>2, <2>1, <2>4, <3>1, <4>1 DEF ClaimsFailForAReason
    <3>2. CASE ~tx.mine
      BY <1>2, <2>1, <3>2 DEF ClaimsFailForAReason
    <3> QED
      BY <3>1, <3>2
  <2> QED
    BY <2>2, <2>3, <2>5
<1> QED
  BY <1>3, <1>4

LEMMA InitIInv == Init => IInv
<1> SUFFICES ASSUME Init PROVE IInv
  OBVIOUS
<1>1. fee \in [Vaults -> 0 .. MaxFee] /\ moves \in 0 .. MaxMoves
  BY FeesAssumption DEF Init
<1>2. TypeOK
  BY <1>1 DEF Init, TypeOK
<1> QED
  BY <1>2 DEF Init, IInv, Shape, SignedAsListed, ListingStands, ClaimsAreOurs,
              ClaimsFailForAReason

\* Every step of the fee claimer and of the chain keeps the invariant.
LEMMA NextIInv == IInv /\ [Next]_vars => IInv'
<1> SUFFICES ASSUME IInv, [Next]_vars PROVE IInv'
  OBVIOUS
<1> USE DEF IInv
<1>1. CASE List
  <2>1. /\ cur = {} /\ recorded = "none" /\ \A tx \in wire : ~tx.mine
        /\ todo' = { v \in Vaults : WorthClaiming(v) } /\ listed' = curator
        /\ touched' = {} /\ unpaid' = Vaults \ payable /\ pc' = "vaults"
        /\ UNCHANGED <<cur, inflight, fee, curator, paused, payable, wire, recorded, moves>>
    BY <1>1 DEF List, Shape, chainVars
  <2>2. TypeOK'
    BY <2>1 DEF TypeOK
  <2>3. Shape' /\ SignedAsListed' /\ ClaimsAreOurs' /\ ClaimsFailForAReason'
    BY <2>1 DEF Shape, SignedAsListed, ClaimsAreOurs, ClaimsFailForAReason
  <2>4. ListingStands'
    BY <2>1 DEF ListingStands, WorthClaiming
  <2> QED
    BY <2>2, <2>3, <2>4
<1>2. CASE EndTick
  <2>1. /\ cur = {} /\ todo = {} /\ recorded = "none" /\ pc' = "idle" /\ touched' = {}
        /\ unpaid' = {} /\ \A tx \in wire : ~tx.mine
        /\ UNCHANGED <<todo, listed, cur, inflight, fee, curator, paused, payable, wire, recorded, moves>>
    BY <1>2 DEF EndTick, Shape, chainVars
  <2>2. TypeOK'
    BY <2>1 DEF TypeOK
  <2> QED
    BY <2>1, <2>2 DEF Shape, SignedAsListed, ListingStands, ClaimsAreOurs, ClaimsFailForAReason
<1>3. ASSUME NEW v \in Vaults, Visit(v) PROVE IInv'
  <2>1. /\ cur = {} /\ inflight = {} /\ recorded = "none" /\ \A tx \in wire : ~tx.mine
        /\ v \in todo /\ todo' = todo \ {v} /\ pc = "vaults"
        /\ UNCHANGED <<listed, fee, curator, paused, payable, wire, recorded, touched, unpaid, moves>>
    BY <1>3 DEF Visit, Shape, chainVars, history
  <2>2. CASE UNCHANGED <<pc, cur, inflight>>
    <3>1. TypeOK'
      BY <2>1, <2>2 DEF TypeOK
    <3> QED
      BY <2>1, <2>2, <3>1
      DEF Shape, SignedAsListed, ListingStands, ClaimsAreOurs, ClaimsFailForAReason
  <2>3. CASE v \in Banked \cap SameBank /\ pc' = "submit" /\ cur' = {v} /\ inflight' = {v}
    <3>1. TypeOK'
      BY <2>1, <2>3 DEF TypeOK
    <3> QED
      BY <2>1, <2>3, <3>1
      DEF Shape, SignedAsListed, ListingStands, ClaimsAreOurs, ClaimsFailForAReason
  <2> QED
    BY <1>3, <2>1, <2>2, <2>3 DEF Visit
<1>4. ASSUME NEW v \in Vaults, Submit(v) PROVE IInv'
  <2>1. PICK k \in 1 .. Copies :
            wire' = wire \cup { [vault |-> v, signer |-> listed[v], copy |-> i, mine |-> TRUE] :
                                  i \in 1 .. k }
    BY <1>4 DEF Submit
  <2>2. /\ pc = "submit" /\ cur = {v} /\ pc' = "await"
        /\ UNCHANGED <<todo, listed, cur, inflight, fee, curator, paused, payable, recorded,
                       touched, unpaid, moves>>
    BY <1>4 DEF Submit, chainVars, history
  <2>3. \A i \in 1 .. k : [vault |-> v, signer |-> listed[v], copy |-> i, mine |-> TRUE] \in ClaimTxs
    BY FeesAssumption DEF ClaimTxs, TypeOK
  <2>4. TypeOK'
    BY <2>1, <2>2, <2>3 DEF TypeOK
  <2>5. SignedAsListed' /\ ClaimsAreOurs'
    BY <2>1, <2>2 DEF SignedAsListed, ClaimsAreOurs, ListingStands
  <2>6. Shape' /\ ListingStands' /\ ClaimsFailForAReason'
    BY <2>2 DEF Shape, ListingStands, ClaimsFailForAReason
  <2> QED
    BY <2>4, <2>5, <2>6
<1>5. ASSUME NEW v \in Vaults, Answered(v) \/ SendFails(v) PROVE IInv'
  BY <1>5, LeaveKeeps DEF Answered, SendFails
<1>6. ASSUME NEW tx \in wire, Land(tx) PROVE IInv'
  BY <1>6, LandKeeps
<1>7. ASSUME NEW tx \in wire, Drop(tx) PROVE IInv'
  <2>1. wire' \subseteq wire
        /\ UNCHANGED <<pc, todo, listed, cur, inflight, fee, curator, paused, payable, recorded,
                       touched, unpaid, moves>>
    BY <1>7 DEF Drop, handlerVars, chainVars, history
  <2>2. TypeOK'
    BY <2>1 DEF TypeOK
  <2> QED
    BY <2>1, <2>2 DEF Shape, SignedAsListed, ListingStands, ClaimsAreOurs, ClaimsFailForAReason
<1>8. ASSUME NEW v \in Vaults,
             FeeAccrues(v) \/ FeeTaken(v) \/ CuratorRotates(v) \/ VaultPauses(v)
      PROVE  IInv'
  <2>1. /\ moves' \in 0 .. MaxMoves /\ UNCHANGED <<pc, todo, listed, cur, inflight, wire, recorded>>
        /\ Touch(v) /\ UNCHANGED <<payable, unpaid>>
    BY <1>8, FeesAssumption DEF FeeAccrues, FeeTaken, CuratorRotates, VaultPauses, Disturb,
                handlerVars, TypeOK
  <2>2. /\ fee' \in [Vaults -> 0 .. MaxFee] /\ curator' \in [Vaults -> Curators]
        /\ paused' \subseteq Vaults
        /\ \A u \in Vaults \ {v} : /\ fee'[u] = fee[u] /\ curator'[u] = curator[u]
                                   /\ u \in paused' <=> u \in paused
    BY <1>8, FeesAssumption DEF FeeAccrues, FeeTaken, CuratorRotates, VaultPauses, Toggle, TypeOK
  <2>3. /\ wire' \subseteq wire /\ recorded' \in {recorded, "ok"}
        /\ pc # "await" => recorded' = recorded
    BY <2>1
  <2>4. UNCHANGED <<pc, todo, listed, cur, inflight>> /\ UNCHANGED <<payable, unpaid>>
    BY <2>1
  <2> QED
    BY <2>1, <2>2, <2>3, <2>4, TouchKeeps
<1>9. ASSUME NEW v \in Vaults, BankMoves(v) PROVE IInv'
  <2>1. /\ moves' \in 0 .. MaxMoves
        /\ UNCHANGED <<pc, todo, listed, cur, inflight, fee, curator, paused, wire, recorded, touched>>
    BY <1>9, FeesAssumption DEF BankMoves, Disturb, handlerVars, TypeOK
  <2>2. /\ payable' \subseteq Vaults /\ \A u \in Vaults \ {v} : u \in payable' <=> u \in payable
        /\ unpaid' = IF pc = "idle" THEN {} ELSE unpaid \cup {v}
    BY <1>9 DEF BankMoves, Toggle, TypeOK
  <2>3. TypeOK'
    BY <2>1, <2>2 DEF TypeOK
  <2>4. Shape' /\ SignedAsListed' /\ ClaimsAreOurs'
    BY <2>1 DEF Shape, SignedAsListed, ClaimsAreOurs
  <2>5. ListingStands'
    <3>1. CASE pc = "idle"
      BY <2>1, <3>1 DEF ListingStands, Shape
    <3>2. CASE pc # "idle"
      BY <2>1, <2>2, <3>2 DEF ListingStands, TypeOK
    <3> QED
      BY <3>1, <3>2
  <2>6. ClaimsFailForAReason'
    BY <2>1, <2>2 DEF ClaimsFailForAReason, Shape
  <2> QED
    BY <2>3, <2>4, <2>5, <2>6
<1>10. CASE UNCHANGED vars
  <2>1. UNCHANGED <<pc, todo, listed, cur, inflight, fee, curator, paused, payable, wire, recorded,
                    touched, unpaid, moves>>
    BY <1>10 DEF vars, handlerVars, chainVars, history
  <2> QED
    BY <2>1 DEF TypeOK, Shape, SignedAsListed, ListingStands, ClaimsAreOurs,
                ClaimsFailForAReason
<1> QED
  BY <1>1, <1>2, <1>3, <1>4, <1>5, <1>6, <1>7, <1>8, <1>9, <1>10
  DEF Next, Tick, Environment

\* The inductive invariant holds in every reachable state of the fee claimer.
THEOREM Invariance == Spec => []IInv
  BY InitIInv, NextIInv, PTL DEF Spec

\* The fee claimer's types: one sub-vault claimed at a time, no fee below 0 or
\* above what accrued, whichever copies land.
THEOREM TypeCorrect == Spec => []TypeOK
<1>1. IInv => TypeOK
  BY DEF IInv
<1> QED
  BY <1>1, Invariance, PTL

\* The first recorded copy of a claim fails only if the sub-vault was touched after
\* the listing or not paid out by its bank at some time since, the floor is 0 or
\* the curator has no token account.
THEOREM FailedClaimsHaveAReason == Spec => []ClaimsFailForAReason
<1>1. IInv => ClaimsFailForAReason
  BY DEF IInv
<1> QED
  BY <1>1, Invariance, PTL

\* No claim is ever signed with a key that is not loaded, nor sent for a sub-vault
\* listed as paused or whose bank the registry does not confirm.
THEOREM OnlyLoadedKeysSign == Spec => []ClaimsAreOurs
<1>1. IInv => ClaimsAreOurs
  BY DEF IInv
<1> QED
  BY <1>1, Invariance, PTL
-----------------------------------------------------------------------------
(***************************************************************************)
(* The safety half of FeesClaimed: the claimer moves on, through its       *)
(* listing.                                                                *)
(***************************************************************************)
Shrinks(T, S) == T \subseteq S /\ T # S

VaultPlace == [submit |-> 1, await |-> 2, vaults |-> 3]

ClaimMovesOn == \/ pc' = "idle"
                \/ Shrinks(todo', todo)
                \/ todo' = todo /\ VaultPlace[pc'] > VaultPlace[pc]

\* What the curator fee claimer does during a tick ends the tick, is done with a
\* sub-vault, or is a step forward of the claim of one: no sub-vault is claimed for
\* twice in a tick.
ClaimsMoveOn == [][pc # "idle" /\ handlerVars' # handlerVars => ClaimMovesOn]_vars

\* For every set of sub-vaults and curators, and whatever sends fail, a tick of
\* the curator fee claimer visits every listed sub-vault once.
THEOREM EveryClaimMovesOn == Spec => ClaimsMoveOn
<1>1. [Next]_vars =>
        [pc # "idle" /\ handlerVars' # handlerVars => ClaimMovesOn]_vars
  <2> SUFFICES ASSUME Next, pc # "idle", handlerVars' # handlerVars PROVE ClaimMovesOn
    OBVIOUS
  <2>1. Tick \/ \E v \in Vaults : SendFails(v)
    BY DEF Next, Environment, Land, Drop, FeeAccrues, FeeTaken,
           CuratorRotates, VaultPauses, BankMoves, Disturb
  <2> USE DEF ClaimMovesOn, VaultPlace
  <2>2. CASE EndTick
    BY <2>2 DEF EndTick
  <2>3. ASSUME NEW v \in Vaults, Visit(v) PROVE ClaimMovesOn
    BY <2>3 DEF Visit, Shrinks
  <2>4. ASSUME NEW v \in Vaults, Submit(v) \/ Answered(v) \/ SendFails(v)
        PROVE  ClaimMovesOn
    <3>1. /\ todo' = todo
          /\ (pc = "submit" /\ pc' = "await") \/ (pc = "await" /\ pc' = "vaults")
      BY <2>4 DEF Submit, Answered, SendFails, Leave
    <3> QED
      BY <3>1
  <2> QED
    BY <2>1, <2>2, <2>3, <2>4 DEF Tick, List
<1> QED
  BY <1>1, PTL DEF Spec, ClaimsMoveOn
=============================================================================
