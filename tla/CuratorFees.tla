----------------------------- MODULE CuratorFees ----------------------------
(***************************************************************************)
(* CuratorFeeClaimerHandler (src/handlers/curator_fee_claimer.rs): one     *)
(* listing per tick decides which sub-vaults are worth a claim and who     *)
(* signs it; nothing is simulated, so what changes between the listing and *)
(* the landing is the program's to refuse.  One action per await.          *)
(***************************************************************************)
EXTENDS Naturals, FiniteSets

CONSTANTS
  Vaults,          \* sub-vaults
  Curators,
  Keys,            \* curators whose keypair is loaded
  Atas,            \* curators that have a token account
  Banked,          \* sub-vaults whose mint has a bank in the registry
  SameBank,        \* ... and that bank is the vault's own
  Faulty,          \* sub-vaults whose sends may fail
  Floor,           \* min_curator_fee_claim_atoms
  MaxFee,          \* most atoms of fee explored
  Copies, MaxWire, \* transactions per submission, and on the wire
  Moving,          \* sub-vaults that moves of others are explored on
  MaxMoves         \* moves of everybody else explored

ASSUME FeesAssumption ==
  /\ Keys \subseteq Curators /\ Atas \subseteq Curators
  /\ Floor \in Nat /\ MaxFee \in Nat
  /\ Copies \in Nat \ {0} /\ MaxWire \in Nat /\ Copies <= MaxWire /\ MaxMoves \in Nat

VARIABLES
  \* the handler
  pc,
  todo,      \* listed sub-vaults not visited yet
  listed,    \* curator of each sub-vault as it was listed
  cur,       \* the sub-vault being claimed: {} or one
  inflight,  \* claimed sub-vaults
  \* the chain
  fee,       \* accumulated_curator_fee_atoms
  curator,   \* curator of a sub-vault
  paused,    \* sub-vaults whose vault is paused
  payable,   \* sub-vaults the bank would pay out now: its oracle is not stale,
             \* the withdrawal's health check passes
  wire,      \* claims broadcast and not recorded
  recorded,  \* what is recorded first for the submission under way
  \* history
  touched,   \* sub-vaults whose fee, curator or pause flag moved since the listing
  unpaid,    \* sub-vaults that were not payable at some time since the listing
  moves

handlerVars == <<pc, todo, listed, cur, inflight>>
chainVars   == <<fee, curator, paused, payable>>
history     == <<touched, unpaid, moves>>
vars == <<handlerVars, chainVars, wire, recorded, history>>

ClaimTxs == [vault : Vaults, signer : Curators, copy : 1 .. Copies, mine : BOOLEAN]

Init ==
  /\ pc = "idle" /\ todo = {} /\ cur = {} /\ inflight = {}
  /\ fee \in [Vaults -> {0, MaxFee}] /\ curator \in [Vaults -> Curators] /\ listed = curator
  /\ paused = {} /\ payable \in {Vaults, {}}
  /\ wire = {} /\ recorded = "none" /\ touched = {} /\ unpaid = {} /\ moves = 0

\* ClaimCuratorFee: the vault is not paused, the signer is the curator and has a
\* token account, there is a fee, and marginfi lets the vault withdraw it, which
\* reads the bank's oracle: no update is bundled with the claim.
ClaimExecutes(v, c) ==
  /\ v \notin paused /\ curator[v] = c /\ c \in Atas /\ fee[v] > 0
  /\ v \in payable

-----------------------------------------------------------------------------
(* The handler. *)

\* mutant: a fee that just reaches the floor is passed over
WorthClaimingStrict(v) == v \notin paused /\ fee[v] > Floor /\ curator[v] \in Keys

\* Not paused, not below the floor, and the keypair is ours.
WorthClaiming(v) == v \notin paused /\ fee[v] >= Floor /\ curator[v] \in Keys

\* No curator keypair: no tick does anything.  Else list_sub_vaults, whose failure
\* only ends the tick; every later decision uses this listing.
List ==
  /\ pc = "idle" /\ Keys # {}
  /\ todo' = { v \in Vaults : WorthClaiming(v) }
  /\ listed' = curator /\ touched' = {} /\ unpaid' = Vaults \ payable
  /\ pc' = "vaults"
  /\ UNCHANGED <<cur, inflight, chainVars, wire, recorded, moves>>

\* The listing is gone with the tick.
EndTick ==
  /\ pc = "vaults" /\ todo = {}
  /\ pc' = "idle" /\ touched' = {} /\ unpaid' = {}
  /\ UNCHANGED <<todo, listed, cur, inflight, chainVars, wire, recorded, moves>>

\* claim_inflight, then claim_one: the bank of the vault's mint must be there and
\* be the vault's own, else the error is logged and the claim given back.
Visit(v) ==
  /\ pc = "vaults" /\ v \in todo
  /\ todo' = todo \ {v}
  /\ IF v \in inflight \/ v \notin Banked \cap SameBank
       THEN UNCHANGED <<pc, cur, inflight>>
       ELSE pc' = "submit" /\ cur' = {v} /\ inflight' = inflight \cup {v}
  /\ UNCHANGED <<listed, chainVars, wire, recorded, history>>

\* mutant: one key signs for every sub-vault
SubmitAnyKey(v) ==
  /\ pc = "submit" /\ cur = {v}
  /\ Cardinality(wire) + 1 <= MaxWire
  /\ \E c \in Keys :
       wire' = wire \cup {[vault |-> v, signer |-> c, copy |-> 1, mine |-> TRUE]}
  /\ pc' = "await"
  /\ UNCHANGED <<todo, listed, cur, inflight, chainVars, recorded, history>>

\* mutant: the retry loop signs once more than it may
SubmitOnceMore(v) ==
  /\ pc = "submit" /\ cur = {v}
  /\ wire' = wire \cup { [vault |-> v, signer |-> listed[v], copy |-> i, mine |-> TRUE] :
                           i \in 1 .. Copies + 1 }
  /\ pc' = "await"
  /\ UNCHANGED <<todo, listed, cur, inflight, chainVars, recorded, history>>

\* send_signed_labeled, signed and paid by the listed curator: one or more copies.
Submit(v) ==
  /\ pc = "submit" /\ cur = {v}
  /\ \E k \in 1 .. Copies :
     /\ Cardinality(wire) + k <= MaxWire
     /\ wire' = wire \cup { [vault |-> v, signer |-> listed[v], copy |-> i, mine |-> TRUE] :
                              i \in 1 .. k }
  /\ pc' = "await"
  /\ UNCHANGED <<todo, listed, cur, inflight, chainVars, recorded, history>>

\* claim_one returned: release_inflight, next sub-vault.
Leave(v) ==
  /\ pc' = "vaults" /\ cur' = {} /\ inflight' = inflight \ {v}
  /\ recorded' = "none" /\ wire' = { [tx EXCEPT !.mine = FALSE] : tx \in wire }
  /\ UNCHANGED <<todo, listed, chainVars, history>>

Answered(v) ==
  /\ pc = "await" /\ cur = {v}
  /\ recorded # "none" \/ ~(\E tx \in wire : tx.mine)
  /\ Leave(v)

SendFails(v) == pc = "await" /\ cur = {v} /\ v \in Faulty /\ Leave(v)

Tick == List \/ EndTick \/ \E v \in Vaults : Visit(v) \/ Submit(v) \/ Answered(v)

-----------------------------------------------------------------------------
(* The chain and everybody else. *)

Touch(v) == touched' = IF pc = "idle" THEN {} ELSE touched \cup {v}

\* A claim is executed, or recorded as failed.
Land(tx) ==
  /\ tx \in wire
  /\ wire' = wire \ {tx}
  /\ IF ClaimExecutes(tx.vault, tx.signer)
       THEN /\ fee' = [fee EXCEPT ![tx.vault] = 0] /\ Touch(tx.vault)
            /\ recorded' = IF tx.mine /\ recorded = "none" THEN "ok" ELSE recorded
       ELSE /\ recorded' = IF tx.mine /\ recorded = "none" THEN "err" ELSE recorded
            /\ UNCHANGED <<fee, touched>>
  /\ UNCHANGED <<handlerVars, curator, paused, payable, unpaid, moves>>

Drop(tx) ==
  /\ tx \in wire
  /\ wire' = wire \ {tx}
  /\ UNCHANGED <<handlerVars, chainVars, recorded, history>>

Disturb == moves < MaxMoves /\ moves' = moves + 1 /\ UNCHANGED <<handlerVars, wire, recorded>>

FeeAccrues(v) ==
  /\ Disturb /\ fee[v] < MaxFee
  /\ fee' = [fee EXCEPT ![v] = @ + 1] /\ Touch(v)
  /\ UNCHANGED <<curator, paused, payable, unpaid>>

\* The curator claims by hand.
FeeTaken(v) ==
  /\ Disturb /\ fee[v] > 0
  /\ fee' = [fee EXCEPT ![v] = 0] /\ Touch(v)
  /\ UNCHANGED <<curator, paused, payable, unpaid>>

CuratorRotates(v) ==
  /\ Disturb
  /\ \E c \in Curators \ {curator[v]} : curator' = [curator EXCEPT ![v] = c]
  /\ Touch(v)
  /\ UNCHANGED <<fee, paused, payable, unpaid>>

Toggle(S, v) == IF v \in S THEN S \ {v} ELSE S \cup {v}

VaultPauses(v) ==
  /\ Disturb
  /\ paused' = Toggle(paused, v) /\ Touch(v)
  /\ UNCHANGED <<fee, curator, payable, unpaid>>

\* The bank's oracle goes stale or is updated, its health or liquidity changes.
BankMoves(v) ==
  /\ Disturb
  /\ payable' = Toggle(payable, v)
  /\ unpaid' = IF pc = "idle" THEN {} ELSE unpaid \cup {v}
  /\ UNCHANGED <<fee, curator, paused, touched>>

Environment == \/ \E tx \in wire : Land(tx) \/ Drop(tx)
               \/ \E v \in Vaults \cap Moving : FeeAccrues(v) \/ FeeTaken(v) \/ CuratorRotates(v)
                                              \/ VaultPauses(v) \/ BankMoves(v)

Next == Tick \/ (\E v \in Vaults : SendFails(v)) \/ Environment

(***************************************************************************)
(* The handler is ticked for ever, whatever the fee payer's balance, and   *)
(* what is sent again and again is not dropped every time.                 *)
(***************************************************************************)
Fairness == /\ WF_vars(Tick)
            /\ \A v \in Vaults : SF_vars(\E tx \in wire : tx.vault = v /\ Land(tx))

Spec == Init /\ [][Next]_vars /\ Fairness

-----------------------------------------------------------------------------
(* Properties. *)

\* The type invariant.
TypeOK ==
  /\ pc \in {"idle", "vaults", "submit", "await"}
  /\ todo \subseteq Vaults /\ listed \in [Vaults -> Curators]
  /\ cur \subseteq Vaults /\ (\A a, b \in cur : a = b) /\ inflight = cur
  /\ fee \in [Vaults -> 0 .. MaxFee] /\ curator \in [Vaults -> Curators]
  /\ paused \subseteq Vaults /\ payable \subseteq Vaults
  /\ wire \subseteq ClaimTxs /\ recorded \in {"none", "ok", "err"}
  /\ touched \subseteq Vaults /\ unpaid \subseteq Vaults /\ moves \in 0 .. MaxMoves

\* Nothing simulates a claim, so what the listing does not look at is charged: the
\* first recorded copy of a claim fails only if the fee, the curator or the pause
\* flag of that sub-vault moved after the listing (an own copy of an earlier tick
\* included), the bank would not have paid at some time since (a stale oracle),
\* the floor is 0, or the curator has no token account.
ClaimsFailForAReason ==
  \A v \in cur : recorded = "err" =>
     v \in touched \cup unpaid \/ Floor = 0 \/ listed[v] \notin Atas

\* Once everybody else rests, no fee that reaches the floor stays with a sub-vault
\* that is not paused, that the bank pays out, and whose curator's keypair and token
\* account are there, whatever keeps failing for the other sub-vaults.
FeesClaimed ==
  <>[](\A v \in ((payable \ paused) \cap Banked \cap SameBank) \ Faulty :
         curator[v] \in Keys \cap Atas /\ fee[v] > 0 => fee[v] < Floor)
=============================================================================
