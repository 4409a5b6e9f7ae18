------------------------------ MODULE JobGate ------------------------------
(***************************************************************************)
(* POST /api/jobboard/gates/[slug]/claim: concurrent runs of claimGate over *)
(* the VERIFIED rows, the GateClaim table and the issuer account that pays  *)
(* the rewards.  One action per await.  The gates are fixed here (GateDesk   *)
(* creates them); what may change under a claim is which proofs are         *)
(* verified, which gates have expired, and what other claims do.  The whole *)
(* implements ClaimDesk, which is what the page that calls it relies on.    *)
(***************************************************************************)
EXTENDS Naturals, FiniteSets

CONSTANTS
  Claimer,        \* calls of the claim route, numbered as they arrive
  Gate, Nullifier, Address, Track,
  None,           \* no gate, no disclosed track
  Reward,         \* each gate's reward: "XLM", "ASSET", "FLAG", or "UNSET" asset
  Requires,       \* each gate's predicate: the track to be disclosed
  Expiring,       \* the gates that have an expiresAt
  ContractWallet, \* the addresses that are C... smart wallets
  Proof,          \* the VERIFIED rows that may be written, see ProofType
  Claim,          \* what a client may ask for, see ClaimType
  Faults          \* may database and network calls throw, and the process die?

ProofType == [txHash : Nullifier, nullifier : Nullifier, boundAddress : Address,
              gate : Gate \cup {None}, track : Track \cup {None}]

ClaimType == [slug : Gate \cup {None}, txHash : Nullifier, nullifier : Nullifier,
              boundAddress : Address,
              receiveAsset : {"none", "supported", "unsupported"}]

(* A verification transaction registers one nullifier, so the nullifier can *)
(* stand for its hash; Verification shows that no nullifier has two rows.   *)
ASSUME JobGateAssumption ==
  /\ Claimer \subseteq Nat
  /\ Proof \subseteq ProofType
  /\ \A p, q \in Proof : p.nullifier = q.nullifier => p = q
  /\ \A p \in Proof : p.txHash = p.nullifier
  /\ Claim \subseteq ClaimType
  /\ Reward \in [Gate -> {"XLM", "ASSET", "FLAG", "UNSET"}]
  /\ Requires \in [Gate -> Track]
  /\ Expiring \subseteq Gate
  /\ ContractWallet \subseteq Address
  /\ None \notin Gate \cup Track \cup Claim
  /\ Faults \in BOOLEAN

VARIABLES
  rows,       \* Verification rows with result VERIFIED
  expired,    \* gates whose expiresAt has passed
  claims,     \* rows of the GateClaim table
  pc, ask, answer,
  late,       \* history: claims that began when their reward was on record
  sponsored,  \* USE_CHANNELS: does a fee sponsor submit the transactions?
  accountSeq, txSeq, tx

Account == INSTANCE IssuerAccount WITH Client <- Claimer

worldVars  == <<rows, expired, sponsored>>
ledgerVars == <<accountSeq, txSeq, tx>>
vars == <<worldVars, claims, pc, ask, answer, late, ledgerVars>>

Step == {"new", "gate", "proof", "claim", "build", "submit", "confirm",
         "record", "audit", "done", "crashed"}

Answer == {"none", "PAID", "GATE_NOT_FOUND", "GATE_EXPIRED", "PROOF_NOT_ELIGIBLE",
           "ALREADY_CLAIMED", "GATE_MISCONFIGURED", "ASSET_CHOICE_UNSUPPORTED",
           "REWARD_FAILED", "ERROR"}

GateClaim == [gate : Gate, nullifier : Nullifier, boundAddress : Address,
              txHash : Claimer]

TypeOK ==
  /\ rows \subseteq Proof
  /\ expired \subseteq Expiring
  /\ claims \subseteq GateClaim
  /\ pc \in [Claimer -> Step]
  /\ ask \in [Claimer -> Claim \cup {None}]
  /\ answer \in [Claimer -> Answer]
  /\ late \subseteq Claimer
  /\ sponsored \in BOOLEAN
  /\ Account!TypeOK

Init ==
  /\ rows = {} /\ expired = {} /\ claims = {} /\ late = {}
  /\ pc = [c \in Claimer |-> "new"]
  /\ ask = [c \in Claimer |-> None]
  /\ answer = [c \in Claimer |-> "none"]
  /\ sponsored \in BOOLEAN
  /\ Account!Init
-----------------------------------------------------------------------------
Goto(c, from, to) == pc[c] = from /\ pc' = [pc EXCEPT ![c] = to] /\ UNCHANGED answer

Finish(c, from, result) ==
  /\ pc[c] = from
  /\ pc' = [pc EXCEPT ![c] = "done"]
  /\ answer' = [answer EXCEPT ![c] = result]

(* The route writes the refusal to the audit log before it answers; when     *)
(* that insert throws, its error is answered instead.                       *)
Refuse(c, from, code) ==
  \/ Finish(c, from, code)
  \/ Faults /\ Finish(c, from, "ERROR")

Recorded(gate, nullifier) ==
  \E k \in claims : k.gate = gate /\ k.nullifier = nullifier

Start(c, a) ==
  /\ \A d \in Claimer : d < c => pc[d] # "new"
  /\ Goto(c, "new", "gate")
  /\ ask' = [ask EXCEPT ![c] = a]
  /\ late' = IF Recorded(a.slug, a.nullifier) THEN late \cup {c} ELSE late
  /\ UNCHANGED <<worldVars, claims, ledgerVars>>

(* The gate must exist and not have expired. *)
FindGate(c) ==
  /\ \/ Refuse(c, "gate", "GATE_NOT_FOUND") /\ ask[c].slug = None
     \/ Refuse(c, "gate", "GATE_EXPIRED") /\ ask[c].slug \in expired
     \/ Goto(c, "gate", "proof") /\ ask[c].slug \in Gate \ expired
  /\ UNCHANGED <<worldVars, claims, ask, late, ledgerVars>>

(* A row answers a claim on its own transaction, nullifier and wallet; it   *)
(* must not have been verified for another gate, and it must disclose the   *)
(* attribute the gate requires with the value it requires.                  *)
Eligible(row, a) ==
  /\ row.txHash = a.txHash
  /\ row.nullifier = a.nullifier
  /\ row.boundAddress = a.boundAddress
  /\ row.gate \in {None, a.slug}
  /\ row.track = Requires[a.slug]

FindVerificationByHash(c) ==   \* mutant: the row is looked up by its hash alone
  /\ \/ Goto(c, "proof", "claim") /\ \E row \in rows : row.txHash = ask[c].txHash
     \/ /\ Finish(c, "proof", "PROOF_NOT_ELIGIBLE")
        /\ \A row \in rows : row.txHash # ask[c].txHash
  /\ UNCHANGED <<worldVars, claims, ask, late, ledgerVars>>

FindVerification(c) ==
  /\ \/ Goto(c, "proof", "claim") /\ \E row \in rows : Eligible(row, ask[c])
     \/ /\ Refuse(c, "proof", "PROOF_NOT_ELIGIBLE")
        /\ \A row \in rows : ~Eligible(row, ask[c])
  /\ UNCHANGED <<worldVars, claims, ask, late, ledgerVars>>

(* The explicit check for an earlier claim. *)
FindClaim(c) ==
  /\ \/ /\ Refuse(c, "claim", "ALREADY_CLAIMED")
        /\ Recorded(ask[c].slug, ask[c].nullifier)
     \/ /\ Goto(c, "claim", "build")
        /\ ~Recorded(ask[c].slug, ask[c].nullifier)
  /\ UNCHANGED <<worldVars, claims, ask, late, ledgerVars>>

(* A receive asset may be chosen for XLM rewards to classic wallets only.   *)
AssetChoiceAllowed(a) ==
  \/ a.receiveAsset = "none"
  \/ Reward[a.slug] = "FLAG"       \* the choice is not looked at
  \/ /\ a.receiveAsset = "supported"
     /\ Reward[a.slug] = "XLM"
     /\ a.boundAddress \notin ContractWallet

(* Route the reward and build its transaction.  A FLAG reward calls         *)
(* set_verified, which the contract does not have: it fails when simulated. *)
(* The exchange may have no path to the asset that was chosen.              *)
BuildReward(c) ==
  LET reward == Reward[ask[c].slug] IN
  /\ \/ /\ Refuse(c, "build", "GATE_MISCONFIGURED")
        /\ reward = "UNSET"
        /\ UNCHANGED ledgerVars
     \/ /\ Refuse(c, "build", "ASSET_CHOICE_UNSUPPORTED")
        /\ reward # "UNSET" /\ ~AssetChoiceAllowed(ask[c])
        /\ UNCHANGED ledgerVars
     \/ /\ Refuse(c, "build", "REWARD_FAILED")
        /\ \/ reward = "FLAG"
           \/ AssetChoiceAllowed(ask[c]) /\ ask[c].receiveAsset = "supported"
        /\ UNCHANGED ledgerVars
     \/ /\ Goto(c, "build", "submit")
        /\ AssetChoiceAllowed(ask[c]) /\ reward \in {"XLM", "ASSET"}
        /\ Account!Build(c)
  /\ UNCHANGED <<worldVars, claims, ask, late>>

(* Through the fee sponsor or directly to Horizon or the RPC server. *)
SubmitReward(c) ==
  /\ Goto(c, "submit", "confirm")
  /\ IF sponsored THEN Account!Hold(c) ELSE Account!Submit(c)
  /\ UNCHANGED <<worldVars, claims, ask, late>>

(* A contract wallet is paid by a Soroban transaction, which is polled for;  *)
(* a sponsored classic payment counts as made once the sponsor has it.      *)
TakenOnTrust(c) == sponsored /\ ask[c].boundAddress \notin ContractWallet

ConfirmSponsored(c) ==   \* mutant: whatever the sponsor has counts as made
  /\ \/ Goto(c, "confirm", "record") /\ (sponsored \/ tx[c] = "success")
     \/ Refuse(c, "confirm", "REWARD_FAILED") /\ ~sponsored /\ tx[c] # "success"
  /\ UNCHANGED <<worldVars, claims, ask, late, ledgerVars>>

ConfirmUnbounded(c) ==   \* mutant: the poll waits for the ledger
  /\ \/ Goto(c, "confirm", "record") /\ (TakenOnTrust(c) \/ tx[c] = "success")
     \/ /\ Refuse(c, "confirm", "REWARD_FAILED")
        /\ ~TakenOnTrust(c) /\ tx[c] \in {"failed", "dropped"}
  /\ UNCHANGED <<worldVars, claims, ask, late, ledgerVars>>

(* Horizon or the poll reports success; or it reports a failure, or gives   *)
(* up on a transaction that is still pending, which is answered alike.      *)
Confirm(c) ==
  /\ \/ Goto(c, "confirm", "record") /\ (TakenOnTrust(c) \/ tx[c] = "success")
     \/ Refuse(c, "confirm", "REWARD_FAILED") /\ ~TakenOnTrust(c) /\ tx[c] # "success"
  /\ UNCHANGED <<worldVars, claims, ask, late, ledgerVars>>

RecordBlindly(c) ==   \* mutant: the row is written without the payment's hash
  LET a == ask[c] IN
  /\ Goto(c, "record", "audit")
  /\ claims' = claims \cup
       {[gate |-> a.slug, nullifier |-> a.nullifier,
         boundAddress |-> a.boundAddress, txHash |-> None]}
  /\ UNCHANGED <<worldVars, ask, late, ledgerVars>>

(* gateClaim.create, refused by @@unique([jobGateId, nullifierHex]). *)
RecordClaim(c) ==
  LET a == ask[c] IN
  /\ \/ /\ Goto(c, "record", "audit")
        /\ ~Recorded(a.slug, a.nullifier)
        /\ claims' = claims \cup
             {[gate |-> a.slug, nullifier |-> a.nullifier,
               boundAddress |-> a.boundAddress, txHash |-> c]}
     \/ /\ Finish(c, "record", "ERROR")
        /\ Recorded(a.slug, a.nullifier)
        /\ UNCHANGED claims
  /\ UNCHANGED <<worldVars, ask, late, ledgerVars>>

(* The success is audited, then answered. *)
AuditClaim(c) ==
  /\ Finish(c, "audit", "PAID")
  /\ UNCHANGED <<worldVars, claims, ask, late, ledgerVars>>

Serve(c) ==
  \/ FindGate(c) \/ FindVerification(c) \/ FindClaim(c) \/ BuildReward(c)
  \/ SubmitReward(c) \/ Confirm(c) \/ RecordClaim(c) \/ AuditClaim(c)
-----------------------------------------------------------------------------
(* A database call throws, the audit's included; or the network does while  *)
(* the reward is built, sent or awaited, which is a failed reward.          *)
Throw(c) ==
  /\ Faults
  /\ \/ pc[c] \in {"gate", "proof", "claim", "record", "audit"} /\ Finish(c, pc[c], "ERROR")
     \/ pc[c] \in {"build", "submit", "confirm"} /\ Refuse(c, pc[c], "REWARD_FAILED")
  /\ UNCHANGED <<worldVars, claims, ask, late, ledgerVars>>

Crash(c) ==
  /\ Faults
  /\ pc[c] \notin {"new", "done", "crashed"}
  /\ pc' = [pc EXCEPT ![c] = "crashed"]
  /\ UNCHANGED <<worldVars, claims, ask, answer, late, ledgerVars>>

(* The ledger pays, or the operation fails there (no trustline, no funds).  *)
Pay(c) ==
  /\ \E outcome \in {"success", "failed"} : Account!Include(c, outcome)
  /\ UNCHANGED <<worldVars, claims, pc, ask, answer, late>>

(* The fee sponsor forwards the transaction to the network. *)
Forward(c) ==
  /\ Account!Forward(c)
  /\ UNCHANGED <<worldVars, claims, pc, ask, answer, late>>

(* Its minute has passed, or another transaction used its number. *)
DropReward(c) ==
  /\ Account!Drop(c)
  /\ UNCHANGED <<worldVars, claims, pc, ask, answer, late>>

(* verifyAndRegister records a VERIFIED row. *)
ProofVerified(p) ==
  /\ p \notin rows
  /\ rows' = rows \cup {p}
  /\ UNCHANGED <<expired, sponsored, claims, pc, ask, answer, late, ledgerVars>>

Expire(g) ==
  /\ g \in Expiring \ expired
  /\ expired' = expired \cup {g}
  /\ UNCHANGED <<rows, sponsored, claims, pc, ask, answer, late, ledgerVars>>

Next ==
  \/ \E c \in Claimer, a \in Claim : Start(c, a)
  \/ \E c \in Claimer :
        Serve(c) \/ Throw(c) \/ Crash(c) \/ Forward(c) \/ Pay(c) \/ DropReward(c)
  \/ \E p \in Proof : ProofVerified(p)
  \/ \E g \in Gate : Expire(g)

Spec == Init /\ [][Next]_vars

-----------------------------------------------------------------------------
Paid(c) == tx[c] = "success"

(* Money leaves the issuer account only for a verified proof that satisfies *)
(* the gate, bound to the wallet that is paid, whatever happens to the gate *)
(* or to other claims meanwhile.                                            *)
RewardsAreEarned ==
  \A c \in Claimer :
    tx[c] # "none" =>
      /\ \E row \in rows : Eligible(row, ask[c])
      /\ AssetChoiceAllowed(ask[c])

(* Every claim is answered, whatever the ledger does with the reward: a     *)
(* call begins once, so from some time on none is under way.                *)
EveryClaimAnswered ==
  <>[](\A c \in Claimer : pc[c] \in {"new", "done", "crashed"})

(* The route keeps what ClaimDesk promises to the page: PAID only with a    *)
(* receipt of the caller's own, ALREADY_CLAIMED only before any money moved *)
(* and with the reward on record for the caller's own wallet, and no money  *)
(* at all for a claim that begins when its reward is on record.             *)
Money == [none |-> "none", held |-> "sent", pending |-> "sent",
          success |-> "paid", failed |-> "lost", dropped |-> "lost"]

Promise == INSTANCE ClaimDesk WITH
  Call <- Claimer, Wanted <- Claim, SmartWallet <- ContractWallet, NoClaim <- None,
  asked <- ask, money <- [c \in Claimer |-> Money[tx[c]]], receipts <- claims,
  told <- [c \in Claimer |->
             IF answer[c] \in {"none", "PAID", "ALREADY_CLAIMED"} THEN answer[c]
             ELSE "ERROR"],
  barred <- late, relayed <- sponsored

ImplementsClaimDesk == Promise!DeskSpec
-----------------------------------------------------------------------------
(* A claim of the repository that the code does not keep. *)

(* jobgate.service.ts: the unique constraint "blocks double-issue".         *)
OneRewardPerProof ==
  \A c, d \in Claimer :
    /\ Paid(c) /\ Paid(d)
    /\ ask[c].slug = ask[d].slug /\ ask[c].nullifier = ask[d].nullifier
    => c = d
=============================================================================
