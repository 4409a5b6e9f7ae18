--------------------------- MODULE JobGateProofs ---------------------------
(***************************************************************************)
(* Theorems about the claim route and the panel that calls it, for every    *)
(* number of claims, gates, proofs, wallets and open tabs: what claimGate    *)
(* pays is earned, the route implements ClaimDesk, over ClaimDesk what the   *)
(* panel says of money is so, and only a race pays for one proof twice.     *)
(***************************************************************************)
EXTENDS MCJobGate, TLAPS

(* A call asks from its start to its end, past FindGate for a gate there    *)
(* is, and is answered when it is done.                                     *)
Asked(c) ==
  /\ ask[c] = None <=> pc[c] = "new"
  /\ answer[c] = "none" <=> pc[c] # "done"
  /\ pc[c] \notin {"new", "gate", "done", "crashed"} => ask[c].slug \in Gate

(* A claim past FindVerification was eligible, and still is: rows stay.     *)
EligibleNow(c) == \E row \in rows : Eligible(row, ask[c])

Proved(c) ==
  pc[c] \in {"claim", "build", "submit", "confirm", "record", "audit"} => EligibleNow(c)

(* Nothing has been submitted up to "submit", and what is submitted there    *)
(* is a reward whose asset choice was looked at.                            *)
Unsubmitted(c) ==
  /\ pc[c] \in {"new", "gate", "proof", "claim", "build", "submit"} => tx[c] = "none"
  /\ pc[c] \in {"submit", "confirm", "record", "audit"} => AssetChoiceAllowed(ask[c])

(* What a claim that waits for its row, or has it, knows of its reward.     *)
OwnReceipt(c) == [gate |-> ask[c].slug, nullifier |-> ask[c].nullifier,
                  boundAddress |-> ask[c].boundAddress, txHash |-> c]

Settled(c) ==
  /\ pc[c] \in {"confirm", "record"} => tx[c] # "none"
  /\ pc[c] = "record" => TakenOnTrust(c) \/ tx[c] = "success"
  /\ pc[c] = "audit" => OwnReceipt(c) \in claims

(* A claim that was late still is, and gets no further than FindClaim.      *)
HeldUp(c) ==
  c \in late =>
    /\ pc[c] \notin {"new", "build", "submit", "confirm", "record", "audit"}
    /\ Recorded(ask[c].slug, ask[c].nullifier)

Earned(c) == tx[c] # "none" => EligibleNow(c) /\ AssetChoiceAllowed(ask[c])

ClaimOK(c) ==
  Asked(c) /\ Proved(c) /\ Unsubmitted(c) /\ Settled(c) /\ HeldUp(c) /\ Earned(c)

(* Each receipt is backed by a verified proof of its nullifier and wallet.  *)
ReceiptsBacked ==
  \A k \in claims : \E row \in rows :
    row.nullifier = k.nullifier /\ row.boundAddress = k.boundAddress

IInv == TypeOK /\ ReceiptsBacked /\ \A c \in Claimer : ClaimOK(c)
-----------------------------------------------------------------------------
(* TypeOK: rows, claims, answers and the account keep their types.          *)
LEMMA InitTyped == Init => TypeOK
  BY DEF Init, TypeOK, Account!Init, Account!TypeOK, Account!TxState, Step, Answer

LEMMA AccountTyped ==
  ASSUME Account!TypeOK, NEW c \in Claimer,
         \/ Account!Build(c) \/ Account!Hold(c) \/ Account!Submit(c) \/ Account!Drop(c)
         \/ \E outcome \in {"success", "failed"} : Account!Include(c, outcome)
         \/ UNCHANGED ledgerVars
  PROVE  Account!TypeOK'
  BY DEF Account!TypeOK, Account!TxState, Account!Build, Account!Hold, Account!Submit,
         Account!Drop, Account!Include, ledgerVars

LEMMA NextTyped == IInv /\ [Next]_vars => TypeOK'
<1> SUFFICES ASSUME TypeOK, \A c \in Claimer : Asked(c), [Next]_vars PROVE TypeOK'
  BY DEF IInv, ClaimOK
<1> USE DEF TypeOK, worldVars
<1>1. ASSUME NEW c \in Claimer, NEW a \in Claim, Start(c, a) PROVE TypeOK'
  BY <1>1, AccountTyped DEF Start, Goto, Step
<1>2. ASSUME NEW c \in Claimer, FindGate(c) \/ FindVerification(c) \/ FindClaim(c)
      PROVE  TypeOK'
  BY <1>2, AccountTyped
     DEF FindGate, FindVerification, FindClaim, Goto, Refuse, Finish, Step, Answer
<1>3. ASSUME NEW c \in Claimer, BuildReward(c) PROVE TypeOK'
  <2>1. Account!TypeOK'
    BY <1>3, AccountTyped DEF BuildReward
  <2> QED
    BY <1>3, <2>1 DEF BuildReward, Goto, Refuse, Finish, Step, Answer
<1>4. ASSUME NEW c \in Claimer, SubmitReward(c) PROVE TypeOK'
  <2>1. Account!TypeOK'
    BY <1>4, AccountTyped DEF SubmitReward
  <2> QED
    BY <1>4, <2>1 DEF SubmitReward, Goto, Step
<1>5. ASSUME NEW c \in Claimer, Confirm(c) \/ AuditClaim(c) \/ Throw(c) \/ Crash(c)
      PROVE  TypeOK'
  BY <1>5, AccountTyped
     DEF Confirm, AuditClaim, Throw, Crash, Goto, Refuse, Finish, Step, Answer
<1>6. ASSUME NEW c \in Claimer, RecordClaim(c) PROVE TypeOK'
  <2>1. pc[c] = "record" /\ ask[c] \in Claim /\ ask[c].slug \in Gate
    BY <1>6 DEF RecordClaim, Goto, Finish, Asked
  <2>2. OwnReceipt(c) \in GateClaim
    BY <2>1, JobGateAssumption DEF OwnReceipt, GateClaim, ClaimType
  <2> QED
    BY <1>6, <2>2, AccountTyped DEF RecordClaim, Goto, Finish, Step, Answer, OwnReceipt
<1>7. ASSUME NEW c \in Claimer, Forward(c) \/ Pay(c) \/ DropReward(c) PROVE TypeOK'
  <2>1. Account!TypeOK'
    BY <1>7, AccountTyped DEF Forward, Pay, DropReward, Account!Forward
  <2> QED
    BY <1>7, <2>1 DEF Forward, Pay, DropReward
<1>8. ASSUME NEW p \in Proof, ProofVerified(p) PROVE TypeOK'
  BY <1>8 DEF ProofVerified, ledgerVars, Account!TypeOK
<1>9. ASSUME NEW g \in Gate, Expire(g) PROVE TypeOK'
  BY <1>9 DEF Expire, ledgerVars, Account!TypeOK
<1>10. CASE UNCHANGED vars
  BY <1>10 DEF vars, ledgerVars, Account!TypeOK
<1> QED
  BY <1>1, <1>2, <1>3, <1>4, <1>5, <1>6, <1>7, <1>8, <1>9, <1>10 DEF Next, Serve
-----------------------------------------------------------------------------
(* The claims a step is not about: their own state stays, and what they know *)
(* of rows and receipts can only be confirmed.                              *)
LEMMA OthersKeep ==
  ASSUME NEW d \in Claimer, ClaimOK(d),
         pc'[d] = pc[d], ask'[d] = ask[d], answer'[d] = answer[d], tx'[d] = tx[d],
         rows \subseteq rows', claims \subseteq claims', sponsored' = sponsored,
         d \in late' => d \in late
  PROVE  ClaimOK(d)'
<1>1. Asked(d)' /\ Unsubmitted(d)'
  BY DEF ClaimOK, Asked, Unsubmitted, AssetChoiceAllowed
<1>2. EligibleNow(d) => EligibleNow(d)'
  BY DEF EligibleNow, Eligible
<1>3. Proved(d)' /\ Earned(d)'
  BY <1>2 DEF ClaimOK, Proved, Earned, AssetChoiceAllowed
<1>4. Settled(d)'
  BY DEF ClaimOK, Settled, OwnReceipt, TakenOnTrust
<1>5. HeldUp(d)'
  BY DEF ClaimOK, HeldUp, Recorded
<1> QED
  BY <1>1, <1>3, <1>4, <1>5 DEF ClaimOK

(* A step of a handler that changes nothing but its own control keeps the   *)
(* invariant if its claim fits where it goes.                               *)
Fits(c, to) ==
  /\ to \notin {"new", "gate", "done", "crashed"} => ask[c].slug \in Gate
  /\ to \in {"claim", "build", "submit", "confirm", "record", "audit"} => EligibleNow(c)
  /\ to \in {"new", "gate", "proof", "claim", "build", "submit"} => tx[c] = "none"
  /\ to \in {"submit", "confirm", "record", "audit"} => AssetChoiceAllowed(ask[c])
  /\ to \in {"confirm", "record"} => tx[c] # "none"
  /\ to = "record" => TakenOnTrust(c) \/ tx[c] = "success"
  /\ to = "audit" => OwnReceipt(c) \in claims
  /\ c \in late => to \notin {"new", "build", "submit", "confirm", "record", "audit"}

LEMMA ControlStep ==
  ASSUME IInv, NEW c \in Claimer, NEW to, NEW result,
         UNCHANGED <<worldVars, claims, ask, late, ledgerVars>>,
         pc[c] # "new", to # "new",
         pc' = [pc EXCEPT ![c] = to], answer' = [answer EXCEPT ![c] = result],
         result = "none" <=> to # "done", Fits(c, to)
  PROVE  ReceiptsBacked' /\ \A d \in Claimer : ClaimOK(d)'
<1> USE DEF worldVars, ledgerVars
<1>1. ReceiptsBacked'
  BY DEF IInv, ReceiptsBacked
<1>2. ASSUME NEW d \in Claimer, d # c PROVE ClaimOK(d)'
  BY <1>2, OthersKeep DEF IInv, TypeOK
<1>3. pc'[c] = to /\ answer'[c] = result /\ ClaimOK(c)
  BY DEF IInv, TypeOK
<1>4. Asked(c)' /\ Proved(c)' /\ Unsubmitted(c)'
  BY <1>3 DEF ClaimOK, Fits, Asked, Proved, Unsubmitted, EligibleNow, Eligible,
              AssetChoiceAllowed
<1>5. Settled(c)' /\ HeldUp(c)' /\ Earned(c)'
  BY <1>3 DEF ClaimOK, Fits, Settled, HeldUp, Earned, EligibleNow, Eligible,
              AssetChoiceAllowed, OwnReceipt, TakenOnTrust, Recorded
<1> QED
  BY <1>1, <1>2, <1>4, <1>5 DEF ClaimOK

(* Refusing a claim, or failing it, fits everywhere.                        *)
LEMMA EndStep ==
  ASSUME IInv, NEW c \in Claimer, NEW from, NEW result, result # "none",
         from \notin {"new", "done"}, Finish(c, from, result) \/ Refuse(c, from, result),
         UNCHANGED <<worldVars, claims, ask, late, ledgerVars>>
  PROVE  ReceiptsBacked' /\ \A d \in Claimer : ClaimOK(d)'
<1>1. Fits(c, "done")
  BY DEF Fits
<1>2. PICK code \in {result, "ERROR"} : Finish(c, from, code)
  BY DEF Refuse
<1> QED
  BY <1>1, <1>2, ControlStep DEF Finish

LEMMA GotoStep ==
  ASSUME IInv, NEW c \in Claimer, NEW from, NEW to,
         from \notin {"new", "done"}, to \notin {"new", "done"}, Goto(c, from, to),
         Fits(c, to), UNCHANGED <<worldVars, claims, ask, late, ledgerVars>>
  PROVE  ReceiptsBacked' /\ \A d \in Claimer : ClaimOK(d)'
<1>1. answer[c] = "none" /\ answer' = [answer EXCEPT ![c] = "none"]
  BY DEF IInv, TypeOK, ClaimOK, Asked, Goto
<1> QED
  BY <1>1, ControlStep DEF Goto
-----------------------------------------------------------------------------
(* The steps, one after the other. *)
LEMMA StartStep ==
  ASSUME IInv, NEW c \in Claimer, NEW a \in Claim, Start(c, a)
  PROVE  ReceiptsBacked' /\ \A d \in Claimer : ClaimOK(d)'
<1> USE DEF worldVars, ledgerVars
<1>1. ReceiptsBacked'
  BY DEF IInv, ReceiptsBacked, Start
<1>2. ASSUME NEW d \in Claimer, d # c PROVE ClaimOK(d)'
  BY <1>2, OthersKeep DEF IInv, TypeOK, Start, Goto
<1>3. /\ pc[c] = "new" /\ pc'[c] = "gate" /\ ask'[c] = a /\ a # None
      /\ answer'[c] = answer[c] /\ tx'[c] = tx[c] /\ ClaimOK(c)
  BY JobGateAssumption DEF IInv, TypeOK, Start, Goto
<1>4. c \notin late
  BY <1>3 DEF ClaimOK, HeldUp
<1>5. HeldUp(c)'
  BY <1>3, <1>4 DEF HeldUp, Recorded, Start
<1> QED
  BY <1>1, <1>2, <1>3, <1>5
     DEF ClaimOK, Asked, Proved, Unsubmitted, Settled, Earned

LEMMA LookupStep ==
  ASSUME IInv, NEW c \in Claimer, FindGate(c) \/ FindVerification(c) \/ FindClaim(c)
  PROVE  ReceiptsBacked' /\ \A d \in Claimer : ClaimOK(d)'
<1>0. ClaimOK(c) /\ UNCHANGED <<worldVars, claims, ask, late, ledgerVars>>
  BY DEF IInv, FindGate, FindVerification, FindClaim
<1>1. CASE FindGate(c)
  <2>1. CASE Goto(c, "gate", "proof") /\ ask[c].slug \in Gate \ expired
    <3>1. Fits(c, "proof")
      BY <1>0, <2>1 DEF Fits, Goto, ClaimOK, Unsubmitted
    <3> QED
      BY <1>0, <2>1, <3>1, GotoStep
  <2> QED
    BY <1>0, <1>1, <2>1, EndStep DEF FindGate
<1>2. CASE FindVerification(c)
  <2>1. CASE Goto(c, "proof", "claim") /\ EligibleNow(c)
    <3>1. Fits(c, "claim")
      BY <1>0, <2>1 DEF Fits, Goto, ClaimOK, Unsubmitted, Asked
    <3> QED
      BY <1>0, <2>1, <3>1, GotoStep
  <2> QED
    BY <1>0, <1>2, <2>1, EndStep DEF FindVerification, EligibleNow
<1>3. CASE FindClaim(c)
  <2>1. CASE Goto(c, "claim", "build") /\ ~Recorded(ask[c].slug, ask[c].nullifier)
    <3>1. Fits(c, "build")
      BY <1>0, <2>1 DEF Fits, Goto, ClaimOK, Unsubmitted, Asked, Proved, HeldUp
    <3> QED
      BY <1>0, <2>1, <3>1, GotoStep
  <2> QED
    BY <1>0, <1>3, <2>1, EndStep DEF FindClaim
<1> QED
  BY <1>1, <1>2, <1>3

LEMMA BuildStep ==
  ASSUME IInv, NEW c \in Claimer, BuildReward(c)
  PROVE  ReceiptsBacked' /\ \A d \in Claimer : ClaimOK(d)'
<1>1. CASE /\ Goto(c, "build", "submit") /\ AssetChoiceAllowed(ask[c])
           /\ Account!Build(c) /\ UNCHANGED <<worldVars, claims, ask, late>>
  <2>1. ReceiptsBacked'
    BY <1>1 DEF IInv, ReceiptsBacked, worldVars
  <2>2. ASSUME NEW d \in Claimer, d # c PROVE ClaimOK(d)'
    BY <1>1, <2>2, OthersKeep DEF IInv, TypeOK, Goto, Account!Build, worldVars
  <2>3. /\ ClaimOK(c) /\ pc[c] = "build" /\ pc'[c] = "submit" /\ ask'[c] = ask[c]
        /\ answer'[c] = answer[c] /\ tx'[c] = tx[c] /\ rows' = rows /\ late' = late
    BY <1>1 DEF IInv, TypeOK, Goto, Account!Build, worldVars
  <2> QED
    BY <1>1, <2>1, <2>2, <2>3
       DEF ClaimOK, Asked, Proved, Unsubmitted, Settled, HeldUp, Earned, EligibleNow,
           Eligible, AssetChoiceAllowed
<1> QED
  BY <1>1, EndStep DEF BuildReward

LEMMA SubmitStep ==
  ASSUME IInv, NEW c \in Claimer, SubmitReward(c)
  PROVE  ReceiptsBacked' /\ \A d \in Claimer : ClaimOK(d)'
<1> USE DEF worldVars
<1>1. ReceiptsBacked'
  BY DEF IInv, ReceiptsBacked, SubmitReward
<1>2. /\ tx'[c] \in {"held", "pending", "dropped"}
      /\ \A d \in Claimer : d # c => tx'[d] = tx[d]
  BY DEF IInv, TypeOK, Account!TypeOK, SubmitReward, Account!Hold, Account!Submit
<1>3. ASSUME NEW d \in Claimer, d # c PROVE ClaimOK(d)'
  BY <1>2, <1>3, OthersKeep DEF IInv, TypeOK, Goto, SubmitReward
<1>4. /\ ClaimOK(c) /\ pc[c] = "submit" /\ pc'[c] = "confirm" /\ ask'[c] = ask[c]
      /\ answer'[c] = answer[c] /\ rows' = rows /\ late' = late
  BY DEF IInv, TypeOK, Goto, SubmitReward
<1> QED
  BY <1>1, <1>2, <1>3, <1>4
     DEF ClaimOK, Asked, Proved, Unsubmitted, Settled, HeldUp, Earned, EligibleNow,
         Eligible, AssetChoiceAllowed

LEMMA ConfirmStep ==
  ASSUME IInv, NEW c \in Claimer, Confirm(c)
  PROVE  ReceiptsBacked' /\ \A d \in Claimer : ClaimOK(d)'
<1>0. ClaimOK(c) /\ UNCHANGED <<worldVars, claims, ask, late, ledgerVars>>
  BY DEF IInv, Confirm
<1>1. CASE Goto(c, "confirm", "record") /\ (TakenOnTrust(c) \/ tx[c] = "success")
  <2>1. Fits(c, "record")
    BY <1>0, <1>1
       DEF Fits, Goto, ClaimOK, Unsubmitted, Asked, Proved, HeldUp, Settled
  <2> QED
    BY <1>0, <1>1, <2>1, GotoStep
<1> QED
  BY <1>0, <1>1, EndStep DEF Confirm

LEMMA RecordStep ==
  ASSUME IInv, NEW c \in Claimer, RecordClaim(c)
  PROVE  ReceiptsBacked' /\ \A d \in Claimer : ClaimOK(d)'
<1>0. ClaimOK(c) /\ UNCHANGED <<worldVars, ask, late, ledgerVars>>
  BY DEF IInv, RecordClaim
<1>1. CASE Goto(c, "record", "audit") /\ claims' = claims \cup {OwnReceipt(c)}
  <2>1. PICK row \in rows : Eligible(row, ask[c])
    BY <1>0, <1>1 DEF Goto, ClaimOK, Proved, EligibleNow
  <2>2. ReceiptsBacked'
    BY <1>0, <1>1, <2>1 DEF IInv, ReceiptsBacked, OwnReceipt, Eligible, worldVars
  <2>3. ASSUME NEW d \in Claimer, d # c PROVE ClaimOK(d)'
    BY <1>0, <1>1, <2>3, OthersKeep DEF IInv, TypeOK, Goto, worldVars, ledgerVars
  <2>4. /\ pc[c] = "record" /\ pc'[c] = "audit" /\ ask'[c] = ask[c]
        /\ answer'[c] = answer[c] /\ rows' = rows /\ late' = late /\ tx'[c] = tx[c]
    BY <1>0, <1>1 DEF IInv, TypeOK, Goto, worldVars, ledgerVars
  <2> QED
    BY <1>0, <1>1, <2>2, <2>3, <2>4
       DEF ClaimOK, Asked, Proved, Unsubmitted, Settled, HeldUp, Earned, EligibleNow,
           Eligible, AssetChoiceAllowed, OwnReceipt
<1>2. CASE Finish(c, "record", "ERROR") /\ UNCHANGED claims
  BY <1>0, <1>2, EndStep
<1> QED
  BY <1>1, <1>2 DEF RecordClaim, OwnReceipt

LEMMA AuditStep ==
  ASSUME IInv, NEW c \in Claimer, AuditClaim(c)
  PROVE  ReceiptsBacked' /\ \A d \in Claimer : ClaimOK(d)'
  BY EndStep DEF AuditClaim

LEMMA FaultStep ==
  ASSUME IInv, NEW c \in Claimer, Throw(c) \/ Crash(c)
  PROVE  ReceiptsBacked' /\ \A d \in Claimer : ClaimOK(d)'
<1>1. CASE Throw(c)
  BY <1>1, EndStep DEF Throw
<1>2. CASE Crash(c)
  <2>1. answer[c] = "none" /\ answer' = [answer EXCEPT ![c] = "none"]
    BY <1>2 DEF IInv, TypeOK, ClaimOK, Asked, Crash
  <2>2. Fits(c, "crashed")
    BY DEF Fits
  <2> QED
    BY <1>2, <2>1, <2>2, ControlStep DEF Crash
<1> QED
  BY <1>1, <1>2

(* The sponsor and the ledger move only what a claim has submitted, and     *)
(* never undo a payment.                                                    *)
LEMMA LedgerStep ==
  ASSUME IInv, NEW c \in Claimer, Forward(c) \/ Pay(c) \/ DropReward(c)
  PROVE  ReceiptsBacked' /\ \A d \in Claimer : ClaimOK(d)'
<1> USE DEF worldVars
<1>1. /\ tx[c] \in {"held", "pending"}
      /\ tx'[c] \in {"pending", "success", "failed", "dropped"}
      /\ \A d \in Claimer : d # c => tx'[d] = tx[d]
  BY DEF IInv, TypeOK, Account!TypeOK, Forward, Pay, DropReward, Account!Forward,
         Account!Submit, Account!Include, Account!Drop
<1>2. UNCHANGED <<rows, sponsored, claims, pc, ask, answer, late>>
  BY DEF Forward, Pay, DropReward
<1>3. ReceiptsBacked'
  BY <1>2 DEF IInv, ReceiptsBacked
<1>4. ASSUME NEW d \in Claimer, d # c PROVE ClaimOK(d)'
  BY <1>1, <1>2, <1>4, OthersKeep DEF IInv
<1>5. ClaimOK(c)'
  <2>1. ClaimOK(c)
    BY DEF IInv
  <2> QED
    BY <1>1, <1>2, <2>1
       DEF ClaimOK, Asked, Proved, Unsubmitted, Settled, HeldUp, Earned, EligibleNow,
           Eligible, AssetChoiceAllowed, OwnReceipt, TakenOnTrust, Recorded
<1> QED
  BY <1>3, <1>4, <1>5

LEMMA WorldStep ==
  ASSUME IInv, \/ \E p \in Proof : ProofVerified(p)
               \/ \E g \in Gate : Expire(g)
               \/ UNCHANGED vars
  PROVE  ReceiptsBacked' /\ \A d \in Claimer : ClaimOK(d)'
<1>1. rows \subseteq rows' /\ UNCHANGED <<sponsored, claims, pc, ask, answer, late, tx>>
  BY DEF ProofVerified, Expire, vars, worldVars, ledgerVars
<1>2. ReceiptsBacked'
  BY <1>1 DEF IInv, ReceiptsBacked
<1> QED
  BY <1>1, <1>2, OthersKeep DEF IInv

LEMMA InitInv == Init => IInv
<1> SUFFICES ASSUME Init PROVE IInv
  OBVIOUS
<1>1. TypeOK
  BY InitTyped
<1>2. ReceiptsBacked
  BY DEF Init, ReceiptsBacked
<1>3. ASSUME NEW c \in Claimer PROVE ClaimOK(c)
  BY DEF Init, Account!Init, ClaimOK, Asked, Proved, Unsubmitted, Settled, HeldUp, Earned
<1> QED
  BY <1>1, <1>2, <1>3 DEF IInv

LEMMA NextInv == IInv /\ [Next]_vars => IInv'
<1> SUFFICES ASSUME IInv, [Next]_vars PROVE ReceiptsBacked' /\ \A d \in Claimer : ClaimOK(d)'
  BY NextTyped DEF IInv
<1> QED
  BY StartStep, LookupStep, BuildStep, SubmitStep, ConfirmStep, RecordStep, AuditStep,
     FaultStep, LedgerStep, WorldStep DEF Next, Serve

LEMMA Invariance == Spec => []IInv
  BY InitInv, NextInv, PTL DEF Spec
-----------------------------------------------------------------------------
(* Rows, claims, answers, receipts and transactions keep their types: a      *)
(* receipt, for one, is always for a gate there is.                         *)
THEOREM TypeCorrect == Spec => []TypeOK
  BY Invariance, PTL DEF IInv

(* claimGate: whatever claims, gates, faults and the sponsor do, a reward    *)
(* has been submitted only for a verified proof that satisfies the gate,    *)
(* bound to the wallet that is paid, in an asset the gate allows.           *)
THEOREM EveryRewardIsEarned == Spec => []RewardsAreEarned
<1>1. IInv => RewardsAreEarned
  BY DEF IInv, ClaimOK, Earned, EligibleNow, RewardsAreEarned
<1> QED
  BY <1>1, Invariance, PTL
-----------------------------------------------------------------------------
(* The safety half of EveryClaimAnswered.  Each step of a claim takes it to   *)
(* one that comes later in claimGate; waiting for the reward is one step.   *)
StepsLeft == [new |-> 10, gate |-> 9, proof |-> 8, claim |-> 7, build |-> 6, submit |-> 5,
              confirm |-> 4, record |-> 3, audit |-> 2, done |-> 1, crashed |-> 0]

GoesOn == \A c \in Claimer : pc'[c] # pc[c] => StepsLeft[pc'[c]] < StepsLeft[pc[c]]

(* A claim never comes back to an await it has passed, so it checks, pays    *)
(* and records once, and one that was answered or has crashed stays so.      *)
THEOREM ClaimsGoForward == Spec => [][GoesOn]_vars
<1>1. IInv /\ [Next]_vars => GoesOn
  <2> SUFFICES ASSUME IInv, [Next]_vars, NEW c \in Claimer
               PROVE  pc'[c] # pc[c] => StepsLeft[pc'[c]] < StepsLeft[pc[c]]
    BY DEF GoesOn
  <2> USE DEF StepsLeft
  <2>0. pc \in [Claimer -> Step]
    BY DEF IInv, TypeOK
  <2>1. ASSUME NEW d \in Claimer, (\E a \in Claim : Start(d, a)) \/ FindGate(d) \/ FindVerification(d)
                                  \/ FindClaim(d)
        PROVE  pc'[c] # pc[c] => StepsLeft[pc'[c]] < StepsLeft[pc[c]]
    BY <2>0, <2>1 DEF Start, FindGate, FindVerification, FindClaim, Goto, Refuse, Finish
  <2>2. ASSUME NEW d \in Claimer, BuildReward(d) \/ SubmitReward(d) \/ Confirm(d)
        PROVE  pc'[c] # pc[c] => StepsLeft[pc'[c]] < StepsLeft[pc[c]]
    BY <2>0, <2>2 DEF BuildReward, SubmitReward, Confirm, Goto, Refuse, Finish
  <2>3. ASSUME NEW d \in Claimer, RecordClaim(d) \/ AuditClaim(d)
        PROVE  pc'[c] # pc[c] => StepsLeft[pc'[c]] < StepsLeft[pc[c]]
    BY <2>0, <2>3 DEF RecordClaim, AuditClaim, Goto, Finish
  <2>4. ASSUME NEW d \in Claimer, Throw(d)
        PROVE  pc'[c] # pc[c] => StepsLeft[pc'[c]] < StepsLeft[pc[c]]
    BY <2>0, <2>4 DEF Throw, Refuse, Finish
  <2>5. ASSUME NEW d \in Claimer, Crash(d)
        PROVE  pc'[c] # pc[c] => StepsLeft[pc'[c]] < StepsLeft[pc[c]]
    <3>1. pc' = [pc EXCEPT ![d] = "crashed"] /\ pc[d] \in Step \ {"new", "done", "crashed"}
      BY <2>0, <2>5 DEF Crash
    <3> QED
      BY <2>0, <3>1 DEF Step
  <2>6. ASSUME NEW d \in Claimer, Forward(d) \/ Pay(d) \/ DropReward(d)
        PROVE  pc' = pc
    BY <2>6 DEF Forward, Pay, DropReward
  <2>7. CASE (\E p \in Proof : ProofVerified(p)) \/ (\E g \in Gate : Expire(g)) \/ UNCHANGED vars
    BY <2>7 DEF ProofVerified, Expire, vars
  <2> QED
    BY <2>1, <2>2, <2>3, <2>4, <2>5, <2>6, <2>7 DEF Next, Serve
<1>2. IInv /\ [Next]_vars => [GoesOn]_vars
  BY <1>1
<1> QED
  BY <1>2, Invariance, PTL DEF Spec
-----------------------------------------------------------------------------
(* When a proof is paid for twice.  OneRewardPerProof does not hold, because *)
(* a claim looks for a receipt at FindClaim and writes its own only after    *)
(* its reward: from the one to the other the proof is at stake, and so it    *)
(* stays when a reward has gone out, or may still go, and left no receipt.    *)
OfOneProof(c, d) ==
  ask[c] # None /\ ask[d] # None /\ ask[c].slug = ask[d].slug /\ ask[c].nullifier = ask[d].nullifier

Paying(c)    == pc[c] \in {"build", "submit", "confirm", "record"}
MayBePaid(c) == tx[c] \in {"held", "pending", "success"}
AtStake(c)   == Paying(c) \/ (MayBePaid(c) /\ OwnReceipt(c) \notin claims)

ClaimsInTurn ==
  \A c, d \in Claimer : AtStake(c) /\ AtStake(d) /\ OfOneProof(c, d) => c = d

PaidInTurn ==
  \A c, d \in Claimer :
    c # d /\ OfOneProof(c, d) /\ MayBePaid(d) => ~MayBePaid(c) /\ ~Paying(c)

(* Only SubmitReward makes a payment possible, and only FindClaim leads a    *)
(* claim to where it pays.                                                  *)
LEMMA PaysLater ==
  ASSUME IInv, [Next]_vars, NEW c \in Claimer
  PROVE  /\ MayBePaid(c)' => MayBePaid(c) \/ SubmitReward(c)
         /\ Paying(c)' => Paying(c) \/ FindClaim(c)
         /\ ask'[c] = ask[c] \/ (pc[c] = "new" /\ tx[c] = "none" /\ tx'[c] = "none" /\ pc'[c] = "gate")
<1> USE DEF IInv, TypeOK, MayBePaid, Paying, ledgerVars, worldVars
<1>0. tx \in [Claimer -> Account!TxState] /\ (pc[c] = "new" => tx[c] = "none")
  BY DEF Account!TypeOK, ClaimOK, Unsubmitted
<1>1. ASSUME NEW d \in Claimer, NEW a \in Claim, Start(d, a) PROVE
        /\ MayBePaid(c)' => MayBePaid(c)
        /\ Paying(c)' => Paying(c)
        /\ ask'[c] = ask[c] \/ (pc[c] = "new" /\ tx[c] = "none" /\ tx'[c] = "none" /\ pc'[c] = "gate")
  BY <1>0, <1>1 DEF Start, Goto
<1>2. ASSUME NEW d \in Claimer, Serve(d) \/ Throw(d) \/ Crash(d) \/ Forward(d) \/ Pay(d) \/ DropReward(d)
      PROVE  ask' = ask
  BY <1>2 DEF Serve, FindGate, FindVerification, FindClaim, BuildReward, SubmitReward, Confirm,
              RecordClaim, AuditClaim, Throw, Crash, Forward, Pay, DropReward
<1>3. ASSUME NEW d \in Claimer, Serve(d) PROVE MayBePaid(c)' => MayBePaid(c) \/ SubmitReward(c)
  <2>1. CASE SubmitReward(d)
    BY <1>0, <2>1 DEF SubmitReward, Account!Hold, Account!Submit
  <2>2. CASE ~SubmitReward(d)
    <3>1. tx' = tx
      BY <1>3, <2>2 DEF Serve, FindGate, FindVerification, FindClaim, BuildReward, Confirm,
                        RecordClaim, AuditClaim, Account!Build
    <3> QED
      BY <3>1
  <2> QED
    BY <2>1, <2>2
<1>4. ASSUME NEW d \in Claimer, Serve(d) PROVE Paying(c)' => Paying(c) \/ FindClaim(c)
  BY <1>4 DEF Serve, FindGate, FindVerification, FindClaim, BuildReward, SubmitReward, Confirm,
              RecordClaim, AuditClaim, Goto, Refuse, Finish
<1>5. ASSUME NEW d \in Claimer, Throw(d) \/ Crash(d)
      PROVE  (MayBePaid(c)' => MayBePaid(c)) /\ (Paying(c)' => Paying(c))
  BY <1>5 DEF Throw, Crash, Refuse, Finish
<1>6. ASSUME NEW d \in Claimer, Forward(d) \/ Pay(d) \/ DropReward(d)
      PROVE  (MayBePaid(c)' => MayBePaid(c)) /\ (Paying(c)' => Paying(c))
  BY <1>0, <1>6 DEF Forward, Pay, DropReward, Account!Forward, Account!Submit,
                    Account!Include, Account!Drop
<1>7. CASE (\E p \in Proof : ProofVerified(p)) \/ (\E g \in Gate : Expire(g)) \/ UNCHANGED vars
  BY <1>7 DEF ProofVerified, Expire, vars
<1> QED
  BY <1>1, <1>2, <1>3, <1>4, <1>5, <1>6, <1>7 DEF Next

LEMMA InTurnStep ==
  ASSUME IInv, PaidInTurn, ClaimsInTurn, ClaimsInTurn', [Next]_vars
  PROVE  PaidInTurn'
<1> SUFFICES ASSUME NEW c \in Claimer, NEW d \in Claimer, c # d, OfOneProof(c, d)', MayBePaid(d)',
                    MayBePaid(c)' \/ Paying(c)'
             PROVE  FALSE
  BY DEF PaidInTurn
<1>1. ask'[c] = ask[c] /\ ask'[d] = ask[d]
  BY PaysLater DEF MayBePaid, Paying
<1>2. OfOneProof(c, d) /\ OfOneProof(d, c)
  BY <1>1 DEF OfOneProof
<1>3. ASSUME NEW x \in Claimer, SubmitReward(x) PROVE Paying(x)
  BY <1>3 DEF SubmitReward, Goto, Paying
<1>4. ~(Paying(c) /\ Paying(d))
  BY <1>2 DEF ClaimsInTurn, AtStake
<1>5. ~(MayBePaid(d) /\ (MayBePaid(c) \/ Paying(c))) /\ ~(MayBePaid(c) /\ Paying(d))
  BY <1>2 DEF PaidInTurn
<1>6. ~MayBePaid(c)' /\ ~Paying(c)
  BY <1>3, <1>4, <1>5, PaysLater
<1>7. FindClaim(c) /\ Paying(c)'
  BY <1>6, PaysLater
<1>8. /\ ask[c] # None /\ UNCHANGED <<claims, tx>>
      /\ ~Recorded(ask[c].slug, ask[c].nullifier)
  BY <1>2, <1>7 DEF FindClaim, Goto, Refuse, Finish, Paying, OfOneProof, IInv, TypeOK, ledgerVars
<1>9. OwnReceipt(d) \notin claims
  BY <1>2, <1>8 DEF Recorded, OwnReceipt, OfOneProof
<1>10. AtStake(c)' /\ AtStake(d)'
  BY <1>1, <1>7, <1>8, <1>9 DEF AtStake, OwnReceipt, MayBePaid
<1> QED
  BY <1>10 DEF ClaimsInTurn

(* jobgate.service.ts "blocks double-issue", and a second reward for a proof *)
(* comes of that race or of a payment without a receipt: as long as no two    *)
(* claims of a proof on a gate are between the check and the receipt          *)
(* together, and none is there while the reward of another went out, or may   *)
(* yet go, without leaving a receipt, a proof is paid for at most once on a   *)
(* gate, whatever is thrown, crashes, expires or is dropped.                 *)
THEOREM InTurnOneRewardPerProof == Spec /\ []ClaimsInTurn => []OneRewardPerProof
<1>1. Init => PaidInTurn
  BY DEF Init, PaidInTurn, OfOneProof
<1>2. IInv /\ PaidInTurn /\ ClaimsInTurn /\ ClaimsInTurn' /\ [Next]_vars => PaidInTurn'
  BY InTurnStep
<1>3. IInv /\ PaidInTurn => OneRewardPerProof
  BY DEF IInv, ClaimOK, Asked, Unsubmitted, PaidInTurn, OneRewardPerProof, Paid, OfOneProof, MayBePaid
<1> QED
  BY <1>1, <1>2, <1>3, Invariance, PTL DEF Spec
-----------------------------------------------------------------------------
(* The refinement of ClaimDesk.  What the page is told and what has become  *)
(* of its reward, as JobGate maps them.                                     *)
Told(c) == IF answer[c] \in {"none", "PAID", "ALREADY_CLAIMED"} THEN answer[c] ELSE "ERROR"

LEMMA MoneyValues ==
  /\ Money["none"] = "none" /\ Money["held"] = "sent" /\ Money["pending"] = "sent"
  /\ Money["success"] = "paid" /\ Money["failed"] = "lost" /\ Money["dropped"] = "lost"
  BY DEF Money

(* A step that leaves what ClaimDesk sees alone, or only answers a call.    *)
LEMMA Unseen ==
  ASSUME UNCHANGED <<ask, tx, claims, answer, late, sponsored>>
  PROVE  UNCHANGED Promise!deskVars
  BY DEF Promise!deskVars

LEMMA AnswerSeen ==
  ASSUME IInv, NEW c \in Claimer, NEW from, NEW code \in Answer \ {"none"},
         from \notin {"new", "done", "crashed"}, Finish(c, from, code),
         UNCHANGED <<ask, tx, claims, late, sponsored>>
  PROVE  /\ Promise!Open(c)
         /\ code \notin {"PAID", "ALREADY_CLAIMED"} => Promise!TellFailed(c)
         /\ code = "PAID" => Promise!Tell(c, "PAID")
         /\ code = "ALREADY_CLAIMED" => Promise!Tell(c, "ALREADY_CLAIMED")
<1>1. ask[c] # None /\ answer[c] = "none" /\ answer \in [Claimer -> Answer]
  BY DEF IInv, TypeOK, ClaimOK, Asked, Finish
<1>2. Promise!Open(c)
  BY <1>1 DEF Promise!Open
<1>3. ASSUME NEW t, t = IF code \in {"PAID", "ALREADY_CLAIMED"} THEN code ELSE "ERROR"
      PROVE  Promise!Tell(c, t)
  BY <1>1, <1>3 DEF Promise!Tell, Finish, Answer
<1> QED
  BY <1>2, <1>3 DEF Promise!TellFailed

(* Refusals other than ALREADY_CLAIMED fail the call for the page.          *)
LEMMA RefusalSeen ==
  ASSUME IInv, NEW c \in Claimer, NEW from,
         NEW code \in Answer \ {"none", "PAID", "ALREADY_CLAIMED"},
         from \notin {"new", "done", "crashed"},
         Finish(c, from, code) \/ Refuse(c, from, code),
         UNCHANGED <<ask, tx, claims, late, sponsored>>
  PROVE  Promise!DeskNext
<1>1. PICK told2 \in {code, "ERROR"} : Finish(c, from, told2)
  BY DEF Refuse
<1>2. Promise!TellFailed(c)
  BY <1>1, AnswerSeen DEF Answer
<1> QED
  BY <1>2 DEF Promise!DeskNext, Promise!Desk

LEMMA StartSeen ==
  ASSUME IInv, NEW c \in Claimer, NEW a \in Claim, Start(c, a)
  PROVE  Promise!DeskNext
<1>1. ask[c] = None
  BY DEF IInv, ClaimOK, Asked, Start, Goto
<1>2. Promise!OnRecord(a) <=> Recorded(a.slug, a.nullifier)
  BY DEF Promise!OnRecord, Recorded
<1>3. Promise!AskFor(c, a)
  BY <1>1, <1>2 DEF Promise!AskFor, Start, Goto, worldVars, ledgerVars
<1> QED
  BY <1>3 DEF Promise!DeskNext

(* FindClaim answers ALREADY_CLAIMED of a receipt for the caller's wallet:   *)
(* the two proofs have one nullifier, hence are one row.                    *)
LEMMA LookupSeen ==
  ASSUME IInv, NEW c \in Claimer, FindGate(c) \/ FindVerification(c) \/ FindClaim(c)
  PROVE  Promise!DeskNext \/ UNCHANGED Promise!deskVars
<1>0. UNCHANGED <<ask, tx, claims, late, sponsored>>
  BY DEF FindGate, FindVerification, FindClaim, worldVars, ledgerVars
<1>1. CASE /\ Refuse(c, "claim", "ALREADY_CLAIMED")
           /\ Recorded(ask[c].slug, ask[c].nullifier)
  <2>1. CASE Finish(c, "claim", "ALREADY_CLAIMED")
    <3>1. ClaimOK(c) /\ pc[c] = "claim"
      BY <2>1 DEF IInv, Finish
    <3>2. PICK row \in rows : Eligible(row, ask[c])
      BY <3>1 DEF ClaimOK, Proved, EligibleNow
    <3>3. PICK k \in claims : k.gate = ask[c].slug /\ k.nullifier = ask[c].nullifier
      BY <1>1 DEF Recorded
    <3>4. PICK other \in rows :
            other.nullifier = k.nullifier /\ other.boundAddress = k.boundAddress
      BY DEF IInv, ReceiptsBacked
    <3>5. row = other
      BY <3>2, <3>3, <3>4, JobGateAssumption DEF IInv, TypeOK, Eligible
    <3>6. k = [Promise!Receipt(c) EXCEPT !.txHash = k.txHash]
      <4>1. k \in GateClaim
        BY DEF IInv, TypeOK
      <4>2. k.boundAddress = ask[c].boundAddress
        BY <3>2, <3>4, <3>5 DEF Eligible
      <4> QED
        BY <3>3, <4>1, <4>2 DEF GateClaim, Promise!Receipt
    <3>7. tx[c] = "none"
      BY <3>1 DEF ClaimOK, Unsubmitted
    <3>8. Promise!Open(c) /\ Promise!Tell(c, "ALREADY_CLAIMED")
      BY <1>0, <2>1, AnswerSeen DEF Answer
    <3>9. Promise!TellRejected(c)
      BY <3>6, <3>7, <3>8, MoneyValues DEF Promise!TellRejected
    <3> QED
      BY <3>9 DEF Promise!DeskNext, Promise!Desk
  <2>2. CASE Finish(c, "claim", "ERROR")
    BY <1>0, <2>2, RefusalSeen DEF Answer
  <2> QED
    BY <1>1, <2>1, <2>2 DEF Refuse
<1>2. CASE answer' = answer
  BY <1>0, <1>2, Unseen
<1>3. CASE \E from \in {"gate", "proof"} :
             \E code \in {"GATE_NOT_FOUND", "GATE_EXPIRED", "PROOF_NOT_ELIGIBLE"} :
               Refuse(c, from, code)
  BY <1>0, <1>3, RefusalSeen DEF Answer
<1> QED
  BY <1>1, <1>2, <1>3 DEF FindGate, FindVerification, FindClaim, Goto

LEMMA BuildSeen ==
  ASSUME IInv, NEW c \in Claimer, BuildReward(c)
  PROVE  Promise!DeskNext \/ UNCHANGED Promise!deskVars
<1>0. UNCHANGED <<ask, tx, claims, late, sponsored>>
  BY DEF BuildReward, worldVars, ledgerVars, Account!Build
<1>1. CASE answer' = answer
  BY <1>0, <1>1, Unseen
<1>2. CASE \E code \in {"GATE_MISCONFIGURED", "ASSET_CHOICE_UNSUPPORTED", "REWARD_FAILED"} :
             Refuse(c, "build", code)
  BY <1>0, <1>2, RefusalSeen DEF Answer
<1> QED
  BY <1>1, <1>2 DEF BuildReward, Goto

(* A reward is sent by a call that is open and not barred, once.            *)
LEMMA SubmitSeen ==
  ASSUME IInv, NEW c \in Claimer, SubmitReward(c)
  PROVE  Promise!DeskNext
<1>1. /\ ask[c] # None /\ answer[c] = "none" /\ tx[c] = "none" /\ c \notin late
  BY DEF IInv, ClaimOK, Asked, Unsubmitted, HeldUp, SubmitReward, Goto
<1>2. PICK t \in {"held", "pending", "dropped"} : tx' = [tx EXCEPT ![c] = t]
  BY DEF SubmitReward, Account!Hold, Account!Submit
<1>3. PICK m \in {"sent", "lost"} : m = Money[t]
  BY MoneyValues
<1>4. [d \in Claimer |-> Money[tx[d]]]' =
        [[d \in Claimer |-> Money[tx[d]]] EXCEPT ![c] = m]
  BY <1>2, <1>3 DEF IInv, TypeOK, Account!TypeOK
<1>5. Promise!Send(c)
  BY <1>1, <1>3, <1>4, MoneyValues
     DEF Promise!Send, Promise!Open, SubmitReward, Goto, worldVars
<1> QED
  BY <1>5 DEF Promise!DeskNext, Promise!Desk

LEMMA ConfirmSeen ==
  ASSUME IInv, NEW c \in Claimer, Confirm(c)
  PROVE  Promise!DeskNext \/ UNCHANGED Promise!deskVars
<1>0. UNCHANGED <<ask, tx, claims, late, sponsored>>
  BY DEF Confirm, worldVars, ledgerVars
<1>1. CASE answer' = answer
  BY <1>0, <1>1, Unseen
<1>2. CASE Refuse(c, "confirm", "REWARD_FAILED")
  BY <1>0, <1>2, RefusalSeen DEF Answer
<1> QED
  BY <1>1, <1>2 DEF Confirm, Goto

LEMMA RecordSeen ==
  ASSUME IInv, NEW c \in Claimer, RecordClaim(c)
  PROVE  Promise!DeskNext
<1>0. UNCHANGED <<ask, tx, late, sponsored>>
  BY DEF RecordClaim, worldVars, ledgerVars
<1>1. CASE /\ Goto(c, "record", "audit") /\ ~Recorded(ask[c].slug, ask[c].nullifier)
           /\ claims' = claims \cup {OwnReceipt(c)}
  <2>1. /\ ask[c] # None /\ answer[c] = "none" /\ tx[c] \in Account!TxState \ {"none"}
        /\ TakenOnTrust(c) \/ tx[c] = "success"
    BY <1>1 DEF IInv, TypeOK, Account!TypeOK, ClaimOK, Asked, Settled, Goto
  <2>2. Promise!TakenAsPaid(c)
    BY <2>1, MoneyValues DEF Promise!TakenAsPaid, TakenOnTrust, Account!TxState
  <2>3. Promise!Record(c)
    BY <1>0, <1>1, <2>1, <2>2
       DEF Promise!Record, Promise!Open, Promise!OnRecord, Recorded, Promise!Receipt,
           OwnReceipt, Goto
  <2> QED
    BY <2>3 DEF Promise!DeskNext, Promise!Desk
<1>2. CASE Finish(c, "record", "ERROR") /\ UNCHANGED claims
  BY <1>0, <1>2, RefusalSeen DEF Answer
<1> QED
  BY <1>1, <1>2 DEF RecordClaim, OwnReceipt

LEMMA AuditSeen ==
  ASSUME IInv, NEW c \in Claimer, AuditClaim(c)
  PROVE  Promise!DeskNext
<1>1. UNCHANGED <<ask, tx, claims, late, sponsored>> /\ Finish(c, "audit", "PAID")
  BY DEF AuditClaim, worldVars, ledgerVars
<1>2. Promise!Open(c) /\ Promise!Tell(c, "PAID")
  BY <1>1, AnswerSeen DEF Answer
<1>3. OwnReceipt(c) \in claims
  BY <1>1 DEF IInv, ClaimOK, Settled, Finish
<1>4. Promise!TellPaid(c)
  BY <1>2, <1>3 DEF Promise!TellPaid, Promise!Receipt, OwnReceipt
<1> QED
  BY <1>4 DEF Promise!DeskNext, Promise!Desk

LEMMA FaultSeen ==
  ASSUME IInv, NEW c \in Claimer, Throw(c) \/ Crash(c)
  PROVE  Promise!DeskNext \/ UNCHANGED Promise!deskVars
<1>0. UNCHANGED <<ask, tx, claims, late, sponsored>>
  BY DEF Throw, Crash, worldVars, ledgerVars
<1>1. CASE Crash(c)
  BY <1>0, <1>1, Unseen DEF Crash
<1>2. CASE Throw(c)
  BY <1>0, <1>2, RefusalSeen DEF Throw, Answer
<1> QED
  BY <1>1, <1>2

(* The sponsor and the ledger settle what was sent; to the page, a reward    *)
(* the sponsor holds and one that is pending are the same.                  *)
LEMMA LedgerSeen ==
  ASSUME IInv, NEW c \in Claimer, Forward(c) \/ Pay(c) \/ DropReward(c)
  PROVE  Promise!DeskNext \/ UNCHANGED Promise!deskVars
<1>0. UNCHANGED <<ask, answer, claims, late, sponsored>>
  BY DEF Forward, Pay, DropReward, worldVars
<1>1. tx[c] \in {"held", "pending"} /\ tx \in [Claimer -> Account!TxState]
  BY DEF IInv, TypeOK, Account!TypeOK, Forward, Pay, DropReward, Account!Forward,
         Account!Include, Account!Drop
<1>2. PICK t \in {"pending", "success", "failed", "dropped"} : tx' = [tx EXCEPT ![c] = t]
  BY DEF Forward, Pay, DropReward, Account!Forward, Account!Submit, Account!Include,
         Account!Drop
<1>3. [d \in Claimer |-> Money[tx[d]]]' =
        [[d \in Claimer |-> Money[tx[d]]] EXCEPT ![c] = Money[t]]
  BY <1>1, <1>2
<1>4. CASE t = "pending"
  <2>1. [d \in Claimer |-> Money[tx[d]]]' = [d \in Claimer |-> Money[tx[d]]]
    BY <1>1, <1>2, <1>4, MoneyValues
  <2> QED
    BY <1>0, <2>1 DEF Promise!deskVars
<1>5. CASE t # "pending"
  <2>1. Money[t] \in {"paid", "lost"} /\ Money[tx[c]] = "sent"
    BY <1>1, <1>5, MoneyValues
  <2>2. Promise!Settle(c)
    BY <1>0, <1>3, <2>1 DEF Promise!Settle
  <2> QED
    BY <2>2 DEF Promise!DeskNext, Promise!Desk
<1> QED
  BY <1>4, <1>5

LEMMA WorldSeen ==
  ASSUME \/ \E p \in Proof : ProofVerified(p)
         \/ \E g \in Gate : Expire(g)
         \/ UNCHANGED vars
  PROVE  UNCHANGED Promise!deskVars
  BY Unseen DEF ProofVerified, Expire, vars, worldVars, ledgerVars

(* The claim route keeps what ClaimDesk promises to the page that calls it,  *)
(* directly and through the fee sponsor, however claims race and fail: no    *)
(* second payment for a call and none for a late one, no receipt before its  *)
(* reward, no PAID without the receipt, and no ALREADY_CLAIMED of a reward   *)
(* that went to another wallet.                                             *)
THEOREM RouteImplementsClaimDesk == Spec => ImplementsClaimDesk
<1>1. Init => Promise!DeskInit
  BY MoneyValues DEF Init, Account!Init, Promise!DeskInit
<1>2. IInv /\ [Next]_vars => [Promise!DeskNext]_(Promise!deskVars)
  BY StartSeen, LookupSeen, BuildSeen, SubmitSeen, ConfirmSeen, RecordSeen, AuditSeen,
     FaultSeen, LedgerSeen, WorldSeen DEF Next, Serve
<1> QED
  BY <1>1, <1>2, Invariance, PTL DEF Spec, ImplementsClaimDesk, Promise!DeskSpec
-----------------------------------------------------------------------------
(* The panel, over ClaimDesk.  What the desk keeps, whoever calls it.       *)
DeskTypeOK ==
  /\ asked \in [Call -> Wanted \cup {NoClaim}]
  /\ money \in [Call -> {"none", "sent", "paid", "lost"}]
  /\ told \in [Call -> {"none", "PAID", "ALREADY_CLAIMED", "ERROR"}]

(* An answer about money is about a receipt that is on record.              *)
Promised(c) ==
  /\ asked[c] = NoClaim => money[c] = "none" /\ told[c] = "none"
  /\ told[c] = "PAID" => Receipt(c) \in receipts
  /\ told[c] = "ALREADY_CLAIMED" =>
       money[c] = "none" /\ \E k \in receipts : k = [Receipt(c) EXCEPT !.txHash = k.txHash]

(* A receipt is of a call whose reward is taken as paid, one for each gate   *)
(* and nullifier.                                                           *)
ReceiptsStand ==
  /\ \A k \in receipts : /\ k.txHash \in Call /\ asked[k.txHash] # NoClaim
                         /\ k = Receipt(k.txHash) /\ TakenAsPaid(k.txHash)
  /\ \A k, l \in receipts : k.gate = l.gate /\ k.nullifier = l.nullifier => k = l

DeskInv == DeskTypeOK /\ ReceiptsStand /\ \A c \in Call : Promised(c)

(* What a tab shows is about its own call, and its call about its link.     *)
Showing(p) ==
  /\ view[p] \in {"idle", "claiming", "done", "rejected", "error"} => link[p] # NoClaim
  /\ choice[p] = "supported" => link[p].slug \in Convertible
  /\ view[p] \in {"done", "rejected"} => current[p] # NoClaim
  /\ current[p] # NoClaim =>
       /\ asked[current[p]] # NoClaim
       /\ asked[current[p]].slug = link[p].slug
       /\ asked[current[p]].nullifier = link[p].nullifier
       /\ asked[current[p]].boundAddress = link[p].boundAddress
  /\ view[p] = "done" => told[current[p]] = "PAID"
  /\ view[p] = "rejected" => told[current[p]] = "ALREADY_CLAIMED"

PanelInv == PanelTypeOK /\ DeskInv /\ \A p \in Page : Showing(p)

(* Nothing the desk does takes back a receipt, or a reward taken as paid.   *)
LEMMA DeskStep ==
  ASSUME DeskInv, NEW c \in Call,
         Desk(c) \/ \E a \in Wanted : a # NoClaim /\ AskFor(c, a)
  PROVE  /\ DeskInv'
         /\ \A d \in Call : /\ asked[d] # NoClaim => asked'[d] = asked[d]
                            /\ told[d] # "none" => told'[d] = told[d]
<1> USE DEF DeskInv, DeskTypeOK
<1>1. CASE \E a \in Wanted : a # NoClaim /\ AskFor(c, a)
  <2>1. PICK a \in Wanted : a # NoClaim /\ AskFor(c, a)
    BY <1>1
  <2>2. DeskTypeOK' /\ \A d \in Call : asked[d] # NoClaim => asked'[d] = asked[d]
    BY <2>1 DEF AskFor
  <2>3. ReceiptsStand'
    BY <2>1, <2>2 DEF ReceiptsStand, Receipt, TakenAsPaid, AskFor
  <2>4. ASSUME NEW d \in Call PROVE Promised(d)'
    BY <2>1, <2>2 DEF Promised, Receipt, AskFor
  <2> QED
    BY <2>1, <2>2, <2>3, <2>4 DEF AskFor
<1>2. CASE Send(c) \/ Settle(c)
  <2>1. /\ asked[c] # NoClaim /\ UNCHANGED <<asked, receipts, told, relayed>>
        /\ money[c] \in {"none", "sent"} /\ (money[c] = "none" => told[c] = "none")
    BY <1>2 DEF Send, Settle, Open, Promised
  <2>2. PICK m \in {"sent", "paid", "lost"} : money' = [money EXCEPT ![c] = m]
    BY <1>2 DEF Send, Settle
  <2>3. \A d \in Call : TakenAsPaid(d) => TakenAsPaid(d)'
    BY <2>1, <2>2 DEF TakenAsPaid
  <2>4. ReceiptsStand'
    BY <2>1, <2>3 DEF ReceiptsStand, Receipt
  <2>5. ASSUME NEW d \in Call PROVE Promised(d)'
    <3>1. Promised(d)
      OBVIOUS
    <3>2. CASE d # c
      BY <2>1, <2>2, <3>1, <3>2 DEF Promised, Receipt
    <3>3. CASE d = c
      BY <2>1, <2>2, <3>1, <3>3, <1>2 DEF Promised, Receipt, Send, Settle, Open
    <3> QED
      BY <3>2, <3>3
  <2> QED
    BY <2>1, <2>2, <2>4, <2>5
<1>3. CASE Record(c)
  <2>1. ReceiptsStand'
    BY <1>3 DEF Record, Open, ReceiptsStand, Receipt, TakenAsPaid, OnRecord
  <2>2. ASSUME NEW d \in Call PROVE Promised(d)'
    BY <1>3 DEF Record, Promised, Receipt
  <2> QED
    BY <1>3, <2>1, <2>2 DEF Record
<1>4. CASE TellPaid(c) \/ TellRejected(c) \/ TellFailed(c)
  <2>1. UNCHANGED <<asked, money, receipts, relayed>> /\ Open(c)
    BY <1>4 DEF TellPaid, TellRejected, TellFailed, Tell
  <2>2. PICK t \in {"PAID", "ALREADY_CLAIMED", "ERROR"} : told' = [told EXCEPT ![c] = t]
    BY <1>4 DEF TellPaid, TellRejected, TellFailed, Tell
  <2>3. ReceiptsStand'
    BY <2>1 DEF ReceiptsStand, Receipt, TakenAsPaid
  <2>4. ASSUME NEW d \in Call, d # c PROVE Promised(d)'
    BY <2>1, <2>2, <2>4 DEF Promised, Receipt
  <2>5. Promised(c)'
    BY <1>4, <2>1 DEF Promised, Receipt, Open, Tell, TellPaid, TellRejected, TellFailed
  <2> QED
    BY <2>1, <2>2, <2>3, <2>4, <2>5 DEF Open
<1> QED
  BY <1>1, <1>2, <1>3, <1>4 DEF Desk

LEMMA InitPanel == PanelInit => PanelInv
<1> SUFFICES ASSUME PanelInit PROVE PanelInv
  OBVIOUS
<1>1. NoClaim \in Link
  BY ClaimPanelAssumption
<1>2. PanelTypeOK
  BY <1>1 DEF PanelInit, PanelTypeOK, View
<1>3. DeskInv
  BY DEF PanelInit, DeskInit, DeskInv, DeskTypeOK, ReceiptsStand, Promised
<1>4. ASSUME NEW p \in Page PROVE Showing(p)
  BY <1>4 DEF PanelInit, Showing
<1> QED
  BY <1>2, <1>3, <1>4 DEF PanelInv

(* A tab's step: the desk stays, or is asked once.                          *)
LEMMA TabStep ==
  ASSUME PanelInv, NEW p \in Page,
         (\E l \in Link : Load(p, l)) \/ Choose(p) \/ Click(p) \/ Announce(p) \/ LoseAnswer(p)
  PROVE  PanelInv'
<1> USE DEF PanelInv, PanelTypeOK, deskVars
<1>1. CASE Click(p) /\ current' = [current EXCEPT ![p] = NoClaim] /\ UNCHANGED deskVars
  <2>1. PanelTypeOK' /\ DeskInv'
    BY <1>1 DEF Click, Show, View, DeskInv, DeskTypeOK, ReceiptsStand, Promised,
                Receipt, TakenAsPaid
  <2>2. ASSUME NEW q \in Page PROVE Showing(q)'
    BY <1>1, <2>2 DEF Click, Show, Showing
  <2> QED
    BY <2>1, <2>2
<1>2. ASSUME NEW c \in Call, Click(p), NextCall(c),
             AskFor(c, [link[p] EXCEPT !.receiveAsset = choice[p]]),
             current' = [current EXCEPT ![p] = c]
      PROVE  PanelInv'
  <2> DEFINE a == [link[p] EXCEPT !.receiveAsset = choice[p]]
  <2>1. /\ link[p] \in Link \ {NoClaim} /\ choice[p] \in {"none", "supported"}
        /\ choice[p] = "supported" => link[p].slug \in Convertible
    BY <1>2 DEF Click, Showing
  <2> DEFINE l == link[p]
  <2>2. l = [slug |-> l.slug, txHash |-> l.txHash, nullifier |-> l.nullifier,
             boundAddress |-> l.boundAddress, receiveAsset |-> "none"]
    <3> HIDE DEF l
    <3>1. l \in Link \ {NoClaim}
      BY <2>1 DEF l
    <3> QED
      BY <3>1, ClaimPanelAssumption
  <2>3. /\ a.slug = link[p].slug /\ a.nullifier = link[p].nullifier
        /\ a.boundAddress = link[p].boundAddress
        /\ choice[p] = "none" => a = link[p]
    BY <2>2
  <2>4. a \in Wanted /\ a # NoClaim
    BY <2>1, <2>3, ClaimPanelAssumption
  <2>5. /\ DeskInv'
        /\ \A d \in Call : /\ asked[d] # NoClaim => asked'[d] = asked[d]
                           /\ told[d] # "none" => told'[d] = told[d]
    BY <1>2, <2>4, DeskStep
  <2>6. asked'[c] = a
    BY <1>2 DEF AskFor, DeskInv, DeskTypeOK
  <2>7. PanelTypeOK'
    BY <1>2 DEF Click, Show, View
  <2>8. ASSUME NEW q \in Page PROVE Showing(q)'
    <3>1. Showing(q)
      OBVIOUS
    <3>2. CASE q # p
      BY <1>2, <2>5, <3>1, <3>2 DEF Click, Show, Showing
    <3>3. CASE q = p
      BY <1>2, <2>1, <2>3, <2>4, <2>6, <3>3 DEF Click, Show, Showing
    <3> QED
      BY <3>2, <3>3
  <2> QED
    BY <2>5, <2>7, <2>8
<1>3. CASE \/ \E l \in Link : Load(p, l)
           \/ Choose(p) \/ Announce(p) \/ LoseAnswer(p)
  <2>1. UNCHANGED deskVars
    BY <1>3 DEF Load, Choose, Announce, LoseAnswer
  <2>2. DeskInv'
    BY <2>1 DEF DeskInv, DeskTypeOK, ReceiptsStand, Promised, Receipt, TakenAsPaid
  <2>3. PanelTypeOK'
    <3>1. CASE \E l \in Link : Load(p, l)
      BY <3>1 DEF Load, Show, View
    <3>2. CASE Choose(p)
      BY <3>2 DEF Choose
    <3>3. CASE Announce(p)
      <4>1. told[current[p]] \in {"PAID", "ALREADY_CLAIMED", "ERROR"}
        BY <3>3 DEF Announce, Waiting, DeskInv, DeskTypeOK
      <4> QED
        BY <3>3, <4>1 DEF Announce, Show, View
    <3>4. CASE LoseAnswer(p)
      BY <3>4 DEF LoseAnswer
    <3> QED
      BY <1>3, <3>1, <3>2, <3>3, <3>4
  <2>4. ASSUME NEW q \in Page PROVE Showing(q)'
    <3>1. Showing(q) /\ Showing(p)
      OBVIOUS
    <3>2. CASE q # p
      BY <1>3, <2>1, <3>1, <3>2 DEF Load, Choose, Announce, LoseAnswer, Show, Showing
    <3>3. CASE q = p
      <4>1. CASE \E l \in Link : Load(p, l)
        BY <2>1, <3>1, <3>3, <4>1 DEF Load, Show, Showing
      <4>2. CASE Choose(p)
        BY <2>1, <3>1, <3>3, <4>2 DEF Choose, Showing
      <4>3. CASE Announce(p)
        BY <2>1, <3>1, <3>3, <4>3 DEF Announce, Waiting, Show, Showing, DeskInv, DeskTypeOK
      <4>4. CASE LoseAnswer(p)
        BY <2>1, <3>1, <3>3, <4>4 DEF LoseAnswer, Waiting, Showing
      <4> QED
        BY <1>3, <4>1, <4>2, <4>3, <4>4
    <3> QED
      BY <3>2, <3>3
  <2> QED
    BY <2>2, <2>3, <2>4
<1> QED
  BY <1>1, <1>2, <1>3 DEF Click

LEMMA NextPanel == PanelInv /\ [PanelNext]_<<panelVars, deskVars>> => PanelInv'
<1> SUFFICES ASSUME PanelInv, [PanelNext]_<<panelVars, deskVars>> PROVE PanelInv'
  OBVIOUS
<1>1. ASSUME NEW c \in Call, Desk(c), UNCHANGED panelVars PROVE PanelInv'
  <2>1. /\ DeskInv'
        /\ \A d \in Call : /\ asked[d] # NoClaim => asked'[d] = asked[d]
                           /\ told[d] # "none" => told'[d] = told[d]
    BY <1>1, DeskStep DEF PanelInv
  <2>2. ASSUME NEW q \in Page PROVE Showing(q)'
    BY <1>1, <2>1 DEF PanelInv, PanelTypeOK, Showing, panelVars
  <2> QED
    BY <1>1, <2>1, <2>2 DEF PanelInv, PanelTypeOK, panelVars
<1>2. CASE GatesExpire \/ UNCHANGED <<panelVars, deskVars>>
  <2>1. UNCHANGED <<view, link, choice, current, deskVars>> /\ over' \in BOOLEAN
    BY <1>2 DEF GatesExpire, panelVars, PanelInv, PanelTypeOK
  <2>2. DeskInv'
    BY <2>1 DEF PanelInv, DeskInv, DeskTypeOK, ReceiptsStand, Promised, Receipt,
                TakenAsPaid, deskVars
  <2> QED
    BY <2>1, <2>2 DEF PanelInv, PanelTypeOK, Showing, deskVars
<1> QED
  BY <1>1, <1>2, TabStep DEF PanelNext

(* The panel, in any number of tabs: "Reward Unlocked" is of this call's own *)
(* receipt and of one call only, "never reached the reward step" of a call   *)
(* that moved no money while another's reward went to the link's wallet.    *)
THEOREM PanelIsTruthful == PanelSpec => []PanelTellsTheTruth
<1>1. PanelInv => PanelTellsTheTruth
  <2> SUFFICES ASSUME PanelInv, NEW p \in Page
               PROVE  /\ view[p] = "done" =>
                           /\ Receipt(current[p]) \in receipts /\ TakenAsPaid(current[p])
                           /\ \A q \in Page :
                                /\ view[q] = "done"
                                /\ link[q].slug = link[p].slug
                                /\ link[q].nullifier = link[p].nullifier
                                => current[q] = current[p]
                      /\ view[p] = "rejected" =>
                           /\ money[current[p]] = "none"
                           /\ \E k \in receipts :
                                /\ k.gate = link[p].slug /\ k.nullifier = link[p].nullifier
                                /\ k.boundAddress = link[p].boundAddress
                                /\ TakenAsPaid(k.txHash)
    BY DEF PanelTellsTheTruth
  <2>1. ASSUME NEW q \in Page, view[q] = "done"
        PROVE  /\ current[q] \in Call /\ Receipt(current[q]) \in receipts
               /\ Receipt(current[q]).gate = link[q].slug
               /\ Receipt(current[q]).nullifier = link[q].nullifier
               /\ Receipt(current[q]).txHash = current[q]
    BY <2>1 DEF PanelInv, PanelTypeOK, Showing, DeskInv, Promised, Receipt
  <2>2. ASSUME view[p] = "done" PROVE TakenAsPaid(current[p])
    BY <2>1, <2>2 DEF PanelInv, DeskInv, ReceiptsStand
  <2>3. ASSUME NEW q \in Page, view[p] = "done", view[q] = "done",
               link[q].slug = link[p].slug, link[q].nullifier = link[p].nullifier
        PROVE  current[q] = current[p]
    <3>1. Receipt(current[q]) = Receipt(current[p])
      BY <2>1, <2>3 DEF PanelInv, DeskInv, ReceiptsStand
    <3> QED
      BY <2>1, <2>3, <3>1
  <2>4. ASSUME view[p] = "rejected"
        PROVE  /\ money[current[p]] = "none"
               /\ \E k \in receipts :
                    /\ k.gate = link[p].slug /\ k.nullifier = link[p].nullifier
                    /\ k.boundAddress = link[p].boundAddress
                    /\ TakenAsPaid(k.txHash)
    <3>1. current[p] \in Call /\ Showing(p) /\ Promised(current[p])
      BY <2>4 DEF PanelInv, PanelTypeOK, Showing, DeskInv
    <3>2. PICK k \in receipts : k = [Receipt(current[p]) EXCEPT !.txHash = k.txHash]
      BY <2>4, <3>1 DEF Showing, Promised
    <3> QED
      BY <2>4, <3>1, <3>2
         DEF Showing, Promised, Receipt, PanelInv, DeskInv, ReceiptsStand
  <2> QED
    BY <2>1, <2>2, <2>3, <2>4
<1> QED
  BY <1>1, InitPanel, NextPanel, PTL DEF PanelSpec
-----------------------------------------------------------------------------
(* A behaviour of the run's specification is one of the claims and one of    *)
(* the panels, the other at rest: the theorems above are about that run too, *)
(* and none of them needs the fairness it adds.                              *)
THEOREM JobsAreClaimsAndPanels == JobsSpec => Spec /\ PanelSpec
<1>1. JobsInit => Init /\ PanelInit
  BY DEF JobsInit
<1>2. [JobsNext]_<<vars, panelVars, deskVars>>
        => [Next]_vars /\ [PanelNext]_<<panelVars, deskVars>>
  BY DEF JobsNext
<1> QED
  BY <1>1, <1>2, PTL DEF JobsSpec, Spec, PanelSpec

(* Whatever happens to the claims, and in whatever tabs the panel is open,   *)
(* the gates' rows, the claims, the calls of the route and what the tabs     *)
(* show keep their types.                                                    *)
THEOREM JobsTypeCorrect == JobsSpec => []TypesOK
<1>1. PanelInv => PanelTypeOK
  BY DEF PanelInv
<1> QED
  BY <1>1, JobsAreClaimsAndPanels, TypeCorrect, InitPanel, NextPanel, PTL DEF PanelSpec, TypesOK
=============================================================================
