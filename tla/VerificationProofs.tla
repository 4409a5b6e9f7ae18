------------------------- MODULE VerificationProofs -------------------------
(***************************************************************************)
(* Theorems about verifyAndRegister, for any number of concurrent requests, *)
(* any ledger and any faults: its types, that what the mirror records is so *)
(* on chain, that every registration is earned, that the VERIFIED rows      *)
(* implement the Sybil block, that the contract keeps its promises inside   *)
(* the whole system (Contract), and when a registration is not recorded.    *)
(***************************************************************************)
EXTENDS Verification, TLAPS

(* The steps up to the one that hands the transaction to the network, and   *)
(* those of them that a check has let a request reach.                      *)
BeforeSend == {"new", "root", "nullifier", "credential", "history", "proof",
               "sequence", "prepare", "send"}
PastStatus  == {"history", "proof", "sequence", "prepare", "send"}
PastHistory == {"proof", "sequence", "prepare", "send"}
PastProof   == {"sequence", "prepare", "send"}

Covered(r) ==
  bundle[r].credential # None => <<Pi(r).root, bundle[r].credential>> \in Covers

(* The contract logged the registration this request asked for.             *)
Logged(r) ==
  \E i \in DOMAIN events :
    /\ events[i] = [nullifier |-> Pi(r).nullifier, root |-> Pi(r).root,
                    boundAddress |-> Pi(r).boundAddress]
    /\ calls[i].holder = bundle[r].holder

MirrorOf(r) == [nullifier |-> Pi(r).nullifier, txHash |-> r]

RequestInv(r) ==
  /\ pc[r] = "new" => bundle[r] = None
  /\ pc[r] # "new" => bundle[r] \in Bundle
  /\ r \in tooLate =>
       bundle[r] # None /\ bundle[r].credential \in Credential \ active
  /\ pc[r] \in BeforeSend => tx[r] = "none"
  /\ pc[r] \in PastStatus \/ tx[r] # "none" => r \notin tooLate
  /\ pc[r] \in PastHistory \/ tx[r] # "none" => Covered(r)
  /\ pc[r] \in PastProof \/ tx[r] # "none" => bundle[r].proofValid
  /\ pc[r] = "mirrorNullifier" => verdict[r] = "VERIFIED"
  /\ verdict[r] = "VERIFIED" => tx[r] = "success"
  /\ tx[r] = "success" => Logged(r)
  /\ pc[r] = "mirrorRow" =>
       /\ verdict[r] # "none"
       /\ verdict[r] = "VERIFIED" => MirrorOf(r) \in mirrored
       /\ verdict[r] = "NULLIFIER_USED" => Pi(r).nullifier \in nullifiers

(* A VERIFIED row is of the request whose transaction it names.             *)
RowsNameTheirRequest ==
  \A row \in VerifiedRows :
    /\ row.txHash \in Request
    /\ row.nullifier = Pi(row.txHash).nullifier /\ row.root = Pi(row.txHash).root
    /\ row.boundAddress = Pi(row.txHash).boundAddress

IInv ==
  /\ TypeOK
  /\ DOMAIN calls = DOMAIN events
  /\ RegistrationsAreEarned
  /\ RowsAgreeWithChain
  /\ RowsNameTheirRequest
  /\ \A r \in Request : RequestInv(r)
-----------------------------------------------------------------------------
LEMMA BundleTyped ==
  ASSUME NEW b \in Bundle
  PROVE  /\ b # None
         /\ b.pi \in Chain!PublicInputs /\ b.holder \in Chain!Address
         /\ b.pi.root \in Root /\ b.pi.nullifier \in Nullifier /\ b.pi.boundAddress \in Chain!Key
         /\ b.credential \in Credential \cup {None} /\ b.proofValid \in BOOLEAN
  BY VerificationAssumption DEF BundleType, Chain!PublicInputs

(* What one accepted registration does to the log and to who made it.       *)
LEMMA AppendFacts ==
  ASSUME NEW S, NEW s \in Seq(S), NEW e \in S
  PROVE  /\ Append(s, e) \in Seq(S) /\ Len(s) \in Nat
         /\ DOMAIN Append(s, e) = 1 .. Len(s) + 1 /\ DOMAIN s = 1 .. Len(s)
         /\ \A i \in DOMAIN s : Append(s, e)[i] = s[i]
         /\ Append(s, e)[Len(s) + 1] = e
  OBVIOUS

LEMMA AccountTyped ==
  ASSUME Account!TypeOK, NEW r \in Request,
         \/ Account!Build(r) \/ Account!Submit(r) \/ Account!Drop(r)
         \/ \E outcome \in {"success", "failed"} : Account!Include(r, outcome)
         \/ \E limit \in Nat : Account!OtherTx(limit)
         \/ UNCHANGED ledgerVars
  PROVE  Account!TypeOK'
  BY DEF Account!TypeOK, Account!TxState, Account!Build, Account!Submit,
         Account!Drop, Account!Include, Account!OtherTx, ledgerVars

LEMMA ChainKept == ASSUME Chain!TypeOK, UNCHANGED chainVars PROVE Chain!TypeOK'
  BY DEF Chain!TypeOK, chainVars

LEMMA InitInv == Init => IInv
<1> SUFFICES ASSUME Init PROVE IInv
  OBVIOUS
<1>1. Chain!TypeOK
  BY VerificationAssumption DEF Init, Chain!TypeOK, Chain!Roles
<1>2. Account!TypeOK
  BY DEF Init, Account!Init, Account!TypeOK, Account!TxState
<1>3. TypeOK
  BY <1>1, <1>2, VerificationAssumption DEF Init, TypeOK, Step
<1>4. \A r \in Request : tx[r] = "none" /\ pc[r] = "new" /\ bundle[r] = None
                         /\ r \notin tooLate /\ verdict[r] = "none"
  BY DEF Init, Account!Init
<1>5. RegistrationsAreEarned
  BY <1>4 DEF Init, RegistrationsAreEarned
<1>6. DOMAIN calls = DOMAIN events /\ RowsAgreeWithChain /\ RowsNameTheirRequest
  BY DEF Init, RowsAgreeWithChain, RowsNameTheirRequest, VerifiedRows
<1>7. ASSUME NEW r \in Request PROVE RequestInv(r)
  BY <1>4 DEF RequestInv, PastStatus, PastHistory, PastProof
<1> QED
  BY <1>3, <1>5, <1>6, <1>7 DEF IInv
-----------------------------------------------------------------------------
(* What a step leaves to the requests it is not about: what is on chain, in  *)
(* the log and in the mirror stays, and no credential becomes ACTIVE again.  *)
WorldKept ==
  /\ \A i \in DOMAIN events :
       i \in DOMAIN events' /\ events'[i] = events[i] /\ calls'[i] = calls[i]
  /\ nullifiers \subseteq nullifiers' /\ mirrored \subseteq mirrored'
  /\ active' \subseteq active

RequestKept(r) ==
  /\ pc'[r] = pc[r] /\ bundle'[r] = bundle[r] /\ verdict'[r] = verdict[r]
  /\ tx'[r] = tx[r] /\ (r \in tooLate' => r \in tooLate)

LEMMA OthersKeep ==
  ASSUME NEW r \in Request, RequestInv(r), WorldKept, RequestKept(r)
  PROVE  RequestInv(r)'
<1> USE DEF WorldKept, RequestKept
<1>1. (Pi(r))' = Pi(r) /\ (Covered(r))' = Covered(r) /\ (MirrorOf(r))' = MirrorOf(r)
  BY DEF Pi, Covered, MirrorOf
<1>2. Logged(r) => Logged(r)'
  BY <1>1 DEF Logged
<1> QED
  BY <1>1, <1>2 DEF RequestInv

(* The requests' own steps that only read: no table and nothing on chain     *)
(* changes.                                                                 *)
Talk(r) ==
  \/ CheckRoot(r) \/ CheckNullifier(r) \/ CheckCredential(r) \/ CheckHistory(r)
  \/ VerifyProofOffchain(r) \/ ReadSequence(r) \/ Prepare(r) \/ Send(r)
  \/ PollSuccess(r) \/ PollGivesUp(r) \/ RecheckRoot(r) \/ RecheckNullifier(r)
  \/ Throw(r) \/ Crash(r) \/ Drop(r)

(* The chain, the tables and what was registered stay.                      *)
LEMMA TablesKept ==
  ASSUME IInv, UNCHANGED <<chainVars, dbVars, bundle, tooLate>>,
         \A r \in Request : tx'[r] = "success" <=> tx[r] = "success"
  PROVE  /\ (DOMAIN calls = DOMAIN events)' /\ RegistrationsAreEarned'
         /\ RowsAgreeWithChain' /\ RowsNameTheirRequest'
<1>1. UNCHANGED <<nullifiers, events, calls, mirrored, rows, bundle, tooLate, VerifiedRows>>
  BY DEF chainVars, dbVars, VerifiedRows
<1>2. (DOMAIN calls = DOMAIN events)' /\ RowsNameTheirRequest'
  BY <1>1 DEF IInv, RowsNameTheirRequest, Pi
<1>3. RegistrationsAreEarned'
  BY <1>1 DEF IInv, RegistrationsAreEarned, Pi
<1>4. RowsAgreeWithChain'
  BY <1>1 DEF IInv, RowsAgreeWithChain, RowsNameTheirRequest
<1> QED
  BY <1>2, <1>3, <1>4

LEMMA TalkTyped ==
  ASSUME IInv, NEW r \in Request, Talk(r)
  PROVE  TypeOK' /\ UNCHANGED <<chainVars, dbVars, issuerVars, bundle, tooLate>>
<1> USE DEF IInv
<1>1. UNCHANGED <<chainVars, dbVars, issuerVars, bundle, tooLate>>
  BY DEF Talk, CheckRoot, CheckNullifier, CheckCredential, CheckHistory,
         VerifyProofOffchain, ReadSequence, Prepare, Send, PollSuccess, PollGivesUp,
         RecheckRoot, RecheckNullifier, Throw, Crash, Drop, requestVars
<1>2. Account!TypeOK'
  BY AccountTyped DEF TypeOK, Talk, CheckRoot, CheckNullifier, CheckCredential,
     CheckHistory, VerifyProofOffchain, ReadSequence, Prepare, Send, PollSuccess,
     PollGivesUp, RecheckRoot, RecheckNullifier, Throw, Crash, Drop
<1>3. Chain!TypeOK'
  BY <1>1, ChainKept DEF TypeOK
<1>4. pc' \in [Request -> Step] /\ verdict' \in [Request -> Result \cup {"none"}]
  <2> USE DEF TypeOK, Goto, Decide, Fail, Step, Result
  <2>1. CASE CheckRoot(r) \/ CheckNullifier(r) \/ CheckCredential(r) \/ CheckHistory(r)
    BY <2>1 DEF CheckRoot, CheckNullifier, CheckCredential, CheckHistory
  <2>2. CASE VerifyProofOffchain(r) \/ ReadSequence(r) \/ Prepare(r) \/ Send(r)
    BY <2>2 DEF VerifyProofOffchain, ReadSequence, Prepare, Send
  <2>3. CASE PollSuccess(r) \/ PollGivesUp(r) \/ RecheckRoot(r) \/ RecheckNullifier(r)
    BY <2>3 DEF PollSuccess, PollGivesUp, RecheckRoot, RecheckNullifier
  <2>4. CASE Throw(r) \/ Crash(r) \/ Drop(r)
    BY <2>4 DEF Throw, Crash, Drop, requestVars
  <2> QED
    BY <2>1, <2>2, <2>3, <2>4 DEF Talk
<1> QED
  BY <1>1, <1>2, <1>3, <1>4 DEF TypeOK, dbVars, issuerVars

LEMMA TalkStep ==
  ASSUME IInv, NEW r \in Request, Talk(r)
  PROVE  IInv'
<1>1. TypeOK' /\ UNCHANGED <<chainVars, dbVars, issuerVars, bundle, tooLate>>
  BY TalkTyped
<1>2. WorldKept
  BY <1>1 DEF WorldKept, chainVars, dbVars, issuerVars
<1>3. /\ RequestInv(r)
      /\ \A q \in Request : q # r => pc'[q] = pc[q] /\ verdict'[q] = verdict[q]
                                      /\ tx'[q] = tx[q]
  <2> USE DEF IInv, TypeOK, Account!TypeOK, Goto, Decide, Fail, ledgerVars, requestVars,
              Account!Build, Account!Submit, Account!Drop
  <2>1. CASE CheckRoot(r) \/ CheckNullifier(r) \/ CheckCredential(r) \/ CheckHistory(r)
    BY <2>1 DEF CheckRoot, CheckNullifier, CheckCredential, CheckHistory
  <2>2. CASE VerifyProofOffchain(r) \/ ReadSequence(r) \/ Prepare(r) \/ Send(r)
    BY <2>2 DEF VerifyProofOffchain, ReadSequence, Prepare, Send
  <2>3. CASE PollSuccess(r) \/ PollGivesUp(r) \/ RecheckRoot(r) \/ RecheckNullifier(r)
    BY <2>3 DEF PollSuccess, PollGivesUp, RecheckRoot, RecheckNullifier
  <2>4. CASE Throw(r) \/ Crash(r) \/ Drop(r)
    BY <2>4 DEF Throw, Crash, Drop
  <2> QED
    BY <2>1, <2>2, <2>3, <2>4 DEF Talk
<1>4. tx'[r] = "success" <=> tx[r] = "success"
  <2> USE DEF IInv, TypeOK, Account!TypeOK, ledgerVars, Goto
  <2>1. CASE tx' = tx
    BY <2>1
  <2>2. CASE pc[r] = "send" /\ Account!Submit(r)
    BY <1>3, <2>2 DEF Account!Submit, RequestInv, BeforeSend
  <2>3. CASE Account!Drop(r)
    BY <2>3 DEF Account!Drop
  <2> QED
    BY <2>1, <2>2, <2>3
       DEF Talk, CheckRoot, CheckNullifier, CheckCredential, CheckHistory,
           VerifyProofOffchain, ReadSequence, Prepare, Send, PollSuccess, PollGivesUp,
           RecheckRoot, RecheckNullifier, Throw, Crash, Drop, Account!Build
<1>5. /\ (DOMAIN calls = DOMAIN events)' /\ RegistrationsAreEarned'
      /\ RowsAgreeWithChain' /\ RowsNameTheirRequest'
  BY <1>1, <1>3, <1>4, TablesKept
<1>6. ASSUME NEW q \in Request, q # r PROVE RequestInv(q)'
  BY <1>1, <1>2, <1>3, <1>6, OthersKeep DEF IInv, RequestKept
<1>7. RequestInv(r)'
  <2>1. /\ UNCHANGED <<bundle, tooLate, active, nullifiers, mirrored, events, calls>>
        /\ (Pi(r))' = Pi(r) /\ (Covered(r))' = Covered(r) /\ (Logged(r))' = Logged(r)
        /\ (MirrorOf(r))' = MirrorOf(r)
    BY <1>1 DEF chainVars, dbVars, issuerVars, Pi, Covered, Logged, MirrorOf
  <2>2. /\ bundle[r].credential \in active => r \notin tooLate
        /\ pc[r] # "new" /\ bundle[r].credential = None => r \notin tooLate
    BY <1>3, VerificationAssumption DEF RequestInv, IInv, TypeOK
  <2>3. /\ pc \in [Request -> Step] /\ verdict \in [Request -> Result \cup {"none"}]
        /\ tx \in [Request -> Account!TxState] /\ RequestInv(r)
    BY <1>3 DEF IInv, TypeOK, Account!TypeOK
  <2> USE DEF Goto, Decide, Fail, RequestInv, BeforeSend, PastStatus, PastHistory,
              PastProof
  <2>4. CASE CheckRoot(r) \/ CheckNullifier(r)
    BY <2>1, <2>2, <2>3, <2>4 DEF CheckRoot, CheckNullifier, Covered, ledgerVars
  <2>5. CASE CheckCredential(r)
    BY <2>1, <2>2, <2>3, <2>5 DEF CheckCredential, CredentialPasses, ledgerVars
  <2>6. CASE CheckHistory(r)
    BY <2>1, <2>3, <2>6 DEF CheckHistory, Covered, ledgerVars
  <2>7. CASE VerifyProofOffchain(r) \/ Prepare(r)
    BY <2>1, <2>3, <2>7 DEF VerifyProofOffchain, Prepare, ledgerVars
  <2>8. CASE ReadSequence(r)
    BY <2>1, <2>3, <2>8 DEF ReadSequence, Account!Build
  <2>9. CASE Send(r)
    BY <2>1, <2>3, <2>9 DEF Send, Account!Submit
  <2>10. CASE PollSuccess(r) \/ PollGivesUp(r)
    BY <2>1, <2>3, <2>10 DEF PollSuccess, PollGivesUp, ledgerVars
  <2>11. CASE RecheckRoot(r) \/ RecheckNullifier(r)
    BY <2>1, <2>3, <2>11 DEF RecheckRoot, RecheckNullifier, ledgerVars
  <2>12. CASE Throw(r)
    BY <2>1, <2>3, <2>12 DEF Throw, Account!Submit, ledgerVars
  <2>13. CASE Crash(r)
    BY <2>1, <2>3, <2>13 DEF Crash, ledgerVars
  <2>14. CASE Drop(r)
    BY <2>1, <2>3, <2>14 DEF Drop, Account!Drop, requestVars
  <2> QED
    BY <2>4, <2>5, <2>6, <2>7, <2>8, <2>9, <2>10, <2>11, <2>12, <2>13, <2>14 DEF Talk
<1> QED
  BY <1>1, <1>5, <1>6, <1>7 DEF IInv
-----------------------------------------------------------------------------
(* A request begins: a credential that is not ACTIVE now never is again.    *)
LEMMA StartStep ==
  ASSUME IInv, NEW r \in Request, NEW b \in Bundle, Start(r, b)
  PROVE  IInv'
<1>1. /\ UNCHANGED <<verdict, chainVars, ledgerVars, dbVars, issuerVars>>
      /\ pc[r] = "new" /\ pc' = [pc EXCEPT ![r] = "root"]
      /\ bundle' = [bundle EXCEPT ![r] = b]
      /\ tooLate' = IF b.credential \in Credential \ active THEN tooLate \cup {r} ELSE tooLate
  BY DEF Start, Goto
<1>2. Account!TypeOK' /\ Chain!TypeOK'
  BY <1>1, AccountTyped, ChainKept DEF IInv, TypeOK
<1> USE DEF IInv
<1>3. TypeOK'
  BY <1>1, <1>2, VerificationAssumption DEF TypeOK, Step, dbVars, issuerVars
<1>4. WorldKept
  BY <1>1 DEF WorldKept, chainVars, dbVars, issuerVars
<1>5. tx[r] = "none" /\ tx' = tx
  BY <1>1 DEF RequestInv, BeforeSend, ledgerVars
<1>6. ASSUME NEW q \in Request, q # r PROVE RequestInv(q)' /\ RequestKept(q)
  BY <1>1, <1>4, <1>5, <1>6, OthersKeep DEF RequestKept, TypeOK
<1>7. RequestInv(r)'
  <2>1. b # None
    BY BundleTyped
  <2>2. /\ pc'[r] = "root" /\ bundle'[r] = b /\ tx'[r] = "none"
        /\ verdict'[r] = verdict[r] /\ verdict[r] # "VERIFIED"
        /\ r \in tooLate' => b.credential \in Credential \ active
    BY <1>1, <1>5 DEF TypeOK, RequestInv
  <2>3. active' = active
    BY <1>1 DEF issuerVars
  <2> QED
    BY <2>1, <2>2, <2>3 DEF RequestInv, PastStatus, PastHistory, PastProof
<1>8. RegistrationsAreEarned'
  <2>1. \A q \in Request : tx[q] = "success" => /\ q # r /\ (Pi(q))' = Pi(q)
                                                /\ bundle'[q] = bundle[q]
                                                /\ (q \in tooLate' => q \in tooLate)
    BY <1>5, <1>6 DEF Pi, RequestKept
  <2> QED
    BY <1>1, <1>5, <2>1 DEF RegistrationsAreEarned, chainVars
<1>9. /\ UNCHANGED <<VerifiedRows, events, calls, nullifiers, mirrored, rows>>
      /\ \A row \in VerifiedRows : bundle'[row.txHash] = bundle[row.txHash]
                                   /\ tx'[row.txHash] = tx[row.txHash]
  <2>1. \A row \in VerifiedRows : row.txHash \in Request /\ row.txHash # r
    BY <1>5 DEF RowsNameTheirRequest, RowsAgreeWithChain
  <2> QED
    BY <1>1, <1>5, <1>6, <2>1 DEF RequestKept, VerifiedRows, chainVars, dbVars
<1>10. RowsAgreeWithChain' /\ RowsNameTheirRequest' /\ (DOMAIN calls = DOMAIN events)'
  BY <1>9 DEF RowsAgreeWithChain, RowsNameTheirRequest, Pi
<1> QED
  BY <1>3, <1>6, <1>7, <1>8, <1>10
-----------------------------------------------------------------------------
(* The mirror: the Nullifier row, then the Verification row.                *)
LEMMA MirrorNullifierStep ==
  ASSUME IInv, NEW r \in Request, MirrorNullifier(r)
  PROVE  IInv'
<1>1. /\ UNCHANGED <<bundle, tooLate, chainVars, ledgerVars, rows, issuerVars>>
      /\ pc[r] = "mirrorNullifier" /\ mirrored \subseteq mirrored'
      /\ mirrored' \subseteq mirrored \cup {MirrorOf(r)}
  BY DEF MirrorNullifier, MirrorOf
<1> USE DEF IInv
<1>2. bundle[r] \in Bundle /\ RequestInv(r)
  BY <1>1 DEF RequestInv
<1>3. \/ /\ pc' = [pc EXCEPT ![r] = "done"] /\ verdict' = [verdict EXCEPT ![r] = "ERROR"]
      \/ /\ pc' = [pc EXCEPT ![r] = "mirrorRow"] /\ verdict' = verdict
         /\ MirrorOf(r) \in mirrored'
  BY DEF MirrorNullifier, Fail, Goto, MirrorOf
<1>4. TypeOK'
  <2>1. Account!TypeOK' /\ Chain!TypeOK'
    BY <1>1, AccountTyped, ChainKept DEF TypeOK
  <2>2. MirrorOf(r) \in [nullifier : Nullifier, txHash : Request]
    BY <1>2, BundleTyped DEF MirrorOf, Pi
  <2>3. pc' \in [Request -> Step] /\ verdict' \in [Request -> Result \cup {"none"}]
    BY <1>3 DEF TypeOK, Step, Result
  <2>4. mirrored' \subseteq [nullifier : Nullifier, txHash : Request]
    BY <1>1, <2>2 DEF TypeOK
  <2> QED
    BY <1>1, <2>1, <2>3, <2>4 DEF TypeOK, issuerVars
<1>5. UNCHANGED <<nullifiers, events, calls, rows, bundle, tooLate, tx, VerifiedRows, active>>
  BY <1>1 DEF chainVars, ledgerVars, VerifiedRows, issuerVars
<1>6. /\ (DOMAIN calls = DOMAIN events)' /\ RegistrationsAreEarned'
      /\ RowsAgreeWithChain' /\ RowsNameTheirRequest'
  BY <1>1, <1>5 DEF RegistrationsAreEarned, RowsAgreeWithChain, RowsNameTheirRequest, Pi
<1>7. ASSUME NEW q \in Request, q # r PROVE RequestInv(q)'
  BY <1>1, <1>3, <1>5, <1>7, OthersKeep DEF RequestKept, WorldKept, TypeOK
<1>8. RequestInv(r)'
  <2>1. /\ (Pi(r))' = Pi(r) /\ (Covered(r))' = Covered(r) /\ (Logged(r))' = Logged(r)
        /\ (MirrorOf(r))' = MirrorOf(r) /\ verdict[r] = "VERIFIED"
    BY <1>1, <1>2, <1>5 DEF Pi, Covered, Logged, MirrorOf, RequestInv
  <2> QED
    BY <1>2, <1>3, <1>5, <2>1
       DEF RequestInv, TypeOK, BeforeSend, PastStatus, PastHistory, PastProof
<1> QED
  BY <1>4, <1>6, <1>7, <1>8

RowOf(r) == [request |-> r, nullifier |-> Pi(r).nullifier, root |-> Pi(r).root,
             boundAddress |-> Pi(r).boundAddress, result |-> verdict[r],
             txHash |-> IF verdict[r] = "VERIFIED" THEN r ELSE None]

LEMMA MirrorRowStep ==
  ASSUME IInv, NEW r \in Request, MirrorRow(r)
  PROVE  IInv'
<1>1. /\ UNCHANGED <<verdict, bundle, tooLate, mirrored, chainVars, ledgerVars, issuerVars>>
      /\ pc[r] = "mirrorRow" /\ pc' = [pc EXCEPT ![r] = "done"]
      /\ rows' = rows \cup {RowOf(r)}
  BY DEF MirrorRow, Goto, RowOf
<1> USE DEF IInv
<1>2. bundle[r] \in Bundle /\ RequestInv(r) /\ verdict[r] \in Result
  BY <1>1 DEF RequestInv, TypeOK
<1>3. TypeOK'
  <2>1. Account!TypeOK' /\ Chain!TypeOK'
    BY <1>1, AccountTyped, ChainKept DEF TypeOK
  <2>2. RowOf(r) \in Row
    BY <1>2, BundleTyped DEF RowOf, Row, Pi
  <2> QED
    BY <1>1, <2>1, <2>2 DEF TypeOK, Step, issuerVars
<1>4. UNCHANGED <<nullifiers, events, calls, mirrored, bundle, tooLate, tx, active>>
  BY <1>1 DEF chainVars, ledgerVars, issuerVars
<1>5. /\ RowOf(r).nullifier = Pi(r).nullifier /\ RowOf(r).root = Pi(r).root
      /\ RowOf(r).boundAddress = Pi(r).boundAddress /\ RowOf(r).result = verdict[r]
      /\ verdict[r] = "VERIFIED" => RowOf(r).txHash = r
  BY DEF RowOf
<1>6. \A row \in VerifiedRows' :
        row \in VerifiedRows \/ (row = RowOf(r) /\ verdict[r] = "VERIFIED")
  BY <1>1, <1>5 DEF VerifiedRows
<1>7. RowsNameTheirRequest' /\ (DOMAIN calls = DOMAIN events)'
  BY <1>4, <1>5, <1>6 DEF RowsNameTheirRequest, Pi
<1>8. RowsAgreeWithChain'
  <2>1. verdict[r] = "VERIFIED" =>
          tx[r] = "success" /\ MirrorOf(r) \in mirrored /\ Logged(r)
    BY <1>1, <1>2 DEF RequestInv
  <2>2. verdict[r] = "NULLIFIER_USED" => Pi(r).nullifier \in nullifiers
    BY <1>1, <1>2 DEF RequestInv
  <2>3. ASSUME NEW row \in VerifiedRows', row = RowOf(r), verdict[r] = "VERIFIED"
        PROVE  /\ tx'[row.txHash] = "success"
               /\ [nullifier |-> row.nullifier, txHash |-> row.txHash] \in mirrored'
               /\ \E i \in DOMAIN events' :
                    /\ events'[i] = [nullifier |-> row.nullifier, root |-> row.root,
                                     boundAddress |-> row.boundAddress]
                    /\ calls'[i].holder = bundle'[row.txHash].holder
    BY <1>4, <1>5, <2>1, <2>3 DEF MirrorOf, Logged
  <2>4. ASSUME NEW row \in VerifiedRows
        PROVE  /\ tx'[row.txHash] = "success"
               /\ [nullifier |-> row.nullifier, txHash |-> row.txHash] \in mirrored'
               /\ \E i \in DOMAIN events' :
                    /\ events'[i] = [nullifier |-> row.nullifier, root |-> row.root,
                                     boundAddress |-> row.boundAddress]
                    /\ calls'[i].holder = bundle'[row.txHash].holder
    BY <1>4 DEF RowsAgreeWithChain
  <2>5. ASSUME NEW row \in rows', row.result = "NULLIFIER_USED"
        PROVE  row.nullifier \in nullifiers'
    BY <1>1, <1>4, <1>5, <2>2, <2>5 DEF RowsAgreeWithChain
  <2> QED
    BY <1>6, <2>3, <2>4, <2>5 DEF RowsAgreeWithChain
<1>9. RegistrationsAreEarned'
  BY <1>4 DEF RegistrationsAreEarned, Pi
<1>10. ASSUME NEW q \in Request, q # r PROVE RequestInv(q)'
  BY <1>1, <1>4, <1>10, OthersKeep DEF RequestKept, WorldKept, TypeOK
<1>11. RequestInv(r)'
  <2>1. (Covered(r))' = Covered(r) /\ (Logged(r))' = Logged(r)
    BY <1>4 DEF Pi, Covered, Logged
  <2> QED
    BY <1>1, <1>2, <1>4, <2>1
       DEF RequestInv, TypeOK, BeforeSend, PastStatus, PastHistory, PastProof
<1> QED
  BY <1>3, <1>7, <1>8, <1>9, <1>10, <1>11
-----------------------------------------------------------------------------
(* The ledger includes register(): a panic leaves the chain as it was, and a *)
(* registration is the first of its nullifier.                              *)
LEMMA ApplyFailedStep ==
  ASSUME IInv, NEW r \in Request, Account!Include(r, "failed"),
         UNCHANGED <<chainVars, requestVars, dbVars, issuerVars>>
  PROVE  IInv'
<1> USE DEF IInv
<1>1. /\ tx[r] = "pending" /\ tx' = [tx EXCEPT ![r] = "failed"]
      /\ \A q \in Request : tx'[q] = "success" <=> tx[q] = "success"
      /\ \A q \in Request : tx'[q] # "none" <=> tx[q] # "none"
  BY DEF Account!Include, TypeOK, Account!TypeOK
<1>2. TypeOK'
  BY AccountTyped, ChainKept DEF TypeOK, requestVars, dbVars, issuerVars
<1>3. /\ (DOMAIN calls = DOMAIN events)' /\ RegistrationsAreEarned'
      /\ RowsAgreeWithChain' /\ RowsNameTheirRequest'
  BY <1>1, TablesKept DEF requestVars
<1>4. ASSUME NEW q \in Request PROVE RequestInv(q)'
  <2>1. /\ (Pi(q))' = Pi(q) /\ (Covered(q))' = Covered(q) /\ (Logged(q))' = Logged(q)
        /\ (MirrorOf(q))' = MirrorOf(q)
        /\ UNCHANGED <<pc, bundle, verdict, tooLate, active, nullifiers, mirrored>>
    BY DEF Pi, Covered, Logged, MirrorOf, chainVars, requestVars, dbVars, issuerVars
  <2> QED
    BY <1>1, <2>1 DEF RequestInv
<1> QED
  BY <1>2, <1>3, <1>4

LEMMA RegisteredStep ==
  ASSUME IInv, NEW r \in Request, Account!Include(r, "success"),
         Chain!Register(Pi(r), Service, bundle[r].holder, Service),
         UNCHANGED <<requestVars, dbVars, issuerVars>>
  PROVE  IInv'
<1> USE DEF IInv
<1> DEFINE e == [nullifier |-> Pi(r).nullifier, root |-> Pi(r).root,
                 boundAddress |-> Pi(r).boundAddress]
           k == [path |-> "B", by |-> Service, holder |-> bundle[r].holder]
<1>1. /\ tx[r] = "pending" /\ tx' = [tx EXCEPT ![r] = "success"] /\ DOMAIN tx = Request
      /\ tx'[r] = "success" /\ \A q \in Request : q # r => tx'[q] = tx[q]
  BY DEF Account!Include, TypeOK, Account!TypeOK
<1>2. RequestInv(r) /\ pc[r] # "new" /\ bundle[r] \in Bundle
  BY <1>1 DEF RequestInv, BeforeSend
<1>3. /\ Pi(r).nullifier \notin nullifiers /\ nullifiers' = nullifiers \cup {Pi(r).nullifier}
      /\ events' = Append(events, e) /\ calls' = Append(calls, k)
      /\ UNCHANGED <<roles, validRoots, rootStatus>>
  BY DEF Chain!Register, Chain!RunChecksAndRegister, Chain!ChecksPass
<1>4. UNCHANGED <<pc, bundle, verdict, tooLate, mirrored, rows, active, rootHistory>>
  BY DEF requestVars, dbVars, issuerVars
<1>5. e \in Chain!Verified /\ k \in Chain!Call
  BY <1>2, BundleTyped, VerificationAssumption DEF Pi, Chain!Verified, Chain!Call
<1>6. /\ events' \in Seq(Chain!Verified) /\ calls' \in Seq(Chain!Call)
      /\ DOMAIN events' = 1 .. Len(events) + 1 /\ DOMAIN calls' = 1 .. Len(calls) + 1
      /\ DOMAIN events = 1 .. Len(events) /\ DOMAIN calls = 1 .. Len(calls)
      /\ Len(events) \in Nat /\ Len(calls) \in Nat
      /\ \A i \in DOMAIN events : events'[i] = events[i]
      /\ \A i \in DOMAIN calls : calls'[i] = calls[i]
      /\ events'[Len(events) + 1] = e /\ calls'[Len(calls) + 1] = k
  BY <1>3, <1>5, AppendFacts DEF TypeOK, Chain!TypeOK
<1>7. Len(calls) = Len(events)
  BY <1>6
<1>8. TypeOK'
  <2>1. Account!TypeOK'
    BY AccountTyped DEF TypeOK
  <2>2. Pi(r).nullifier \in Nullifier
    BY <1>2, BundleTyped DEF Pi
  <2>3. Chain!TypeOK'
    BY <1>3, <1>6, <2>2 DEF TypeOK, Chain!TypeOK
  <2> QED
    BY <1>4, <2>1, <2>3 DEF TypeOK
<1>9. WorldKept
  BY <1>3, <1>4, <1>6, <1>7 DEF WorldKept
<1>10. Logged(r)'
  <2>1. Len(events) + 1 \in DOMAIN events' /\ k.holder = bundle[r].holder
    BY <1>6
  <2> QED
    BY <1>4, <1>6, <1>7, <2>1 DEF Logged, Pi
<1> HIDE DEF e, k
<1>11. RequestInv(r)'
  <2>1. (Covered(r))' = Covered(r) /\ (MirrorOf(r))' = MirrorOf(r) /\ (Pi(r))' = Pi(r)
    BY <1>4 DEF Covered, MirrorOf, Pi
  <2>2. pc[r] \notin BeforeSend
    BY <1>1, <1>2 DEF RequestInv
  <2> QED
    BY <1>1, <1>2, <1>3, <1>4, <1>10, <2>1, <2>2 DEF RequestInv
<1>12. ASSUME NEW q \in Request, q # r PROVE RequestInv(q)'
  BY <1>1, <1>4, <1>9, <1>12, OthersKeep DEF RequestKept
<1>13. RegistrationsAreEarned'
  <2>1. bundle[r].proofValid /\ Covered(r) /\ r \notin tooLate
    BY <1>1, <1>2 DEF RequestInv
  <2>2. \A q \in Request : tx[q] = "success" => Pi(q).nullifier \in nullifiers
    BY DEF RegistrationsAreEarned
  <2>3. {q \in Request : tx'[q] = "success"} = {q \in Request : tx[q] = "success"} \cup {r}
    BY <1>1
  <2>4. \A q \in Request : (Pi(q))' = Pi(q)
    BY <1>4 DEF Pi
  <2> DEFINE earned == {q \in Request : tx[q] = "success"}
  <2>5. /\ \A q, s \in earned \cup {r} : Pi(q).nullifier = Pi(s).nullifier => q = s
        /\ nullifiers' = {Pi(q).nullifier : q \in earned \cup {r}}
    BY <1>3, <2>2 DEF RegistrationsAreEarned
  <2>6. \A q \in earned \cup {r} :
          /\ bundle[q].proofValid
          /\ bundle[q].credential # None =>
               <<Pi(q).root, bundle[q].credential>> \in Covers
          /\ q \notin tooLate
    BY <2>1 DEF RegistrationsAreEarned, Covered
  <2> QED
    BY <1>4, <2>3, <2>4, <2>5, <2>6 DEF RegistrationsAreEarned
<1>14. VerifiedRows' = VerifiedRows
  BY <1>4 DEF VerifiedRows
<1>15. RowsNameTheirRequest' /\ (DOMAIN calls = DOMAIN events)'
  BY <1>4, <1>6, <1>7, <1>14 DEF RowsNameTheirRequest, Pi
<1>16. RowsAgreeWithChain'
  <2>1. \A row \in VerifiedRows : row.txHash \in Request /\ tx'[row.txHash] = "success"
    BY <1>1 DEF RowsNameTheirRequest, RowsAgreeWithChain
  <2> QED
    BY <1>4, <1>9, <1>14, <2>1 DEF RowsAgreeWithChain, WorldKept
<1> QED
  BY <1>8, <1>11, <1>12, <1>13, <1>15, <1>16
-----------------------------------------------------------------------------
(* The issuer's other transactions and its tables.                          *)
LEMMA WorldStep ==
  ASSUME IInv,
         \/ \E root \in Root : PublishRoot(root) \/ RecordRoot(root) \/ WithdrawRoot(root)
         \/ \E c \in Credential : RevokeCredential(c)
         \/ UNCHANGED vars
  PROVE  IInv'
<1> USE DEF IInv
<1>1. /\ UNCHANGED <<requestVars, dbVars, nullifiers, events, calls, roles, tx>>
      /\ active' \subseteq active
  BY DEF PublishRoot, RecordRoot, WithdrawRoot, RevokeCredential, IssuerTx, vars,
         Account!OtherTx, Chain!SetRoot, Chain!RevokeRoot, chainVars, ledgerVars,
         requestVars, dbVars, issuerVars
<1>2. TypeOK'
  <2>1. Account!TypeOK'
    BY DEF PublishRoot, RecordRoot, WithdrawRoot, RevokeCredential, IssuerTx, vars,
           Account!OtherTx, ledgerVars, TypeOK, Account!TypeOK
  <2>2. validRoots' \subseteq Root
        /\ rootStatus' \in [Root -> {"never", "published", "revoked"}]
    BY DEF PublishRoot, RecordRoot, WithdrawRoot, RevokeCredential, vars, chainVars,
           Chain!SetRoot, Chain!RevokeRoot, TypeOK, Chain!TypeOK
  <2>3. rootHistory' \subseteq Root
    BY DEF PublishRoot, RecordRoot, WithdrawRoot, RevokeCredential, vars, issuerVars, TypeOK
  <2>4. Chain!TypeOK'
    BY <1>1, <2>2 DEF TypeOK, Chain!TypeOK
  <2> QED
    BY <1>1, <2>1, <2>3, <2>4 DEF TypeOK, requestVars, dbVars
<1>3. WorldKept
  BY <1>1 DEF WorldKept, dbVars
<1>4. ASSUME NEW q \in Request PROVE RequestInv(q)'
  BY <1>1, <1>3, <1>4, OthersKeep DEF RequestKept, requestVars
<1>5. /\ (DOMAIN calls = DOMAIN events)' /\ RegistrationsAreEarned'
      /\ RowsAgreeWithChain' /\ RowsNameTheirRequest'
  BY <1>1 DEF RegistrationsAreEarned, RowsAgreeWithChain, RowsNameTheirRequest,
              VerifiedRows, Pi, requestVars, dbVars
<1> QED
  BY <1>2, <1>4, <1>5

LEMMA NextInv == IInv /\ [Next]_vars => IInv'
<1> SUFFICES ASSUME IInv, [Next]_vars PROVE IInv'
  OBVIOUS
<1>1. ASSUME NEW r \in Request, Apply(r) PROVE IInv'
  <2>1. \/ /\ Account!Include(r, "success")
           /\ Chain!Register(Pi(r), Service, bundle[r].holder, Service)
           /\ UNCHANGED <<requestVars, dbVars, issuerVars>>
        \/ /\ Account!Include(r, "failed")
           /\ UNCHANGED <<chainVars, requestVars, dbVars, issuerVars>>
    BY <1>1 DEF Apply
  <2> QED
    BY <2>1, RegisteredStep, ApplyFailedStep
<1> QED
  BY <1>1, TalkStep, StartStep, MirrorNullifierStep, MirrorRowStep, WorldStep
     DEF Next, Serve, Talk

THEOREM Invariance == Spec => []IInv
  BY InitInv, NextInv, PTL DEF Spec
-----------------------------------------------------------------------------
(* Chain, account, requests and tables keep their types.                    *)
THEOREM TypeCorrect == Spec => []TypeOK
  BY Invariance, PTL DEF IInv

(* What runMirror records is so: a VERIFIED row's transaction landed and the *)
(* contract logged its nullifier, root and address for the holder who asked, *)
(* and a NULLIFIER_USED row's nullifier is used.                            *)
THEOREM MirrorTellsOfTheChain == Spec => []RowsAgreeWithChain
  BY Invariance, PTL DEF IInv

(* However requests race and fail, no two transactions register a nullifier, *)
(* and none registers for a proof that was rejected, a leaf that came after  *)
(* the root or a credential revoked before the request.                     *)
THEOREM EveryRegistrationIsEarned == Spec => []RegistrationsAreEarned
  BY Invariance, PTL DEF IInv

LEMMA RowsChangeByMirrorRow ==
  ASSUME [Next]_vars, rows' # rows
  PROVE  \E r \in Request : MirrorRow(r)
  BY DEF Next, Serve, vars, dbVars, Start, CheckRoot, CheckNullifier,
     CheckCredential, CheckHistory, VerifyProofOffchain, ReadSequence, Prepare, Send,
     PollSuccess, PollGivesUp, RecheckRoot, RecheckNullifier, MirrorNullifier, Throw,
     Crash, Apply, Drop, PublishRoot, RecordRoot, WithdrawRoot, RevokeCredential, IssuerTx

(* The rows change only by a new VERIFIED row, and of a nullifier that no    *)
(* other request was recorded for.                                          *)
LEMMA RecordedStep ==
  ASSUME IInv, [Next]_vars, Recorded' # Recorded
  PROVE  \E r \in Request : MirrorRow(r) /\ verdict[r] = "VERIFIED"
<1>1. rows' # rows
  BY DEF Recorded, VerifiedRows
<1>2. PICK r \in Request : MirrorRow(r)
  BY <1>1, RowsChangeByMirrorRow
<1>3. verdict[r] = "VERIFIED"
  <2>1. rows' = rows \cup {RowOf(r)} /\ RowOf(r).result = verdict[r]
    BY <1>2 DEF MirrorRow, RowOf
  <2>2. ASSUME verdict[r] # "VERIFIED" PROVE VerifiedRows' = VerifiedRows
    BY <2>1, <2>2 DEF VerifiedRows
  <2> QED
    BY <2>2 DEF Recorded
<1> QED
  BY <1>2, <1>3

(* The VERIFIED rows implement SybilBlock: verifyAndRegister never records a *)
(* nullifier as verified twice, and no such row is withdrawn.               *)
THEOREM MirrorImplementsSybilBlock == Spec => RowsImplementSybilBlock
<1>1. Init => Abstract!Init
  BY DEF Init, Abstract!Init, Recorded, VerifiedRows
<1>2. IInv /\ [Next]_vars => [Abstract!Next]_Recorded
  <2> SUFFICES ASSUME IInv, [Next]_vars, Recorded' # Recorded PROVE Abstract!Next
    OBVIOUS
  <2>1. PICK r \in Request : MirrorRow(r) /\ verdict[r] = "VERIFIED"
    BY RecordedStep
  <2> DEFINE g == [nullifier |-> Pi(r).nullifier,
                   bound |-> <<Pi(r).boundAddress, r>>]
  <2>2. pc[r] = "mirrorRow" /\ tx[r] = "success" /\ bundle[r] \in Bundle
    BY <2>1 DEF MirrorRow, Goto, IInv, RequestInv
  <2>3. g \in Abstract!Grant
    BY <2>2, BundleTyped DEF Abstract!Grant, Pi
  <2>4. Recorded' = Recorded \cup {g}
    <3>1. /\ rows' = rows \cup {RowOf(r)} /\ RowOf(r).result = "VERIFIED"
          /\ RowOf(r).txHash = r /\ RowOf(r).nullifier = Pi(r).nullifier
          /\ RowOf(r).boundAddress = Pi(r).boundAddress
      BY <2>1 DEF MirrorRow, RowOf
    <3>2. VerifiedRows' = VerifiedRows \cup {RowOf(r)}
      BY <3>1 DEF VerifiedRows
    <3> QED
      BY <3>1, <3>2 DEF Recorded
  <2>5. ASSUME NEW h \in Recorded PROVE h.nullifier # g.nullifier
    <3>1. PICK row \in VerifiedRows : h = [nullifier |-> row.nullifier,
                                           bound |-> <<row.boundAddress, row.txHash>>]
      BY DEF Recorded
    <3>2. /\ row.txHash \in Request /\ row.nullifier = Pi(row.txHash).nullifier
          /\ row.boundAddress = Pi(row.txHash).boundAddress /\ tx[row.txHash] = "success"
      BY DEF IInv, RowsNameTheirRequest, RowsAgreeWithChain
    <3>3. ASSUME h.nullifier = g.nullifier PROVE FALSE
      <4>1. row.txHash = r
        BY <2>2, <3>1, <3>2, <3>3 DEF IInv, RegistrationsAreEarned
      <4>2. h = g
        BY <3>1, <3>2, <4>1
      <4> QED
        BY <2>4, <4>2
    <3> QED
      BY <3>3
  <2> QED
    BY <2>3, <2>4, <2>5 DEF Abstract!Next, Abstract!GrantOne
<1> QED
  BY <1>1, <1>2, Invariance, PTL DEF Spec, RowsImplementSybilBlock, Abstract!Spec
-----------------------------------------------------------------------------
(* The contract under the server.  What is proved of CredentialRegistry in   *)
(* CredentialRegistryProofs, where anyone may call anything, is cited here of *)
(* the calls that the server, the ledger and the issuer make.                *)
Contract == INSTANCE CredentialRegistryProofs

LEMMA ContractAtFirst == Init => Contract!IInv
<1> SUFFICES ASSUME Init PROVE Contract!IInv
  OBVIOUS
<1>1. Contract!TypeOK
  BY InitInv DEF IInv, TypeOK, Chain!TypeOK, Contract!TypeOK, Chain!Roles, Contract!Roles,
     Chain!Address, Contract!Address, Chain!Key, Contract!Key, Chain!Verified,
     Contract!Verified, Chain!Call, Contract!Call
<1>2. Contract!NullifierOnce /\ Contract!RegistrationsAuthorised
  BY DEF Init, Contract!NullifierOnce, Contract!RegistrationsAuthorised
<1>3. Contract!RootsAreLive
  BY VerificationAssumption DEF Init, Contract!RootsAreLive
<1> QED
  BY <1>1, <1>2, <1>3 DEF Contract!IInv

(* Each step of the system calls at most one entry point, with arguments the *)
(* contract takes.                                                          *)
LEMMA ContractStep ==
  ASSUME IInv, [Next]_vars
  PROVE  [Chain!Next]_chainVars
<1>1. ASSUME NEW r \in Request, Apply(r) PROVE [Chain!Next]_chainVars
  <2>1. \/ Chain!Register(Pi(r), Service, bundle[r].holder, Service) /\ tx[r] = "pending"
        \/ UNCHANGED chainVars
    BY <1>1 DEF Apply, Account!Include
  <2>2. tx[r] = "pending" => bundle[r] \in Bundle
    BY DEF IInv, RequestInv, BeforeSend
  <2>3. bundle[r] \in Bundle =>
          Pi(r) \in Chain!PublicInputs /\ bundle[r].holder \in Chain!Address
    BY BundleTyped DEF Pi
  <2> QED
    BY <2>1, <2>2, <2>3, VerificationAssumption DEF Chain!Next
<1>2. ASSUME NEW root \in Root, PublishRoot(root) \/ WithdrawRoot(root)
      PROVE  [Chain!Next]_chainVars
  BY <1>2, VerificationAssumption DEF PublishRoot, WithdrawRoot, Chain!Next
<1>3. ASSUME NEW r \in Request, Talk(r) PROVE UNCHANGED chainVars
  BY <1>3, TalkTyped
<1>4. ASSUME NEW r \in Request, NEW b \in Bundle, Start(r, b) PROVE UNCHANGED chainVars
  BY <1>4 DEF Start
<1>5. ASSUME NEW r \in Request, MirrorNullifier(r) \/ MirrorRow(r) PROVE UNCHANGED chainVars
  BY <1>5 DEF MirrorNullifier, MirrorRow
<1>6. ASSUME NEW root \in Root, RecordRoot(root) PROVE UNCHANGED chainVars
  BY <1>6 DEF RecordRoot
<1>7. ASSUME NEW c \in Credential, RevokeCredential(c) PROVE UNCHANGED chainVars
  BY <1>7 DEF RevokeCredential
<1>8. CASE UNCHANGED vars
  BY <1>8 DEF vars
<1> QED
  BY <1>1, <1>2, <1>3, <1>4, <1>5, <1>6, <1>7, <1>8 DEF Next, Serve, Talk

LEMMA SameContract ==
  ASSUME [Chain!Next]_chainVars
  PROVE  [Contract!Next]_(Contract!vars)
  BY DEF chainVars, Contract!vars, Chain!Next, Contract!Next, Chain!Address, Contract!Address,
     Chain!Key, Contract!Key, Chain!Proof, Contract!Proof, Chain!PublicInputs,
     Contract!PublicInputs, Chain!Initialize, Contract!Initialize, Chain!Initialized,
     Contract!Initialized, Chain!SetRoot, Contract!SetRoot, Chain!RevokeRoot,
     Contract!RevokeRoot, Chain!RequireIssuer, Contract!RequireIssuer, Chain!Register,
     Contract!Register, Chain!VerifyAndRegister, Contract!VerifyAndRegister, Chain!Verify,
     Contract!Verify, Chain!RunChecksAndRegister, Contract!RunChecksAndRegister,
     Chain!ChecksPass, Contract!ChecksPass, Chain!FieldOf, Contract!FieldOf

(* Every transaction and root change of the modelled server is a call the     *)
(* registry's model allows: Verification uses the contract as it is, and     *)
(* adds no behaviour to it.                                                 *)
THEOREM EveryStepIsAContractStep == Spec => [][Chain!Next]_chainVars
  BY ContractStep, Invariance, PTL DEF Spec

LEMMA ContractInductive ==
  Contract!IInv /\ [Contract!Next]_(Contract!vars) => Contract!IInv'
<1>1. NoRoles \notin Contract!Roles
  BY ContractAssumption DEF Chain!Roles, Chain!Address, Chain!Key, Contract!Roles,
     Contract!Address, Contract!Key
<1> QED
  BY <1>1, ContractAssumption, Contract!NextInv

LEMMA ContractRegistersLive ==
  ASSUME Contract!IInv, [Contract!Next]_(Contract!vars), events' # events
  PROVE  rootStatus[events'[Len(events')].root] = "published"
<1>1. NoRoles \notin Contract!Roles
  BY ContractAssumption DEF Chain!Roles, Chain!Address, Chain!Key, Contract!Roles,
     Contract!Address, Contract!Key
<1> QED
  BY <1>1, ContractAssumption, Contract!LiveRootStep

LEMMA ContractInvariance == Spec => []Contract!IInv
<1>1. IInv /\ [Next]_vars /\ Contract!IInv => Contract!IInv'
  BY ContractStep, SameContract, ContractInductive
<1> QED
  BY <1>1, ContractAtFirst, Invariance, PTL DEF Spec

(* Whatever the requests, the faults and the ledger do, the contract's log    *)
(* has no nullifier twice, and every entry is of the service as attestor and  *)
(* bound to the holder the request named.                                   *)
THEOREM ContractPromisesHold ==
  Spec => [](Chain!NullifierOnce /\ Chain!RegistrationsAuthorised)
<1>1. Contract!IInv => Chain!NullifierOnce /\ Chain!RegistrationsAuthorised
  BY DEF Contract!IInv, Contract!NullifierOnce, Chain!NullifierOnce,
     Contract!RegistrationsAuthorised, Chain!RegistrationsAuthorised, Contract!Initialized,
     Chain!Initialized, Contract!FieldOf, Chain!FieldOf
<1> QED
  BY <1>1, ContractInvariance, PTL

(* A request whose root was withdrawn between CheckRoot and the ledger is not *)
(* registered: the contract's own check is the one that counts.             *)
THEOREM RegistrationsAreAgainstLiveRoots == Spec => Chain!RegistersOnlyAgainstLiveRoots
<1>1. IInv /\ [Next]_vars /\ Contract!IInv =>
        [events' # events => rootStatus[events'[Len(events')].root] = "published"]_(Chain!vars)
  BY ContractStep, SameContract, ContractRegistersLive
<1> QED
  BY <1>1, ContractInvariance, Invariance, PTL DEF Spec, Chain!RegistersOnlyAgainstLiveRoots

(* The address on a VERIFIED row, which a gate pays, is that of the holder    *)
(* the request named, as the contract reduces it to a field element.        *)
RowsAreBound ==
  \A row \in VerifiedRows :
    row.boundAddress = Chain!FieldOf(bundle[row.txHash].holder)

(* verifyAndRegister does not compare the two itself: the row's address is   *)
(* taken from the proof's public inputs, and check 2 of the contract ties it  *)
(* to the holder.                                                           *)
THEOREM VerifiedRowsAreBound == Spec => []RowsAreBound
<1>1. IInv /\ Contract!IInv => RowsAreBound
  <2> SUFFICES ASSUME IInv, Contract!IInv, NEW row \in VerifiedRows
               PROVE  row.boundAddress = Chain!FieldOf(bundle[row.txHash].holder)
    BY DEF RowsAreBound
  <2>1. PICK i \in DOMAIN events :
          /\ events[i] = [nullifier |-> row.nullifier, root |-> row.root,
                          boundAddress |-> row.boundAddress]
          /\ calls[i].holder = bundle[row.txHash].holder
    BY DEF IInv, RowsAgreeWithChain
  <2>2. events[i].boundAddress = Contract!FieldOf(calls[i].holder)
    BY DEF Contract!IInv, Contract!RegistrationsAuthorised
  <2> QED
    BY <2>1, <2>2 DEF Contract!FieldOf, Chain!FieldOf
<1> QED
  BY <1>1, Invariance, ContractInvariance, PTL
-----------------------------------------------------------------------------
(* What a gate may rely on when it looks a proof up.                        *)
OneRowPerProof ==
  \A row, other \in VerifiedRows : row.nullifier = other.nullifier => row = other

(* A row is inserted by the request it names, which names itself as the      *)
(* transaction.                                                             *)
RowsAreTheirOwn == \A row \in VerifiedRows : row.request = row.txHash

LEMMA RowsStayTheirOwn == Spec => []RowsAreTheirOwn
<1>1. Init => RowsAreTheirOwn
  BY DEF Init, RowsAreTheirOwn, VerifiedRows
<1>2. IInv /\ RowsAreTheirOwn /\ [Next]_vars => RowsAreTheirOwn'
  <2> SUFFICES ASSUME IInv, RowsAreTheirOwn, [Next]_vars PROVE RowsAreTheirOwn'
    OBVIOUS
  <2>1. CASE UNCHANGED VerifiedRows
    BY <2>1 DEF RowsAreTheirOwn
  <2>2. CASE rows' # rows
    <3>1. PICK r \in Request : MirrorRow(r)
      BY <2>2, RowsChangeByMirrorRow
    <3>2. rows' = rows \cup {RowOf(r)}
      BY <3>1 DEF MirrorRow, RowOf
    <3>3. /\ RowOf(r).result = verdict[r] /\ RowOf(r).request = r
          /\ verdict[r] = "VERIFIED" => RowOf(r).txHash = r
      BY DEF RowOf
    <3> QED
      BY <3>2, <3>3 DEF RowsAreTheirOwn, VerifiedRows
  <2> QED
    BY <2>1, <2>2 DEF VerifiedRows
<1> QED
  BY <1>1, <1>2, Invariance, PTL DEF Spec

(* One nullifier has one VERIFIED row, however requests race: this is what    *)
(* JobGateAssumption says of the rows a claim is looked up in.              *)
THEOREM ProofsHaveOneRow == Spec => []OneRowPerProof
<1>1. IInv /\ RowsAreTheirOwn => OneRowPerProof
  <2> SUFFICES ASSUME IInv, RowsAreTheirOwn, NEW row \in VerifiedRows,
                      NEW other \in VerifiedRows, row.nullifier = other.nullifier
               PROVE  row = other
    BY DEF OneRowPerProof
  <2>1. row.txHash = other.txHash
    <3>1. /\ row.txHash \in Request /\ tx[row.txHash] = "success"
          /\ row.nullifier = Pi(row.txHash).nullifier
      BY DEF IInv, RowsNameTheirRequest, RowsAgreeWithChain
    <3>2. /\ other.txHash \in Request /\ tx[other.txHash] = "success"
          /\ other.nullifier = Pi(other.txHash).nullifier
      BY DEF IInv, RowsNameTheirRequest, RowsAgreeWithChain
    <3> QED
      BY <3>1, <3>2 DEF IInv, RegistrationsAreEarned
  <2>2. /\ row.root = other.root /\ row.boundAddress = other.boundAddress
        /\ row.request = other.request /\ row.result = other.result
    BY <2>1 DEF IInv, RowsNameTheirRequest, RowsAreTheirOwn, VerifiedRows
  <2>3. row \in Row /\ other \in Row
    BY DEF IInv, TypeOK, VerifiedRows
  <2> QED
    BY <2>1, <2>2, <2>3 DEF Row
<1> QED
  BY <1>1, Invariance, RowsStayTheirOwn, PTL
-----------------------------------------------------------------------------
(* What a client is told is on record: a result other than ERROR has a row.  *)
AnswersAreRecorded ==
  \A r \in Request : pc[r] = "done" /\ verdict[r] # "ERROR" =>
    \E row \in rows : row.request = r /\ row.result = verdict[r]

(* A handler returns through runMirror or through the outer catch, and once  *)
(* it has returned its result stays.                                        *)
LEMMA ReturnStep ==
  ASSUME IInv, [Next]_vars, NEW r \in Request, pc'[r] = "done", verdict'[r] # "ERROR"
  PROVE  (pc[r] = "done" \/ MirrorRow(r)) /\ verdict'[r] = verdict[r]
<1> USE DEF IInv, TypeOK
<1>1. ASSUME NEW q \in Request, Talk(q)
      PROVE  pc[r] = "done" /\ verdict'[r] = verdict[r]
  <2> USE DEF Goto, Decide, Fail
  <2>1. CASE CheckRoot(q) \/ CheckNullifier(q) \/ CheckCredential(q) \/ CheckHistory(q)
    BY <2>1 DEF CheckRoot, CheckNullifier, CheckCredential, CheckHistory
  <2>2. CASE VerifyProofOffchain(q) \/ ReadSequence(q) \/ Prepare(q) \/ Send(q)
    BY <2>2 DEF VerifyProofOffchain, ReadSequence, Prepare, Send
  <2>3. CASE PollSuccess(q) \/ PollGivesUp(q) \/ RecheckRoot(q) \/ RecheckNullifier(q)
    BY <2>3 DEF PollSuccess, PollGivesUp, RecheckRoot, RecheckNullifier
  <2>4. CASE Throw(q) \/ Crash(q) \/ Drop(q)
    BY <2>4 DEF Throw, Crash, Drop, requestVars
  <2> QED
    BY <1>1, <2>1, <2>2, <2>3, <2>4 DEF Talk
<1>2. ASSUME NEW q \in Request, MirrorNullifier(q)
      PROVE  pc[r] = "done" /\ verdict'[r] = verdict[r]
  BY <1>2 DEF MirrorNullifier, Goto, Fail
<1>3. ASSUME NEW q \in Request, MirrorRow(q)
      PROVE  (pc[r] = "done" \/ q = r) /\ verdict'[r] = verdict[r]
  BY <1>3 DEF MirrorRow, Goto
<1>4. ASSUME NEW q \in Request, NEW b \in Bundle, Start(q, b)
      PROVE  pc[r] = "done" /\ verdict'[r] = verdict[r]
  BY <1>4 DEF Start, Goto
<1>5. CASE UNCHANGED requestVars
  BY <1>5 DEF requestVars
<1>6. ASSUME NEW q \in Request, Apply(q) PROVE UNCHANGED requestVars
  BY <1>6 DEF Apply
<1>7. ASSUME NEW root \in Root, PublishRoot(root) \/ RecordRoot(root) \/ WithdrawRoot(root)
      PROVE  UNCHANGED requestVars
  BY <1>7 DEF PublishRoot, RecordRoot, WithdrawRoot, IssuerTx
<1>8. ASSUME NEW c \in Credential, RevokeCredential(c) PROVE UNCHANGED requestVars
  BY <1>8 DEF RevokeCredential
<1>9. CASE UNCHANGED vars
  BY <1>5, <1>9 DEF vars
<1> QED
  BY <1>1, <1>2, <1>3, <1>4, <1>5, <1>6, <1>7, <1>8, <1>9 DEF Next, Serve, Talk

(* runMirror is awaited before the answer, so a client that reads VERIFIED    *)
(* finds its row when it claims (the converse is FirstSubmissionIsRecorded,   *)
(* which fails).                                                            *)
THEOREM NoAnswerWithoutRow == Spec => []AnswersAreRecorded
<1>1. Init => AnswersAreRecorded
  BY DEF Init, AnswersAreRecorded
<1>2. IInv /\ AnswersAreRecorded /\ [Next]_vars => AnswersAreRecorded'
  <2> SUFFICES ASSUME IInv, AnswersAreRecorded, [Next]_vars, NEW r \in Request,
                      pc'[r] = "done", verdict'[r] # "ERROR"
               PROVE  \E row \in rows' : row.request = r /\ row.result = verdict'[r]
    BY DEF AnswersAreRecorded
  <2>1. rows \subseteq rows'
    <3>1. \A q \in Request : MirrorRow(q) => rows \subseteq rows'
      BY DEF MirrorRow
    <3> QED
      BY <3>1, RowsChangeByMirrorRow
  <2>2. CASE pc[r] = "done" /\ verdict'[r] = verdict[r]
    BY <2>1, <2>2 DEF AnswersAreRecorded
  <2>3. CASE MirrorRow(r) /\ verdict'[r] = verdict[r]
    <3>1. RowOf(r) \in rows' /\ RowOf(r).request = r /\ RowOf(r).result = verdict[r]
      BY <2>3 DEF MirrorRow, RowOf
    <3> QED
      BY <2>3, <3>1
  <2> QED
    BY <2>2, <2>3, ReturnStep
<1> QED
  BY <1>1, <1>2, Invariance, PTL DEF Spec
-----------------------------------------------------------------------------
(* Which steps move a request, and which its transaction.                   *)
LEMMA RequestMoves ==
  ASSUME IInv, [Next]_vars, NEW r \in Request
  PROVE  /\ \/ pc'[r] = pc[r] /\ verdict'[r] = verdict[r] /\ bundle'[r] = bundle[r]
            \/ (\E b \in Bundle : Start(r, b)) \/ Serve(r) \/ Throw(r) \/ Crash(r)
         /\ \/ tx'[r] = tx[r]
            \/ Send(r) \/ (Throw(r) /\ pc[r] = "send") \/ Apply(r) \/ Drop(r)
         /\ pc[r] # "new" => bundle'[r] = bundle[r]
<1> USE DEF IInv, TypeOK, Account!TypeOK
<1>1. ASSUME NEW q \in Request, Talk(q)
      PROVE  /\ q # r => pc'[r] = pc[r] /\ verdict'[r] = verdict[r] /\ tx'[r] = tx[r]
             /\ tx' # tx => Send(q) \/ (Throw(q) /\ pc[q] = "send") \/ Drop(q)
             /\ bundle' = bundle
  <2> USE DEF Goto, Decide, Fail, ledgerVars, requestVars, Account!Build, Account!Submit, Account!Drop
  <2>1. CASE CheckRoot(q) \/ CheckNullifier(q) \/ CheckCredential(q) \/ CheckHistory(q)
    BY <2>1 DEF CheckRoot, CheckNullifier, CheckCredential, CheckHistory
  <2>2. CASE VerifyProofOffchain(q) \/ ReadSequence(q) \/ Prepare(q)
    BY <2>2 DEF VerifyProofOffchain, ReadSequence, Prepare
  <2>3. CASE PollSuccess(q) \/ PollGivesUp(q) \/ RecheckRoot(q) \/ RecheckNullifier(q)
    BY <2>3 DEF PollSuccess, PollGivesUp, RecheckRoot, RecheckNullifier
  <2>4. CASE Send(q)
    BY <2>4 DEF Send
  <2>5. CASE Throw(q)
    BY <2>5 DEF Throw
  <2>6. CASE Crash(q) \/ Drop(q)
    BY <2>6 DEF Crash, Drop
  <2> QED
    BY <1>1, <2>1, <2>2, <2>3, <2>4, <2>5, <2>6 DEF Talk
<1>2. ASSUME NEW q \in Request, MirrorNullifier(q) \/ MirrorRow(q)
      PROVE  /\ q # r => pc'[r] = pc[r] /\ verdict'[r] = verdict[r]
             /\ tx' = tx /\ bundle' = bundle
  BY <1>2 DEF MirrorNullifier, MirrorRow, Goto, Fail, ledgerVars
<1>3. ASSUME NEW q \in Request, NEW b \in Bundle, Start(q, b)
      PROVE  /\ q # r => pc'[r] = pc[r] /\ verdict'[r] = verdict[r] /\ bundle'[r] = bundle[r]
             /\ tx' = tx /\ pc[q] = "new"
  BY <1>3 DEF Start, Goto, ledgerVars
<1>4. ASSUME NEW q \in Request, Apply(q)
      PROVE  UNCHANGED <<pc, verdict, bundle>> /\ (q # r => tx'[r] = tx[r])
  BY <1>4 DEF Apply, requestVars, Account!Include
<1>5. ASSUME NEW root \in Root, PublishRoot(root) \/ RecordRoot(root) \/ WithdrawRoot(root)
      PROVE  UNCHANGED <<pc, verdict, bundle, tx>>
  BY <1>5 DEF PublishRoot, RecordRoot, WithdrawRoot, IssuerTx, Account!OtherTx, requestVars, ledgerVars
<1>6. CASE (\E c \in Credential : RevokeCredential(c)) \/ UNCHANGED vars
  BY <1>6 DEF RevokeCredential, vars, requestVars, ledgerVars
<1>7. Drop(r) => UNCHANGED <<pc, verdict, bundle>>
  BY DEF Drop, requestVars
<1>8. Talk(r) => Serve(r) \/ Throw(r) \/ Crash(r) \/ Drop(r)
  BY DEF Talk, Serve
<1>9. MirrorNullifier(r) \/ MirrorRow(r) => Serve(r)
  BY DEF Serve
<1>10. \/ \E q \in Request : Talk(q) \/ MirrorNullifier(q) \/ MirrorRow(q) \/ Apply(q)
                                \/ \E b \in Bundle : Start(q, b)
       \/ \E root \in Root : PublishRoot(root) \/ RecordRoot(root) \/ WithdrawRoot(root)
       \/ (\E c \in Credential : RevokeCredential(c)) \/ UNCHANGED vars
  BY DEF Next, Serve, Talk
<1> QED
  BY <1>1, <1>2, <1>3, <1>4, <1>5, <1>6, <1>7, <1>8, <1>9, <1>10

(* A row of the Nullifier table is its request's own, and no request comes    *)
(* back to where it writes one.                                             *)
MirrorsAreOwn ==
  \A m \in mirrored :
    /\ m.txHash \in Request /\ m.nullifier = Pi(m.txHash).nullifier
    /\ tx[m.txHash] = "success" /\ pc[m.txHash] \in {"mirrorRow", "done", "crashed"}

LEMMA MirrorsStayOwn == Spec => []MirrorsAreOwn
<1>1. Init => MirrorsAreOwn
  BY DEF Init, MirrorsAreOwn
<1>2. IInv /\ MirrorsAreOwn /\ [Next]_vars => MirrorsAreOwn'
  <2> SUFFICES ASSUME IInv, MirrorsAreOwn, [Next]_vars PROVE MirrorsAreOwn'
    OBVIOUS
  <2>1. ASSUME NEW r \in Request, tx[r] = "success"
        PROVE  tx'[r] = "success" /\ pc[r] # "new" /\ Pi(r)' = Pi(r)
    <3>1. pc[r] \notin BeforeSend
      BY <2>1 DEF IInv, RequestInv
    <3>2. ~Send(r) /\ ~Apply(r) /\ ~Drop(r) /\ pc[r] # "send"
      BY <2>1, <3>1 DEF Send, Goto, BeforeSend, Apply, Drop, Account!Include, Account!Drop
    <3> QED
      BY <2>1, <3>1, <3>2, RequestMoves DEF BeforeSend, Pi
  <2>2. ASSUME NEW r \in Request, pc[r] \in {"mirrorRow", "done", "crashed"}
        PROVE  pc'[r] \in {"mirrorRow", "done", "crashed"}
    <3>1. \A b \in Bundle : ~Start(r, b)
      BY <2>2 DEF Start, Goto
    <3>2. Serve(r) => MirrorRow(r)
      BY <2>2 DEF Serve, CheckRoot, CheckNullifier, CheckCredential, CheckHistory, VerifyProofOffchain,
         ReadSequence, Prepare, Send, PollSuccess, PollGivesUp, RecheckRoot, RecheckNullifier,
         MirrorNullifier, Goto, Decide, Fail
    <3>3. MirrorRow(r) \/ Throw(r) \/ Crash(r) => pc'[r] \in {"done", "crashed"}
      BY <2>2 DEF IInv, TypeOK, MirrorRow, Throw, Crash, Goto, Fail
    <3> QED
      BY <2>2, <3>1, <3>2, <3>3, RequestMoves
  <2>3. ASSUME NEW m \in mirrored'
        PROVE  \/ m \in mirrored
               \/ \E r \in Request : MirrorNullifier(r) /\ m = MirrorOf(r) /\ pc'[r] = "mirrorRow"
    <3>1. CASE mirrored' = mirrored
      BY <2>3, <3>1
    <3>2. ASSUME NEW r \in Request, MirrorNullifier(r)
          PROVE  m \in mirrored \/ (m = MirrorOf(r) /\ pc'[r] = "mirrorRow")
      BY <2>3, <3>2 DEF IInv, TypeOK, MirrorNullifier, Goto, MirrorOf
    <3>3. mirrored' # mirrored => \E r \in Request : MirrorNullifier(r)
      BY DEF Next, Serve, vars, dbVars, Start, CheckRoot, CheckNullifier,
         CheckCredential, CheckHistory, VerifyProofOffchain, ReadSequence, Prepare, Send,
         PollSuccess, PollGivesUp, RecheckRoot, RecheckNullifier, MirrorRow, Throw,
         Crash, Apply, Drop, PublishRoot, RecordRoot, WithdrawRoot, RevokeCredential, IssuerTx
    <3> QED
      BY <3>1, <3>2, <3>3
  <2>4. ASSUME NEW r \in Request, MirrorNullifier(r)
        PROVE  tx[r] = "success"
    BY <2>4 DEF IInv, RequestInv, MirrorNullifier
  <2>5. ASSUME NEW m \in mirrored'
        PROVE  /\ m.txHash \in Request /\ m.nullifier = Pi(m.txHash)'.nullifier
               /\ tx'[m.txHash] = "success" /\ pc'[m.txHash] \in {"mirrorRow", "done", "crashed"}
    <3>1. CASE m \in mirrored
      BY <2>1, <2>2, <3>1 DEF MirrorsAreOwn
    <3>2. CASE \E r \in Request : MirrorNullifier(r) /\ m = MirrorOf(r) /\ pc'[r] = "mirrorRow"
      BY <2>1, <2>4, <3>2 DEF MirrorOf
    <3> QED
      BY <2>3, <3>1, <3>2
  <2> QED
    BY <2>5 DEF MirrorsAreOwn
<1> QED
  BY <1>1, <1>2, Invariance, PTL DEF Spec

(* runMirror inserts a nullifier of its own: the unique index on nullifierHex *)
(* never refuses it, because the contract has refused the second transaction *)
(* and a request inserts once.                                              *)
MirrorIsNeverRefused ==
  \A r \in Request : pc[r] = "mirrorNullifier" =>
    \A m \in mirrored : m.nullifier # Pi(r).nullifier

THEOREM NullifierIndexNeverRefuses == Spec => []MirrorIsNeverRefused
<1>1. IInv /\ MirrorsAreOwn => MirrorIsNeverRefused
  <2> SUFFICES ASSUME IInv, MirrorsAreOwn, NEW r \in Request, pc[r] = "mirrorNullifier",
                      NEW m \in mirrored, m.nullifier = Pi(r).nullifier
               PROVE  FALSE
    BY DEF MirrorIsNeverRefused
  <2>1. tx[r] = "success"
    BY DEF IInv, RequestInv
  <2>2. m.txHash = r
    BY <2>1 DEF IInv, RegistrationsAreEarned, MirrorsAreOwn
  <2> QED
    BY <2>2 DEF MirrorsAreOwn
<1> QED
  BY <1>1, Invariance, MirrorsStayOwn, PTL
-----------------------------------------------------------------------------
(* When a registration is not recorded.  FirstSubmissionIsRecorded does not  *)
(* hold, because the poll gives up after twenty attempts on a transaction    *)
(* that the ledger may still apply.                                         *)
NoneLandsLater ==
  \A r \in Request : pc[r] \in {"recheckRoot", "recheckNullifier"} => tx[r] # "pending"

(* Otherwise a transaction that may land is still polled for, and one that   *)
(* has landed is polled for or known to have.                               *)
Awaited(r) ==
  /\ tx[r] = "pending" => pc[r] = "poll"
  /\ tx[r] = "success" =>
       \/ pc[r] = "poll"
       \/ pc[r] \in {"mirrorNullifier", "mirrorRow", "done"} /\ verdict[r] = "VERIFIED"

LEMMA AwaitedStep ==
  ASSUME IInv, MirrorIsNeverRefused, ~Faults, NoneLandsLater', [Next]_vars,
         NEW r \in Request, Awaited(r)
  PROVE  Awaited(r)'
<1> USE DEF Awaited
<1>1. ~Throw(r) /\ ~Crash(r)
  BY DEF Throw, Crash
<1>2. tx'[r] \in {"pending", "success"} => tx'[r] = tx[r] \/ Send(r) \/ (Apply(r) /\ tx[r] = "pending")
  BY <1>1, RequestMoves DEF Drop, Account!Drop, Apply, Account!Include, IInv, TypeOK, Account!TypeOK
<1>3. CASE Send(r)
  <2>1. pc'[r] = "poll"
    BY <1>3 DEF IInv, TypeOK, Send, Goto
  <2> QED
    BY <2>1
<1>4. CASE Apply(r) /\ tx[r] = "pending"
  <2>1. pc'[r] = "poll"
    BY <1>4 DEF Apply, requestVars
  <2> QED
    BY <2>1
<1>5. CASE tx'[r] = tx[r] /\ tx[r] \in {"pending", "success"}
  <2>1. CASE pc'[r] = pc[r] /\ verdict'[r] = verdict[r]
    BY <1>5, <2>1
  <2>2. CASE Serve(r)
    <3>1. CASE pc[r] = "poll"
      <4>1. PollSuccess(r) \/ PollGivesUp(r)
        BY <2>2, <3>1 DEF Serve, CheckRoot, CheckNullifier, CheckCredential, CheckHistory,
           VerifyProofOffchain, ReadSequence, Prepare, Send, RecheckRoot, RecheckNullifier,
           MirrorNullifier, MirrorRow, Goto, Decide, Fail
      <4>2. CASE PollSuccess(r)
        BY <1>5, <4>2 DEF IInv, TypeOK, PollSuccess, Goto
      <4>3. CASE PollGivesUp(r)
        <5>1. pc'[r] = "recheckRoot" /\ tx[r] = "pending"
          BY <1>5, <4>3 DEF IInv, TypeOK, PollGivesUp, Goto
        <5> QED
          BY <1>5, <5>1 DEF NoneLandsLater
      <4> QED
        BY <4>1, <4>2, <4>3
    <3>2. CASE pc[r] # "poll"
      <4>1. pc[r] \in {"mirrorNullifier", "mirrorRow", "done"} /\ verdict[r] = "VERIFIED"
        BY <1>5, <3>2
      <4>2. MirrorNullifier(r) \/ MirrorRow(r)
        BY <2>2, <4>1 DEF Serve, CheckRoot, CheckNullifier, CheckCredential, CheckHistory,
           VerifyProofOffchain, ReadSequence, Prepare, Send, PollSuccess, PollGivesUp, RecheckRoot,
           RecheckNullifier, Goto, Decide, Fail
      <4>3. CASE MirrorNullifier(r)
        <5>1. ~\E m \in mirrored : m.nullifier = Pi(r).nullifier
          BY <4>3 DEF MirrorIsNeverRefused, MirrorNullifier
        <5>2. pc'[r] = "mirrorRow" /\ verdict'[r] = verdict[r]
          BY <4>3, <5>1 DEF IInv, TypeOK, MirrorNullifier, Goto
        <5> QED
          BY <1>5, <3>2, <4>1, <5>2
      <4>4. CASE MirrorRow(r)
        BY <1>5, <3>2, <4>1, <4>4 DEF IInv, TypeOK, MirrorRow, Goto
      <4> QED
        BY <4>2, <4>3, <4>4
    <3> QED
      BY <3>1, <3>2
  <2>3. CASE \E b \in Bundle : Start(r, b)
    BY <1>5, <2>3 DEF IInv, RequestInv, Start, Goto, BeforeSend
  <2> QED
    BY <1>1, <2>1, <2>2, <2>3, RequestMoves
<1> QED
  BY <1>2, <1>3, <1>4, <1>5

(* SPEC.md 13.2, "First submission succeeds and is recorded": when no call    *)
(* throws and no process dies, it is, unless its poll gave up on a            *)
(* transaction that was still to land.                                      *)
THEOREM RecordedUnlessGivenUp ==
  ~Faults => (Spec /\ []NoneLandsLater => []FirstSubmissionIsRecorded)
<1> SUFFICES ASSUME ~Faults PROVE Spec /\ []NoneLandsLater => []FirstSubmissionIsRecorded
  OBVIOUS
<1> DEFINE AllAwaited == \A r \in Request : Awaited(r)
<1>1. Init => AllAwaited
  BY DEF Init, Account!Init, Awaited
<1>2. IInv /\ MirrorIsNeverRefused /\ NoneLandsLater' /\ AllAwaited /\ [Next]_vars => AllAwaited'
  BY AwaitedStep
<1>3. IInv /\ AnswersAreRecorded /\ RowsAreTheirOwn /\ AllAwaited => FirstSubmissionIsRecorded
  <2> SUFFICES ASSUME IInv, AnswersAreRecorded, RowsAreTheirOwn, AllAwaited, NEW r \in Request,
                      pc[r] = "done", tx[r] = "success"
               PROVE  \E row \in VerifiedRows : row.txHash = r
    BY DEF FirstSubmissionIsRecorded
  <2>1. verdict[r] = "VERIFIED"
    BY DEF Awaited
  <2>2. PICK row \in rows : row.request = r /\ row.result = "VERIFIED"
    BY <2>1 DEF AnswersAreRecorded
  <2> QED
    BY <2>2 DEF VerifiedRows, RowsAreTheirOwn
<1> HIDE DEF AllAwaited
<1> QED
  BY <1>1, <1>2, <1>3, Invariance, NoAnswerWithoutRow, RowsStayTheirOwn, NullifierIndexNeverRefuses, PTL
     DEF Spec
-----------------------------------------------------------------------------
(* The safety half of EveryRequestAnswered.  Each step of a request takes it  *)
(* to one that comes later in verifyAndRegister; the poll is one step.      *)
StepsLeft == [new |-> 15, root |-> 14, nullifier |-> 13, credential |-> 12, history |-> 11,
              proof |-> 10, sequence |-> 9, prepare |-> 8, send |-> 7, poll |-> 6,
              recheckRoot |-> 5, recheckNullifier |-> 4, mirrorNullifier |-> 3,
              mirrorRow |-> 2, done |-> 1, crashed |-> 0]

GoesOn == \A r \in Request : pc'[r] # pc[r] => StepsLeft[pc'[r]] < StepsLeft[pc[r]]

(* A request never comes back to an await it has passed, and one that was    *)
(* answered or has crashed stays so: it takes at most fifteen steps, whatever *)
(* throws and whatever the ledger and the other requests do.                *)
THEOREM RequestsGoForward == Spec => [][GoesOn]_vars
<1>1. IInv /\ [Next]_vars => GoesOn
  <2> SUFFICES ASSUME IInv, [Next]_vars, NEW r \in Request, pc'[r] # pc[r]
               PROVE  StepsLeft[pc'[r]] < StepsLeft[pc[r]]
    BY DEF GoesOn
  <2> USE DEF StepsLeft
  <2>0. pc \in [Request -> Step]
    BY DEF IInv, TypeOK
  <2>1. CASE (\E b \in Bundle : Start(r, b)) \/ CheckRoot(r) \/ CheckNullifier(r)
             \/ CheckCredential(r) \/ CheckHistory(r)
    BY <2>0, <2>1 DEF Start, CheckRoot, CheckNullifier, CheckCredential, CheckHistory, Goto, Decide
  <2>2. CASE VerifyProofOffchain(r) \/ ReadSequence(r) \/ Prepare(r) \/ Send(r)
    BY <2>0, <2>2 DEF VerifyProofOffchain, ReadSequence, Prepare, Send, Goto, Decide, Fail
  <2>3. CASE PollSuccess(r) \/ PollGivesUp(r) \/ RecheckRoot(r) \/ RecheckNullifier(r)
    BY <2>0, <2>3 DEF PollSuccess, PollGivesUp, RecheckRoot, RecheckNullifier, Goto, Decide
  <2>4. CASE MirrorNullifier(r) \/ MirrorRow(r)
    BY <2>0, <2>4 DEF MirrorNullifier, MirrorRow, Goto, Fail
  <2>5. CASE Throw(r)
    <3>1. \/ pc[r] \in Step \ {"new", "send", "poll", "done", "crashed"} /\ pc'[r] = "done"
          \/ pc[r] \in {"send", "poll"} /\ pc'[r] = "recheckRoot"
      BY <2>0, <2>5 DEF Throw, Goto, Fail
    <3> QED
      BY <3>1 DEF Step
  <2>6. CASE Crash(r)
    <3>1. pc[r] \in Step \ {"new", "done", "crashed"} /\ pc'[r] = "crashed"
      BY <2>0, <2>6 DEF Crash
    <3> QED
      BY <3>1 DEF Step
  <2> QED
    BY <2>1, <2>2, <2>3, <2>4, <2>5, <2>6, RequestMoves DEF Serve
<1>2. IInv /\ [Next]_vars => [GoesOn]_vars
  BY <1>1
<1> QED
  BY <1>2, Invariance, PTL DEF Spec
=============================================================================
