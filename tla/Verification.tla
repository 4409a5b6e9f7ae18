---------------------------- MODULE Verification ----------------------------
(***************************************************************************)
(* POST /api/verify on Path B: concurrent runs of verifyAndRegister over    *)
(* the registry contract, the ledger that applies its transactions, and the *)
(* Postgres mirror.  One action per await, so every interleaving of two     *)
(* requests between a read and the write it justified is a behaviour.       *)
(*                                                                          *)
(* Every transaction is signed by the one issuer account: its sequence      *)
(* number is read before the transaction is built, and the ledger applies a *)
(* transaction only when that number is still the account's.                *)
(***************************************************************************)
EXTENDS Naturals, Sequences, FiniteSets

CONSTANTS
  MaxKey, Modulus, Root, Nullifier, Verifier, HostVerifies, NoRoles,
  Request,       \* calls of POST /api/verify
  Bundle,        \* what a client may submit, see BundleType
  Credential,
  None,          \* an absent bundle, credential or transaction hash
  Covers,        \* <<root, credential>>: the leaf index is below leafCountAtRoot
  Service,       \* ISSUER_STELLAR_ACCOUNT: issuer and attestor
  Published,     \* the roots published before the first request
  MaxIssuerTxs,  \* bound on the other transactions of the issuer account
  Faults         \* may RPC and database calls throw, and the process die?

VARIABLES
  roles, validRoots, nullifiers, events, rootStatus, calls,
  accountSeq,    \* the issuer account's sequence number
  tx,            \* each request's transaction, as the ledger sees it
  txSeq,         \* the sequence number it was built on
  pc,            \* the await each request has reached
  bundle,        \* its input
  verdict,       \* the result it is about to record, then the one it answers
  mirrored,      \* rows of the Nullifier table
  rows,          \* rows of the Verification table
  active,        \* credentials whose row says ACTIVE
  tooLate,       \* history: requests that began when their credential was revoked
  rootHistory    \* roots with a RootHistory row

Chain   == INSTANCE CredentialRegistry
Account == INSTANCE IssuerAccount WITH Client <- Request

chainVars   == <<roles, validRoots, nullifiers, events, rootStatus, calls>>
ledgerVars  == <<accountSeq, tx, txSeq>>
requestVars == <<pc, bundle, verdict, tooLate>>
dbVars      == <<mirrored, rows>>
issuerVars  == <<active, rootHistory>>
vars == <<chainVars, ledgerVars, requestVars, dbVars, issuerVars>>

BundleType == [pi : Chain!PublicInputs, holder : Chain!Address,
               proofValid : BOOLEAN,          \* would bb.js accept the proof?
               credential : Credential \cup {None},
               rawMatches : BOOLEAN]          \* disclosed.raw agrees with the row

(* What the contract assumes of its keys and roles.                          *)
ASSUME ContractAssumption ==
  /\ MaxKey \in Nat /\ Modulus \in Nat \ {0} /\ Modulus <= MaxKey + 1
  /\ NoRoles \notin Chain!Roles /\ HostVerifies \in BOOLEAN

ASSUME VerificationAssumption ==
  /\ Bundle \subseteq BundleType
  /\ Covers \subseteq Root \X Credential
  /\ Service \in Chain!Address
  /\ Published \subseteq Root
  /\ MaxIssuerTxs \in Nat
  /\ Faults \in BOOLEAN
  /\ None \notin Bundle \cup Credential \cup Request

Result == {"VERIFIED", "INVALID_PROOF", "UNKNOWN_ROOT", "NULLIFIER_USED", "ERROR"}

Step == {"new", "root", "nullifier", "credential", "history", "proof",
         "sequence", "prepare", "send", "poll", "recheckRoot",
         "recheckNullifier", "mirrorNullifier", "mirrorRow", "done", "crashed"}

Row == [request : Request, nullifier : Nullifier, root : Root,
        boundAddress : Chain!Key, result : Result, txHash : Request \cup {None}]

TypeOK ==
  /\ Chain!TypeOK
  /\ Account!TypeOK
  /\ pc \in [Request -> Step]
  /\ bundle \in [Request -> Bundle \cup {None}]
  /\ verdict \in [Request -> Result \cup {"none"}]
  /\ mirrored \subseteq [nullifier : Nullifier, txHash : Request]
  /\ rows \subseteq Row
  /\ active \subseteq Credential
  /\ tooLate \subseteq Request
  /\ rootHistory \subseteq Root

(* The registry after scripts/deploy-contracts.ts, with the service account *)
(* as issuer and attestor; some roots published, every credential ACTIVE.   *)
Init ==
  /\ \E v \in Verifier :
        roles = [issuer |-> Service, attestor |-> Service, verifier |-> v]
  /\ validRoots = Published /\ nullifiers = {} /\ events = <<>> /\ calls = <<>>
  /\ rootStatus = [r \in Root |-> IF r \in Published THEN "published" ELSE "never"]
  /\ Account!Init
  /\ pc = [r \in Request |-> "new"]
  /\ bundle = [r \in Request |-> None]
  /\ verdict = [r \in Request |-> "none"]
  /\ mirrored = {} /\ rows = {}
  /\ active = Credential
  /\ tooLate = {}
  /\ rootHistory = Published
-----------------------------------------------------------------------------
(* Control flow of one request. *)

Goto(r, from, to) == pc[r] = from /\ pc' = [pc EXCEPT ![r] = to]

(* runMirror(result) follows, then the answer. *)
Decide(r, from, result) ==
  /\ Goto(r, from, "mirrorRow")
  /\ verdict' = [verdict EXCEPT ![r] = result]

(* The outer catch: ERROR is answered and nothing is recorded. *)
Fail(r, from) ==
  /\ Goto(r, from, "done")
  /\ verdict' = [verdict EXCEPT ![r] = "ERROR"]

Pi(r) == bundle[r].pi

Start(r, b) ==
  /\ Goto(r, "new", "root")
  /\ bundle' = [bundle EXCEPT ![r] = b]
  /\ tooLate' = IF b.credential \in Credential \ active THEN tooLate \cup {r} ELSE tooLate
  /\ UNCHANGED <<verdict, chainVars, ledgerVars, dbVars, issuerVars>>

CheckRoot(r) ==
  /\ \/ Goto(r, "root", "nullifier") /\ Pi(r).root \in validRoots /\ UNCHANGED verdict
     \/ Decide(r, "root", "UNKNOWN_ROOT") /\ Pi(r).root \notin validRoots
  /\ UNCHANGED <<bundle, tooLate, chainVars, ledgerVars, dbVars, issuerVars>>

CheckNullifier(r) ==
  /\ \/ /\ Decide(r, "nullifier", "NULLIFIER_USED")
        /\ Pi(r).nullifier \in nullifiers
     \/ /\ Goto(r, "nullifier",
                IF bundle[r].credential = None THEN "proof" ELSE "credential")
        /\ Pi(r).nullifier \notin nullifiers
        /\ UNCHANGED verdict
  /\ UNCHANGED <<bundle, tooLate, chainVars, ledgerVars, dbVars, issuerVars>>

(* The credential must be ACTIVE and its attributes agree with the proof's. *)
CredentialPasses(r) == bundle[r].credential \in active /\ bundle[r].rawMatches

CheckCredential(r) ==
  /\ \/ Goto(r, "credential", "history") /\ CredentialPasses(r) /\ UNCHANGED verdict
     \/ Decide(r, "credential", "INVALID_PROOF") /\ ~CredentialPasses(r)
  /\ UNCHANGED <<bundle, tooLate, chainVars, ledgerVars, dbVars, issuerVars>>

(* The root must be in RootHistory and the leaf index below its leaf count. *)
CheckHistoryRootOnly(r) ==   \* mutant: the leaf index is not compared
  /\ \/ Decide(r, "history", "UNKNOWN_ROOT") /\ Pi(r).root \notin rootHistory
     \/ Goto(r, "history", "proof") /\ Pi(r).root \in rootHistory /\ UNCHANGED verdict
  /\ UNCHANGED <<bundle, tooLate, chainVars, ledgerVars, dbVars, issuerVars>>

CheckHistory(r) ==
  LET covered == <<Pi(r).root, bundle[r].credential>> \in Covers IN
  /\ \/ /\ Decide(r, "history", "UNKNOWN_ROOT")
        /\ Pi(r).root \notin rootHistory
     \/ /\ Decide(r, "history", "INVALID_PROOF")
        /\ Pi(r).root \in rootHistory /\ ~covered
     \/ /\ Goto(r, "history", "proof")
        /\ Pi(r).root \in rootHistory /\ covered
        /\ UNCHANGED verdict
  /\ UNCHANGED <<bundle, tooLate, chainVars, ledgerVars, dbVars, issuerVars>>

VerifyProofOffchain(r) ==
  /\ \/ Goto(r, "proof", "sequence") /\ bundle[r].proofValid /\ UNCHANGED verdict
     \/ Decide(r, "proof", "INVALID_PROOF") /\ ~bundle[r].proofValid
  /\ UNCHANGED <<bundle, tooLate, chainVars, ledgerVars, dbVars, issuerVars>>

(* submitRegister: getAccount gives the sequence number the envelope uses. *)
ReadSequence(r) ==
  /\ Goto(r, "sequence", "prepare")
  /\ Account!Build(r)
  /\ UNCHANGED <<verdict, bundle, tooLate, chainVars, dbVars, issuerVars>>

(* prepareTransaction simulates the call.  It stands outside the try, so a  *)
(* simulated rejection is not a ContractError and ends in ERROR.            *)
Prepare(r) ==
  /\ \/ /\ Goto(r, "prepare", "send") /\ UNCHANGED verdict
        /\ Chain!ChecksPass(bundle[r].holder, Pi(r))
     \/ /\ Fail(r, "prepare")
        /\ ~Chain!ChecksPass(bundle[r].holder, Pi(r))
  /\ UNCHANGED <<bundle, tooLate, chainVars, ledgerVars, dbVars, issuerVars>>

(* sendTransaction; its status is not looked at, so a transaction the node  *)
(* refused is polled for all the same.                                      *)
Send(r) ==
  /\ Goto(r, "send", "poll")
  /\ Account!Submit(r)
  /\ UNCHANGED <<verdict, bundle, tooLate, chainVars, dbVars, issuerVars>>

PollAnySuccess(r) ==   \* mutant: the status of the transaction is not looked at
  /\ Goto(r, "poll", "mirrorNullifier")
  /\ verdict' = [verdict EXCEPT ![r] = "VERIFIED"]
  /\ UNCHANGED <<bundle, tooLate, chainVars, ledgerVars, dbVars, issuerVars>>

PollUnreported(r) ==   \* mutant: the transaction hash comes back without a result
  /\ tx[r] = "success"
  /\ Goto(r, "poll", "mirrorNullifier")
  /\ UNCHANGED <<verdict, bundle, tooLate, chainVars, ledgerVars, dbVars, issuerVars>>

PollSuccess(r) ==
  /\ tx[r] = "success"
  /\ Goto(r, "poll", "mirrorNullifier")
  /\ verdict' = [verdict EXCEPT ![r] = "VERIFIED"]
  /\ UNCHANGED <<bundle, tooLate, chainVars, ledgerVars, dbVars, issuerVars>>

PollUntilFinal(r) ==   \* mutant: no limit on the attempts
  /\ tx[r] = "failed"
  /\ Goto(r, "poll", "recheckRoot")
  /\ UNCHANGED <<verdict, bundle, tooLate, chainVars, ledgerVars, dbVars, issuerVars>>

(* Twenty attempts, a second apart: a failed transaction ends the poll, one *)
(* that was not found yet ends it when the attempts are used up.            *)
PollGivesUp(r) ==
  /\ tx[r] \in {"failed", "pending", "dropped"}
  /\ Goto(r, "poll", "recheckRoot")
  /\ UNCHANGED <<verdict, bundle, tooLate, chainVars, ledgerVars, dbVars, issuerVars>>

(* The catch of submitRegister guesses the reason from the chain's state. *)
RecheckRoot(r) ==
  /\ \/ Decide(r, "recheckRoot", "UNKNOWN_ROOT") /\ Pi(r).root \notin validRoots
     \/ /\ Goto(r, "recheckRoot", "recheckNullifier")
        /\ Pi(r).root \in validRoots
        /\ UNCHANGED verdict
  /\ UNCHANGED <<bundle, tooLate, chainVars, ledgerVars, dbVars, issuerVars>>

RecheckIdempotent(r) ==   \* mutant: a used nullifier is taken for this request's own
  /\ Decide(r, "recheckNullifier",
            IF Pi(r).nullifier \in nullifiers THEN "VERIFIED" ELSE "INVALID_PROOF")
  /\ UNCHANGED <<bundle, tooLate, chainVars, ledgerVars, dbVars, issuerVars>>

RecheckNullifier(r) ==
  /\ Decide(r, "recheckNullifier",
            IF Pi(r).nullifier \in nullifiers THEN "NULLIFIER_USED"
                                              ELSE "INVALID_PROOF")
  /\ UNCHANGED <<bundle, tooLate, chainVars, ledgerVars, dbVars, issuerVars>>

(* nullifier.create, refused by the unique index on nullifierHex (which the  *)
(* contract's own check makes unreachable, see RegistrationsAreEarned).      *)
MirrorNullifier(r) ==
  /\ pc[r] = "mirrorNullifier"
  /\ IF \E m \in mirrored : m.nullifier = Pi(r).nullifier
       THEN Fail(r, "mirrorNullifier") /\ UNCHANGED mirrored
       ELSE /\ Goto(r, "mirrorNullifier", "mirrorRow")
            /\ mirrored' = mirrored \cup {[nullifier |-> Pi(r).nullifier, txHash |-> r]}
            /\ UNCHANGED verdict
  /\ UNCHANGED <<bundle, tooLate, chainVars, ledgerVars, rows, issuerVars>>

(* verification.create, then the answer. *)
MirrorRow(r) ==
  /\ Goto(r, "mirrorRow", "done")
  /\ rows' = rows \cup {[request |-> r, nullifier |-> Pi(r).nullifier,
                         root |-> Pi(r).root, boundAddress |-> Pi(r).boundAddress,
                         result |-> verdict[r],
                         txHash |-> IF verdict[r] = "VERIFIED" THEN r ELSE None]}
  /\ UNCHANGED <<verdict, bundle, tooLate, mirrored, chainVars, ledgerVars, issuerVars>>

Serve(r) ==
  \/ CheckRoot(r) \/ CheckNullifier(r) \/ CheckCredential(r) \/ CheckHistory(r)
  \/ VerifyProofOffchain(r) \/ ReadSequence(r) \/ Prepare(r) \/ Send(r)
  \/ PollSuccess(r) \/ PollGivesUp(r) \/ RecheckRoot(r) \/ RecheckNullifier(r)
  \/ MirrorNullifier(r) \/ MirrorRow(r)
-----------------------------------------------------------------------------
(* Failures. *)

(* An RPC or database call throws.  Inside submitRegister's try that leads  *)
(* to the re-check, whatever became of the transaction; anywhere else to    *)
(* the outer catch.                                                         *)
Throw(r) ==
  /\ Faults
  /\ \/ /\ pc[r] \in Step \ {"new", "send", "poll", "done", "crashed"}
        /\ Fail(r, pc[r])
        /\ UNCHANGED ledgerVars
     \/ /\ Goto(r, "send", "recheckRoot")      \* sent, or not, before it threw
        /\ Account!Submit(r) \/ UNCHANGED ledgerVars
        /\ UNCHANGED verdict
     \/ Goto(r, "poll", "recheckRoot") /\ UNCHANGED <<verdict, ledgerVars>>
  /\ UNCHANGED <<bundle, tooLate, chainVars, dbVars, issuerVars>>

(* The process dies; what it has sent and written stays. *)
Crash(r) ==
  /\ Faults
  /\ pc[r] \notin {"new", "done", "crashed"}
  /\ pc' = [pc EXCEPT ![r] = "crashed"]
  /\ UNCHANGED <<verdict, bundle, tooLate, chainVars, ledgerVars, dbVars, issuerVars>>
-----------------------------------------------------------------------------
(* The ledger and the issuer. *)

(* The ledger includes register(): the contract accepts the call or panics. *)
Apply(r) ==
  /\ \/ /\ Account!Include(r, "success")
        /\ Chain!Register(Pi(r), Service, bundle[r].holder, Service)
     \/ /\ Account!Include(r, "failed")
        /\ ~Chain!ChecksPass(bundle[r].holder, Pi(r))
        /\ UNCHANGED chainVars
  /\ UNCHANGED <<requestVars, dbVars, issuerVars>>

Drop(r) ==
  /\ Account!Drop(r)
  /\ UNCHANGED <<chainVars, requestVars, dbVars, issuerVars>>

IssuerTx == Account!OtherTx(MaxIssuerTxs) /\ UNCHANGED <<requestVars, dbVars>>

(* publishRoot lands. *)
PublishRoot(root) ==
  /\ IssuerTx
  /\ Chain!SetRoot(Service, Service, root)
  /\ UNCHANGED issuerVars

(* The rootHistory row that mintCredential and revokeCredential write next. *)
RecordRoot(root) ==
  /\ rootStatus[root] # "never"
  /\ root \notin rootHistory
  /\ rootHistory' = rootHistory \cup {root}
  /\ UNCHANGED <<chainVars, ledgerVars, requestVars, dbVars, active>>

(* The issuer calls revoke_root. *)
WithdrawRoot(root) ==
  /\ root \in validRoots
  /\ IssuerTx
  /\ Chain!RevokeRoot(Service, Service, root)
  /\ UNCHANGED issuerVars

(* The database half of revokeCredential. *)
RevokeCredential(c) ==
  /\ c \in active
  /\ active' = active \ {c}
  /\ UNCHANGED <<chainVars, ledgerVars, requestVars, dbVars, rootHistory>>

Next ==
  \/ \E r \in Request, b \in Bundle : Start(r, b)
  \/ \E r \in Request : Serve(r) \/ Throw(r) \/ Crash(r) \/ Apply(r) \/ Drop(r)
  \/ \E root \in Root : PublishRoot(root) \/ RecordRoot(root) \/ WithdrawRoot(root)
  \/ \E c \in Credential : RevokeCredential(c)

Spec == Init /\ [][Next]_vars

(* The server keeps running the requests it has started; nothing is assumed *)
(* of clients, of the issuer or of the ledger.                              *)
FairSpec == Spec /\ \A r \in Request : WF_vars(Serve(r))
-----------------------------------------------------------------------------
VerifiedRows == {row \in rows : row.result = "VERIFIED"}

(* A VERIFIED row, the only row a reward is paid on, is backed by the chain: *)
(* the transaction it names landed, the contract logged that nullifier, root *)
(* and address for the holder the request named, and the mirror agrees.  A   *)
(* NULLIFIER_USED row is true of the chain too.                              *)
RowsAgreeWithChain ==
  /\ \A row \in VerifiedRows :
        /\ tx[row.txHash] = "success"
        /\ [nullifier |-> row.nullifier, txHash |-> row.txHash] \in mirrored
        /\ \E i \in DOMAIN events :
              /\ events[i] = [nullifier |-> row.nullifier, root |-> row.root,
                              boundAddress |-> row.boundAddress]
              /\ calls[i].holder = bundle[row.txHash].holder
  /\ \A row \in rows :
        row.result = "NULLIFIER_USED" => row.nullifier \in nullifiers

(* Whatever the interleaving, faults and crashes, two transactions never     *)
(* both register one nullifier, and none registers for a proof that bb.js    *)
(* rejects, or for a credential whose leaf came after the root or that was   *)
(* revoked before the request began.  One revoked since may be registered:   *)
(* its status is read once (verification.service.ts:112).                   *)
RegistrationsAreEarned ==
  LET registered == {r \in Request : tx[r] = "success"} IN
  /\ \A r, s \in registered : Pi(r).nullifier = Pi(s).nullifier => r = s
  /\ \A r \in registered :
        /\ bundle[r].proofValid
        /\ bundle[r].credential # None =>
              <<Pi(r).root, bundle[r].credential>> \in Covers
        /\ r \notin tooLate
  /\ nullifiers = {Pi(r).nullifier : r \in registered}

(* The VERIFIED rows, each with its transaction, implement the Sybil block:  *)
(* the server never records a nullifier as verified twice.                   *)
Recorded == {[nullifier |-> row.nullifier,
              bound |-> <<row.boundAddress, row.txHash>>] : row \in VerifiedRows}

Abstract == INSTANCE SybilBlock WITH
              granted <- Recorded, Bound <- Chain!Key \X Request

RowsImplementSybilBlock == Abstract!Spec

(* Every request is answered, whatever the ledger does with its transaction: *)
(* the poll is bounded and no step waits for another request.  A request     *)
(* begins once, so from some time on none is under way.                      *)
EveryRequestAnswered ==
  <>[](\A r \in Request : pc[r] \in {"new", "done", "crashed"})
-----------------------------------------------------------------------------
(* A claim of the repository that the code does not keep. *)

(* SPEC.md 13.2: "First submission succeeds and is recorded."               *)
FirstSubmissionIsRecorded ==
  \A r \in Request :
    pc[r] = "done" /\ tx[r] = "success" =>
      \E row \in VerifiedRows : row.txHash = r
=============================================================================
