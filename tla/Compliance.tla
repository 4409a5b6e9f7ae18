----------------------------- MODULE Compliance -----------------------------
(***************************************************************************)
(* What an anchor asks of the app: the SEP-12 customer endpoint and the     *)
(* SEP-8 approval server.  Both decide by the Verification rows, which the  *)
(* verify flow only ever adds (module Verification).  One action per await; *)
(* a handler that never takes its next step is one that failed there.       *)
(***************************************************************************)
EXTENDS Naturals

CONSTANTS
  Account, Memo,
  RowId,              \* ids of Verification rows
  Put, Get, Approve,  \* requests to the two endpoints
  None

Customer == Put \cup Get
Request  == Customer \cup Approve

ASSUME ComplianceAssumption ==
  /\ Put \cap Get = {} /\ Customer \cap Approve = {}
  /\ None \notin Put \cup RowId \cup Memo \cup Account

VARIABLES
  verification,  \* the rows of Verification: bound account, VERIFIED or not
  customer,      \* the row of each stellarAccount (it is @unique), or NoRow
  pc, ask,
  found,         \* whether findCustomerByAccount has returned a row to a PUT
  left,          \* the destinations a SEP-8 request has yet to look up
  answer         \* the status answered, with the customer's id

avars == <<verification, customer, pc, ask, found, left, answer>>

Status == {"NEEDS_INFO", "ACCEPTED"}   \* no code writes PROCESSING or REJECTED
Row    == [id : Put, memo : Memo \cup {None}, status : Status, proof : RowId \cup {None}]
NoRow  == [id |-> None, memo |-> None, status |-> "NEEDS_INFO", proof |-> None]
Step   == {"new", "check", "find", "upsert", "create", "lookup", "done"}
Reply  == Status \cup {"none", "INVALID_VERIFICATION", "ADDRESS_MISMATCH", "ERROR",
                       "approved", "rejected"}

ATypeOK ==
  /\ DOMAIN verification \subseteq RowId
  /\ \A v \in DOMAIN verification :
       verification[v] \in [account : Account, verified : BOOLEAN]
  /\ customer \in [Account -> Row \cup {NoRow}]
  /\ pc \in [Request -> Step]
  /\ ask \in [Request -> [account : Account \cup {None}, memo : Memo \cup {None},
                          proof : RowId \cup {None}, to : SUBSET Account]]
  /\ \A r \in Put : pc[r] # "new" => ask[r].account \in Account
  /\ found \in [Put -> BOOLEAN]
  /\ left \in [Approve -> SUBSET Account]
  /\ answer \in [Request -> [status : Reply, id : Put \cup {None}]]

AInit ==
  /\ verification = [v \in {} |-> None]
  /\ customer = [a \in Account |-> NoRow]
  /\ pc = [r \in Request |-> "new"]
  /\ ask = [r \in Request |-> [account |-> None, memo |-> None, proof |-> None, to |-> {}]]
  /\ found = [r \in Put |-> FALSE]
  /\ left = [r \in Approve |-> {}]
  /\ answer = [r \in Request |-> [status |-> "none", id |-> None]]
-----------------------------------------------------------------------------
Goto(r, from, to) == pc[r] = from /\ pc' = [pc EXCEPT ![r] = to] /\ UNCHANGED answer

Finish(r, from, status, id) ==
  /\ pc[r] = from
  /\ pc' = [pc EXCEPT ![r] = "done"]
  /\ answer' = [answer EXCEPT ![r] = [status |-> status, id |-> id]]

Exists(a) == customer[a] # NoRow

(* The verify flow records what it has settled.                             *)
RecordVerification(v) ==
  /\ v \notin DOMAIN verification
  /\ \E a \in Account, ok \in BOOLEAN :
       verification' = [u \in DOMAIN verification \cup {v} |->
                          IF u = v THEN [account |-> a, verified |-> ok] ELSE verification[u]]
  /\ UNCHANGED <<customer, pc, ask, found, left, answer>>
-----------------------------------------------------------------------------
(* GET: findUnique by id, or findCustomerByAccount.  A row answers its id   *)
(* and status; with none the answer is NEEDS_INFO and the id "pending".      *)
GetCustomer(r) ==
  /\ \E a \in Account :   \* an id is that of some account's row
       /\ ask' = [ask EXCEPT ![r].account = a]
       /\ Finish(r, "new", customer[a].status, customer[a].id)
  /\ UNCHANGED <<verification, customer, found, left>>

StartPut(r) ==
  /\ \E a \in Account, m \in Memo \cup {None}, v \in RowId \cup {None} :
       /\ ask' = [ask EXCEPT ![r].account = a, ![r].memo = m, ![r].proof = v]
       /\ Goto(r, "new", IF v = None THEN "find" ELSE "check")
  /\ UNCHANGED <<verification, customer, found, left>>

IsPassed(v) == v \in DOMAIN verification /\ verification[v].verified

CheckProofOnly(r) ==   \* mutant: a verification of any account will do
  LET v == ask[r].proof
  IN /\ \/ ~IsPassed(v) /\ Finish(r, "check", "INVALID_VERIFICATION", None)
        \/ IsPassed(v) /\ Goto(r, "check", "find")
     /\ UNCHANGED <<verification, customer, ask, found, left>>

CheckProof(r) ==
  LET v == ask[r].proof
  IN /\ \/ ~IsPassed(v) /\ Finish(r, "check", "INVALID_VERIFICATION", None)
        \/ /\ IsPassed(v)
           /\ IF verification[v].account = ask[r].account
              THEN Goto(r, "check", "find")
              ELSE Finish(r, "check", "ADDRESS_MISMATCH", None)
     /\ UNCHANGED <<verification, customer, ask, found, left>>

(* findCustomerByAccount.  It prefers the row with the memo, then a row     *)
(* without one, then the newest: as an account has one row at most, each of *)
(* the three is that row.  A PUT without a verification answers what it     *)
(* found.                                                                   *)
FindCustomer(r) ==
  LET c == customer[ask[r].account]
  IN /\ pc[r] = "find"
     /\ found' = [found EXCEPT ![r] = Exists(ask[r].account)]
     /\ \/ ask[r].proof # None /\ Goto(r, "find", "upsert")
        \/ ask[r].proof = None /\ found'[r] /\ Finish(r, "find", c.status, c.id)
        \/ ask[r].proof = None /\ ~found'[r] /\ Goto(r, "find", "create")
     /\ UNCHANGED <<verification, customer, ask, left>>

(* upsert: by the id of the row found, or by the account.                   *)
UpsertCustomer(r) ==
  LET a  == ask[r].account
      id == IF Exists(a) THEN customer[a].id ELSE r
  IN /\ pc[r] = "upsert"
     /\ customer' = [customer EXCEPT ![a] =
                       [id |-> id, memo |-> ask[r].memo,
                        status |-> "ACCEPTED", proof |-> ask[r].proof]]
     /\ Finish(r, "upsert", "ACCEPTED", id)
     /\ UNCHANGED <<verification, ask, found, left>>

(* create: the unique account refuses a second row, which nothing catches.  *)
RowOfAccount(r) ==   \* mutant: the account serves as the id
  [id |-> ask[r].account, memo |-> ask[r].memo, status |-> "NEEDS_INFO", proof |-> None]

NeedsInfoRow(r) == [id |-> r, memo |-> ask[r].memo, status |-> "NEEDS_INFO", proof |-> None]

CreateOrReset(r) ==   \* mutant: an upsert that sets the status of the row there is
  LET a  == ask[r].account
      id == IF Exists(a) THEN customer[a].id ELSE r
  IN /\ pc[r] = "create"
     /\ customer' = [customer EXCEPT ![a] = [NeedsInfoRow(r) EXCEPT !.id = id]]
     /\ Finish(r, "create", "NEEDS_INFO", id)
     /\ UNCHANGED <<verification, ask, found, left>>

CreateCustomer(r) ==
  LET a == ask[r].account
  IN /\ pc[r] = "create"
     /\ \/ Exists(a) /\ UNCHANGED customer /\ Finish(r, "create", "ERROR", None)
        \/ /\ ~Exists(a)
           /\ customer' = [customer EXCEPT ![a] = NeedsInfoRow(r)]
           /\ Finish(r, "create", "NEEDS_INFO", r)
     /\ UNCHANGED <<verification, ask, found, left>>
-----------------------------------------------------------------------------
(* SEP-8: the operations of the envelope are read before the first await.   *)
(* One that is no payment, or pays a foreign asset, or a fee bump, is       *)
(* rejected, and so is an envelope without a regulated payment.             *)
StartApprove(r) ==
  /\ \E to \in SUBSET Account, supported \in BOOLEAN :
       /\ ask' = [ask EXCEPT ![r].to = to]
       /\ left' = [left EXCEPT ![r] = to]
       /\ IF supported /\ to # {} THEN Goto(r, "new", "lookup")
                                  ELSE Finish(r, "new", "rejected", None)
  /\ UNCHANGED <<verification, customer, found>>

IsVerified(a) ==
  \E v \in DOMAIN verification : verification[v].account = a /\ verification[v].verified

(* findFirst for one destination; the last one signs.                       *)
LookUpLast(r) ==   \* mutant: the last destination decides for all of them
  /\ \E a \in left[r] :
       \/ left[r] = {a} /\ ~IsVerified(a) /\ UNCHANGED left /\ Finish(r, "lookup", "rejected", None)
       \/ /\ left[r] # {a} \/ IsVerified(a)
          /\ left' = [left EXCEPT ![r] = @ \ {a}]
          /\ IF left[r] = {a} THEN Finish(r, "lookup", "approved", None)
                              ELSE Goto(r, "lookup", "lookup")
  /\ UNCHANGED <<verification, customer, ask, found>>

LookUp(r) ==
  /\ \E a \in left[r] :
       \/ ~IsVerified(a) /\ UNCHANGED left /\ Finish(r, "lookup", "rejected", None)
       \/ /\ IsVerified(a)
          /\ left' = [left EXCEPT ![r] = @ \ {a}]
          /\ IF left[r] = {a} THEN Finish(r, "lookup", "approved", None)
                              ELSE Goto(r, "lookup", "lookup")
  /\ UNCHANGED <<verification, customer, ask, found>>

Handle(r) ==
  \/ r \in Get /\ GetCustomer(r)
  \/ r \in Put /\ (StartPut(r) \/ CheckProof(r) \/ FindCustomer(r)
                     \/ UpsertCustomer(r) \/ CreateCustomer(r))
  \/ r \in Approve /\ (StartApprove(r) \/ LookUp(r))

ANext == (\E v \in RowId : RecordVerification(v)) \/ (\E r \in Request : Handle(r))

ASpec == AInit /\ [][ANext]_avars
-----------------------------------------------------------------------------
(* "The verification must be VERIFIED and bound to the same Stellar         *)
(* account" (sep12.service.ts:115), however the PUTs of the account mix.    *)
AcceptedIsVerified ==
  \A a \in Account :
    customer[a].status = "ACCEPTED" =>
      LET v == customer[a].proof
      IN v \in DOMAIN verification /\ verification[v] = [account |-> a, verified |-> TRUE]

(* A customer that a GET or a PUT was told is accepted stays accepted, even *)
(* when a PUT without a verification had found no row before                *)
(* (sep12.service.ts:173-196).                                              *)
AcceptanceIsFinal ==
  \A r \in Customer :
    answer[r].status = "ACCEPTED" => customer[ask[r].account].status = "ACCEPTED"

(* "Create a NEEDS_INFO record so the anchor has a stable customer id"      *)
(* (sep12.service.ts:188): every id ever answered for an account is that of *)
(* its row.                                                                 *)
CustomerIdIsStable ==
  \A r \in Customer :
    answer[r].id # None => answer[r].id = customer[ask[r].account].id

(* A transaction is co-signed only when every regulated destination has a   *)
(* VERIFIED proof, found in whatever order (sep8.service.ts:66-76).         *)
ApprovedAreVerified ==
  \A r \in Approve :
    answer[r].status = "approved" => ask[r].to # {} /\ \A a \in ask[r].to : IsVerified(a)
=============================================================================
