---------------------------- MODULE AnchorProofs ----------------------------
(***************************************************************************)
(* Proofs about the parts around the contracts: Compliance (SEP-12 and       *)
(* SEP-8), Quotes (SEP-38), GateDesk (creating gates) and Setup (seeding,     *)
(* deployment and registration), for any number of processes, requests,       *)
(* posts and users; and about them and the contract side by side, as MCAnchor *)
(* has them.                                                                 *)
(***************************************************************************)
EXTENDS MCAnchor, CredentialRegistryProofs, FiniteSetTheorems, TLAPS

Asked == \A r \in Customer : pc[r] # "new" => ask[r].account \in Account

(* A request has no answer before it is done.                               *)
Unanswered == \A r \in Request : pc[r] # "done" => answer[r] = [status |-> "none", id |-> None]

(* A PUT that has passed the check still has the verification it named.     *)
ProofsStand ==
  \A r \in Put :
    /\ pc[r] = "upsert" => ask[r].proof # None
    /\ pc[r] \in {"find", "upsert"} /\ ask[r].proof # None =>
         /\ ask[r].proof \in DOMAIN verification
         /\ verification[ask[r].proof] = [account |-> ask[r].account, verified |-> TRUE]

(* A SEP-8 request has found every destination it no longer has to look up. *)
LookedUp ==
  \A r \in Approve :
    pc[r] = "lookup" => /\ ask[r].to # {}
                        /\ \A a \in ask[r].to \ left[r] : IsVerified(a)

AInv == /\ ATypeOK /\ Asked /\ Unanswered /\ ProofsStand /\ LookedUp
        /\ AcceptedIsVerified /\ AcceptanceIsFinal /\ CustomerIdIsStable /\ ApprovedAreVerified

LEMMA InitCompliance == AInit => AInv
<1> SUFFICES ASSUME AInit PROVE AInv  OBVIOUS
<1> USE ComplianceAssumption DEF ComplianceAssumption, AInit, Customer, Request, NoRow
<1>1. ATypeOK  BY DEF ATypeOK, Row, Status, Step, Reply
<1>2. Asked /\ Unanswered /\ ProofsStand /\ LookedUp
  BY DEF Asked, Unanswered, ProofsStand, LookedUp
<1>3. AcceptedIsVerified /\ AcceptanceIsFinal /\ CustomerIdIsStable /\ ApprovedAreVerified
  BY DEF AcceptedIsVerified, AcceptanceIsFinal, CustomerIdIsStable, ApprovedAreVerified
<1> QED  BY <1>1, <1>2, <1>3 DEF AInv

LEMMA CustomerFields ==
  ASSUME ATypeOK, NEW a \in Account
  PROVE  customer[a].status \in Status /\ customer[a].id \in Put \cup {None}
BY DEF ATypeOK, Row, NoRow, Status

(* The two ways in which a handler moves on keep pc and answer typed.       *)
LEMMA MovesTyped ==
  ASSUME ATypeOK, NEW r \in Request, NEW from, NEW to \in Step,
         NEW status \in Reply, NEW id \in Put \cup {None},
         Goto(r, from, to) \/ Finish(r, from, status, id)
  PROVE  /\ pc' \in [Request -> Step]
         /\ answer' \in [Request -> [status : Reply, id : Put \cup {None}]]
<1>1. CASE Goto(r, from, to)
  BY <1>1 DEF ATypeOK, Goto
<1>2. CASE Finish(r, from, status, id)
  <2>1. [status |-> status, id |-> id] \in [status : Reply, id : Put \cup {None}]
    OBVIOUS
  <2>2. "done" \in Step  BY DEF Step
  <2> QED  BY <1>2, <2>1, <2>2 DEF ATypeOK, Finish
<1> QED  BY <1>1, <1>2

(* What a start asks for keeps ask typed.                                   *)
LEMMA AskTyped ==
  ASSUME ATypeOK, NEW r \in Request, NEW a \in Account \cup {None},
         NEW m \in Memo \cup {None}, NEW v \in RowId \cup {None}, NEW to \in SUBSET Account
  PROVE  LET all == [Request -> [account : Account \cup {None}, memo : Memo \cup {None},
                                 proof : RowId \cup {None}, to : SUBSET Account]]
         IN /\ ask \in all
            /\ [ask EXCEPT ![r].account = a] \in all
            /\ [ask EXCEPT ![r].account = a, ![r].memo = m, ![r].proof = v] \in all
            /\ [ask EXCEPT ![r].to = to] \in all
<1> DEFINE One == [account : Account \cup {None}, memo : Memo \cup {None},
                   proof : RowId \cup {None}, to : SUBSET Account]
<1>1. ask \in [Request -> One]  BY DEF ATypeOK
<1>2. ask[r] \in One  BY <1>1
<1>3. /\ [ask[r] EXCEPT !.account = a] \in One
      /\ [ask[r] EXCEPT !.account = a, !.memo = m, !.proof = v] \in One
      /\ [ask[r] EXCEPT !.to = to] \in One
  BY <1>2
<1>4. /\ [ask EXCEPT ![r].account = a] = [ask EXCEPT ![r] = [ask[r] EXCEPT !.account = a]]
      /\ [ask EXCEPT ![r].account = a, ![r].memo = m, ![r].proof = v]
           = [ask EXCEPT ![r] = [ask[r] EXCEPT !.account = a, !.memo = m, !.proof = v]]
      /\ [ask EXCEPT ![r].to = to] = [ask EXCEPT ![r] = [ask[r] EXCEPT !.to = to]]
  BY <1>1, <1>2
<1> HIDE DEF One
<1>5. \A x \in One : [ask EXCEPT ![r] = x] \in [Request -> One]
  BY <1>1
<1> QED  BY <1>1, <1>3, <1>4, <1>5 DEF One

LEMMA TypeStep == ASSUME ATypeOK, Unanswered, [ANext]_avars PROVE ATypeOK'
<1> USE ComplianceAssumption DEF ComplianceAssumption, Customer, Request
<1> DEFINE Moved ==
      /\ pc' \in [Request -> Step]
      /\ answer' \in [Request -> [status : Reply, id : Put \cup {None}]]
<1>0. /\ {"check", "find", "upsert", "create", "lookup", "done"} \subseteq Step
      /\ Status \cup {"INVALID_VERIFICATION", "ADDRESS_MISMATCH", "ERROR",
                      "approved", "rejected"} \subseteq Reply
  BY DEF Step, Reply
<1>1. ASSUME NEW v \in RowId, RecordVerification(v) PROVE ATypeOK'
  BY <1>1 DEF RecordVerification, ATypeOK
<1>2. ASSUME NEW r \in Get, GetCustomer(r) PROVE ATypeOK'
  <2> PICK a \in Account :
        /\ ask' = [ask EXCEPT ![r].account = a]
        /\ Finish(r, "new", customer[a].status, customer[a].id)
    BY <1>2 DEF GetCustomer
  <2>1. Moved  BY <1>0, CustomerFields, MovesTyped DEF Status
  <2>2. ask' \in [Request -> [account : Account \cup {None}, memo : Memo \cup {None},
                             proof : RowId \cup {None}, to : SUBSET Account]]
    BY AskTyped DEF ATypeOK
  <2>3. \A q \in Put : pc'[q] = pc[q] /\ ask'[q] = ask[q]
    BY DEF Finish, ATypeOK
  <2> QED  BY <1>2, <2>1, <2>2, <2>3 DEF GetCustomer, ATypeOK
<1>3. ASSUME NEW r \in Put, StartPut(r) PROVE ATypeOK'
  <2> PICK a \in Account, m \in Memo \cup {None}, v \in RowId \cup {None} :
        /\ ask' = [ask EXCEPT ![r].account = a, ![r].memo = m, ![r].proof = v]
        /\ Goto(r, "new", IF v = None THEN "find" ELSE "check")
    BY <1>3 DEF StartPut
  <2>1. Moved  BY <1>0, MovesTyped DEF Reply
  <2>2. ask' \in [Request -> [account : Account \cup {None}, memo : Memo \cup {None},
                             proof : RowId \cup {None}, to : SUBSET Account]]
    BY AskTyped DEF ATypeOK
  <2>3. \A q \in Put : (q # r => pc'[q] = pc[q] /\ ask'[q] = ask[q]) /\ ask'[r].account = a
    BY DEF Goto, ATypeOK
  <2> QED  BY <1>3, <2>1, <2>2, <2>3 DEF StartPut, ATypeOK
<1>4. ASSUME NEW r \in Put, CheckProof(r) PROVE ATypeOK'
  <2>1. Moved  BY <1>0, <1>4, MovesTyped DEF CheckProof
  <2>2. pc[r] = "check" /\ \A q \in Request : q # r => pc'[q] = pc[q]
    BY <1>4 DEF CheckProof, Goto, Finish, ATypeOK
  <2> QED  BY <1>4, <2>1, <2>2 DEF CheckProof, ATypeOK
<1>5. ASSUME NEW r \in Put, FindCustomer(r) PROVE ATypeOK'
  <2>1. pc[r] = "find" /\ ask[r].account \in Account
    BY <1>5 DEF FindCustomer, ATypeOK
  <2>2. Moved  BY <1>0, <1>5, <2>1, CustomerFields, MovesTyped DEF FindCustomer
  <2>3. \A q \in Request : q # r => pc'[q] = pc[q]
    BY <1>5 DEF FindCustomer, Goto, Finish, ATypeOK
  <2> QED  BY <1>5, <2>1, <2>2, <2>3 DEF FindCustomer, Exists, ATypeOK
<1>6. ASSUME NEW r \in Put, UpsertCustomer(r) PROVE ATypeOK'
  <2> DEFINE a  == ask[r].account
             id == IF Exists(a) THEN customer[a].id ELSE r
  <2>1. pc[r] = "upsert" /\ a \in Account /\ ask[r].memo \in Memo \cup {None}
          /\ ask[r].proof \in RowId \cup {None}
    BY <1>6 DEF UpsertCustomer, ATypeOK
  <2>2. id \in Put
    BY <2>1 DEF Exists, ATypeOK, Row
  <2>3. Moved
    BY <1>0, <1>6, <2>2, MovesTyped DEF UpsertCustomer, Status
  <2>4. customer' \in [Account -> Row \cup {NoRow}]
    BY <1>6, <2>1, <2>2 DEF UpsertCustomer, ATypeOK, Row, Status
  <2>5. \A q \in Request : q # r => pc'[q] = pc[q]
    BY <1>6 DEF UpsertCustomer, Finish, ATypeOK
  <2> QED  BY <1>6, <2>1, <2>3, <2>4, <2>5 DEF UpsertCustomer, ATypeOK
<1>7. ASSUME NEW r \in Put, CreateCustomer(r) PROVE ATypeOK'
  <2>1. pc[r] = "create" /\ ask[r].account \in Account /\ ask[r].memo \in Memo \cup {None}
    BY <1>7 DEF CreateCustomer, ATypeOK
  <2>2. Moved  BY <1>0, <1>7, MovesTyped DEF CreateCustomer, Status
  <2>3. customer' \in [Account -> Row \cup {NoRow}]
    BY <1>7, <2>1 DEF CreateCustomer, NeedsInfoRow, ATypeOK, Row, Status
  <2>4. \A q \in Request : q # r => pc'[q] = pc[q]
    BY <1>7 DEF CreateCustomer, Finish, ATypeOK
  <2> QED  BY <1>7, <2>1, <2>2, <2>3, <2>4 DEF CreateCustomer, ATypeOK
<1>8. ASSUME NEW r \in Approve, StartApprove(r) PROVE ATypeOK'
  <2> PICK to \in SUBSET Account, supported \in BOOLEAN :
        /\ ask' = [ask EXCEPT ![r].to = to]
        /\ left' = [left EXCEPT ![r] = to]
        /\ IF supported /\ to # {} THEN Goto(r, "new", "lookup")
                                   ELSE Finish(r, "new", "rejected", None)
    BY <1>8 DEF StartApprove
  <2>1. Moved  BY <1>0, MovesTyped
  <2>2. ask' \in [Request -> [account : Account \cup {None}, memo : Memo \cup {None},
                             proof : RowId \cup {None}, to : SUBSET Account]]
    BY AskTyped DEF ATypeOK
  <2>3. \A q \in Put : pc'[q] = pc[q] /\ ask'[q] = ask[q]
    BY DEF Goto, Finish, ATypeOK
  <2> QED  BY <1>8, <2>1, <2>2, <2>3 DEF StartApprove, ATypeOK
<1>9. ASSUME NEW r \in Approve, LookUp(r) PROVE ATypeOK'
  <2>1. Moved  BY <1>0, <1>9, MovesTyped DEF LookUp
  <2>2. \A q \in Put : pc'[q] = pc[q]
    BY <1>9 DEF LookUp, Goto, Finish, ATypeOK
  <2>3. left' \in [Approve -> SUBSET Account]
    BY <1>9 DEF LookUp, ATypeOK
  <2> QED  BY <1>9, <2>1, <2>2, <2>3 DEF LookUp, ATypeOK
<1>10. CASE UNCHANGED avars
  BY <1>10 DEF avars, ATypeOK
<1> QED
  BY <1>1, <1>2, <1>3, <1>4, <1>5, <1>6, <1>7, <1>8, <1>9, <1>10 DEF ANext, Handle

(* A verification that was recorded is never changed.                       *)
LEMMA VerificationsStay ==
  ASSUME [ANext]_avars
  PROVE  /\ \A v \in DOMAIN verification :
              v \in DOMAIN verification' /\ verification'[v] = verification[v]
         /\ \A a : IsVerified(a) => IsVerified(a)'
<1>1. \A v \in DOMAIN verification :
        v \in DOMAIN verification' /\ verification'[v] = verification[v]
  BY DEF ANext, Handle, RecordVerification, GetCustomer, StartPut, CheckProof, FindCustomer,
         UpsertCustomer, CreateCustomer, StartApprove, LookUp, avars
<1> QED  BY <1>1 DEF IsVerified

(* A row that exists is known by its id.                                     *)
LEMMA ExistsById ==
  ASSUME ATypeOK, NEW a \in Account
  PROVE  /\ customer[a] # NoRow <=> customer[a].id # None
         /\ customer[a] = NoRow => customer[a].status = "NEEDS_INFO"
BY ComplianceAssumption DEF ComplianceAssumption, ATypeOK, Row, NoRow

(* A row keeps its id, and its acceptance.                                  *)
LEMMA RowsStay ==
  ASSUME ATypeOK, [ANext]_avars, NEW a \in Account
  PROVE  /\ customer[a].id # None => customer'[a].id = customer[a].id
         /\ customer[a].status = "ACCEPTED" => customer'[a].status = "ACCEPTED"
<1> DEFINE Stays == /\ customer[a].id # None => customer'[a].id = customer[a].id
                    /\ customer[a].status = "ACCEPTED" => customer'[a].status = "ACCEPTED"
<1>1. ASSUME NEW r \in Put, UpsertCustomer(r) PROVE Stays
  <2>1. customer \in [Account -> Row \cup {NoRow}]  BY DEF ATypeOK
  <2>2. CASE a # ask[r].account
    BY <1>1, <2>1, <2>2 DEF UpsertCustomer
  <2>3. CASE a = ask[r].account
    <3>1. customer'[a] = [id |-> IF Exists(a) THEN customer[a].id ELSE r, memo |-> ask[r].memo,
                          status |-> "ACCEPTED", proof |-> ask[r].proof]
      BY <1>1, <2>1, <2>3 DEF UpsertCustomer
    <3>2. customer[a].id # None => Exists(a)
      BY ExistsById DEF Exists
    <3> QED  BY <3>1, <3>2
  <2> QED  BY <2>2, <2>3
<1>2. ASSUME NEW r \in Put, CreateCustomer(r) PROVE Stays
  <2>1. customer \in [Account -> Row \cup {NoRow}]  BY DEF ATypeOK
  <2>2. customer'[a] = customer[a] \/ customer[a] = NoRow
    BY <1>2, <2>1 DEF CreateCustomer, Exists
  <2> QED  BY <2>2, ExistsById
<1> QED
  BY <1>1, <1>2 DEF ANext, Handle, RecordVerification, GetCustomer, StartPut, CheckProof,
         FindCustomer, StartApprove, LookUp, avars

(* A request that has begun keeps what it asked for, and one that is done   *)
(* its answer.                                                              *)
LEMMA RequestsStay ==
  ASSUME ATypeOK, [ANext]_avars, NEW r \in Request
  PROVE  /\ pc[r] # "new" => pc'[r] # "new" /\ ask'[r] = ask[r]
         /\ pc[r] = "done" => pc'[r] = "done" /\ answer'[r] = answer[r]
<1> USE ComplianceAssumption DEF ComplianceAssumption, ATypeOK, Customer, Request, Goto, Finish
<1>1. ASSUME NEW v \in RowId, RecordVerification(v) PROVE UNCHANGED <<pc, ask, answer>>
  BY <1>1 DEF RecordVerification
<1>2. ASSUME NEW q \in Request, Handle(q)
      PROVE  /\ pc[q] # "new" => ask' = ask
             /\ pc[q] # "done"
             /\ \A x \in Request : x # q => pc'[x] = pc[x] /\ ask'[x] = ask[x] /\ answer'[x] = answer[x]
             /\ pc'[q] # "new"
  <2>1. CASE q \in Get /\ GetCustomer(q)  BY <2>1 DEF GetCustomer
  <2>2. CASE q \in Put /\ StartPut(q)  BY <2>2 DEF StartPut
  <2>3. CASE q \in Put /\ CheckProof(q)  BY <2>3 DEF CheckProof
  <2>4. CASE q \in Put /\ FindCustomer(q)  BY <2>4 DEF FindCustomer
  <2>5. CASE q \in Put /\ UpsertCustomer(q)  BY <2>5 DEF UpsertCustomer
  <2>6. CASE q \in Put /\ CreateCustomer(q)  BY <2>6 DEF CreateCustomer
  <2>7. CASE q \in Approve /\ StartApprove(q)  BY <2>7 DEF StartApprove
  <2>8. CASE q \in Approve /\ LookUp(q)  BY <2>8 DEF LookUp
  <2> QED  BY <1>2, <2>1, <2>2, <2>3, <2>4, <2>5, <2>6, <2>7, <2>8 DEF Handle
<1>3. CASE UNCHANGED avars  BY <1>3 DEF avars
<1> QED  BY <1>1, <1>2, <1>3 DEF ANext

(* A step of one request leaves the others where they are.                  *)
LEMMA OthersStay ==
  ASSUME ATypeOK, NEW q \in Request, NEW r \in Request, q # r, Handle(q)
  PROVE  pc'[r] = pc[r] /\ ask'[r] = ask[r] /\ answer'[r] = answer[r]
BY ComplianceAssumption
   DEF ComplianceAssumption, Customer, Request, ATypeOK, Handle, GetCustomer, StartPut, CheckProof,
       FindCustomer, UpsertCustomer, CreateCustomer, StartApprove, LookUp, Goto, Finish

LEMMA AskedStep == ASSUME AInv, [ANext]_avars PROVE Asked'
<1> USE ComplianceAssumption DEF ComplianceAssumption, Customer, Request
<1>1. ATypeOK' /\ ATypeOK  BY TypeStep DEF AInv
<1> SUFFICES ASSUME NEW r \in Get, pc'[r] # "new" PROVE ask'[r].account \in Account
  BY <1>1 DEF Asked, ATypeOK
<1>2. CASE pc[r] # "new"
  BY <1>1, <1>2, RequestsStay DEF AInv, Asked
<1>3. CASE pc[r] = "new"
  <2>1. GetCustomer(r)
    BY <1>1, <1>3, OthersStay DEF ANext, Handle, RecordVerification, avars
  <2> QED  BY <1>1, <2>1 DEF GetCustomer, ATypeOK
<1> QED  BY <1>2, <1>3

LEMMA UnansweredStep == ASSUME AInv, [ANext]_avars PROVE Unanswered'
<1> USE ComplianceAssumption DEF ComplianceAssumption, Customer, Request, AInv, ATypeOK, Unanswered
<1>1. ASSUME NEW q \in Request, Handle(q) PROVE Unanswered'
  BY <1>1 DEF Handle, GetCustomer, StartPut, CheckProof, FindCustomer, UpsertCustomer,
         CreateCustomer, StartApprove, LookUp, Goto, Finish
<1> QED  BY <1>1 DEF ANext, RecordVerification, avars

LEMMA ProofsStandStep == ASSUME AInv, [ANext]_avars PROVE ProofsStand'
<1> USE ComplianceAssumption DEF ComplianceAssumption, Customer, Request, AInv
<1> SUFFICES ASSUME NEW r \in Put PROVE
      /\ pc'[r] = "upsert" => ask'[r].proof # None
      /\ pc'[r] \in {"find", "upsert"} /\ ask'[r].proof # None =>
           /\ ask'[r].proof \in DOMAIN verification'
           /\ verification'[ask'[r].proof] = [account |-> ask'[r].account, verified |-> TRUE]
  BY DEF ProofsStand
<1>1. CASE StartPut(r)
  BY <1>1 DEF StartPut, Goto, ATypeOK
<1>2. CASE CheckProof(r)
  <2>1. CASE pc'[r] = "find"
    <3>1. LET v == ask[r].proof
          IN v \in DOMAIN verification /\ verification[v].verified
               /\ verification[v].account = ask[r].account
      BY <1>2, <2>1 DEF CheckProof, IsPassed, Goto, Finish, ATypeOK
    <3> QED  BY <1>2, <2>1, <3>1 DEF CheckProof, ATypeOK
  <2> QED  BY <1>2, <2>1 DEF CheckProof, Goto, Finish, ATypeOK
<1>3. CASE FindCustomer(r)
  BY <1>3 DEF FindCustomer, Goto, Finish, ATypeOK, ProofsStand
<1>4. CASE UpsertCustomer(r) \/ CreateCustomer(r)
  BY <1>4 DEF UpsertCustomer, CreateCustomer, Finish, ATypeOK
<1>5. CASE pc'[r] = pc[r] /\ ask'[r] = ask[r]
  BY <1>5, VerificationsStay DEF ProofsStand
<1>6. ASSUME NEW q \in Request, Handle(q), q # r PROVE pc'[r] = pc[r] /\ ask'[r] = ask[r]
  BY <1>6, OthersStay
<1> QED
  BY <1>1, <1>2, <1>3, <1>4, <1>5, <1>6 DEF ANext, Handle, RecordVerification, avars

LEMMA LookedUpStep == ASSUME AInv, [ANext]_avars PROVE LookedUp' /\ ApprovedAreVerified'
<1> USE ComplianceAssumption DEF ComplianceAssumption, Customer, Request, AInv
<1> SUFFICES ASSUME NEW r \in Approve PROVE
      /\ pc'[r] = "lookup" => /\ ask'[r].to # {}
                              /\ \A a \in ask'[r].to \ left'[r] : IsVerified(a)'
      /\ answer'[r].status = "approved" =>
           ask'[r].to # {} /\ \A a \in ask'[r].to : IsVerified(a)'
  BY DEF LookedUp, ApprovedAreVerified
<1>1. CASE StartApprove(r)
  BY <1>1 DEF StartApprove, Goto, Finish, ATypeOK, Unanswered
<1>2. CASE LookUp(r)
  <2>1. ask' = ask /\ pc[r] = "lookup"  BY <1>2 DEF LookUp, Goto, Finish
  <2> PICK a \in left[r] :
        \/ ~IsVerified(a) /\ UNCHANGED left /\ Finish(r, "lookup", "rejected", None)
        \/ /\ IsVerified(a)
           /\ left' = [left EXCEPT ![r] = @ \ {a}]
           /\ IF left[r] = {a} THEN Finish(r, "lookup", "approved", None)
                               ELSE Goto(r, "lookup", "lookup")
    BY <1>2 DEF LookUp
  <2>2. ask[r].to # {} /\ \A b \in ask[r].to \ left[r] : IsVerified(b)'
    BY <2>1, VerificationsStay DEF LookedUp
  <2>3. CASE Finish(r, "lookup", "rejected", None)
    BY <2>1, <2>3 DEF Finish, ATypeOK
  <2>4. CASE IsVerified(a) /\ left' = [left EXCEPT ![r] = @ \ {a}]
    <3>1. IsVerified(a)'  BY <2>4, VerificationsStay
    <3>2. left'[r] = left[r] \ {a}  BY <2>4 DEF ATypeOK
    <3>3. CASE Finish(r, "lookup", "approved", None) /\ left[r] = {a}
      BY <2>1, <2>2, <3>1, <3>3 DEF Finish, ATypeOK
    <3>4. CASE Goto(r, "lookup", "lookup")
      BY <2>1, <2>2, <3>1, <3>2, <3>4 DEF Goto, ATypeOK, Unanswered
    <3> QED  BY <2>1, <3>3, <3>4, <2>3
  <2> QED  BY <2>3, <2>4
<1>3. CASE pc'[r] = pc[r] /\ ask'[r] = ask[r] /\ left'[r] = left[r] /\ answer'[r] = answer[r]
  BY <1>3, VerificationsStay DEF LookedUp, ApprovedAreVerified
<1>4. ASSUME NEW q \in Request, Handle(q), q # r
      PROVE  pc'[r] = pc[r] /\ ask'[r] = ask[r] /\ left'[r] = left[r] /\ answer'[r] = answer[r]
  BY <1>4 DEF Handle, GetCustomer, StartPut, CheckProof, FindCustomer, UpsertCustomer,
         CreateCustomer, StartApprove, LookUp, Goto, Finish, ATypeOK
<1> QED
  BY <1>1, <1>2, <1>3, <1>4 DEF ANext, Handle, RecordVerification, avars

LEMMA AcceptedStep == ASSUME AInv, [ANext]_avars PROVE AcceptedIsVerified'
<1> USE ComplianceAssumption DEF ComplianceAssumption, Customer, Request, AInv
<1> SUFFICES ASSUME NEW a \in Account, customer'[a].status = "ACCEPTED"
             PROVE  /\ customer'[a].proof \in DOMAIN verification'
                    /\ verification'[customer'[a].proof] = [account |-> a, verified |-> TRUE]
  BY DEF AcceptedIsVerified
<1>1. CASE customer'[a] = customer[a]
  BY <1>1, VerificationsStay DEF AcceptedIsVerified
<1>2. ASSUME NEW r \in Put, UpsertCustomer(r), customer'[a] # customer[a]
      PROVE  a = ask[r].account /\ customer'[a].proof = ask[r].proof /\ pc[r] = "upsert"
               /\ verification' = verification
  BY <1>2 DEF UpsertCustomer, ATypeOK
<1>3. ASSUME NEW r \in Put, CreateCustomer(r), customer'[a] # customer[a]
      PROVE  customer'[a].status = "NEEDS_INFO"
  BY <1>3 DEF CreateCustomer, NeedsInfoRow, ATypeOK
<1> QED
  BY <1>1, <1>2, <1>3 DEF ProofsStand, ANext, Handle, RecordVerification, GetCustomer, StartPut,
         CheckProof, FindCustomer, StartApprove, LookUp, avars

(* What a request is answered is what the row says at that moment.          *)
LEMMA AnswersAreRead ==
  ASSUME AInv, [ANext]_avars, NEW r \in Customer, pc[r] # "done"
  PROVE  LET c == customer'[ask'[r].account]
         IN /\ answer'[r].status = "ACCEPTED" => c.status = "ACCEPTED"
            /\ answer'[r].id # None => answer'[r].id = c.id
<1> USE ComplianceAssumption DEF ComplianceAssumption, Customer, Request, AInv
<1>1. CASE r \in Get /\ GetCustomer(r)
  <2> PICK a \in Account : /\ ask' = [ask EXCEPT ![r].account = a]
                           /\ Finish(r, "new", customer[a].status, customer[a].id)
    BY <1>1 DEF GetCustomer
  <2>1. ask'[r].account = a  BY DEF ATypeOK
  <2>2. answer'[r] = [status |-> customer[a].status, id |-> customer[a].id]
    BY DEF Finish, ATypeOK
  <2> QED  BY <1>1, <2>1, <2>2 DEF GetCustomer
<1>2. CASE r \in Put /\ StartPut(r)
  <2>1. answer' = answer  BY <1>2 DEF StartPut, Goto
  <2> QED  BY <2>1 DEF Unanswered
<1>3. CASE r \in Put /\ CheckProof(r)
  <2>1. answer' = answer \/ /\ answer'[r].status \in {"INVALID_VERIFICATION", "ADDRESS_MISMATCH"}
                            /\ answer'[r].id = None
    BY <1>3 DEF CheckProof, Goto, Finish, ATypeOK
  <2> QED  BY <2>1 DEF Unanswered
<1>4. CASE r \in Put /\ FindCustomer(r)
  <2> DEFINE c == customer[ask[r].account]
  <2>1. \/ answer' = answer
        \/ answer'[r].status = c.status /\ answer'[r].id = c.id
    BY <1>4 DEF FindCustomer, Goto, Finish, ATypeOK
  <2>2. ask' = ask /\ customer' = customer  BY <1>4 DEF FindCustomer
  <2> QED  BY <2>1, <2>2 DEF Unanswered
<1>5. CASE r \in Put /\ UpsertCustomer(r)
  BY <1>5 DEF UpsertCustomer, Finish, ATypeOK
<1>6. CASE r \in Put /\ CreateCustomer(r)
  BY <1>6 DEF CreateCustomer, NeedsInfoRow, Finish, ATypeOK
<1>7. CASE answer'[r] = answer[r]
  BY <1>7 DEF Unanswered
<1>8. ASSUME NEW q \in Request, Handle(q), q # r PROVE answer'[r] = answer[r]
  BY <1>8, OthersStay
<1> QED
  BY <1>1, <1>2, <1>3, <1>4, <1>5, <1>6, <1>7, <1>8 DEF ANext, Handle, RecordVerification, avars

LEMMA FinalStep == ASSUME AInv, [ANext]_avars PROVE AcceptanceIsFinal' /\ CustomerIdIsStable'
<1> USE DEF Customer, Request, AInv
<1> SUFFICES ASSUME NEW r \in Customer
             PROVE  LET c == customer'[ask'[r].account]
                    IN /\ answer'[r].status = "ACCEPTED" => c.status = "ACCEPTED"
                       /\ answer'[r].id # None => answer'[r].id = c.id
  BY DEF AcceptanceIsFinal, CustomerIdIsStable
<1>1. CASE pc[r] # "done"
  BY <1>1, AnswersAreRead
<1>2. CASE pc[r] = "done"
  <2>1. ask'[r] = ask[r] /\ answer'[r] = answer[r] /\ ask[r].account \in Account
    BY <1>2, RequestsStay DEF Asked
  <2>2. /\ answer[r].status = "ACCEPTED" => customer[ask[r].account].status = "ACCEPTED"
        /\ answer[r].id # None => answer[r].id = customer[ask[r].account].id
    BY DEF AcceptanceIsFinal, CustomerIdIsStable
  <2> QED  BY <2>1, <2>2, RowsStay
<1> QED  BY <1>1, <1>2

LEMMA ComplianceInvariance == ASpec => []AInv
<1>1. AInv /\ [ANext]_avars => AInv'
  BY TypeStep, AskedStep, UnansweredStep, ProofsStandStep, LookedUpStep, AcceptedStep, FinalStep
     DEF AInv
<1> QED  BY InitCompliance, <1>1, PTL DEF ASpec

(* Customers, verifications and requests keep their types.                   *)
THEOREM ComplianceTypeCorrect == ASpec => []ATypeOK
<1>1. AInv => ATypeOK  BY DEF AInv
<1> QED  BY ComplianceInvariance, <1>1, PTL

(* However PUTs mix, an accepted customer has a VERIFIED proof bound to its  *)
(* own account (sep12.service.ts:115-170).                                  *)
THEOREM AcceptanceIsEarned == ASpec => []AcceptedIsVerified
<1>1. AInv => AcceptedIsVerified  BY DEF AInv
<1> QED  BY ComplianceInvariance, <1>1, PTL

(* A customer somebody was told is accepted stays accepted                  *)
(* (sep12.service.ts:173-196).                                              *)
THEOREM AcceptanceStays == ASpec => []AcceptanceIsFinal
<1>1. AInv => AcceptanceIsFinal  BY DEF AInv
<1> QED  BY ComplianceInvariance, <1>1, PTL

(* Every id that was answered for an account is the id of its row           *)
(* (sep12.service.ts:140-209).                                              *)
THEOREM CustomerIdStays == ASpec => []CustomerIdIsStable
<1>1. AInv => CustomerIdIsStable  BY DEF AInv
<1> QED  BY ComplianceInvariance, <1>1, PTL

(* Nothing is co-signed while a destination has no VERIFIED proof           *)
(* (sep8.service.ts:66-78).                                                 *)
THEOREM ApprovalIsEarned == ASpec => []ApprovedAreVerified
<1>1. AInv => ApprovedAreVerified  BY DEF AInv
<1> QED  BY ComplianceInvariance, <1>1, PTL
-----------------------------------------------------------------------------
(* Quotes.  A cached price was stored within `slowest` of its being given,   *)
(* so it expires that much after its time to live at the latest.            *)
CachedInTime == \A q \in Query : cache[q].expires <= cache[q].price + CacheTTL + slowest

(* A request that goes to the anchor knows its query, and the price it is    *)
(* about to store is not from the future.                                   *)
OnItsWay ==
  \A r \in Ask : /\ stage[r] \in {"fetch", "set"} => query[r] \in Query
                 /\ stage[r] = "set" => price[r].price <= now

QInv == QTypeOK /\ CachedInTime /\ OnItsWay /\ PriceIsRecent

LEMMA InitQuotes == QInit => QInv
<1> SUFFICES ASSUME QInit PROVE QInv
  OBVIOUS
<1>1. QTypeOK
  BY DEF QInit, QTypeOK, NoPrice
<1>2. CachedInTime
  BY QuotesAssumption DEF QInit, CachedInTime, NoPrice
<1> QED
  BY <1>1, <1>2 DEF QInit, QInv, OnItsWay, PriceIsRecent

(* The clock moves.                                                         *)
LEMMA PassStep == QInv /\ Pass => QInv'
  BY DEF QInv, QTypeOK, CachedInTime, OnItsWay, PriceIsRecent, Pass, quoteVars

(* A hit is served before it expires.                                       *)
LEMMA ReadStep == ASSUME QInv, NEW r \in Ask, ReadCache(r) PROVE QInv'
<1> USE DEF QInv, QTypeOK
<1>1. PICK q \in Query :
        /\ query' = [query EXCEPT ![r] = q]
        /\ \/ /\ now < cache[q].expires /\ To(r, "new", "cached")
              /\ price' = [price EXCEPT ![r] = [price |-> cache[q].price, served |-> now]]
           \/ now >= cache[q].expires /\ To(r, "new", "fetch") /\ UNCHANGED price
  BY DEF ReadCache
<1>2. UNCHANGED <<cache, now, slowest, quoteVars>>
  BY DEF ReadCache
<1>3. QTypeOK' /\ CachedInTime'
  <2>1. stage' \in [Ask \cup Order \cup Fetch ->
                      {"new", "fetch", "set", "create", "cached", "fresh", "done"}]
    BY <1>1 DEF To
  <2>2. price' \in [Ask -> [price : Nat, served : Nat]] /\ query' \in [Ask -> Query \cup {NoQuote}]
    BY <1>1, <1>2
  <2> QED
    BY <1>2, <2>1, <2>2 DEF CachedInTime, quoteVars
<1>4. CASE now < cache[q].expires
  <2>1. /\ stage[r] = "new" /\ stage' = [stage EXCEPT ![r] = "cached"]
        /\ price' = [price EXCEPT ![r] = [price |-> cache[q].price, served |-> now]]
    BY <1>1, <1>4 DEF To
  <2>2. now - cache[q].price < CacheTTL + slowest
    BY <1>4, QuotesAssumption DEF CachedInTime
  <2>3. OnItsWay'
    BY <1>1, <1>2, <2>1 DEF OnItsWay
  <2>4. PriceIsRecent'
    BY <1>2, <2>1, <2>2 DEF PriceIsRecent
  <2> QED
    BY <1>3, <2>3, <2>4
<1>5. CASE now >= cache[q].expires
  <2>1. stage[r] = "new" /\ stage' = [stage EXCEPT ![r] = "fetch"] /\ UNCHANGED price
    BY <1>1, <1>5 DEF To
  <2> QED
    BY <1>1, <1>2, <1>3, <2>1 DEF OnItsWay, PriceIsRecent
<1> QED
  BY <1>4, <1>5

(* The anchor's price, and its being stored, which may set a new `slowest`.  *)
LEMMA FetchStep == ASSUME QInv, NEW r \in Ask, FetchPrice(r) PROVE QInv'
  BY DEF QInv, QTypeOK, CachedInTime, OnItsWay, PriceIsRecent, FetchPrice, To, quoteVars

LEMMA StoreStep == ASSUME QInv, NEW r \in Ask, StorePrice(r) PROVE QInv'
<1> USE DEF QInv, QTypeOK
<1>1. /\ stage[r] = "set" /\ stage' = [stage EXCEPT ![r] = "fresh"]
      /\ cache' = [cache EXCEPT ![query[r]] =
                     [price |-> price[r].price, expires |-> now + CacheTTL]]
      /\ price' = [price EXCEPT ![r].served = now]
      /\ UNCHANGED <<now, query, quoteVars>>
  BY DEF StorePrice, To
<1>2. /\ slowest' \in Nat /\ slowest <= slowest' /\ now - price[r].price <= slowest'
      /\ query[r] \in Query /\ price[r].price \in Nat /\ price[r].price <= now
  BY <1>1 DEF StorePrice, OnItsWay
<1>3. QTypeOK'
  BY <1>1, <1>2, QuotesAssumption DEF quoteVars
<1>4. CachedInTime'
  BY <1>1, <1>2, QuotesAssumption DEF CachedInTime
<1>5. OnItsWay'
  BY <1>1, <1>2 DEF OnItsWay
<1>6. PriceIsRecent'
  BY <1>1, <1>2, QuotesAssumption DEF PriceIsRecent
<1> QED
  BY <1>3, <1>4, <1>5, <1>6

(* A firm quote has no part in the prices.                                  *)
LEMMA QuoteStep ==
  ASSUME QInv,
         \/ \E o \in Order : RequestQuote(o) \/ KeepQuote(o)
         \/ \E r \in Fetch : FetchQuote(r)
  PROVE  QInv'
<1> USE DEF QInv, QTypeOK
<1>1. /\ UNCHANGED priceVars
      /\ \A r \in Ask : stage'[r] = stage[r] \/ stage'[r] \in {"create", "done"}
  BY DEF RequestQuote, KeepQuote, FetchQuote, To
<1>2. QTypeOK'
  BY <1>1 DEF RequestQuote, KeepQuote, FetchQuote, To, priceVars
<1> QED
  BY <1>1, <1>2 DEF priceVars, CachedInTime, OnItsWay, PriceIsRecent

LEMMA NextQuotes == QInv /\ [QNext]_qvars => QInv'
<1> SUFFICES ASSUME QInv, [QNext]_qvars PROVE QInv'
  OBVIOUS
<1>1. CASE UNCHANGED qvars
  BY <1>1 DEF qvars, priceVars, quoteVars, QInv, QTypeOK, CachedInTime, OnItsWay, PriceIsRecent
<1>2. CASE QNext
  BY <1>2, PassStep, ReadStep, FetchStep, StoreStep, QuoteStep DEF QNext
<1> QED
  BY <1>1, <1>2

LEMMA QuotesInvariance == QSpec => []QInv
  BY InitQuotes, NextQuotes, PTL DEF QSpec

(* The cache, the requests for prices and the quotes keep their types.      *)
THEOREM QuotesTypeCorrect == QSpec => []QTypeOK
  BY QuotesInvariance, PTL DEF QInv

(* However late the anchor's answers and however they overwrite one another  *)
(* in the cache, a price served from it is younger than its time to live and *)
(* the slowest call together (sep38.service.ts:142-156).                    *)
THEOREM PricesAreRecent == QSpec => []PriceIsRecent
  BY QuotesInvariance, PTL DEF QInv
-----------------------------------------------------------------------------
(* The effects of the form: a flag has no asset, any other reward has one.  *)
DraftInv == draft.config = Unset <=> draft.rewardType = "FLAG"

(* A request is answered when its handler is done, and CREATED for the row   *)
(* it made; what it asks for is validated before the row is made.           *)
PostInv(p) ==
  /\ at[p] = "done" <=> reply[p] # "none"
  /\ p \in gates <=> reply[p] = "CREATED"
  /\ at[p] = "create" \/ p \in gates => RouteValid(payload[p])

(* A request of the form asks for what the form held when it was valid.     *)
SentInv(p) ==
  /\ at[p] # "new"
  /\ FormValid(payload[p])
  /\ payload[p].config = Unset <=> payload[p].rewardType = "FLAG"

OneGatePerSlug ==
  \A p, q \in gates : payload[p].slug = payload[q].slug => p = q

(* Each timer is of a request that the form no longer waits for.            *)
TimersOfAnswers ==
  /\ waiting # NoPost => waiting \in sent
  /\ timers \in Nat
  /\ timers + (IF waiting = NoPost THEN 0 ELSE 1) <= Cardinality(sent)

(* What the form announces is a gate, and a timer will clear it.            *)
Announced ==
  /\ done # NoPost => done \in gates /\ timers > 0
  /\ notice = "success" => done # NoPost

DeskInv ==
  /\ GateDeskTypeOK
  /\ DraftInv
  /\ \A p \in Post : PostInv(p)
  /\ \A p \in sent : SentInv(p)
  /\ OneGatePerSlug
  /\ TimersOfAnswers
  /\ Announced
-----------------------------------------------------------------------------
LEMMA SentFinite ==
  ASSUME sent \subseteq Post
  PROVE  IsFiniteSet(sent) /\ Cardinality(sent) \in Nat /\ Cardinality(sent) <= Cardinality(Post)
  BY GateDeskAssumption, FS_Subset, FS_CardinalityType

LEMMA InitDesk == GateDeskInit => DeskInv
<1> SUFFICES ASSUME GateDeskInit PROVE DeskInv
  OBVIOUS
<1>1. BlankDraft \in PayloadType
  BY DEF BlankDraft, PayloadType, FreshConfig, AssetEntry, RewardType
<1>2. 0 \in 0 .. Cardinality(Post) /\ Cardinality({}) = 0
  <2>1. IsFiniteSet(Post)
    BY GateDeskAssumption
  <2>2. Cardinality(Post) \in Nat
    BY <2>1, FS_CardinalityType
  <2> QED
    BY <2>2, FS_EmptySet
<1>3. GateDeskTypeOK
  BY <1>1, <1>2 DEF GateDeskInit, GateDeskTypeOK
<1>4. DraftInv
  BY DEF GateDeskInit, DraftInv, BlankDraft, FreshConfig, Unset
<1>5. TimersOfAnswers
  BY <1>2 DEF GateDeskInit, TimersOfAnswers
<1> QED
  BY <1>3, <1>4, <1>5 DEF GateDeskInit, DeskInv, PostInv, SentInv, OneGatePerSlug, Announced

(* Editing the form.                                                        *)
LEMMA EditStep ==
  ASSUME DeskInv, NEW new, Edit(new), new \in PayloadType,
         new.config = Unset <=> new.rewardType = "FLAG"
  PROVE  DeskInv'
  BY DEF DeskInv, GateDeskTypeOK, DraftInv, PostInv, SentInv, OneGatePerSlug,
         TimersOfAnswers, Announced, Edit

LEMMA FormStep ==
  ASSUME DeskInv,
         \/ \E t \in Title \cup {""} : EditTitle(t)
         \/ \E P \in Predicates : EditPredicates(P)
         \/ \E e \in Entry : EditAsset(e)
         \/ \E r \in RewardType : ChooseReward(r)
  PROVE  DeskInv'
<1> USE DEF DeskInv, GateDeskTypeOK, DraftInv
<1>1. ASSUME NEW t \in Title \cup {""}, EditTitle(t) PROVE DeskInv'
  <2> DEFINE new == [draft EXCEPT !.title = t, !.slug = IF t = "" THEN @ ELSE SlugOf[t]]
  <2>1. new \in PayloadType
    BY DEF PayloadType
  <2>2. new.config = draft.config /\ new.rewardType = draft.rewardType
    BY DEF PayloadType
  <2> QED
    BY <1>1, <2>1, <2>2, EditStep DEF EditTitle
<1>2. ASSUME NEW P \in Predicates, EditPredicates(P) PROVE DeskInv'
  <2> DEFINE new == [draft EXCEPT !.predicates = P]
  <2>1. new \in PayloadType /\ new.config = draft.config /\ new.rewardType = draft.rewardType
    BY DEF PayloadType
  <2> QED
    BY <1>2, <2>1, EditStep DEF EditPredicates
<1>3. ASSUME NEW e \in Entry, EditAsset(e) PROVE DeskInv'
  <2> DEFINE new == [draft EXCEPT !.config = e]
  <2>1. e \in AssetEntry /\ e # Unset
    <3>1. e \in AssetEntry
      BY GateDeskAssumption
    <3>2. e.code # "none" /\ Unset.code = "none"
      BY <3>1 DEF AssetEntry, Unset
    <3> QED
      BY <3>1, <3>2
  <2>2. new \in PayloadType /\ new.config = e /\ new.rewardType = draft.rewardType
    BY <2>1 DEF PayloadType
  <2> QED
    BY <1>3, <2>1, <2>2, EditStep DEF EditAsset
<1>4. ASSUME NEW r \in RewardType, ChooseReward(r) PROVE DeskInv'
  <2> DEFINE new == [draft EXCEPT !.rewardType = r, !.config = FreshConfig(r)]
  <2>1. FreshConfig(r) \in AssetEntry \cup {Unset} /\ (FreshConfig(r) = Unset <=> r = "FLAG")
    BY DEF FreshConfig, RewardType, AssetEntry, Unset
  <2>2. new \in PayloadType /\ new.config = FreshConfig(r) /\ new.rewardType = r
    BY <2>1 DEF PayloadType
  <2> QED
    BY <1>4, <2>1, <2>2, EditStep DEF ChooseReward
<1> QED
  BY <1>1, <1>2, <1>3, <1>4

(* Submit: the request is one that nobody has sent.                         *)
LEMMA SubmitStep == DeskInv /\ Submit => DeskInv'
<1> SUFFICES ASSUME DeskInv, Submit PROVE DeskInv'
  OBVIOUS
<1> USE DEF DeskInv, GateDeskTypeOK
<1>1. PICK p \in Post : waiting' = p /\ sent' = sent \cup {p} /\ Deliver(p, draft)
  BY DEF Submit
<1>2. /\ waiting = NoPost /\ FormValid(draft) /\ notice' = "idle" /\ at[p] = "new"
      /\ payload' = [payload EXCEPT ![p] = draft] /\ at' = [at EXCEPT ![p] = "find"]
      /\ UNCHANGED <<draft, done, timers, reply, gates>>
  BY <1>1 DEF Submit, Deliver
<1>3. GateDeskTypeOK'
  BY <1>1, <1>2
<1>4. p \notin sent /\ p \notin gates /\ reply[p] = "none"
  BY <1>2 DEF SentInv, PostInv
<1>5. \A q \in Post : PostInv(q)'
  BY <1>2, <1>4 DEF PostInv, RouteValid
<1>6. \A q \in sent' : SentInv(q)'
  BY <1>1, <1>2 DEF SentInv, FormValid, DraftInv
<1>7. OneGatePerSlug'
  BY <1>2, <1>4 DEF OneGatePerSlug
<1>8. TimersOfAnswers'
  <2>1. Cardinality(sent') = Cardinality(sent) + 1 /\ Cardinality(sent) \in Nat
    BY <1>1, <1>4, SentFinite, FS_AddElement
  <2> QED
    BY <1>1, <1>2, <2>1 DEF TimersOfAnswers
<1> QED
  BY <1>2, <1>3, <1>5, <1>6, <1>7, <1>8 DEF DraftInv, Announced

(* The answer, its loss, and the timers.                                    *)
LEMMA AnswerStep == DeskInv /\ (Hear \/ Lose \/ TimerFires) => DeskInv'
<1> SUFFICES ASSUME DeskInv, Hear \/ Lose \/ TimerFires PROVE DeskInv'
  OBVIOUS
<1> USE DEF DeskInv, GateDeskTypeOK
<1>1. UNCHANGED <<draft, sent, payload, at, reply, gates>>
  BY DEF Hear, Lose, TimerFires
<1>2. /\ DraftInv' /\ OneGatePerSlug' /\ \A p \in Post : PostInv(p)'
      /\ \A p \in sent' : SentInv(p)'
  BY <1>1 DEF DraftInv, OneGatePerSlug, PostInv, SentInv
<1>3. sent \subseteq Post /\ Cardinality(sent) \in Nat
      /\ Cardinality(sent) <= Cardinality(Post) /\ Cardinality(Post) \in Nat
  BY SentFinite, GateDeskAssumption, FS_CardinalityType
<1>4. TimersOfAnswers' /\ timers' <= Cardinality(sent)
  BY <1>1, <1>3 DEF TimersOfAnswers, Hear, Lose, TimerFires
<1>5. timers' \in 0 .. Cardinality(Post)
  BY <1>3, <1>4 DEF TimersOfAnswers
<1>6. Announced'
  <2>1. CASE Hear
    BY <1>1, <2>1 DEF Hear, Announced, PostInv, TimersOfAnswers
  <2>2. CASE Lose \/ TimerFires
    BY <1>1, <2>2 DEF Lose, TimerFires, Announced
  <2> QED
    BY <2>1, <2>2
<1>7. /\ waiting' \in Post \cup {NoPost} /\ notice' \in {"idle", "success", "error"}
      /\ done' \in Post \cup {NoPost}
  BY DEF Hear, Lose, TimerFires
<1> QED
  BY <1>1, <1>2, <1>4, <1>5, <1>6, <1>7

(* The route.                                                               *)
LEMMA RouteStep ==
  ASSUME DeskInv, NEW p \in Post,
         \/ FindSlug(p) \/ CreateGate(p) \/ Throws(p)
         \/ \E r \in Rival : Deliver(p, r) /\ UNCHANGED <<reply, gates>>,
         UNCHANGED formVars
  PROVE  DeskInv'
<1> USE DEF DeskInv, GateDeskTypeOK
<1>0. PostInv(p)
  OBVIOUS
<1>1. CASE \E r \in Rival : Deliver(p, r) /\ UNCHANGED <<reply, gates>>
  <2>1. PICK r \in PayloadType :
          at[p] = "new" /\ payload' = [payload EXCEPT ![p] = r] /\ at' = [at EXCEPT ![p] = "find"]
    BY <1>1, GateDeskAssumption DEF Deliver
  <2>2. p \notin gates /\ p \notin sent
    BY <1>0, <2>1 DEF PostInv, SentInv
  <2>3. /\ DraftInv' /\ OneGatePerSlug' /\ \A q \in Post : PostInv(q)'
        /\ \A q \in sent' : SentInv(q)'
    BY <1>0, <1>1, <2>1, <2>2 DEF DraftInv, OneGatePerSlug, PostInv, SentInv, formVars
  <2> QED
    BY <1>1, <2>1, <2>3 DEF TimersOfAnswers, Announced, formVars
<1>2. CASE FindSlug(p) \/ CreateGate(p) \/ Throws(p)
  <2>1. /\ UNCHANGED payload /\ p \notin gates /\ reply[p] = "none" /\ at[p] # "new"
        /\ at'[p] # "new" /\ \A q \in Post : q # p => at'[q] = at[q] /\ reply'[q] = reply[q]
        /\ at' \in [Post -> {"new", "find", "create", "done"}]
        /\ reply' \in [Post -> {"none", "CREATED", "VALIDATION", "GATE_SLUG_TAKEN", "ERROR"}]
    BY <1>0, <1>2 DEF FindSlug, CreateGate, Throws, Respond, PostInv
  <2>2. \/ gates' = gates
        \/ gates' = gates \cup {p} /\ SameSlug(p) = {} /\ at[p] = "create"
    BY <1>2 DEF FindSlug, CreateGate, Throws
  <2>3. PostInv(p)'
    BY <1>0, <1>2 DEF FindSlug, CreateGate, Throws, Respond, PostInv
  <2>4. ASSUME NEW q \in Post, q # p PROVE PostInv(q)'
    <3>1. q \in gates' <=> q \in gates
      BY <2>2, <2>4
    <3> QED
      BY <2>1, <2>4, <3>1 DEF PostInv
  <2>5. OneGatePerSlug'
    BY <2>1, <2>2 DEF OneGatePerSlug, SameSlug
  <2>6. \A q \in sent' : SentInv(q)'
    BY <2>1 DEF SentInv, formVars
  <2> QED
    BY <2>1, <2>2, <2>3, <2>4, <2>5, <2>6 DEF DraftInv, TimersOfAnswers, Announced, formVars
<1> QED
  BY <1>1, <1>2

LEMMA NextDesk == DeskInv /\ [GateDeskNext]_gateDeskVars => DeskInv'
<1> SUFFICES ASSUME DeskInv, [GateDeskNext]_gateDeskVars PROVE DeskInv'
  OBVIOUS
<1>1. CASE UNCHANGED gateDeskVars
  BY <1>1 DEF gateDeskVars, formVars, DeskInv, GateDeskTypeOK, DraftInv, PostInv, SentInv,
              OneGatePerSlug, TimersOfAnswers, Announced, SameSlug
<1>2. CASE Arrive
  BY <1>2, RouteStep DEF Arrive
<1>3. ASSUME NEW p \in Post, FindSlug(p) \/ CreateGate(p) \/ Throws(p) PROVE DeskInv'
  <2>1. UNCHANGED formVars
    BY <1>3 DEF FindSlug, CreateGate, Throws
  <2> QED
    BY <1>3, <2>1, RouteStep
<1> QED
  BY <1>1, <1>2, <1>3, FormStep, SubmitStep, AnswerStep DEF GateDeskNext

LEMMA DeskInvariance == GateDeskSpec => []DeskInv
  BY InitDesk, NextDesk, PTL DEF GateDeskSpec

(* The form, its requests and the gates keep their types.                   *)
THEOREM DeskTypeCorrect == GateDeskSpec => []GateDeskTypeOK
  BY DeskInvariance, PTL DEF DeskInv

(* createGate: whoever else posts the same slug at the same time, a gate     *)
(* that was answered CREATED is the one gate of its slug; the form announces *)
(* no other, and has a timer left to clear what it announces.               *)
THEOREM CreatedGatesAreThere == GateDeskSpec => []CreatedGatesStand
<1>1. DeskInv => CreatedGatesStand
  BY DEF DeskInv, PostInv, OneGatePerSlug, Announced, CreatedGatesStand, SameSlug, GateDeskTypeOK
<1> QED
  BY <1>1, DeskInvariance, PTL

(* Effects, the form's schema and the route's rule together: whatever is     *)
(* edited while a request is in flight, a gate from the form has the values   *)
(* of its predicates, and the asset and the amount of its kind of reward and *)
(* nothing left over from another (GateForm.tsx:110-118).                    *)
THEOREM FormGatesHaveTheirParts == GateDeskSpec => []FormGatesAreComplete
<1>1. DeskInv => FormGatesAreComplete
  BY DEF DeskInv, PostInv, SentInv, FormGatesAreComplete, FormValid, RouteValid,
         GateDeskTypeOK
<1> QED
  BY <1>1, DeskInvariance, PTL
-----------------------------------------------------------------------------
(* Setup.  A run of the deploy script that has got past `initialize` won it, *)
(* and who holds a registry's roles never changes.                          *)
DeployInv ==
  /\ \A d \in Deploy :
       deploying[d] \in {"initialized", "verifier", "done"} => roleHolder[d] = "us"
  /\ EnvRegistryIsOurs

(* What a seed run has found or made by each of its steps is there; unless   *)
(* two runs have overlapped there is one of each at most, and none when a    *)
(* run has found none.                                                      *)
AtMostOne(S) == \A x, y \in S : x = y

SeedInv(s) ==
  /\ seeding[s] \notin {"new", "admin", "dead"} => users[AdminName] # NoUser
  /\ seeding[s] \in {"tree", "createTree", "gate", "done"} => issuers # {}
  /\ seeding[s] \in {"gate", "done"} => trees # {}
  /\ seeding[s] = "done" => demoGate
  /\ ~overlap /\ seeding[s] = "createIssuer" => issuers = {}
  /\ ~overlap /\ seeding[s] = "createTree" => trees = {}
  /\ ~overlap /\ AtWork(s) => \A t \in Seed : AtWork(t) => t = s

(* A row is a seeded admin's or a holder's, and a session is of a row.       *)
UsersInv ==
  /\ \A u \in Username : users[u] \in {NoUser, [by |-> "seed", role |-> "ADMIN"],
                                       [by |-> "holder", role |-> "HOLDER"]}
  /\ \A b \in Browser : session[b] # NoSession =>
       /\ session[b].name \in Username /\ users[session[b].name] # NoUser
       /\ session[b].role = users[session[b].name].role

SetupInv ==
  /\ SetupTypeOK
  /\ DeployInv
  /\ \A s \in Seed : SeedInv(s)
  /\ ~overlap => AtMostOne(issuers) /\ AtMostOne(trees)
  /\ UsersInv

LEMMA InitSetup == SetupInit => SetupInv
<1> SUFFICES ASSUME SetupInit PROVE SetupInv
  OBVIOUS
<1>1. SetupTypeOK
  BY DEF SetupInit, SetupTypeOK, DeployStep, SeedStep, NoUser, NoSession
<1>2. DeployInv /\ UsersInv
  BY SetupAssumption DEF SetupInit, DeployInv, EnvRegistryIsOurs, UsersInv
<1>3. \A s \in Seed : SeedInv(s)
  BY DEF SetupInit, SeedInv, AtWork
<1> QED
  BY <1>1, <1>2, <1>3 DEF SetupInit, SetupInv, AtMostOne

LEMMA DeployKeeps ==
  ASSUME SetupInv, NEW d \in Deploy,
         \/ DeployContracts(d) \/ StrangerInitializes(d)
         \/ InitializeRegistry(d) \/ WriteEnv(d) \/ DeployDies(d)
  PROVE  SetupInv'
<1> USE DEF SetupInv, SetupTypeOK
<1>1. UNCHANGED <<seedVars, users, session>>
  BY DEF DeployContracts, StrangerInitializes, InitializeRegistry, WriteEnv, DeployDies
<1>2. /\ deploying' \in [Deploy -> DeployStep]
      /\ roleHolder' \in [Deploy -> {"none", "us", "stranger"}]
      /\ envVerifier' \in Deploy \cup {Nobody} /\ envRegistry' \in Deploy \cup {Nobody}
  BY DEF DeployContracts, StrangerInitializes, InitializeRegistry, WriteEnv, DeployDies,
         DeployTo, DeployStep
<1>3. DeployInv'
  BY SetupAssumption
     DEF DeployContracts, StrangerInitializes, InitializeRegistry, WriteEnv, DeployDies,
         DeployTo, DeployInv, EnvRegistryIsOurs
<1>4. UsersInv' /\ \A s \in Seed : SeedInv(s)'
  BY <1>1 DEF UsersInv, SeedInv, AtWork, seedVars
<1> QED
  BY <1>1, <1>2, <1>3, <1>4 DEF seedVars, AtMostOne

(* A seed run's step, on what other runs rely on.                           *)
LEMMA OtherSeeds ==
  ASSUME NEW s \in Seed, NEW t \in Seed, t # s, SeedInv(t),
         seeding'[t] = seeding[t], AtWork(s),
         users[AdminName] # NoUser => users'[AdminName] # NoUser,
         issuers \subseteq issuers', trees \subseteq trees', demoGate => demoGate',
         overlap' = overlap, AtWork(t)' = AtWork(t),
         \A r \in Seed : r # s => AtWork(r)' = AtWork(r)
  PROVE  SeedInv(t)'
<1>1. AtWork(t) => overlap
  BY DEF SeedInv
<1>2. seeding[t] \in {"createIssuer", "createTree"} => AtWork(t)
  BY DEF AtWork
<1> QED
  BY <1>1, <1>2 DEF SeedInv

LEMMA StartKeeps ==
  ASSUME SetupInv, NEW s \in Seed, StartSeed(s)
  PROVE  SetupInv'
<1> USE DEF SetupInv, SetupTypeOK
<1>1. /\ UNCHANGED <<deployVars, issuers, trees, demoGate, users, session>>
      /\ seeding[s] = "new" /\ seeding' = [seeding EXCEPT ![s] = "admin"]
      /\ overlap' \in BOOLEAN
      /\ ~overlap' => ~overlap /\ \A t \in Seed : ~AtWork(t)
  BY DEF StartSeed, SeedTo
<1>2. ASSUME NEW t \in Seed PROVE SeedInv(t)'
  BY <1>1, <1>2 DEF SeedInv, AtWork
<1>3. DeployInv' /\ UsersInv'
  BY <1>1 DEF DeployInv, EnvRegistryIsOurs, UsersInv, deployVars
<1> QED
  BY <1>1, <1>2, <1>3 DEF SeedStep, deployVars, AtMostOne

(* What a run creates, it creates after finding none, and alone unless runs  *)
(* overlapped.                                                              *)
LEMMA SeedKeeps ==
  ASSUME SetupInv, NEW s \in Seed,
         \/ UpsertAdmin(s) \/ FindIssuer(s) \/ CreateIssuer(s)
         \/ FindTree(s) \/ CreateTree(s) \/ UpsertDemoGate(s) \/ SeedDies(s)
  PROVE  SetupInv'
<1> USE DEF SetupInv, SetupTypeOK
<1>1. /\ UNCHANGED <<deployVars, overlap, session>> /\ AtWork(s)
      /\ seeding' \in [Seed -> SeedStep] /\ \A t \in Seed : t # s => seeding'[t] = seeding[t]
      /\ seeding'[s] # "new"
  BY DEF UpsertAdmin, FindIssuer, CreateIssuer, FindTree, CreateTree, UpsertDemoGate,
         SeedDies, SeedTo, AtWork, SeedStep
<1>2. /\ issuers \subseteq issuers' /\ trees \subseteq trees'
      /\ issuers' \subseteq Seed /\ trees' \subseteq Seed
      /\ demoGate' \in BOOLEAN /\ (demoGate => demoGate')
  BY DEF UpsertAdmin, FindIssuer, CreateIssuer, FindTree, CreateTree, UpsertDemoGate,
         SeedDies
<1>3. /\ users' \in [Username -> [by : {"none", "seed", "holder"},
                                  role : {"none", "ADMIN", "HOLDER"}]]
      /\ \A u \in Username : users[u] # NoUser => users'[u] = users[u]
      /\ \A u \in Username : \/ users'[u] = users[u]
                             \/ users'[u] = [by |-> "seed", role |-> "ADMIN"]
  <2>1. CASE UpsertAdmin(s)
    BY <2>1, SetupAssumption DEF UpsertAdmin
  <2> QED
    BY <2>1 DEF FindIssuer, CreateIssuer, FindTree, CreateTree, UpsertDemoGate, SeedDies
<1>4. SeedInv(s)
  OBVIOUS
<1>5. SetupTypeOK' /\ DeployInv'
  BY <1>1, <1>2, <1>3 DEF DeployInv, EnvRegistryIsOurs, deployVars
<1>6. UsersInv'
  BY <1>1, <1>3 DEF UsersInv
<1>7. ASSUME NEW t \in Seed, t # s PROVE SeedInv(t)'
  <2>1. \A r \in Seed : r # s => AtWork(r)' = AtWork(r)
    BY <1>1 DEF AtWork
  <2>2. users[AdminName] # NoUser => users'[AdminName] # NoUser
    BY <1>3, SetupAssumption
  <2> QED
    BY <1>1, <1>2, <1>7, <2>1, <2>2, OtherSeeds
<1>8. SeedInv(s)'
  <2>1. ~overlap => \A t \in Seed : AtWork(t)' => t = s
    BY <1>1, <1>4 DEF SeedInv, AtWork
  <2>2. CASE UpsertAdmin(s)
    <3>1. users'[AdminName] # NoUser
      BY <2>2, SetupAssumption DEF UpsertAdmin, NoUser
    <3> QED
      BY <1>1, <2>1, <2>2, <3>1 DEF UpsertAdmin, SeedTo, SeedInv
  <2>3. CASE FindIssuer(s) \/ FindTree(s)
    BY <1>1, <1>4, <2>1, <2>3 DEF FindIssuer, FindTree, SeedTo, SeedInv
  <2>4. CASE CreateIssuer(s) \/ CreateTree(s)
    BY <1>1, <1>4, <2>1, <2>4 DEF CreateIssuer, CreateTree, SeedTo, SeedInv
  <2>5. CASE UpsertDemoGate(s) \/ SeedDies(s)
    BY <1>1, <1>4, <2>1, <2>5 DEF UpsertDemoGate, SeedDies, SeedTo, SeedInv, AtWork
  <2> QED
    BY <2>2, <2>3, <2>4, <2>5
<1>9. ~overlap' => AtMostOne(issuers') /\ AtMostOne(trees')
  BY <1>1, <1>4
     DEF UpsertAdmin, FindIssuer, CreateIssuer, FindTree, CreateTree, UpsertDemoGate,
         SeedDies, SeedTo, SeedInv, AtMostOne
<1> QED
  BY <1>5, <1>6, <1>7, <1>8, <1>9

(* A name that is taken keeps its row, and a session copies the row's role.  *)
LEMMA UsersKeep ==
  ASSUME SetupInv,
         \/ \E u \in Username : RegisterHolder(u)
         \/ \E b \in Browser, u \in Username : SignIn(b, u)
         \/ \E b \in Browser : SignOut(b)
  PROVE  SetupInv'
<1> USE DEF SetupInv, SetupTypeOK
<1>1. UNCHANGED <<deployVars, seedVars>>
  BY DEF RegisterHolder, SignIn, SignOut
<1>2. /\ users' \in [Username -> [by : {"none", "seed", "holder"},
                                  role : {"none", "ADMIN", "HOLDER"}]]
      /\ \A u \in Username : users[u] # NoUser => users'[u] = users[u]
      /\ session' \in [Browser -> [name : Username \cup {Nobody},
                                   role : {"none", "ADMIN", "HOLDER"}]]
  <2>1. CASE \E u \in Username : RegisterHolder(u)
    BY <2>1 DEF RegisterHolder
  <2>2. CASE \E b \in Browser, u \in Username : SignIn(b, u)
    BY <2>2 DEF SignIn
  <2>3. CASE \E b \in Browser : SignOut(b)
    BY <2>3 DEF SignOut, NoSession
  <2> QED
    BY <2>1, <2>2, <2>3
<1>3. UsersInv'
  <2>1. ASSUME NEW u \in Username, RegisterHolder(u) PROVE UsersInv'
    BY <2>1 DEF RegisterHolder, UsersInv, NoUser
  <2>2. ASSUME NEW b \in Browser, NEW u \in Username, SignIn(b, u) PROVE UsersInv'
    BY <2>2 DEF SignIn, UsersInv
  <2>3. ASSUME NEW b \in Browser, SignOut(b) PROVE UsersInv'
    BY <2>3 DEF SignOut, UsersInv
  <2> QED
    BY <2>1, <2>2, <2>3
<1>4. DeployInv' /\ \A s \in Seed : SeedInv(s)'
  BY <1>1, <1>2, SetupAssumption
     DEF DeployInv, EnvRegistryIsOurs, SeedInv, AtWork, deployVars, seedVars
<1> QED
  BY <1>1, <1>2, <1>3, <1>4 DEF deployVars, seedVars, AtMostOne

LEMMA NextSetup == SetupInv /\ [SetupNext]_setupVars => SetupInv'
<1> SUFFICES ASSUME SetupInv, [SetupNext]_setupVars PROVE SetupInv'
  OBVIOUS
<1>1. CASE UNCHANGED setupVars
  BY <1>1 DEF setupVars, deployVars, seedVars, SetupInv, SetupTypeOK, DeployInv,
              EnvRegistryIsOurs, SeedInv, AtWork, AtMostOne, UsersInv
<1>2. CASE DeployNext
  BY <1>2, DeployKeeps DEF DeployNext
<1>3. CASE SeedNext
  BY <1>3, StartKeeps, SeedKeeps, UsersKeep DEF SeedNext
<1> QED
  BY <1>1, <1>2, <1>3 DEF SetupNext

LEMMA SetupInvariance == SetupSpec => []SetupInv
  BY InitSetup, NextSetup, PTL DEF SetupSpec

(* Contracts, rows and sessions keep their types.                           *)
THEOREM SetupTypeCorrect == SetupSpec => []SetupTypeOK
  BY SetupInvariance, PTL DEF SetupInv

(* deploy-contracts.ts: however many runs die, are repeated or lose the race *)
(* for `initialize`, .env names no registry but one this deployer won.      *)
THEOREM ConfiguredRegistryIsOurs == SetupSpec => []EnvRegistryIsOurs
  BY SetupInvariance, PTL DEF SetupInv, DeployInv

(* A nonempty set with at most one member is a singleton.                   *)
LEMMA OneMember ==
  ASSUME NEW S, AtMostOne(S), S # {}
  PROVE  Cardinality(S) = 1
<1>1. PICK x \in S : TRUE
  OBVIOUS
<1>2. S = {x}
  BY <1>1 DEF AtMostOne
<1> QED
  BY <1>2, FS_Singleton

(* prisma/seed.ts: after any history of seed runs that died, were repeated   *)
(* or overlapped, one that completes leaves an issuer, a tree and the demo    *)
(* gate, one of each if none overlapped, and a row under the admin's name.  *)
THEOREM SeedingIsRepeatable == SetupSpec => []SeedIsRepeatable
<1>1. SetupInv => SeedIsRepeatable
  <2> SUFFICES ASSUME SetupInv, NEW s \in Seed, seeding[s] = "done"
               PROVE  /\ issuers # {} /\ trees # {} /\ demoGate
                      /\ ~overlap => Cardinality(issuers) = 1 /\ Cardinality(trees) = 1
                      /\ \/ users[AdminName] = [by |-> "seed", role |-> "ADMIN"]
                         \/ users[AdminName] = [by |-> "holder", role |-> "HOLDER"]
    BY DEF SeedIsRepeatable
  <2>1. issuers # {} /\ trees # {} /\ demoGate /\ users[AdminName] # NoUser
    BY DEF SetupInv, SeedInv
  <2>2. ~overlap => Cardinality(issuers) = 1 /\ Cardinality(trees) = 1
    BY <2>1, OneMember DEF SetupInv
  <2> QED
    BY <2>1, <2>2, SetupAssumption DEF SetupInv, UsersInv
<1> QED
  BY <1>1, SetupInvariance, PTL

(* auth.config.ts: the role in a session's token, copied at sign-in and not  *)
(* read again, is still that of the row, and an admin is a seeded user.     *)
THEOREM TokensMatchRows == SetupSpec => []SessionsMatchUsers
<1>1. SetupInv => SessionsMatchUsers
  BY DEF SetupInv, UsersInv, SessionsMatchUsers, NoUser
<1> QED
  BY <1>1, SetupInvariance, PTL
-----------------------------------------------------------------------------
(* A behaviour of the run's specification is one of the contract, one of     *)
(* each service and one of the scripts, all but one at rest: the theorems    *)
(* about each are about that run too.                                        *)
THEOREM AnchorsAreTheirParts ==
  AnchorSpec => Spec /\ ASpec /\ QSpec /\ GateDeskSpec /\ SetupSpec
<1>1. AnchorInit => Init /\ AInit /\ QInit /\ GateDeskInit /\ SetupInit
  BY DEF AnchorInit
<1>2. [AnchorNext]_anchorVars => /\ [Next]_vars /\ [ANext]_avars /\ [QNext]_qvars
                                 /\ [GateDeskNext]_gateDeskVars /\ [SetupNext]_setupVars
  BY DEF AnchorNext, anchorVars, SetupNext
<1> QED
  BY <1>1, <1>2, PTL DEF AnchorSpec, Spec, ASpec, QSpec, GateDeskSpec, SetupSpec

(* The contract's storage and events, customers and the requests about them, *)
(* prices and quotes, the gate form and its gates, and what the scripts and  *)
(* sign-ups leave behind keep their types.                                   *)
THEOREM AnchorTypeCorrect == AnchorSpec => []TypesOK
  BY AnchorsAreTheirParts, TypeCorrect, ComplianceTypeCorrect, QuotesTypeCorrect, DeskTypeCorrect,
     SetupTypeCorrect, PTL DEF TypesOK
=============================================================================
