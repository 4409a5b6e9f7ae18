------------------------ MODULE HolderIdentityProofs ------------------------
(***************************************************************************)
(* Proofs about HolderIdentity for any number of secrets, pages, browsers   *)
(* and mints.                                                               *)
(***************************************************************************)
EXTENDS HolderIdentity, TLAPS

(* What a page holds at each of its steps.                                  *)
PageSecrets ==
  \A t \in Tab :
    /\ pc[t] # "idle" => secret[t] \in generated
    /\ pc[t] = "answered" => secret[t] \in accepted

(* The inductive form of PublishedKeyIsHeld: a page counts only while it is *)
(* about to persist, since at any other step it may drop its secret.        *)
SafeKey ==
  \A s \in Secret :
    holderKey = IdCommitment(s) =>
      \/ s \in backups \cup mislaid
      \/ \E d \in Device : store[d] = s
      \/ \E t \in Tab : pc[t] = "answered" /\ secret[t] = s

(* A credential row has a leaf, which nothing changes.                      *)
LeavesFixed ==
  \A c \in Credential :
    /\ status[c] # "none" => minting[c] = "done"
    /\ minting[c] # "new" => leaf[c] \in Commitment

(* What the guard found out still holds of the credentials it scanned.      *)
ScanStands ==
  \A t \in Tab : \A c \in scanned[t] :
    /\ minting[c] = "done"
    /\ pc[t] = "write" /\ ~force[t] /\ leaf[c] = existing[t]
         => leaf[c] = IdCommitment(secret[t])

IInv == TypeOK /\ PageSecrets /\ StoredKeysWereAccepted /\ SafeKey /\ LeavesFixed /\ ScanStands

(* Poseidon is taken as injective; a missing key is no commitment.          *)
LEMMA CommitmentIdentifies ==
  /\ \A s \in Secret : None # IdCommitment(s) /\ IdCommitment(s) \in Commitment
  /\ \A s, q : IdCommitment(s) = IdCommitment(q) => s = q
  /\ \A s : IdCommitment(s) \in Commitment => s \in Secret
  /\ None \notin Commitment
BY IdentityAssumption DEF IdentityAssumption, IdCommitment, Commitment

LEMMA InitIInv == Init => IInv
<1> SUFFICES ASSUME Init PROVE IInv  OBVIOUS
<1> USE IdentityAssumption DEF IdentityAssumption, Init
<1>1. TypeOK  BY DEF TypeOK, Step, Action
<1>2. PageSecrets /\ StoredKeysWereAccepted /\ LeavesFixed /\ ScanStands
  BY DEF PageSecrets, StoredKeysWereAccepted, LeavesFixed, ScanStands
<1>3. SafeKey  BY CommitmentIdentifies DEF SafeKey
<1> QED  BY <1>1, <1>2, <1>3 DEF IInv

LEMMA TypeStep ==
  ASSUME TypeOK, PageSecrets, StoredKeysWereAccepted, [Next]_vars PROVE TypeOK'
<1> USE IdentityAssumption, CommitmentIdentifies
    DEF IdentityAssumption, TypeOK, Step, Action, Goto, serverVars, issuerVars,
        browserVars, pageVars, historyVars
<1>1. ASSUME NEW t \in Tab, Generate(t) PROVE TypeOK'
  BY <1>1 DEF Generate, Publish
<1>2. ASSUME NEW t \in Tab, Restore(t) PROVE TypeOK'
  BY <1>2 DEF Restore, Publish
<1>3. ASSUME NEW t \in Tab, ConfirmReplace(t) PROVE TypeOK'
  BY <1>3 DEF ConfirmReplace, Publish
<1>4. ASSUME NEW t \in Tab, CancelReplace(t) PROVE TypeOK'
  BY <1>4 DEF CancelReplace
<1>5. ASSUME NEW t \in Tab, Persist(t) PROVE TypeOK'
  <2>1. secret[t] \in generated /\ secret[t] \in Secret
    BY <1>5 DEF Persist, PageSecrets
  <2>2. store' \in [Device -> Secret \cup {None}]
    BY <1>5, <2>1 DEF Persist
  <2>3. mislaid' \subseteq generated
    <3>1. CASE store[DeviceOf[t]] # secret[t] /\ holderKey = IdCommitment(store[DeviceOf[t]])
      <4>1. mislaid' = mislaid \cup {store[DeviceOf[t]]}
        BY <1>5, <3>1 DEF Persist
      <4>2. holderKey # None
        BY <3>1
      <4>3. store[DeviceOf[t]] \in accepted
        BY <3>1, <4>2 DEF StoredKeysWereAccepted
      <4> QED  BY <4>1, <4>3
    <3>2. CASE ~(store[DeviceOf[t]] # secret[t] /\ holderKey = IdCommitment(store[DeviceOf[t]]))
      BY <1>5, <3>2 DEF Persist
    <3> QED  BY <3>1, <3>2
  <2> QED  BY <1>5, <2>1, <2>2, <2>3 DEF Persist
<1>6. ASSUME NEW t \in Tab, ReadKey(t) PROVE TypeOK'
  BY <1>6 DEF ReadKey
<1>7. ASSUME NEW t \in Tab, Scan(t) PROVE TypeOK'
  BY <1>7 DEF Scan, Active
<1>8. ASSUME NEW t \in Tab, Upsert(t) PROVE TypeOK'
  BY <1>8 DEF Upsert, PageSecrets
<1>9. ASSUME NEW t \in Tab, Fail(t) PROVE TypeOK'
  BY <1>9 DEF Fail, PageSecrets
<1>10. ASSUME NEW c \in Credential, Resolve(c) \/ Create(c) \/ Revoke(c) PROVE TypeOK'
  BY <1>10 DEF Resolve, Create, Revoke
<1>11. CASE UNCHANGED vars
  BY <1>11 DEF vars
<1> QED
  BY <1>1, <1>2, <1>3, <1>4, <1>5, <1>6, <1>7, <1>8, <1>9, <1>10, <1>11 DEF Next, Page, Put

LEMMA PageStep ==
  ASSUME TypeOK, PageSecrets, StoredKeysWereAccepted, [Next]_vars
  PROVE  PageSecrets' /\ StoredKeysWereAccepted'
<1> USE IdentityAssumption
    DEF IdentityAssumption, TypeOK, PageSecrets, StoredKeysWereAccepted, Step, Action, Goto,
        serverVars, issuerVars, browserVars, pageVars, historyVars
<1> DEFINE P == PageSecrets /\ StoredKeysWereAccepted
<1>1. ASSUME NEW t \in Tab, Generate(t) PROVE P'
  BY <1>1 DEF Generate, Publish
<1>2. ASSUME NEW t \in Tab, Restore(t) PROVE P'
  BY <1>2 DEF Restore, Publish
<1>3. ASSUME NEW t \in Tab, ConfirmReplace(t) PROVE P'
  BY <1>3 DEF ConfirmReplace, Publish
<1>4. ASSUME NEW t \in Tab, CancelReplace(t) PROVE P'
  BY <1>4 DEF CancelReplace
<1>5. ASSUME NEW t \in Tab, Persist(t) PROVE P'
  BY <1>5 DEF Persist
<1>6. ASSUME NEW t \in Tab, ReadKey(t) \/ Scan(t) PROVE P'
  BY <1>6 DEF ReadKey, Scan
<1>7. ASSUME NEW t \in Tab, Upsert(t) PROVE P'
  BY <1>7 DEF Upsert
<1>8. ASSUME NEW t \in Tab, Fail(t) PROVE P'
  BY <1>8 DEF Fail
<1>9. ASSUME NEW c \in Credential, Resolve(c) \/ Create(c) \/ Revoke(c) PROVE P'
  BY <1>9 DEF Resolve, Create, Revoke
<1>10. CASE UNCHANGED vars
  BY <1>10 DEF vars
<1> QED
  BY <1>1, <1>2, <1>3, <1>4, <1>5, <1>6, <1>7, <1>8, <1>9, <1>10 DEF Next, Page, Put

LEMMA SafeKeyStep == ASSUME IInv, [Next]_vars PROVE SafeKey'
<1> USE IdentityAssumption, CommitmentIdentifies
    DEF IdentityAssumption, IInv, TypeOK, SafeKey, Step, Goto,
        serverVars, issuerVars, browserVars, pageVars, historyVars
<1>1. ASSUME NEW t \in Tab, Generate(t) \/ Restore(t) \/ ConfirmReplace(t) \/ CancelReplace(t)
      PROVE  SafeKey'
  BY <1>1 DEF Generate, Restore, ConfirmReplace, CancelReplace, Publish
<1>2. ASSUME NEW t \in Tab, Persist(t) PROVE SafeKey'
  <2>1. SUFFICES ASSUME NEW s \in Secret, holderKey = IdCommitment(s)
                 PROVE  \/ s \in backups' \cup mislaid'
                        \/ \E d \in Device : store'[d] = s
                        \/ \E u \in Tab : pc'[u] = "answered" /\ secret'[u] = s
    BY <1>2 DEF Persist
  <2>2. store'[DeviceOf[t]] = secret[t] /\ backups \subseteq backups' /\ mislaid \subseteq mislaid'
    BY <1>2 DEF Persist
  <2>3. CASE s \in backups \cup mislaid
    BY <2>2, <2>3
  <2>4. CASE \E d \in Device : store[d] = s
    <3>1. PICK d \in Device : store[d] = s  BY <2>4
    <3>2. CASE d # DeviceOf[t] \/ s = secret[t]
      BY <1>2, <2>2, <3>1, <3>2 DEF Persist
    <3>3. CASE d = DeviceOf[t] /\ s # secret[t]
      BY <1>2, <2>1, <3>1, <3>3 DEF Persist
    <3> QED  BY <3>2, <3>3
  <2>5. CASE \E u \in Tab : pc[u] = "answered" /\ secret[u] = s
    <3>1. PICK u \in Tab : pc[u] = "answered" /\ secret[u] = s  BY <2>5
    <3>2. CASE u = t
      BY <2>2, <3>1, <3>2
    <3>3. CASE u # t
      BY <1>2, <3>1, <3>3 DEF Persist
    <3> QED  BY <3>2, <3>3
  <2> QED  BY <2>1, <2>3, <2>4, <2>5
<1>3. ASSUME NEW t \in Tab, ReadKey(t) \/ Scan(t) PROVE SafeKey'
  BY <1>3 DEF ReadKey, Scan
<1>4. ASSUME NEW t \in Tab, Upsert(t) PROVE SafeKey'
  <2>1. pc'[t] = "answered" /\ secret' = secret /\ holderKey' = IdCommitment(secret[t])
    BY <1>4 DEF Upsert
  <2> QED  BY <2>1
<1>5. ASSUME NEW t \in Tab, Fail(t) PROVE SafeKey'
  <2>1. \A u \in Tab : u # t => pc'[u] = pc[u] /\ secret'[u] = secret[u]
    BY <1>5 DEF Fail
  <2>2. mislaid \subseteq mislaid' /\ (pc[t] = "answered" => secret[t] \in mislaid')
    BY <1>5 DEF Fail
  <2> QED  BY <1>5, <2>1, <2>2 DEF Fail
<1>6. ASSUME NEW c \in Credential, Resolve(c) \/ Create(c) \/ Revoke(c) PROVE SafeKey'
  BY <1>6 DEF Resolve, Create, Revoke
<1>7. CASE UNCHANGED vars
  BY <1>7 DEF vars
<1> QED
  BY <1>1, <1>2, <1>3, <1>4, <1>5, <1>6, <1>7 DEF Next, Page, Put

LEMMA ScanStep == ASSUME IInv, [Next]_vars PROVE LeavesFixed' /\ ScanStands'
<1> USE IdentityAssumption, CommitmentIdentifies
    DEF IdentityAssumption, IInv, TypeOK, LeavesFixed, ScanStands, Step, Goto,
        serverVars, issuerVars, browserVars, pageVars, historyVars
<1> DEFINE P == LeavesFixed /\ ScanStands
<1>1. ASSUME NEW t \in Tab, Generate(t) \/ Restore(t) \/ ConfirmReplace(t) \/ CancelReplace(t)
      PROVE  P'
  BY <1>1 DEF Generate, Restore, ConfirmReplace, CancelReplace, Publish
<1>2. ASSUME NEW t \in Tab, Persist(t) \/ Fail(t) PROVE P'
  BY <1>2 DEF Persist, Fail
<1>3. ASSUME NEW t \in Tab, ReadKey(t) \/ Upsert(t) PROVE P'
  BY <1>3 DEF ReadKey, Upsert
<1>4. ASSUME NEW t \in Tab, Scan(t) PROVE P'
  <2>1. scanned' = [scanned EXCEPT ![t] = Active] /\ \A c \in Active : minting[c] = "done"
    BY <1>4 DEF Scan, Active
  <2>2. ASSUME NEW c \in Active, pc'[t] = "write", ~force[t], leaf[c] = existing[t]
        PROVE  leaf[c] = IdCommitment(secret[t])
    <3>1. OrphanedByChange(t) = {}
      BY <1>4, <2>2 DEF Scan
    <3> QED  BY <2>2, <3>1 DEF OrphanedByChange, Provable
  <2>3. /\ \A u \in Tab : u # t => pc'[u] = pc[u] /\ scanned'[u] = scanned[u]
        /\ scanned'[t] = Active
        /\ UNCHANGED <<leaf, existing, secret, force, minting, status>>
    BY <1>4, <2>1 DEF Scan
  <2>4. LeavesFixed'
    BY <2>3
  <2>5. ScanStands'
    BY <2>1, <2>2, <2>3
  <2> QED  BY <2>4, <2>5
<1>5. ASSUME NEW c \in Credential, Resolve(c) PROVE P'
  BY <1>5 DEF Resolve
<1>6. ASSUME NEW c \in Credential, Create(c) \/ Revoke(c) PROVE P'
  BY <1>6 DEF Create, Revoke
<1>7. CASE UNCHANGED vars
  BY <1>7 DEF vars
<1> QED
  BY <1>1, <1>2, <1>3, <1>4, <1>5, <1>6, <1>7 DEF Next, Page, Put

THEOREM Invariance == Spec => []IInv
<1>1. IInv /\ [Next]_vars => IInv'
  BY TypeStep, PageStep, SafeKeyStep, ScanStep DEF IInv
<1> QED  BY InitIInv, <1>1, PTL DEF Spec

(* Every variable keeps its type, whatever the constants.                   *)
THEOREM TypeCorrect == Spec => []TypeOK
<1>1. IInv => TypeOK  BY DEF IInv
<1> QED  BY Invariance, <1>1, PTL

(* What a browser stores or the holder has backed up was accepted by the    *)
(* server first (KeysManager.tsx:118-131).                                  *)
THEOREM OnlyAcceptedKeysAreStored == Spec => []StoredKeysWereAccepted
<1>1. IInv => StoredKeysWereAccepted  BY DEF IInv
<1> QED  BY Invariance, <1>1, PTL

(* The secret of the published commitment survives, unless a failure after  *)
(* the write or an overwriting page is to blame (KeysManager.tsx:117-131).  *)
THEOREM PublishedKeyStaysHeld == Spec => []PublishedKeyIsHeld
<1>1. IInv => PublishedKeyIsHeld
  BY DEF IInv, SafeKey, PublishedKeyIsHeld, Held
<1> QED  BY Invariance, <1>1, PTL

(* The guard fails only where a request or a mint slipped between its reads *)
(* and its write (commitment/route.ts:31-76).                               *)
THEOREM GuardFailsOnlyByRace == Spec => OrphansOnlyByRace
<1> DEFINE Orphans(t, c) ==
      /\ pc[t] = "write" /\ pc'[t] = "answered" /\ ~force[t]
      /\ leaf[c] = holderKey /\ leaf[c] # holderKey'
    Excused(t, c) == c \notin scanned[t] \/ existing[t] # holderKey
    A == \A t \in Tab, c \in Active : Orphans(t, c) => Excused(t, c)
<1>1. IInv /\ [Next]_vars => [A]_vars
  <2> SUFFICES ASSUME IInv, Next, NEW t \in Tab, NEW c \in Active, Orphans(t, c),
                      c \in scanned[t], existing[t] = holderKey
               PROVE  FALSE
    BY DEF vars
  <2> USE IdentityAssumption DEF IInv, TypeOK, Step, Goto
  <2>1. leaf[c] = IdCommitment(secret[t])
    BY DEF ScanStands
  <2>2. ASSUME NEW u \in Tab, Page(u) \/ ReadKey(u) \/ Scan(u) \/ Fail(u) PROVE pc'[t] # "answered"
    BY <2>2 DEF Page, Generate, Restore, ConfirmReplace, CancelReplace, Persist, ReadKey, Scan, Fail
  <2>3. ASSUME NEW u \in Tab, Upsert(u) PROVE u = t /\ holderKey' = IdCommitment(secret[t])
    BY <2>3 DEF Upsert
  <2>4. ASSUME NEW k \in Credential, Resolve(k) \/ Create(k) \/ Revoke(k) PROVE pc' = pc
    BY <2>4 DEF Resolve, Create, Revoke
  <2> QED  BY <2>1, <2>2, <2>3, <2>4 DEF Next, Put
<1> QED  BY Invariance, <1>1, PTL DEF Spec, OrphansOnlyByRace
=============================================================================
