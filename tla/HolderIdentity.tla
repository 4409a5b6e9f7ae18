--------------------------- MODULE HolderIdentity ---------------------------
(***************************************************************************)
(* One holder's identity key.  The secret s is generated, kept and backed   *)
(* up in the browser (KeysManager, holder-key.client); the server keeps     *)
(* only HolderKey.idCommitment, which PUT /api/holder/commitment replaces,  *)
(* and the issuer mints credentials whose leaf contains the commitment it   *)
(* read.  One action per await of the PUT handler and of the page that      *)
(* calls it.  The other holders' rows are touched by none of these steps.   *)
(***************************************************************************)
EXTENDS Naturals

CONSTANTS
  Secret,      \* values of s, each generated at most once
  Tab,         \* open Keys pages
  Device,      \* browsers, each with one IndexedDB
  DeviceOf,    \* the browser a page is open in
  Credential,  \* calls of mintCredential for this holder
  None         \* no secret, no key

(* idCommitment = Poseidon(s), which nobody inverts and no two s share.     *)
IdCommitment(s) == <<"Poseidon", s>>
Commitment == {IdCommitment(s) : s \in Secret}

ASSUME IdentityAssumption ==
  /\ DeviceOf \in [Tab -> Device]
  /\ None \notin Secret
  /\ \A s \in Secret \cup {None} : None # IdCommitment(s)

VARIABLES
  holderKey,   \* HolderKey.idCommitment, or None when there is no row
  minting,     \* where each mint is
  leaf,        \* the commitment a mint resolved, which its leaf contains
  status,      \* of the credential rows
  store,       \* what each browser's IndexedDB holds
  backups,     \* backup blobs the holder has saved
  generated,   \* secrets generated so far
  pc, secret, action, force,   \* each page: its step, pendingSecret, pendingAction, body.force
  existing,    \* the commitment the PUT handler read
  scanned,     \* the credentials it read
  accepted,    \* history: secrets whose commitment the server has stored
  mislaid      \* history: secrets dropped by a failure, or overwritten while published

serverVars  == <<holderKey, existing, scanned>>
issuerVars  == <<minting, leaf, status>>
browserVars == <<store, backups, generated>>
pageVars    == <<secret, action, force>>
historyVars == <<accepted, mislaid>>
vars == <<serverVars, issuerVars, browserVars, pc, pageVars, historyVars>>

Step   == {"idle", "read", "scan", "write", "answered", "conflict"}
Action == {"generate", "restore"}

TypeOK ==
  /\ holderKey \in Commitment \cup {None}
  /\ minting \in [Credential -> {"new", "resolved", "done"}]
  /\ leaf \in [Credential -> Commitment \cup {None}]
  /\ status \in [Credential -> {"none", "ACTIVE", "REVOKED"}]
  /\ store \in [Device -> Secret \cup {None}]
  /\ backups \subseteq generated /\ generated \subseteq Secret
  /\ pc \in [Tab -> Step]
  /\ secret \in [Tab -> Secret \cup {None}]
  /\ action \in [Tab -> Action]
  /\ force \in [Tab -> BOOLEAN]
  /\ existing \in [Tab -> Commitment \cup {None}]
  /\ scanned \in [Tab -> SUBSET Credential]
  /\ accepted \subseteq generated /\ mislaid \subseteq generated

Init ==
  /\ holderKey = None
  /\ minting = [c \in Credential |-> "new"]
  /\ leaf = [c \in Credential |-> None]
  /\ status = [c \in Credential |-> "none"]
  /\ store = [d \in Device |-> None]
  /\ backups = {} /\ generated = {}
  /\ pc = [t \in Tab |-> "idle"]
  /\ secret = [t \in Tab |-> None]
  /\ action = [t \in Tab |-> "generate"]
  /\ force = [t \in Tab |-> FALSE]
  /\ existing = [t \in Tab |-> None]
  /\ scanned = [t \in Tab |-> {}]
  /\ accepted = {} /\ mislaid = {}
-----------------------------------------------------------------------------
Goto(t, from, to) == pc[t] = from /\ pc' = [pc EXCEPT ![t] = to]

(* ACTIVE credentials whose leaf is rebuilt from commitment k.              *)
Provable(k, cs) == {c \in cs : leaf[c] = k}
Active == {c \in Credential : status[c] = "ACTIVE"}

(* onGenerate and onRestore: the page publishes before it persists.         *)
Publish(t, s, how, forced) ==
  /\ secret' = [secret EXCEPT ![t] = s]
  /\ action' = [action EXCEPT ![t] = how]
  /\ force' = [force EXCEPT ![t] = forced]

GenerateAndKeep(t) ==   \* mutant: the secret is stored before the server is asked
  /\ Goto(t, "idle", "read")
  /\ \E s \in Secret \ generated :
       /\ Publish(t, s, "generate", FALSE)
       /\ generated' = generated \cup {s}
       /\ store' = [store EXCEPT ![DeviceOf[t]] = s]
  /\ UNCHANGED <<serverVars, issuerVars, backups, historyVars>>

Generate(t) ==
  /\ Goto(t, "idle", "read")
  /\ \E s \in Secret \ generated :
       /\ Publish(t, s, "generate", FALSE)
       /\ generated' = generated \cup {s}
  /\ UNCHANGED <<serverVars, issuerVars, store, backups, historyVars>>

Restore(t) ==
  /\ Goto(t, "idle", "read")
  /\ \E s \in backups : Publish(t, s, "restore", FALSE)
  /\ UNCHANGED <<serverVars, issuerVars, browserVars, historyVars>>

ConfirmReplace(t) ==
  /\ Goto(t, "conflict", "read")
  /\ Publish(t, secret[t], action[t], TRUE)
  /\ UNCHANGED <<serverVars, issuerVars, browserVars, historyVars>>

CancelUnknown(t) ==   \* mutant: the page is left in a step no handler knows
  /\ Goto(t, "conflict", "cancelled")
  /\ secret' = [secret EXCEPT ![t] = None]
  /\ UNCHANGED <<serverVars, issuerVars, browserVars, action, force, historyVars>>

CancelReplace(t) ==
  /\ Goto(t, "conflict", "idle")
  /\ secret' = [secret EXCEPT ![t] = None]
  /\ UNCHANGED <<serverVars, issuerVars, browserVars, action, force, historyVars>>

(* PUT: findUnique; the credentials are read only if the key would change.  *)
ReadKey(t) ==
  /\ existing' = [existing EXCEPT ![t] = holderKey]
  /\ scanned' = [scanned EXCEPT ![t] = {}]
  /\ Goto(t, "read", IF holderKey \in {None, IdCommitment(secret[t])}
                     THEN "write" ELSE "scan")
  /\ UNCHANGED <<holderKey, issuerVars, browserVars, pageVars, historyVars>>

(* The credentials provable under the key that was read and not under the   *)
(* next one.  Leaves are unique per key, so those are all the provable ones. *)
OrphanedByChange(t) ==
  Provable(existing[t], Active) \ Provable(IdCommitment(secret[t]), Active)

ScanInverted(t) ==   \* mutant: force blocks the change, instead of allowing it
  /\ scanned' = [scanned EXCEPT ![t] = Active]
  /\ Goto(t, "scan", IF OrphanedByChange(t) # {} /\ force[t] THEN "conflict" ELSE "write")
  /\ UNCHANGED <<holderKey, existing, issuerVars, browserVars, pageVars, historyVars>>

Scan(t) ==
  /\ scanned' = [scanned EXCEPT ![t] = Active]
  /\ Goto(t, "scan", IF OrphanedByChange(t) # {} /\ ~force[t] THEN "conflict" ELSE "write")
  /\ UNCHANGED <<holderKey, existing, issuerVars, browserVars, pageVars, historyVars>>

Upsert(t) ==
  /\ Goto(t, "write", "answered")
  /\ holderKey' = IdCommitment(secret[t])
  /\ accepted' = accepted \cup {secret[t]}
  /\ UNCHANGED <<existing, scanned, issuerVars, browserVars, pageVars, mislaid>>

PersistUnforced(t) ==   \* mutant: a confirmed replacement is published, not persisted
  /\ Goto(t, "answered", "idle")
  /\ secret' = [secret EXCEPT ![t] = None]
  /\ store' = IF force[t] THEN store ELSE [store EXCEPT ![DeviceOf[t]] = secret[t]]
  /\ UNCHANGED <<serverVars, issuerVars, generated, backups, action, force, historyVars>>

(* persistHolderSecret puts the one record of the browser; a generated key  *)
(* is then exported, and the holder may save the blob.  A failing export    *)
(* leaves a replacement where it can be confirmed again.                    *)
Persist(t) ==
  LET d == DeviceOf[t]
      s == secret[t]
  IN /\ store' = [store EXCEPT ![d] = s]
     /\ mislaid' = IF store[d] # s /\ holderKey = IdCommitment(store[d])
                   THEN mislaid \cup {store[d]} ELSE mislaid
     /\ \/ /\ Goto(t, "answered", "idle")
           /\ secret' = [secret EXCEPT ![t] = None]
           /\ \/ backups' = backups
              \/ action[t] = "generate" /\ backups' = backups \cup {s}
        \/ /\ action[t] = "generate" /\ force[t]
           /\ Goto(t, "answered", "conflict")
           /\ UNCHANGED <<secret, backups>>
     /\ UNCHANGED <<serverVars, issuerVars, generated, action, force, accepted>>

(* A call throws: before the write, or after it (the audit, the reply, the  *)
(* IndexedDB).  A page that was replacing keeps its conflict and can retry. *)
Fail(t) ==
  /\ pc[t] \in {"read", "scan", "write", "answered"}
  /\ pc' = [pc EXCEPT ![t] = IF force[t] THEN "conflict" ELSE "idle"]
  /\ secret' = IF force[t] THEN secret ELSE [secret EXCEPT ![t] = None]
  /\ mislaid' = IF pc[t] = "answered" THEN mislaid \cup {secret[t]} ELSE mislaid
  /\ UNCHANGED <<serverVars, issuerVars, browserVars, action, force, accepted>>

(* mintCredential: resolveCommitment, and rows written much later.          *)
Resolve(c) ==
  /\ minting[c] = "new" /\ holderKey # None
  /\ minting' = [minting EXCEPT ![c] = "resolved"]
  /\ leaf' = [leaf EXCEPT ![c] = holderKey]
  /\ UNCHANGED <<serverVars, status, browserVars, pc, pageVars, historyVars>>

Create(c) ==
  /\ minting[c] = "resolved"
  /\ minting' = [minting EXCEPT ![c] = "done"]
  /\ status' = [status EXCEPT ![c] = "ACTIVE"]
  /\ UNCHANGED <<serverVars, leaf, browserVars, pc, pageVars, historyVars>>

Revoke(c) ==
  /\ status[c] = "ACTIVE"
  /\ status' = [status EXCEPT ![c] = "REVOKED"]
  /\ UNCHANGED <<serverVars, minting, leaf, browserVars, pc, pageVars, historyVars>>

Page(t) == Generate(t) \/ Restore(t) \/ ConfirmReplace(t) \/ CancelReplace(t) \/ Persist(t)
Put(t)  == ReadKey(t) \/ Scan(t) \/ Upsert(t)

Next ==
  \/ \E t \in Tab : Page(t) \/ Put(t) \/ Fail(t)
  \/ \E c \in Credential : Resolve(c) \/ Create(c) \/ Revoke(c)

Spec == Init /\ [][Next]_vars
-----------------------------------------------------------------------------
(* A browser never stores a secret whose commitment the server has not      *)
(* stored, so a refused change (409) leaves the old secret where it was     *)
(* (KeysManager.tsx:118-131: publish, and persist only if it was accepted). *)
StoredKeysWereAccepted ==
  /\ \A d \in Device : store[d] # None => store[d] \in accepted
  /\ backups \subseteq accepted

(* The secret behind the published commitment is in a page, a browser or a  *)
(* backup, unless a failure dropped it after the write or another page of   *)
(* the same browser overwrote it (KeysManager.tsx:117-131).                 *)
Held ==
  {secret[t] : t \in Tab} \cup {store[d] : d \in Device} \cup backups
PublishedKeyIsHeld ==
  \A s \in Secret : holderKey = IdCommitment(s) => s \in Held \cup mislaid

(* An unforced change orphans a credential only if, since the handler read  *)
(* the key and the credentials, the key was changed by another request or   *)
(* the credential was created (commitment/route.ts:31-76).                  *)
OrphansOnlyByRace ==
  [][\A t \in Tab, c \in Active :
       /\ pc[t] = "write" /\ pc'[t] = "answered" /\ ~force[t]
       /\ leaf[c] = holderKey /\ leaf[c] # holderKey'
       => c \notin scanned[t] \/ existing[t] # holderKey]_vars

(* "Guard: block only when the change strictly REDUCES the set of provable  *)
(* credentials" (commitment/route.ts:37): no unforced change does.          *)
GuardBlocksOrphaning ==
  [][\A t \in Tab :
       pc[t] = "write" /\ pc'[t] = "answered" /\ ~force[t]
       => Provable(holderKey, Active) \subseteq Provable(holderKey', Active)]_vars
=============================================================================
