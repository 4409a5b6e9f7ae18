------------------------------ MODULE Issuance ------------------------------
(***************************************************************************)
(* Issuing and revoking credentials: concurrent calls of mintCredential and *)
(* revokeCredential over the Merkle tree in Postgres, the credential rows,  *)
(* the root history and the roots on chain.  One action per await.          *)
(*                                                                          *)
(* A root is modelled by what it commits to, the set of <<index, leaf>>     *)
(* pairs that are not zero: Poseidon is taken as collision free, and a tree *)
(* whose last leaf is zeroed has the root it had before that leaf.          *)
(* set_root is signed by the stored issuer, which CredentialRegistry never  *)
(* refuses, so of the contract only its set of valid roots is kept.         *)
(***************************************************************************)
EXTENDS Naturals, Sequences, FiniteSets, Functions

CONSTANTS
  Mint,        \* calls of mintCredential, each named by the credential it makes
  Revocation,  \* calls of revokeCredential
  Old,         \* the credentials issued before, in order
  OldRevoked,  \* the one of them that was revoked since, if any
  Zero,        \* the zero leaf
  Faults       \* may database, storage and RPC calls throw, and the process die?

Credential == Mint \cup Range(Old)
Caller     == Mint \cup Revocation

ASSUME IssuanceAssumption ==
  /\ Old \in Seq(Range(Old)) /\ IsInjective(Old)
  /\ OldRevoked \subseteq Range(Old) /\ Cardinality(OldRevoked) <= 1
  /\ Mint \cap Range(Old) = {}
  /\ Revocation \cap Credential = {}
  /\ Zero \notin Credential \cup Revocation
  /\ Faults \in BOOLEAN

VARIABLES
  leaves,       \* the Leaf table, in index order
  treeRow,      \* MerkleTree.rootHex
  credentials,  \* the Credential table
  rootHistory,  \* the RootHistory table, see History
  validRoots,   \* the roots on chain
  pc,
  loaded,       \* the leaves a call has read
  root,         \* the root it publishes
  target,       \* the credential it mints or revokes
  answer,
  accountSeq, txSeq, tx

Account == INSTANCE IssuerAccount WITH Client <- Caller

treeVars   == <<leaves, treeRow>>
tableVars  == <<credentials, rootHistory>>
callVars   == <<loaded, root, target>>
ledgerVars == <<accountSeq, txSeq, tx>>
vars == <<treeVars, tableVars, validRoots, pc, callVars, answer, ledgerVars>>

(* IMT.root over leaves that are read in index order. *)
RootOf(s) == {<<i, s[i]>> : i \in {j \in DOMAIN s : s[j] # Zero}}

Prefix(s, n) == SubSeq(s, 1, n)

Step == {"new", "resolve", "load", "insert", "read", "zero", "reload", "sequence",
         "send", "poll", "history", "create", "vc", "audit", "done", "crashed"}

Row(c, i, r, status, vc) ==
  [credential |-> c, index |-> i, root |-> r, status |-> status, vc |-> vc]

(* A row of the root history.  Of its publishedAt all that counts is how many *)
(* leaves had been created by then, which is what verifyAndRegister counts.  *)
History(r, n) == [root |-> r, leafCount |-> n]

InHistory(r) == \E h \in rootHistory : h.root = r

Leaves == Seq(Credential \cup {Zero})
IsRoot(r) == \A e \in r : e[1] \in Nat \ {0} /\ e[2] \in Credential

TypeOK ==
  /\ leaves \in Leaves /\ IsRoot(treeRow)
  /\ \A k \in credentials :
        /\ k = Row(k.credential, k.index, k.root, k.status, k.vc)
        /\ k.credential \in Credential /\ k.index \in DOMAIN leaves /\ IsRoot(k.root)
        /\ k.status \in {"ACTIVE", "REVOKED"} /\ k.vc \in {"pending", "stored"}
  /\ \A r \in validRoots : IsRoot(r)
  /\ \A h \in rootHistory : IsRoot(h.root) /\ h.leafCount \in 0 .. Len(leaves)
  /\ pc \in [Caller -> Step]
  /\ loaded \in [Caller -> Leaves]
  /\ DOMAIN root = Caller /\ \A c \in Caller : IsRoot(root[c])
  /\ target \in [Caller -> Credential]
  /\ answer \in [Caller -> {"none", "OK", "ERROR", "ALREADY_REVOKED"}]
  /\ Account!TypeOK

(* The old credentials were minted one after the other, and one perhaps     *)
(* revoked, without trouble.  Revoking leaves MerkleTree.rootHex as it was.  *)
Init ==
  /\ leaves = [i \in DOMAIN Old |-> IF Old[i] \in OldRevoked THEN Zero ELSE Old[i]]
  /\ treeRow = RootOf(Old)
  /\ credentials =
       {Row(Old[i], i, RootOf(Prefix(Old, i)),
            IF Old[i] \in OldRevoked THEN "REVOKED" ELSE "ACTIVE", "stored")
          : i \in DOMAIN Old}
  /\ LET minted  == {History(RootOf(Prefix(Old, i)), i) : i \in DOMAIN Old}
         current == History(RootOf(leaves), Len(leaves))
     IN rootHistory = minted \cup IF \E h \in minted : h.root = current.root
                                  THEN {} ELSE {current}
  /\ validRoots = {h.root : h \in rootHistory}
  /\ pc = [c \in Caller |-> "new"]
  /\ loaded = [c \in Caller |-> <<>>]
  /\ root = [c \in Caller |-> {}]
  /\ target \in [Caller -> Credential]
  /\ \A c \in Mint : target[c] = c
  /\ answer = [c \in Caller |-> "none"]
  /\ Account!Init
-----------------------------------------------------------------------------
Goto(c, from, to) == pc[c] = from /\ pc' = [pc EXCEPT ![c] = to] /\ UNCHANGED answer

Finish(c, from, result) ==
  /\ pc[c] = from
  /\ pc' = [pc EXCEPT ![c] = "done"]
  /\ answer' = [answer EXCEPT ![c] = result]

Start(c) ==
  /\ Goto(c, "new", IF c \in Mint THEN "resolve" ELSE "read")
  /\ UNCHANGED <<treeVars, tableVars, validRoots, callVars, ledgerVars>>

(* resolveCommitment: the holder may not have published a commitment yet.   *)
Resolve(c) ==
  /\ Goto(c, "resolve", "load") \/ Finish(c, "resolve", "ERROR")
  /\ UNCHANGED <<treeVars, tableVars, validRoots, callVars, ledgerVars>>

(* insertLeaf reads the whole tree and computes the index and the new root  *)
(* from what it read.                                                       *)
LoadTree(c) ==
  /\ Goto(c, "load", "insert")
  /\ loaded' = [loaded EXCEPT ![c] = leaves]
  /\ root' = [root EXCEPT ![c] = RootOf(Append(leaves, c))]
  /\ UNCHANGED <<treeVars, tableVars, validRoots, target, ledgerVars>>

InsertUpserts(c) ==   \* mutant: leaf.upsert in place of leaf.create
  /\ Goto(c, "insert", "sequence")
  /\ leaves' = [i \in 1 .. (Len(loaded[c]) + 1) \cup DOMAIN leaves |->
                  IF i = Len(loaded[c]) + 1 THEN c ELSE leaves[i]]
  /\ treeRow' = root[c]
  /\ UNCHANGED <<tableVars, validRoots, callVars, ledgerVars>>

InsertLater(c) ==   \* mutant: the transaction that inserts the leaf is not awaited
  /\ Goto(c, "insert", "sequence")
  /\ IF Len(loaded[c]) = Len(leaves)
       THEN leaves' = Append(leaves, c) /\ treeRow' = root[c]
       ELSE UNCHANGED treeVars
  /\ UNCHANGED <<tableVars, validRoots, callVars, ledgerVars>>

(* The transaction of insertLeaf: @@unique([treeId, index]) refuses an      *)
(* index that another call took meanwhile.                                  *)
InsertLeaf(c) ==
  /\ \/ /\ Goto(c, "insert", "sequence")
        /\ Len(loaded[c]) = Len(leaves)
        /\ leaves' = Append(leaves, c)
        /\ treeRow' = root[c]
     \/ /\ Finish(c, "insert", "ERROR")
        /\ Len(loaded[c]) # Len(leaves)
        /\ UNCHANGED treeVars
  /\ UNCHANGED <<tableVars, validRoots, callVars, ledgerVars>>

RowOf(c) == {k \in credentials : k.credential = c}

(* revokeCredential: the credential must exist and be ACTIVE. *)
ReadCredential(c) ==
  /\ \/ /\ Goto(c, "read", "zero")
        /\ \E k \in RowOf(target[c]) : k.status = "ACTIVE"
     \/ /\ Finish(c, "read", "ALREADY_REVOKED")
        /\ \E k \in RowOf(target[c]) : k.status = "REVOKED"
     \/ Finish(c, "read", "ERROR") /\ RowOf(target[c]) = {}
  /\ UNCHANGED <<treeVars, tableVars, validRoots, callVars, ledgerVars>>

ZeroStatusOnly(c) ==   \* mutant: the leaf is left in the tree
  /\ Goto(c, "zero", "reload")
  /\ \E k \in RowOf(target[c]) :
        credentials' = (credentials \ {k}) \cup {[k EXCEPT !.status = "REVOKED"]}
  /\ UNCHANGED <<treeVars, rootHistory, validRoots, callVars, ledgerVars>>

ZeroRemoves(c) ==   \* mutant: the leaf is deleted and the ones after it move up
  /\ Goto(c, "zero", "reload")
  /\ \E k \in RowOf(target[c]) :
        /\ leaves' = Prefix(leaves, k.index - 1) \o
                       SubSeq(leaves, k.index + 1, Len(leaves))
        /\ credentials' = credentials \ {k}
  /\ UNCHANGED <<treeRow, rootHistory, validRoots, callVars, ledgerVars>>

(* Zero the leaf and mark the credential, in one transaction. *)
ZeroLeaf(c) ==
  /\ Goto(c, "zero", "reload")
  /\ \E k \in RowOf(target[c]) :
        /\ leaves' = [leaves EXCEPT ![k.index] = Zero]
        /\ credentials' = (credentials \ {k}) \cup {[k EXCEPT !.status = "REVOKED"]}
  /\ UNCHANGED <<treeRow, rootHistory, validRoots, callVars, ledgerVars>>

(* getCurrentRoot *)
CurrentRoot(c) ==
  /\ Goto(c, "reload", "sequence")
  /\ root' = [root EXCEPT ![c] = RootOf(leaves)]
  /\ UNCHANGED <<treeVars, tableVars, validRoots, loaded, target, ledgerVars>>

(* publishRoot reads the sequence number, builds set_root, sends and polls. *)
ReadSequence(c) ==
  /\ Goto(c, "sequence", "send")
  /\ Account!Build(c)
  /\ UNCHANGED <<treeVars, tableVars, validRoots, callVars>>

Send(c) ==
  /\ Goto(c, "send", "poll")
  /\ Account!Submit(c)
  /\ UNCHANGED <<treeVars, tableVars, validRoots, callVars>>

PollIgnored(c) ==   \* mutant: the result of the poll is not looked at
  /\ Goto(c, "poll", "history")
  /\ UNCHANGED <<treeVars, tableVars, validRoots, callVars, ledgerVars>>

Poll(c) ==
  /\ \/ Goto(c, "poll", "history") /\ tx[c] = "success"
     \/ Finish(c, "poll", "ERROR") /\ tx[c] # "success"
  /\ UNCHANGED <<treeVars, tableVars, validRoots, callVars, ledgerVars>>

(* rootHistory.create; a root that has a row already is refused. *)
RecordRoot(c) ==
  /\ \/ /\ Goto(c, "history", IF c \in Mint THEN "create" ELSE "audit")
        /\ ~InHistory(root[c])
        /\ rootHistory' = rootHistory \cup {History(root[c], Len(leaves))}
     \/ /\ Finish(c, "history", "ERROR")
        /\ InHistory(root[c])
        /\ UNCHANGED rootHistory
  /\ UNCHANGED <<treeVars, credentials, validRoots, callVars, ledgerVars>>

(* credential.create, on the leaf found again by its index. *)
CreateCredential(c) ==
  /\ Goto(c, "create", "vc")
  /\ credentials' = credentials \cup
       {Row(c, Len(loaded[c]) + 1, root[c], "ACTIVE", "pending")}
  /\ UNCHANGED <<treeVars, rootHistory, validRoots, callVars, ledgerVars>>

(* putObject, then the vcFileKey. *)
WriteVC(c) ==
  /\ Goto(c, "vc", "audit")
  /\ \E k \in RowOf(c) :
        credentials' = (credentials \ {k}) \cup {[k EXCEPT !.vc = "stored"]}
  /\ UNCHANGED <<treeVars, rootHistory, validRoots, callVars, ledgerVars>>

Audit(c) ==
  /\ Finish(c, "audit", "OK")
  /\ UNCHANGED <<treeVars, tableVars, validRoots, callVars, ledgerVars>>

Serve(c) ==
  \/ Resolve(c) \/ LoadTree(c) \/ InsertLeaf(c)
  \/ ReadCredential(c) \/ ZeroLeaf(c) \/ CurrentRoot(c)
  \/ ReadSequence(c) \/ Send(c) \/ Poll(c) \/ RecordRoot(c)
  \/ CreateCredential(c) \/ WriteVC(c) \/ Audit(c)

(* An awaited call throws; a transaction may have been sent by then.        *)
Throw(c) ==
  /\ Faults
  /\ pc[c] \notin {"new", "done", "crashed"}
  /\ Finish(c, pc[c], "ERROR")
  /\ \/ UNCHANGED ledgerVars
     \/ pc[c] = "send" /\ Account!Submit(c)
  /\ UNCHANGED <<treeVars, tableVars, validRoots, callVars>>

Crash(c) ==
  /\ Faults
  /\ pc[c] \notin {"new", "done", "crashed"}
  /\ pc' = [pc EXCEPT ![c] = "crashed"]
  /\ UNCHANGED <<treeVars, tableVars, validRoots, callVars, answer, ledgerVars>>

(* The ledger applies set_root, or drops the transaction. *)
Apply(c) ==
  /\ Account!Include(c, "success")
  /\ validRoots' = validRoots \cup {root[c]}
  /\ UNCHANGED <<treeVars, tableVars, pc, callVars, answer>>

Drop(c) ==
  /\ Account!Drop(c)
  /\ UNCHANGED <<treeVars, tableVars, validRoots, pc, callVars, answer>>

Next == \E c \in Caller :
          Start(c) \/ Serve(c) \/ Throw(c) \/ Crash(c) \/ Apply(c) \/ Drop(c)

Spec == Init /\ [][Next]_vars
-----------------------------------------------------------------------------
(* A credential row points at a leaf of its own, which is there exactly as   *)
(* long as the credential is ACTIVE.                                        *)
CredentialsOwnTheirLeaf ==
  /\ \A k \in credentials :
        leaves[k.index] = IF k.status = "ACTIVE" THEN k.credential ELSE Zero
  /\ \A k, l \in credentials : k.index = l.index => k = l

(* A credential the holder can see can be proved: the root it was issued     *)
(* under commits to it, is on chain and is in the root history.  And though  *)
(* verifyAndRegister knows of a root only when it was recorded, not what it  *)
(* commits to, it refuses no leaf as too new for a root that commits to it   *)
(* (verification.service.ts:137-143).                                       *)
IssuedIsProvable ==
  /\ \A k \in credentials :
       /\ <<k.index, k.credential>> \in k.root
       /\ k.root \in validRoots /\ InHistory(k.root)
  /\ \A h \in rootHistory : \A e \in h.root : e[1] <= h.leafCount

(* However mints and revocations race, no root on chain commits to a leaf    *)
(* the tree never held at that index.                                       *)
RootsAreOfTheTree ==
  \A r \in validRoots : \A e \in r :
    /\ e[1] \in DOMAIN leaves
    /\ leaves[e[1]] \in {e[2], Zero}

(* An index is assigned once: later calls append leaves or zero them, so the *)
(* position a holder's path is built for stays that holder's.               *)
LeavesOnlyZeroed ==
  [][\A i \in DOMAIN leaves :
        i \in DOMAIN leaves' /\ leaves'[i] \in {leaves[i], Zero}]_vars
-----------------------------------------------------------------------------
(* Claims of the repository that the code does not keep. *)

Quiet == \A c \in Caller : pc[c] \in {"new", "done"}

(* SPEC.md gives the witness path as leading "to the published root": with   *)
(* no call under way and none failed, the tree's root is on chain.          *)
CurrentRootIsPublished ==
  Quiet /\ (\A c \in Caller : answer[c] # "ERROR") => RootOf(leaves) \in validRoots

(* SPEC.md: "Revocation (issuer updates root, old proof fails)".            *)
RevokedProofFails ==
  \A c \in Revocation : answer[c] = "OK" =>
    \A r \in validRoots : \A e \in r : e[2] # target[c]
=============================================================================
