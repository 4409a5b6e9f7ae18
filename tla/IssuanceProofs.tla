--------------------------- MODULE IssuanceProofs ---------------------------
(***************************************************************************)
(* Proofs about Issuance, for any number of mints and revocations over any  *)
(* tree: its types, that a credential owns its leaf and can be proved, that *)
(* the roots on chain are of the tree, that leaves are only zeroed, and that *)
(* only a race leaves the tree's root unpublished; about MintLog, for any    *)
(* number of lines and connections; and that Issuance's roots are those of   *)
(* Circuit's tree.                                                          *)
(***************************************************************************)
EXTENDS MCTree, CircuitProofs, SequenceTheorems, TLAPS

(* Every leaf a root commits to is in the tree, or was zeroed since.        *)
OfTheTree(r) == \A e \in r : e[1] \in DOMAIN leaves /\ leaves[e[1]] \in {e[2], Zero}

(* Where a mint puts its leaf: after those it has read.                     *)
At(c) == Len(loaded[c]) + 1

(* What a mint has read is the tree of that moment, and its root is of that *)
(* tree with its own leaf added.                                            *)
HasRead(c) ==
  /\ Len(loaded[c]) <= Len(leaves)
  /\ \A i \in DOMAIN loaded[c] : leaves[i] \in {loaded[c][i], Zero}
  /\ root[c] = RootOf(Append(loaded[c], c))

(* The leaf of a mint under way is in the tree and in the root it publishes. *)
HasLeaf(c) ==
  /\ At(c) \in DOMAIN leaves /\ leaves[At(c)] = c
  /\ <<At(c), c>> \in root[c]

Unsent     == {"new", "resolve", "load", "insert", "read", "zero", "reload",
               "sequence", "send"}
Publishing == {"sequence", "send", "poll", "history", "create"}

CallInv(c) ==
  /\ pc[c] \in {"resolve", "load", "insert", "create", "vc"} => c \in Mint
  /\ pc[c] \in {"read", "zero", "reload"} => c \notin Mint
  /\ pc[c] \in Unsent => tx[c] = "none"
  /\ tx[c] # "none" \/ pc[c] \in Publishing => OfTheTree(root[c])
  /\ tx[c] = "success" \/ pc[c] \in {"history", "create"} => root[c] \in validRoots
  /\ pc[c] = "create" => InHistory(root[c])
  /\ pc[c] = "insert" => HasRead(c)
  /\ c \in Mint /\ pc[c] \in Publishing => HasLeaf(c)
  /\ c \in Mint /\ pc[c] \in Unsent \cup Publishing => RowOf(c) = {}

IInv ==
  /\ TypeOK
  /\ CredentialsOwnTheirLeaf
  /\ IssuedIsProvable
  /\ RootsAreOfTheTree
  /\ \A c \in Caller : CallInv(c)
-----------------------------------------------------------------------------
(* Roots.                                                                   *)
LEMMA RootOfTyped == ASSUME NEW s \in Leaves PROVE IsRoot(RootOf(s))
  BY DEF Leaves, RootOf, IsRoot

LEMMA PrefixIs ==
  ASSUME NEW s \in Leaves, NEW n \in DOMAIN s
  PROVE  /\ Prefix(s, n) \in Leaves /\ Len(Prefix(s, n)) = n
         /\ \A i \in 1 .. n : Prefix(s, n)[i] = s[i]
  BY DEF Prefix, Leaves

LEMMA OldLeaves == Old \in Leaves /\ \A i \in DOMAIN Old : Old[i] \in Credential /\ Old[i] # Zero
<1>1. Old \in Seq(Range(Old)) /\ Range(Old) \subseteq Credential /\ Zero \notin Credential
  BY IssuanceAssumption DEF Credential
<1> QED
  BY <1>1 DEF Leaves

(* The root of a tree with a new last leaf commits to what the tree held and *)
(* to that leaf.                                                            *)
LEMMA RootOfAppend ==
  ASSUME NEW s \in Leaves, NEW c \in Credential
  PROVE  /\ IsRoot(RootOf(Append(s, c)))
         /\ <<Len(s) + 1, c>> \in RootOf(Append(s, c))
         /\ \A e \in RootOf(Append(s, c)) :
              \/ e[1] \in DOMAIN s /\ e[2] = s[e[1]]
              \/ e[1] = Len(s) + 1 /\ e[2] = c
<1>1. Append(s, c) \in Leaves /\ c # Zero
  BY IssuanceAssumption DEF Leaves
<1>2. IsRoot(RootOf(Append(s, c)))
  BY <1>1, RootOfTyped
<1>3. Len(Append(s, c)) = Len(s) + 1 /\ Append(s, c)[Len(s) + 1] = c
  BY DEF Leaves
<1>4. \A i \in DOMAIN s : Append(s, c)[i] = s[i]
  BY DEF Leaves
<1>5. DOMAIN Append(s, c) = 1 .. (Len(s) + 1) /\ DOMAIN s = 1 .. Len(s) /\ Len(s) \in Nat
  BY <1>1, <1>3 DEF Leaves
<1> HIDE DEF Leaves
<1>6. <<Len(s) + 1, c>> \in RootOf(Append(s, c))
  BY <1>1, <1>3, <1>5 DEF RootOf
<1>7. ASSUME NEW e \in RootOf(Append(s, c))
      PROVE  \/ e[1] \in DOMAIN s /\ e[2] = s[e[1]]
             \/ e[1] = Len(s) + 1 /\ e[2] = c
  <2>1. PICK i \in DOMAIN Append(s, c) : e = <<i, Append(s, c)[i]>>
    BY <1>7 DEF RootOf
  <2> QED
    BY <2>1, <1>3, <1>4, <1>5
<1> QED
  BY <1>2, <1>6, <1>7
-----------------------------------------------------------------------------
(* The states before any call: the old credentials and what is left of them. *)
LEMMA InitInv == Init => IInv
<1> SUFFICES ASSUME Init PROVE IInv
  OBVIOUS
<1> DEFINE Minted == {History(RootOf(Prefix(Old, i)), i) : i \in DOMAIN Old}
           Current == History(RootOf(leaves), Len(leaves))
<1>1. /\ leaves = [i \in DOMAIN Old |-> IF Old[i] \in OldRevoked THEN Zero ELSE Old[i]]
      /\ leaves \in Leaves /\ Len(leaves) = Len(Old) /\ DOMAIN leaves = DOMAIN Old
      /\ DOMAIN Old = 1 .. Len(Old) /\ Len(Old) \in Nat
  BY OldLeaves DEF Init, Leaves
<1>2. ASSUME NEW i \in DOMAIN Old
      PROVE  /\ IsRoot(RootOf(Prefix(Old, i))) /\ OfTheTree(RootOf(Prefix(Old, i)))
             /\ <<i, Old[i]>> \in RootOf(Prefix(Old, i))
             /\ \A e \in RootOf(Prefix(Old, i)) : e[1] <= i
  <2>1. /\ Prefix(Old, i) \in Leaves
        /\ DOMAIN Prefix(Old, i) = 1 .. i /\ \A j \in 1 .. i : Prefix(Old, i)[j] = Old[j]
    BY OldLeaves, PrefixIs DEF Leaves
  <2>2. IsRoot(RootOf(Prefix(Old, i)))
    BY <2>1, RootOfTyped
  <2>3. <<i, Old[i]>> \in RootOf(Prefix(Old, i))
    BY <2>1, <1>1, OldLeaves DEF RootOf
  <2>4. ASSUME NEW e \in RootOf(Prefix(Old, i))
        PROVE  /\ e[1] <= i /\ e[1] \in DOMAIN leaves
               /\ leaves[e[1]] \in {e[2], Zero}
    <3>1. PICK j \in 1 .. i : e = <<j, Old[j]>>
      BY <2>1, <2>4 DEF RootOf
    <3> QED
      BY <3>1, <1>1
  <2> QED
    BY <2>2, <2>3, <2>4 DEF OfTheTree
<1>3. IsRoot(RootOf(leaves)) /\ OfTheTree(RootOf(leaves))
      /\ \A e \in RootOf(leaves) : e[1] <= Len(leaves)
  BY <1>1, RootOfTyped DEF RootOf, OfTheTree
<1>4. \A h \in rootHistory : h \in Minted \/ h = Current
  BY DEF Init
<1>5. Minted \subseteq rootHistory /\ validRoots = {h.root : h \in rootHistory}
  BY DEF Init
<1>6. ASSUME NEW h \in rootHistory
      PROVE  /\ IsRoot(h.root) /\ OfTheTree(h.root) /\ h.leafCount \in 0 .. Len(leaves)
             /\ \A e \in h.root : e[1] <= h.leafCount
  <2>1. CASE h \in Minted
    <3>1. PICK i \in DOMAIN Old : h.root = RootOf(Prefix(Old, i)) /\ h.leafCount = i
      BY <2>1 DEF History
    <3>2. i \in 0 .. Len(leaves)
      BY <1>1
    <3>3. IsRoot(h.root) /\ OfTheTree(h.root) /\ \A e \in h.root : e[1] <= i
      BY <3>1, <1>2
    <3> QED
      BY <3>1, <3>2, <3>3
  <2>2. CASE h = Current
    BY <2>2, <1>1, <1>3 DEF History
  <2> QED
    BY <1>4, <1>6, <2>1, <2>2
<1>7. ASSUME NEW k \in credentials
      PROVE  \E i \in DOMAIN Old :
               /\ k.credential = Old[i] /\ k.index = i /\ k.root = RootOf(Prefix(Old, i))
               /\ k.status = (IF Old[i] \in OldRevoked THEN "REVOKED" ELSE "ACTIVE")
               /\ k.vc = "stored"
               /\ k = Row(Old[i], i, RootOf(Prefix(Old, i)), k.status, "stored")
  BY <1>7 DEF Init, Row
<1>8. TypeOK
  <2>1. IsRoot(treeRow)
    BY OldLeaves, RootOfTyped DEF Init
  <2>2. loaded \in [Caller -> Leaves] /\ \A c \in Caller : IsRoot(root[c])
    BY DEF Init, Leaves, IsRoot
  <2>3. \A k \in credentials :
          /\ k = Row(k.credential, k.index, k.root, k.status, k.vc)
          /\ k.credential \in Credential /\ k.index \in DOMAIN leaves /\ IsRoot(k.root)
          /\ k.status \in {"ACTIVE", "REVOKED"} /\ k.vc \in {"pending", "stored"}
    BY <1>1, <1>2, <1>7, OldLeaves
  <2>4. /\ pc \in [Caller -> Step] /\ DOMAIN root = Caller
        /\ target \in [Caller -> Credential]
        /\ answer \in [Caller -> {"none", "OK", "ERROR", "ALREADY_REVOKED"}]
    BY DEF Init, Step
  <2>5. Account!TypeOK
    BY DEF Init, Account!Init, Account!TypeOK, Account!TxState
  <2> QED
    BY <1>1, <1>5, <1>6, <2>1, <2>2, <2>3, <2>4, <2>5 DEF TypeOK
<1>9. CredentialsOwnTheirLeaf
  BY <1>1, <1>7 DEF CredentialsOwnTheirLeaf
<1>10. IssuedIsProvable
  <2>1. ASSUME NEW i \in DOMAIN Old
        PROVE  \E h \in rootHistory : h.root = RootOf(Prefix(Old, i))
    <3>1. History(RootOf(Prefix(Old, i)), i) \in rootHistory
      BY <1>5
    <3> QED
      BY <3>1 DEF History
  <2> QED
    BY <1>2, <1>5, <1>6, <1>7, <2>1 DEF IssuedIsProvable, InHistory
<1>11. RootsAreOfTheTree
  BY <1>5, <1>6 DEF RootsAreOfTheTree, OfTheTree
<1>12. ASSUME NEW c \in Caller PROVE CallInv(c)
  <2>1. c \in Mint => RowOf(c) = {}
    BY <1>7, IssuanceAssumption DEF RowOf, Range
  <2> QED
    BY <1>12, <2>1 DEF Init, Account!Init, CallInv, Publishing
<1> QED
  BY <1>8, <1>9, <1>10, <1>11, <1>12 DEF IInv
-----------------------------------------------------------------------------
(* TypeOK, step by step.                                                    *)
LEMMA AccountTyped ==
  ASSUME Account!TypeOK, NEW c \in Caller,
         \/ Account!Build(c) \/ Account!Submit(c) \/ Account!Drop(c)
         \/ Account!Include(c, "success") \/ UNCHANGED ledgerVars
  PROVE  Account!TypeOK'
  BY DEF Account!TypeOK, Account!TxState, Account!Build, Account!Submit,
         Account!Drop, Account!Include, ledgerVars

LEMMA PcTyped ==
  ASSUME pc \in [Caller -> Step],
         answer \in [Caller -> {"none", "OK", "ERROR", "ALREADY_REVOKED"}],
         NEW c \in Caller, NEW from \in Step,
         \/ \E to \in Step : Goto(c, from, to)
         \/ \E r \in {"OK", "ERROR", "ALREADY_REVOKED"} : Finish(c, from, r)
  PROVE  /\ pc' \in [Caller -> Step]
         /\ answer' \in [Caller -> {"none", "OK", "ERROR", "ALREADY_REVOKED"}]
  BY DEF Goto, Finish, Step

(* The calls that only talk: none of the tables and no root on chain changes. *)
Talk(c) ==
  \/ Start(c) \/ Resolve(c) \/ LoadTree(c) \/ ReadCredential(c) \/ CurrentRoot(c)
  \/ ReadSequence(c) \/ Send(c) \/ Poll(c) \/ Audit(c)
  \/ Throw(c) \/ Crash(c) \/ Drop(c)

LEMMA TalkTyped ==
  ASSUME IInv, NEW c \in Caller, Talk(c)
  PROVE  TypeOK' /\ UNCHANGED <<treeVars, tableVars, validRoots>>
<1> USE DEF IInv
<1>1. UNCHANGED <<treeVars, tableVars, validRoots>> /\ UNCHANGED target
  BY DEF Talk, Start, Resolve, LoadTree, ReadCredential, CurrentRoot, ReadSequence,
         Send, Poll, Audit, Throw, Crash, Drop, callVars
<1>2. Account!TypeOK'
  BY AccountTyped DEF TypeOK, Talk, Start, Resolve, LoadTree, ReadCredential, CurrentRoot,
                      ReadSequence, Send, Poll, Audit, Throw, Crash, Drop
<1>3. /\ pc' \in [Caller -> Step]
      /\ answer' \in [Caller -> {"none", "OK", "ERROR", "ALREADY_REVOKED"}]
  <2> USE DEF TypeOK
  <2>1. CASE Start(c) \/ Resolve(c) \/ LoadTree(c) \/ ReadCredential(c) \/ CurrentRoot(c)
    BY <2>1 DEF Start, Resolve, LoadTree, ReadCredential, CurrentRoot, Goto, Finish, Step
  <2>2. CASE ReadSequence(c) \/ Send(c) \/ Poll(c) \/ Audit(c)
    BY <2>2 DEF ReadSequence, Send, Poll, Audit, Goto, Finish, Step
  <2>3. CASE Throw(c) \/ Crash(c) \/ Drop(c)
    BY <2>3 DEF Throw, Crash, Drop, Finish, Step
  <2> QED
    BY <2>1, <2>2, <2>3 DEF Talk
<1>4. /\ loaded' \in [Caller -> Leaves]
      /\ DOMAIN root' = Caller /\ \A d \in Caller : IsRoot(root'[d])
  <2>1. CASE LoadTree(c)
    <3>1. c \in Mint /\ c \in Credential /\ leaves \in Leaves
      BY <2>1 DEF LoadTree, Goto, CallInv, TypeOK, Credential
    <3>2. IsRoot(RootOf(Append(leaves, c)))
      BY <3>1, RootOfAppend
    <3> QED
      BY <2>1, <3>1, <3>2 DEF LoadTree, TypeOK
  <2>2. CASE CurrentRoot(c)
    <3>1. IsRoot(RootOf(leaves))
      BY RootOfTyped DEF TypeOK
    <3> QED
      BY <2>2, <3>1 DEF CurrentRoot, TypeOK
  <2>3. CASE UNCHANGED callVars
    BY <2>3 DEF callVars, TypeOK
  <2> QED
    BY <2>1, <2>2, <2>3
       DEF Talk, Start, Resolve, ReadCredential, ReadSequence, Send, Poll, Audit,
           Throw, Crash, Drop
<1> QED
  BY <1>1, <1>2, <1>3, <1>4 DEF TypeOK, treeVars, tableVars

(* A rewritten row differs from the row it was in status or vc only.        *)
RowTyped(k) ==
  /\ k = Row(k.credential, k.index, k.root, k.status, k.vc)
  /\ k.credential \in Credential /\ k.index \in DOMAIN leaves /\ IsRoot(k.root)
  /\ k.status \in {"ACTIVE", "REVOKED"} /\ k.vc \in {"pending", "stored"}

LEMMA Rewritten ==
  ASSUME NEW k, RowTyped(k)
  PROVE  /\ [k EXCEPT !.status = "REVOKED"] =
               Row(k.credential, k.index, k.root, "REVOKED", k.vc)
         /\ [k EXCEPT !.vc = "stored"] =
               Row(k.credential, k.index, k.root, k.status, "stored")
  BY DEF RowTyped, Row

LEMMA RowFields ==
  \A c, i, r, s, v : /\ Row(c, i, r, s, v).credential = c /\ Row(c, i, r, s, v).index = i
                     /\ Row(c, i, r, s, v).root = r /\ Row(c, i, r, s, v).status = s
                     /\ Row(c, i, r, s, v).vc = v
  BY DEF Row

(* What the leaf table does in a step: an index keeps its leaf or is zeroed,  *)
(* and zeroed only for a credential that has its row.                       *)
LeavesKept ==
  /\ \A i \in DOMAIN leaves : i \in DOMAIN leaves' /\ leaves'[i] \in {leaves[i], Zero}
  /\ \A i \in DOMAIN leaves : leaves'[i] = leaves[i] \/ RowOf(leaves[i]) # {}

LEMMA InsertTyped ==
  ASSUME IInv, NEW c \in Caller, InsertLeaf(c)
  PROVE  TypeOK' /\ LeavesKept
<1> USE DEF IInv
<1>1. c \in Mint /\ c \in Credential /\ leaves \in Leaves
  BY DEF InsertLeaf, Goto, Finish, CallInv, TypeOK, Credential
<1>2. Append(leaves, c) \in Leaves /\ Len(Append(leaves, c)) = Len(leaves) + 1
  BY <1>1 DEF Leaves
<1>3. leaves' = leaves \/ leaves' = Append(leaves, c)
  BY DEF InsertLeaf, treeVars
<1>4. leaves' \in Leaves /\ Len(leaves') \in Nat /\ Len(leaves') >= Len(leaves)
  BY <1>1, <1>2, <1>3 DEF Leaves
<1>5. LeavesKept
  BY <1>1, <1>3 DEF LeavesKept, Leaves
<1>6. IsRoot(treeRow')
  BY DEF InsertLeaf, treeVars, TypeOK
<1>7. /\ pc' \in [Caller -> Step]
      /\ answer' \in [Caller -> {"none", "OK", "ERROR", "ALREADY_REVOKED"}]
  BY DEF InsertLeaf, Goto, Finish, Step, TypeOK
<1>8. UNCHANGED <<tableVars, validRoots, callVars, ledgerVars>>
  BY DEF InsertLeaf
<1>9. Account!TypeOK'
  BY <1>8, AccountTyped DEF TypeOK
<1>10. \A h \in rootHistory' : IsRoot(h.root) /\ h.leafCount \in 0 .. Len(leaves')
  BY <1>1, <1>4, <1>8 DEF TypeOK, tableVars, Leaves
<1> QED
  BY <1>4, <1>5, <1>6, <1>7, <1>8, <1>9, <1>10
     DEF TypeOK, tableVars, callVars, LeavesKept

LEMMA ZeroTyped ==
  ASSUME IInv, NEW c \in Caller, ZeroLeaf(c)
  PROVE  TypeOK' /\ LeavesKept
<1> USE DEF IInv
<1>1. PICK k \in RowOf(target[c]) :
        /\ leaves' = [leaves EXCEPT ![k.index] = Zero]
        /\ credentials' = (credentials \ {k}) \cup {[k EXCEPT !.status = "REVOKED"]}
  BY DEF ZeroLeaf
<1>2. k \in credentials /\ k.index \in DOMAIN leaves /\ leaves \in Leaves
  BY <1>1 DEF RowOf, TypeOK
<1>3. leaves' \in Leaves /\ Len(leaves') = Len(leaves) /\ DOMAIN leaves' = DOMAIN leaves
  BY <1>1, <1>2 DEF Leaves
<1>4. leaves[k.index] = k.credential \/ leaves[k.index] = Zero
  BY <1>2 DEF CredentialsOwnTheirLeaf
<1>5. k \in RowOf(k.credential)
  BY <1>2 DEF RowOf
<1>6. LeavesKept
  BY <1>1, <1>2, <1>3, <1>4, <1>5 DEF LeavesKept
<1>7. /\ pc' \in [Caller -> Step]
      /\ answer' \in [Caller -> {"none", "OK", "ERROR", "ALREADY_REVOKED"}]
  BY DEF ZeroLeaf, Goto, Step, TypeOK
<1>8. UNCHANGED <<treeRow, rootHistory, validRoots, callVars, ledgerVars>>
  BY DEF ZeroLeaf
<1>9. Account!TypeOK'
  BY <1>8, AccountTyped DEF TypeOK
<1>10. \A m \in credentials' :
         /\ m = Row(m.credential, m.index, m.root, m.status, m.vc)
         /\ m.credential \in Credential /\ m.index \in DOMAIN leaves' /\ IsRoot(m.root)
         /\ m.status \in {"ACTIVE", "REVOKED"} /\ m.vc \in {"pending", "stored"}
  <2>1. RowTyped(k)
    BY <1>2 DEF TypeOK, RowTyped
  <2>2. [k EXCEPT !.status = "REVOKED"] = Row(k.credential, k.index, k.root, "REVOKED", k.vc)
    BY <2>1, Rewritten
  <2> QED
    BY <1>1, <1>3, <2>1, <2>2, RowFields DEF RowTyped, TypeOK
<1> QED
  BY <1>3, <1>6, <1>7, <1>8, <1>9, <1>10 DEF TypeOK, callVars

(* The steps on the other tables and the chain.                             *)
LEMMA TableTyped ==
  ASSUME IInv, NEW c \in Caller,
         RecordRoot(c) \/ CreateCredential(c) \/ WriteVC(c) \/ Apply(c)
  PROVE  TypeOK'
<1> USE DEF IInv
<1>1. UNCHANGED <<treeVars, callVars>>
  BY DEF RecordRoot, CreateCredential, WriteVC, Apply
<1>2. Account!TypeOK'
  BY AccountTyped DEF TypeOK, RecordRoot, CreateCredential, WriteVC, Apply
<1>3. /\ pc' \in [Caller -> Step]
      /\ answer' \in [Caller -> {"none", "OK", "ERROR", "ALREADY_REVOKED"}]
  BY DEF RecordRoot, CreateCredential, WriteVC, Apply, Goto, Finish, Step, TypeOK
<1>4. \A h \in rootHistory' : IsRoot(h.root) /\ h.leafCount \in 0 .. Len(leaves)
  <2>1. CASE RecordRoot(c)
    <3>1. Len(leaves) \in 0 .. Len(leaves) /\ IsRoot(root[c])
      BY DEF TypeOK, Leaves
    <3>2. History(root[c], Len(leaves)).root = root[c]
          /\ History(root[c], Len(leaves)).leafCount = Len(leaves)
      BY DEF History
    <3> QED
      BY <2>1, <3>1, <3>2 DEF RecordRoot, TypeOK
  <2> QED
    BY <2>1 DEF CreateCredential, WriteVC, Apply, tableVars, TypeOK
<1>5. \A r \in validRoots' : IsRoot(r)
  BY DEF RecordRoot, CreateCredential, WriteVC, Apply, TypeOK
<1>6. \A k \in credentials' : RowTyped(k)
  <2>1. \A k \in credentials : RowTyped(k)
    BY DEF TypeOK, RowTyped
  <2>2. CASE CreateCredential(c)
    <3>1. c \in Mint /\ c \in Credential /\ At(c) \in DOMAIN leaves /\ IsRoot(root[c])
      BY <2>2 DEF CreateCredential, Goto, CallInv, Publishing, HasLeaf, TypeOK, Credential
    <3>2. RowTyped(Row(c, At(c), root[c], "ACTIVE", "pending"))
      BY <3>1, RowFields DEF RowTyped
    <3> QED
      BY <2>1, <2>2, <3>2 DEF CreateCredential, At
  <2>3. CASE WriteVC(c)
    <3>1. PICK k \in RowOf(c) :
            credentials' = (credentials \ {k}) \cup {[k EXCEPT !.vc = "stored"]}
      BY <2>3 DEF WriteVC
    <3>2. RowTyped(k)
      BY <2>1 DEF RowOf
    <3>3. RowTyped([k EXCEPT !.vc = "stored"])
      <4>1. [k EXCEPT !.vc = "stored"] = Row(k.credential, k.index, k.root, k.status, "stored")
        BY <3>2, Rewritten
      <4>2. RowTyped(Row(k.credential, k.index, k.root, k.status, "stored"))
        BY <3>2, RowFields DEF RowTyped
      <4> QED
        BY <4>1, <4>2
    <3> QED
      BY <2>1, <3>1, <3>3
  <2> QED
    BY <2>1, <2>2, <2>3 DEF RecordRoot, Apply, tableVars
<1> QED
  BY <1>1, <1>2, <1>3, <1>4, <1>5, <1>6 DEF TypeOK, RowTyped, treeVars, callVars
-----------------------------------------------------------------------------
(* What a step of one call leaves to the others.                            *)
LEMMA OthersKeep ==
  ASSUME IInv, TypeOK', LeavesKept, NEW c, NEW d \in Caller,
         RowOf(d) = {} => RowOf(d)' = {},
         validRoots \subseteq validRoots', rootHistory \subseteq rootHistory',
         pc'[d] = pc[d], loaded'[d] = loaded[d], root'[d] = root[d], tx'[d] = tx[d]
  PROVE  CallInv(d)'
<1> USE DEF IInv
<1>1. CallInv(d)
  OBVIOUS
<1>2. OfTheTree(root[d]) => OfTheTree(root[d])'
  BY DEF LeavesKept, OfTheTree
<1>3. InHistory(root[d]) => InHistory(root[d])'
  BY DEF InHistory
<1>4. HasRead(d) => HasRead(d)'
  <2>1. ASSUME HasRead(d) PROVE Len(loaded[d]) <= Len(leaves')
    BY <2>1 DEF HasRead, LeavesKept, TypeOK, Leaves
  <2>2. ASSUME HasRead(d) PROVE DOMAIN loaded[d] \subseteq DOMAIN leaves
    BY <2>2 DEF HasRead, TypeOK, Leaves
  <2> QED
    BY <2>1, <2>2 DEF HasRead, LeavesKept
<1>5. RowOf(d) = {} /\ HasLeaf(d) => HasLeaf(d)'
  BY DEF HasLeaf, At, LeavesKept
<1> QED
  BY <1>1, <1>2, <1>3, <1>4, <1>5 DEF CallInv

(* A step that changes no table and no root on chain keeps what is said of   *)
(* them.                                                                    *)
LEMMA TablesKept ==
  ASSUME IInv, TypeOK', UNCHANGED <<treeVars, tableVars, validRoots>>
  PROVE  /\ CredentialsOwnTheirLeaf' /\ IssuedIsProvable' /\ RootsAreOfTheTree'
         /\ LeavesKept /\ \A d \in Caller : RowOf(d)' = RowOf(d)
  BY DEF IInv, treeVars, tableVars, CredentialsOwnTheirLeaf, IssuedIsProvable, InHistory,
         RootsAreOfTheTree, LeavesKept, RowOf

LEMMA TalkStep ==
  ASSUME IInv, NEW c \in Caller, Talk(c)
  PROVE  IInv' /\ LeavesKept
<1>1. TypeOK' /\ UNCHANGED <<treeVars, tableVars, validRoots>>
  BY TalkTyped
<1>2. /\ CredentialsOwnTheirLeaf' /\ IssuedIsProvable' /\ RootsAreOfTheTree'
      /\ LeavesKept /\ \A d \in Caller : RowOf(d)' = RowOf(d)
  BY <1>1, TablesKept
<1> USE DEF IInv
<1>3. ASSUME NEW d \in Caller, d # c PROVE CallInv(d)'
  <2>1. pc'[d] = pc[d] /\ loaded'[d] = loaded[d] /\ root'[d] = root[d] /\ tx'[d] = tx[d]
    <3> USE DEF Goto, Finish, callVars, ledgerVars, TypeOK, Account!TypeOK,
                Account!Build, Account!Submit, Account!Drop
    <3>1. CASE Start(c) \/ Resolve(c) \/ LoadTree(c) \/ ReadCredential(c) \/ CurrentRoot(c)
      BY <1>3, <3>1 DEF Start, Resolve, LoadTree, ReadCredential, CurrentRoot
    <3>2. CASE ReadSequence(c) \/ Send(c) \/ Poll(c) \/ Audit(c)
      BY <1>3, <3>2 DEF ReadSequence, Send, Poll, Audit
    <3>3. CASE Throw(c) \/ Crash(c) \/ Drop(c)
      BY <1>3, <3>3 DEF Throw, Crash, Drop
    <3> QED
      BY <3>1, <3>2, <3>3 DEF Talk
  <2> QED
    BY <1>1, <1>2, <2>1, OthersKeep DEF tableVars
<1>4. CallInv(c)'
  <2>1. CallInv(c) /\ c \in Caller
    OBVIOUS
  <2>2. /\ OfTheTree(root[c]) /\ UNCHANGED root => OfTheTree(root[c])'
        /\ InHistory(root[c]) /\ UNCHANGED root => InHistory(root[c])'
        /\ HasLeaf(c) /\ UNCHANGED <<loaded, root>> => HasLeaf(c)'
        /\ RowOf(c)' = RowOf(c) /\ validRoots' = validRoots
    BY <1>1, <1>2 DEF treeVars, tableVars, OfTheTree, InHistory, HasLeaf, At
  <2> USE DEF Goto, Finish, callVars, ledgerVars, TypeOK, Account!TypeOK,
              Account!Build, Account!Submit, Account!Drop
  <2>3. CASE Start(c) \/ Resolve(c)
    BY <2>1, <2>2, <2>3 DEF Start, Resolve, CallInv, Unsent, Publishing
  <2>4. CASE LoadTree(c)
    <3>1. HasRead(c)'
      BY <1>1, <2>4 DEF LoadTree, HasRead, treeVars, Leaves
    <3> QED
      BY <2>1, <2>2, <2>4, <3>1 DEF LoadTree, CallInv, Unsent, Publishing
  <2>5. CASE ReadCredential(c)
    BY <2>1, <2>2, <2>5 DEF ReadCredential, CallInv, Unsent, Publishing
  <2>6. CASE CurrentRoot(c)
    <3>1. OfTheTree(RootOf(leaves))'
      BY <1>1 DEF OfTheTree, RootOf, treeVars
    <3> QED
      BY <1>1, <2>1, <2>2, <2>6, <3>1
         DEF CurrentRoot, CallInv, Unsent, Publishing, treeVars
  <2>7. CASE ReadSequence(c) \/ Send(c)
    BY <2>1, <2>2, <2>7 DEF ReadSequence, Send, CallInv, Unsent, Publishing
  <2>8. CASE Poll(c) \/ Audit(c)
    BY <2>1, <2>2, <2>8 DEF Poll, Audit, CallInv, Unsent, Publishing
  <2>9. CASE Throw(c) \/ Crash(c)
    BY <2>1, <2>2, <2>9 DEF Throw, Crash, CallInv, Unsent, Publishing
  <2>10. CASE Drop(c)
    BY <2>1, <2>2, <2>10 DEF Drop, CallInv, Unsent, Publishing, HasRead, treeVars
  <2> QED
    BY <2>3, <2>4, <2>5, <2>6, <2>7, <2>8, <2>9, <2>10 DEF Talk
<1> QED
  BY <1>1, <1>2, <1>3, <1>4

(* insertLeaf: the new leaf is where no row points, and its root is of the   *)
(* tree as it is now.                                                       *)
LEMMA InsertStep ==
  ASSUME IInv, NEW c \in Caller, InsertLeaf(c)
  PROVE  IInv' /\ LeavesKept
<1>1. TypeOK' /\ LeavesKept
  BY InsertTyped
<1>2. /\ UNCHANGED <<tableVars, validRoots, callVars, ledgerVars>>
      /\ \A d \in Caller : RowOf(d)' = RowOf(d)
  BY DEF InsertLeaf, tableVars, RowOf
<1> USE DEF IInv
<1>3. /\ c \in Mint /\ c \in Credential /\ HasRead(c) /\ RowOf(c) = {} /\ tx[c] = "none"
      /\ leaves \in Leaves /\ loaded[c] \in Leaves /\ c # Zero
  BY IssuanceAssumption
     DEF InsertLeaf, Goto, Finish, CallInv, Unsent, TypeOK, Credential
<1>4. CredentialsOwnTheirLeaf'
  <2>1. ASSUME NEW k \in credentials PROVE leaves'[k.index] = leaves[k.index]
    <3>1. leaves' = leaves \/ leaves' = Append(leaves, c)
      BY DEF InsertLeaf, treeVars
    <3>2. \A i \in DOMAIN leaves : Append(leaves, c)[i] = leaves[i]
      BY <1>3 DEF Leaves
    <3> QED
      BY <3>1, <3>2 DEF TypeOK
  <2> QED
    BY <1>2, <2>1 DEF CredentialsOwnTheirLeaf, tableVars
<1>5. IssuedIsProvable'
  BY <1>2 DEF IssuedIsProvable, InHistory, tableVars
<1>6. RootsAreOfTheTree'
  BY <1>1, <1>2 DEF RootsAreOfTheTree, LeavesKept
<1>7. ASSUME NEW d \in Caller, d # c PROVE CallInv(d)'
  <2>1. pc'[d] = pc[d] /\ loaded'[d] = loaded[d] /\ root'[d] = root[d] /\ tx'[d] = tx[d]
    BY <1>2, <1>7 DEF InsertLeaf, Goto, Finish, TypeOK, callVars, ledgerVars
  <2> QED
    BY <1>1, <1>2, <1>7, <2>1, OthersKeep DEF tableVars
<1> HIDE DEF IInv
<1>8. ASSUME pc'[c] = "sequence" PROVE CallInv(c)'
  <2>1. leaves' = Append(leaves, c) /\ Len(loaded[c]) = Len(leaves)
    BY <1>3, <1>8 DEF InsertLeaf, Goto, Finish, IInv, TypeOK
  <2>2. leaves'[Len(leaves) + 1] = c /\ DOMAIN leaves' = 1 .. (Len(leaves) + 1)
        /\ DOMAIN leaves = 1 .. Len(leaves) /\ DOMAIN loaded[c] = 1 .. Len(leaves)
        /\ \A i \in DOMAIN leaves : leaves'[i] = leaves[i]
        /\ Len(leaves) \in Nat
    BY <1>3, <2>1 DEF Leaves
  <2>3. ASSUME NEW e \in root[c]
        PROVE  e[1] \in DOMAIN leaves' /\ leaves'[e[1]] \in {e[2], Zero}
    <3>1. \/ e[1] \in DOMAIN loaded[c] /\ e[2] = loaded[c][e[1]]
          \/ e[1] = Len(loaded[c]) + 1 /\ e[2] = c
      <4>1. e \in RootOf(Append(loaded[c], c))
        BY <1>3, <2>3 DEF HasRead
      <4>2. loaded[c] \in Leaves /\ c \in Credential
        BY <1>3
      <4> QED
        BY <4>1, <4>2, RootOfAppend
    <3> QED
      BY <1>3, <2>1, <2>2, <3>1 DEF HasRead
  <2>4. <<Len(loaded[c]) + 1, c>> \in root[c]
    BY <1>3, RootOfAppend DEF HasRead
  <2>5. OfTheTree(root[c])' /\ HasLeaf(c)'
    BY <1>2, <2>1, <2>2, <2>3, <2>4 DEF OfTheTree, HasLeaf, At, callVars
  <2> QED
    BY <1>2, <1>3, <1>8, <2>5 DEF CallInv, ledgerVars
<1>9. ASSUME pc'[c] # "sequence" PROVE CallInv(c)'
  <2>1. pc'[c] = "done"
    BY <1>9 DEF InsertLeaf, Goto, Finish, IInv, TypeOK
  <2>2. tx'[c] = "none"
    BY <1>2, <1>3 DEF ledgerVars
  <2> QED
    BY <2>1, <2>2 DEF CallInv, Unsent, Publishing
<1> QED
  BY <1>1, <1>4, <1>5, <1>6, <1>7, <1>8, <1>9 DEF IInv

(* ZeroLeaf: no other row points at the leaf, and no mint waits for a row    *)
(* on it.                                                                   *)
LEMMA ZeroStep ==
  ASSUME IInv, NEW c \in Caller, ZeroLeaf(c)
  PROVE  IInv' /\ LeavesKept
<1>1. TypeOK' /\ LeavesKept
  BY ZeroTyped
<1>2. UNCHANGED <<treeRow, rootHistory, validRoots, callVars, ledgerVars>>
  BY DEF ZeroLeaf
<1> USE DEF IInv
<1>3. PICK k \in RowOf(target[c]) :
        /\ leaves' = [leaves EXCEPT ![k.index] = Zero]
        /\ credentials' = (credentials \ {k}) \cup {[k EXCEPT !.status = "REVOKED"]}
  BY DEF ZeroLeaf
<1>4. RowTyped(k) /\ k \in credentials
  BY <1>3 DEF TypeOK, RowOf, RowTyped
<1> DEFINE revoked == Row(k.credential, k.index, k.root, "REVOKED", k.vc)
<1>5. [k EXCEPT !.status = "REVOKED"] = revoked
  BY <1>4, Rewritten
<1>6. /\ revoked.credential = k.credential /\ revoked.index = k.index
      /\ revoked.root = k.root /\ revoked.status = "REVOKED"
  BY RowFields
<1> HIDE DEF revoked
<1>7. credentials' = (credentials \ {k}) \cup {revoked}
  BY <1>3, <1>5
<1>8. leaves'[k.index] = Zero /\ \A i \in DOMAIN leaves : i # k.index => leaves'[i] = leaves[i]
  BY <1>3, <1>4 DEF RowTyped, TypeOK, Leaves
<1>9. CredentialsOwnTheirLeaf'
  BY <1>4, <1>6, <1>7, <1>8 DEF CredentialsOwnTheirLeaf, TypeOK
<1>10. IssuedIsProvable'
  BY <1>2, <1>4, <1>6, <1>7 DEF IssuedIsProvable, InHistory
<1>11. RootsAreOfTheTree'
  BY <1>1, <1>2 DEF RootsAreOfTheTree, LeavesKept
<1>12. \A d \in Caller : RowOf(d) = {} => RowOf(d)' = {}
  BY <1>4, <1>6, <1>7 DEF RowOf
<1>13. ASSUME NEW d \in Caller, d # c PROVE CallInv(d)'
  <2>1. pc'[d] = pc[d] /\ loaded'[d] = loaded[d] /\ root'[d] = root[d] /\ tx'[d] = tx[d]
    BY <1>2, <1>13 DEF ZeroLeaf, Goto, TypeOK, callVars, ledgerVars
  <2> QED
    BY <1>1, <1>2, <1>12, <1>13, <2>1, OthersKeep
<1>14. CallInv(c)'
  BY <1>2 DEF ZeroLeaf, Goto, TypeOK, CallInv, Unsent, Publishing, ledgerVars, callVars
<1> QED
  BY <1>1, <1>9, <1>10, <1>11, <1>13, <1>14

LEMMA RecordStep ==
  ASSUME IInv, NEW c \in Caller, RecordRoot(c)
  PROVE  IInv' /\ LeavesKept
<1> DEFINE recorded == History(root[c], Len(leaves))
<1>1. TypeOK' /\ UNCHANGED <<treeVars, credentials, validRoots, callVars, ledgerVars>>
  BY TableTyped DEF RecordRoot
<1>2. /\ LeavesKept /\ CredentialsOwnTheirLeaf' /\ RootsAreOfTheTree'
      /\ \A d \in Caller : RowOf(d)' = RowOf(d)
  BY <1>1 DEF IInv, CredentialsOwnTheirLeaf, RootsAreOfTheTree, LeavesKept, RowOf, treeVars
<1>3. rootHistory \subseteq rootHistory'
  BY DEF RecordRoot
<1> USE DEF IInv
<1>4. pc[c] = "history" /\ CallInv(c) /\ leaves \in Leaves
      /\ OfTheTree(root[c]) /\ IsRoot(root[c]) /\ root[c] \in validRoots
  BY DEF RecordRoot, Goto, Finish, CallInv, Publishing, TypeOK
<1>5. \A e \in root[c] : e[1] <= Len(leaves)
  BY <1>4 DEF OfTheTree, Leaves
<1>6. /\ recorded.root = root[c] /\ recorded.leafCount = Len(leaves)
      /\ rootHistory' \in {rootHistory, rootHistory \cup {recorded}}
      /\ pc'[c] = "create" => rootHistory' = rootHistory \cup {recorded}
  BY DEF RecordRoot, Goto, Finish, History, TypeOK
<1> HIDE DEF recorded
<1>7. IssuedIsProvable'
  <2>1. \A h \in rootHistory' :
          h \in rootHistory \/ (h.root = root[c] /\ h.leafCount = Len(leaves))
    BY <1>6
  <2> QED
    BY <1>1, <1>3, <1>5, <2>1 DEF IssuedIsProvable, InHistory
<1>8. ASSUME NEW d \in Caller, d # c PROVE CallInv(d)'
  <2>1. pc'[d] = pc[d] /\ loaded'[d] = loaded[d] /\ root'[d] = root[d] /\ tx'[d] = tx[d]
    BY <1>1, <1>8 DEF RecordRoot, Goto, Finish, TypeOK, callVars, ledgerVars
  <2> QED
    BY <1>1, <1>2, <1>3, <1>8, <2>1, OthersKeep
<1>9. CallInv(c)'
  <2>1. /\ pc'[c] \in {"create", "audit", "done"}
        /\ pc'[c] = "create" => c \in Mint /\ InHistory(root[c])'
    BY <1>1, <1>4, <1>6 DEF RecordRoot, Goto, Finish, TypeOK, InHistory, callVars
  <2>2. c \in Mint => HasLeaf(c)' /\ RowOf(c)' = {}
    BY <1>1, <1>2, <1>4 DEF CallInv, Unsent, Publishing, HasLeaf, At, callVars, treeVars
  <2>3. OfTheTree(root[c])' /\ (root[c] \in validRoots)'
    BY <1>1, <1>4 DEF OfTheTree, treeVars, callVars
  <2> QED
    BY <2>1, <2>2, <2>3 DEF CallInv, Unsent, Publishing
<1> QED
  BY <1>1, <1>2, <1>7, <1>8, <1>9

(* credential.create: no row points at the leaf the new row points at, for  *)
(* the leaf is this credential's and this credential has no row.            *)
LEMMA CreateStep ==
  ASSUME IInv, NEW c \in Caller, CreateCredential(c)
  PROVE  IInv' /\ LeavesKept
<1> DEFINE new == Row(c, At(c), root[c], "ACTIVE", "pending")
<1>1. /\ TypeOK' /\ UNCHANGED <<treeVars, rootHistory, validRoots, callVars, ledgerVars>>
      /\ credentials' = credentials \cup {new}
  BY TableTyped DEF CreateCredential, At
<1>2. /\ new.credential = c /\ new.index = At(c) /\ new.root = root[c]
      /\ new.status = "ACTIVE"
  BY RowFields
<1> HIDE DEF new
<1>3. LeavesKept /\ RootsAreOfTheTree'
  BY <1>1 DEF IInv, RootsAreOfTheTree, LeavesKept, treeVars
<1> USE DEF IInv
<1>4. /\ pc[c] = "create" /\ c \in Mint /\ CallInv(c)
      /\ HasLeaf(c) /\ RowOf(c) = {} /\ root[c] \in validRoots /\ InHistory(root[c])
  BY DEF CreateCredential, Goto, CallInv, Publishing, Unsent
<1>5. CredentialsOwnTheirLeaf'
  <2>1. leaves[At(c)] = c /\ c # Zero
    BY <1>4, IssuanceAssumption DEF HasLeaf, Credential
  <2>2. ASSUME NEW k \in credentials PROVE k.index # At(c)
    <3>1. k.credential # c
      BY <1>4 DEF RowOf
    <3> QED
      BY <2>1, <3>1 DEF CredentialsOwnTheirLeaf
  <2> QED
    BY <1>1, <1>2, <2>1, <2>2 DEF CredentialsOwnTheirLeaf, treeVars
<1>6. IssuedIsProvable'
  BY <1>1, <1>2, <1>4 DEF IssuedIsProvable, InHistory, HasLeaf
<1>7. ASSUME NEW d \in Caller, d # c PROVE CallInv(d)'
  <2>1. pc'[d] = pc[d] /\ loaded'[d] = loaded[d] /\ root'[d] = root[d] /\ tx'[d] = tx[d]
    BY <1>1, <1>7 DEF CreateCredential, Goto, TypeOK, callVars, ledgerVars
  <2>2. RowOf(d) = {} => RowOf(d)' = {}
    BY <1>1, <1>2, <1>7 DEF RowOf
  <2> QED
    BY <1>1, <1>3, <1>7, <2>1, <2>2, OthersKeep
<1>8. CallInv(c)'
  <2>1. pc'[c] = "vc"
    BY DEF CreateCredential, Goto, TypeOK
  <2>2. tx[c] # "none" => OfTheTree(root[c])'
    BY <1>1, <1>4 DEF CallInv, OfTheTree, treeVars, callVars
  <2>3. tx[c] = "success" => (root[c] \in validRoots)'
    BY <1>1, <1>4 DEF callVars
  <2> QED
    BY <1>1, <1>4, <2>1, <2>2, <2>3 DEF CallInv, Unsent, Publishing, ledgerVars
<1> QED
  BY <1>1, <1>3, <1>5, <1>6, <1>7, <1>8

LEMMA WriteStep ==
  ASSUME IInv, NEW c \in Caller, WriteVC(c)
  PROVE  IInv' /\ LeavesKept
<1>1. TypeOK' /\ UNCHANGED <<treeVars, rootHistory, validRoots, callVars, ledgerVars>>
  BY TableTyped DEF WriteVC
<1>2. LeavesKept /\ RootsAreOfTheTree'
  BY <1>1 DEF IInv, RootsAreOfTheTree, LeavesKept, treeVars
<1> USE DEF IInv
<1>3. PICK k \in RowOf(c) : credentials' = (credentials \ {k}) \cup {[k EXCEPT !.vc = "stored"]}
  BY DEF WriteVC
<1>4. RowTyped(k) /\ k \in credentials
  BY <1>3 DEF TypeOK, RowOf, RowTyped
<1> DEFINE written == Row(k.credential, k.index, k.root, k.status, "stored")
<1>5. [k EXCEPT !.vc = "stored"] = written
  BY <1>4, Rewritten
<1>6. /\ written.credential = k.credential /\ written.index = k.index
      /\ written.root = k.root /\ written.status = k.status
  BY RowFields
<1> HIDE DEF written
<1>7. credentials' = (credentials \ {k}) \cup {written}
  BY <1>3, <1>5
<1>8. CredentialsOwnTheirLeaf'
  BY <1>1, <1>4, <1>6, <1>7 DEF CredentialsOwnTheirLeaf, treeVars
<1>9. IssuedIsProvable'
  BY <1>1, <1>4, <1>6, <1>7 DEF IssuedIsProvable, InHistory
<1>10. \A d \in Caller : RowOf(d) = {} => RowOf(d)' = {}
  BY <1>4, <1>6, <1>7 DEF RowOf
<1>11. ASSUME NEW d \in Caller, d # c PROVE CallInv(d)'
  <2>1. pc'[d] = pc[d] /\ loaded'[d] = loaded[d] /\ root'[d] = root[d] /\ tx'[d] = tx[d]
    BY <1>1, <1>11 DEF WriteVC, Goto, TypeOK, callVars, ledgerVars
  <2> QED
    BY <1>1, <1>2, <1>10, <1>11, <2>1, OthersKeep
<1>12. CallInv(c)'
  <2>1. pc'[c] = "audit"
    BY DEF WriteVC, Goto, TypeOK
  <2>2. CallInv(c)
    OBVIOUS
  <2>3. tx[c] # "none" => OfTheTree(root[c])'
    BY <1>1, <2>2 DEF CallInv, OfTheTree, treeVars, callVars
  <2>4. tx[c] = "success" => (root[c] \in validRoots)'
    BY <1>1, <2>2 DEF CallInv, callVars
  <2> QED
    BY <1>1, <2>1, <2>3, <2>4 DEF CallInv, Unsent, Publishing, ledgerVars
<1> QED
  BY <1>1, <1>2, <1>8, <1>9, <1>11, <1>12

(* The ledger applies a set_root: its root has been of the tree since it was *)
(* computed.                                                                *)
LEMMA ApplyStep ==
  ASSUME IInv, NEW c \in Caller, Apply(c)
  PROVE  IInv' /\ LeavesKept
<1>1. /\ TypeOK' /\ UNCHANGED <<treeVars, tableVars, pc, callVars, answer>>
      /\ validRoots' = validRoots \cup {root[c]}
  BY TableTyped DEF Apply
<1> USE DEF IInv
<1>2. OfTheTree(root[c]) /\ CallInv(c)
  BY DEF Apply, Account!Include, CallInv
<1>3. tx' = [tx EXCEPT ![c] = "success"] /\ tx[c] = "pending" /\ DOMAIN tx = Caller
  BY DEF Apply, Account!Include, TypeOK, Account!TypeOK
<1>4. LeavesKept /\ CredentialsOwnTheirLeaf' /\ \A d \in Caller : RowOf(d)' = RowOf(d)
  BY <1>1 DEF CredentialsOwnTheirLeaf, LeavesKept, RowOf, treeVars, tableVars
<1>5. IssuedIsProvable'
  BY <1>1 DEF IssuedIsProvable, InHistory, tableVars
<1>6. RootsAreOfTheTree'
  BY <1>1, <1>2 DEF RootsAreOfTheTree, OfTheTree, treeVars
<1>7. ASSUME NEW d \in Caller, d # c PROVE CallInv(d)'
  BY <1>1, <1>3, <1>4, <1>7, OthersKeep DEF tableVars, callVars
<1>8. CallInv(c)'
  <2>1. pc[c] \notin Unsent
    BY <1>2, <1>3 DEF CallInv
  <2>2. OfTheTree(root[c])' /\ (root[c] \in validRoots)' /\ tx'[c] = "success"
    BY <1>1, <1>2, <1>3 DEF OfTheTree, treeVars, callVars
  <2>3. /\ InHistory(root[c]) => InHistory(root[c])'
        /\ HasLeaf(c) => HasLeaf(c)'
    BY <1>1 DEF InHistory, HasLeaf, At, treeVars, tableVars, callVars
  <2> QED
    BY <1>1, <1>2, <1>4, <2>1, <2>2, <2>3 DEF CallInv, Unsent, Publishing
<1> QED
  BY <1>1, <1>4, <1>5, <1>6, <1>7, <1>8

LEMMA NextInv == IInv /\ [Next]_vars => IInv' /\ LeavesKept
<1> SUFFICES ASSUME IInv, [Next]_vars PROVE IInv' /\ LeavesKept
  OBVIOUS
<1>1. CASE UNCHANGED vars
  <2>1. TypeOK' /\ UNCHANGED <<treeVars, tableVars, validRoots>>
    BY <1>1 DEF vars, IInv, TypeOK, treeVars, tableVars, callVars, ledgerVars, Account!TypeOK
  <2>2. \A d \in Caller : CallInv(d)'
    BY <1>1 DEF vars, IInv, CallInv, treeVars, tableVars, callVars, ledgerVars,
                OfTheTree, InHistory, HasRead, HasLeaf, At, RowOf
  <2> QED
    BY <2>1, <2>2, TablesKept DEF IInv
<1> QED
  BY <1>1, TalkStep, InsertStep, ZeroStep, RecordStep, CreateStep, WriteStep, ApplyStep
     DEF Next, Serve, Talk

THEOREM Invariance == Spec => []IInv
  BY InitInv, NextInv, PTL DEF Spec
-----------------------------------------------------------------------------
(* The tables, the roots on chain and every call keep their types, through  *)
(* concurrent mints and revocations, thrown calls and crashes.              *)
THEOREM TypeCorrect == Spec => []TypeOK
  BY Invariance, PTL DEF IInv

(* mintCredential and revokeCredential, however they race and wherever they  *)
(* stop: a credential row points at a leaf of its own, which is there as     *)
(* long as the credential is ACTIVE.                                        *)
THEOREM RowsOwnTheirLeaf == Spec => []CredentialsOwnTheirLeaf
  BY Invariance, PTL DEF IInv

(* A credential that has a row can be proved: its root commits to it, is on  *)
(* chain and in the history, and no root is recorded with a leafCount below  *)
(* a leaf it commits to.                                                    *)
THEOREM RowsAreProvable == Spec => []IssuedIsProvable
  BY Invariance, PTL DEF IInv

(* publishRoot never puts a root on chain that commits to a leaf the tree    *)
(* did not hold, also when the tree has grown since the root was computed.   *)
THEOREM PublishedRootsAreOfTheTree == Spec => []RootsAreOfTheTree
  BY Invariance, PTL DEF IInv

(* insertLeaf and revokeCredential never move or overwrite a leaf: an index  *)
(* is assigned once, and then only zeroed.                                  *)
THEOREM IndexesAreKept == Spec => LeavesOnlyZeroed
<1>1. IInv /\ [Next]_vars =>
        [\A i \in DOMAIN leaves : i \in DOMAIN leaves' /\ leaves'[i] \in {leaves[i], Zero}]_vars
  BY NextInv DEF LeavesKept
<1> QED
  BY <1>1, Invariance, PTL DEF Spec, LeavesOnlyZeroed
-----------------------------------------------------------------------------
(* When the root on chain falls behind the tree.  CurrentRootIsPublished does *)
(* not hold, because the lock that would keep the calls apart, from the tree  *)
(* they read to the root they published, is not there.                      *)
Unpublished == {"reload", "sequence", "send", "poll"}
Changing    == {"insert"} \cup Unpublished

ChangesInTurn == \A c, d \in Caller : pc[c] \in Changing /\ pc[d] \in Changing => c = d

(* Then what a mint is about to extend is still the tree, what is about to be *)
(* published is still its root, and unless a call failed or crashed, the root *)
(* of the tree is on chain or on its way there.                             *)
Fresh(c) ==
  /\ pc[c] = "insert" => loaded[c] = leaves
  /\ pc[c] \in {"sequence", "send", "poll"} => root[c] = RootOf(leaves)
  /\ answer[c] # "none" => pc[c] = "done"

Open(c) == pc[c] \in Unpublished \cup {"crashed"} \/ answer[c] = "ERROR"

InTurn ==
  /\ \A c \in Caller : Fresh(c)
  /\ RootOf(leaves) \in validRoots \/ \E c \in Caller : Open(c)

LEMMA InTurnAtFirst == Init => InTurn
<1> SUFFICES ASSUME Init PROVE RootOf(leaves) \in validRoots
  BY DEF Init, InTurn, Fresh
<1> DEFINE Minted  == {History(RootOf(Prefix(Old, i)), i) : i \in DOMAIN Old}
           Current == History(RootOf(leaves), Len(leaves))
<1>1. /\ rootHistory = Minted \cup IF \E h \in Minted : h.root = Current.root THEN {} ELSE {Current}
      /\ validRoots = {h.root : h \in rootHistory}
  BY DEF Init
<1>2. Current.root = RootOf(leaves)
  BY DEF History
<1> HIDE DEF Minted, Current
<1>3. \E h \in rootHistory : h.root = RootOf(leaves)
  BY <1>1, <1>2
<1> QED
  BY <1>1, <1>3

(* A step that leaves the tree and what the calls know of it alone.         *)
LEMMA InTurnMove ==
  ASSUME IInv, InTurn, NEW c \in Caller, NEW to, NEW result,
         UNCHANGED <<leaves, loaded, root, validRoots>>,
         pc' = [pc EXCEPT ![c] = to], answer' = [answer EXCEPT ![c] = result],
         to # "insert", to \in {"sequence", "send", "poll"} => root[c] = RootOf(leaves),
         result # "none" => to = "done",
         Open(c) => \/ to \in Unpublished \cup {"crashed"} \/ result = "ERROR"
                    \/ RootOf(leaves) \in validRoots
  PROVE  InTurn'
<1>1. /\ pc'[c] = to /\ answer'[c] = result
      /\ \A d \in Caller : d # c => pc'[d] = pc[d] /\ answer'[d] = answer[d]
  BY DEF IInv, TypeOK
<1>2. RootOf(leaves)' = RootOf(leaves)
  BY DEF RootOf
<1>3. ASSUME NEW d \in Caller PROVE Fresh(d)'
  <2>1. CASE d = c
    BY <1>1, <1>2, <2>1 DEF Fresh
  <2>2. CASE d # c
    BY <1>1, <1>2, <2>2 DEF Fresh, InTurn
  <2> QED
    BY <2>1, <2>2
<1>4. RootOf(leaves)' \in validRoots' \/ \E d \in Caller : Open(d)'
  <2>1. CASE RootOf(leaves) \in validRoots
    BY <1>2, <2>1
  <2>2. CASE \E d \in Caller : d # c /\ Open(d)
    BY <1>1, <2>2 DEF Open
  <2>3. CASE Open(c)
    BY <1>1, <1>2, <2>3 DEF Open
  <2> QED
    BY <2>1, <2>2, <2>3 DEF InTurn
<1> QED
  BY <1>3, <1>4 DEF InTurn

LEMMA InTurnTree ==
  ASSUME IInv, InTurn, ChangesInTurn, ChangesInTurn', NEW c \in Caller,
         LoadTree(c) \/ InsertLeaf(c) \/ ZeroLeaf(c) \/ CurrentRoot(c)
  PROVE  InTurn'
<1> USE DEF Changing, Unpublished
<1>0. /\ \A d \in Caller : d # c => /\ pc'[d] = pc[d] /\ answer'[d] = answer[d]
                                    /\ loaded'[d] = loaded[d] /\ root'[d] = root[d]
      /\ validRoots' = validRoots /\ pc[c] \in {"load", "insert", "zero", "reload"}
      /\ answer[c] = "none" /\ Fresh(c)
  BY DEF IInv, TypeOK, InTurn, Fresh, LoadTree, InsertLeaf, ZeroLeaf, CurrentRoot, Goto, Finish,
         callVars
<1>1. CASE LoadTree(c)
  <2>1. pc'[c] = "insert" /\ answer'[c] = "none" /\ loaded'[c] = leaves /\ leaves' = leaves
    BY <1>0, <1>1 DEF IInv, TypeOK, LoadTree, Goto, treeVars
  <2>2. RootOf(leaves)' = RootOf(leaves)
    BY <2>1 DEF RootOf
  <2>3. \A d \in Caller : Fresh(d)'
    BY <1>0, <2>1, <2>2 DEF InTurn, Fresh
  <2>4. \A d \in Caller : Open(d) => Open(d)'
    BY <1>0, <1>1, <2>1 DEF Open, LoadTree, Goto
  <2> QED
    BY <1>0, <2>2, <2>3, <2>4 DEF InTurn
<1>2. CASE InsertLeaf(c)
  <2>1. CASE Goto(c, "insert", "sequence")
    <3>1. /\ pc'[c] = "sequence" /\ answer'[c] = "none" /\ pc[c] = "insert"
          /\ leaves' = Append(leaves, c) /\ root'[c] = root[c]
      BY <1>0, <1>2, <2>1 DEF IInv, TypeOK, InsertLeaf, Goto, Finish, callVars
    <3>2. root[c] = RootOf(Append(loaded[c], c)) /\ loaded[c] = leaves
      BY <1>0, <3>1 DEF IInv, CallInv, HasRead, Fresh
    <3>3. root'[c] = RootOf(leaves)'
      BY <3>1, <3>2 DEF RootOf
    <3>4. \A d \in Caller : d # c => pc[d] \notin Changing
      BY <3>1 DEF ChangesInTurn
    <3>5. \A d \in Caller : Fresh(d)'
      BY <1>0, <3>1, <3>3, <3>4 DEF InTurn, Fresh
    <3> QED
      BY <3>1, <3>5 DEF InTurn, Open
  <2>2. CASE Finish(c, "insert", "ERROR")
    <3>1. pc'[c] = "done" /\ answer'[c] = "ERROR" /\ leaves' = leaves
      BY <1>2, <2>2 DEF IInv, TypeOK, InsertLeaf, Goto, Finish, treeVars
    <3>2. RootOf(leaves)' = RootOf(leaves)
      BY <3>1 DEF RootOf
    <3> QED
      BY <1>0, <3>1, <3>2 DEF InTurn, Fresh, Open
  <2> QED
    BY <1>2, <2>1, <2>2 DEF InsertLeaf
<1>3. CASE ZeroLeaf(c)
  <2>1. pc'[c] = "reload" /\ answer'[c] = "none"
    BY <1>0, <1>3 DEF IInv, TypeOK, ZeroLeaf, Goto
  <2>2. \A d \in Caller : d # c => pc[d] \notin Changing
    BY <1>0, <2>1 DEF ChangesInTurn
  <2> QED
    BY <1>0, <2>1, <2>2 DEF InTurn, Fresh, Open
<1>4. CASE CurrentRoot(c)
  <2>1. /\ pc'[c] = "sequence" /\ answer'[c] = "none" /\ leaves' = leaves
        /\ root'[c] = RootOf(leaves)
    BY <1>0, <1>4 DEF IInv, TypeOK, CurrentRoot, Goto, treeVars
  <2>2. RootOf(leaves)' = RootOf(leaves)
    BY <2>1 DEF RootOf
  <2> QED
    BY <1>0, <2>1, <2>2 DEF InTurn, Fresh, Open
<1> QED
  BY <1>1, <1>2, <1>3, <1>4

LEMMA InTurnStep ==
  ASSUME IInv, InTurn, ChangesInTurn, ChangesInTurn', [Next]_vars
  PROVE  InTurn'
<1> USE DEF treeVars, callVars
<1>1. ASSUME NEW c \in Caller, LoadTree(c) \/ InsertLeaf(c) \/ ZeroLeaf(c) \/ CurrentRoot(c)
      PROVE  InTurn'
  BY <1>1, InTurnTree
<1>2. ASSUME NEW c \in Caller, NEW from, NEW to, Goto(c, from, to),
             UNCHANGED <<leaves, loaded, root, validRoots>>,
             from \notin Unpublished \cup {"crashed", "done"}, to \notin Changing \cup {"crashed"}
      PROVE  InTurn'
  <2>1. pc[c] = from /\ answer[c] = "none" /\ answer' = [answer EXCEPT ![c] = "none"]
    BY <1>2 DEF IInv, TypeOK, InTurn, Fresh, Goto
  <2> QED
    BY <1>2, <2>1, InTurnMove DEF Goto, Open, Changing, Unpublished
<1>3. ASSUME NEW c \in Caller, NEW from, NEW result, Finish(c, from, result),
             UNCHANGED <<leaves, loaded, root, validRoots>>,
             result = "ERROR" \/ from \notin Unpublished \cup {"crashed", "done"}
      PROVE  InTurn'
  <2>1. pc[c] = from /\ (answer[c] = "ERROR" => from = "done")
    BY <1>3 DEF InTurn, Fresh, Finish
  <2> QED
    BY <1>3, <2>1, InTurnMove DEF Finish, Open, Unpublished
<1>4. ASSUME NEW c \in Caller, Start(c) \/ Resolve(c) \/ ReadCredential(c) PROVE InTurn'
  BY <1>2, <1>3, <1>4 DEF Start, Resolve, ReadCredential, Changing, Unpublished
<1>5. ASSUME NEW c \in Caller, ReadSequence(c) \/ Send(c) PROVE InTurn'
  <2>1. PICK to \in {"send", "poll"} :
          /\ pc' = [pc EXCEPT ![c] = to] /\ answer[c] = "none"
          /\ answer' = [answer EXCEPT ![c] = "none"] /\ root[c] = RootOf(leaves)
    BY <1>5 DEF IInv, TypeOK, InTurn, Fresh, ReadSequence, Send, Goto
  <2> QED
    BY <1>5, <2>1, InTurnMove DEF ReadSequence, Send, Unpublished
<1>6. ASSUME NEW c \in Caller, Poll(c) PROVE InTurn'
  <2>1. CASE Goto(c, "poll", "history") /\ tx[c] = "success"
    <3>1. root[c] = RootOf(leaves) /\ root[c] \in validRoots /\ answer[c] = "none"
          /\ answer' = [answer EXCEPT ![c] = "none"]
      BY <2>1 DEF IInv, TypeOK, CallInv, InTurn, Fresh, Goto
    <3> QED
      BY <1>6, <2>1, <3>1, InTurnMove DEF Poll, Goto
  <2>2. CASE Finish(c, "poll", "ERROR")
    BY <1>3, <1>6, <2>2 DEF Poll
  <2> QED
    BY <1>6, <2>1, <2>2 DEF Poll
<1>7. ASSUME NEW c \in Caller, RecordRoot(c) \/ CreateCredential(c) \/ WriteVC(c) \/ Audit(c)
      PROVE  InTurn'
  BY <1>2, <1>3, <1>7
     DEF RecordRoot, CreateCredential, WriteVC, Audit, Changing, Unpublished
<1>8. ASSUME NEW c \in Caller, Throw(c) PROVE InTurn'
  BY <1>3, <1>8 DEF Throw
<1>9. ASSUME NEW c \in Caller, Crash(c) PROVE InTurn'
  <2>1. answer[c] = "none" /\ answer' = [answer EXCEPT ![c] = "none"]
    BY <1>9 DEF IInv, TypeOK, InTurn, Fresh, Crash
  <2> QED
    BY <1>9, <2>1, InTurnMove DEF Crash
<1>10. ASSUME UNCHANGED <<leaves, loaded, root, pc, answer>>, validRoots \subseteq validRoots'
       PROVE  InTurn'
  <2>1. RootOf(leaves)' = RootOf(leaves)
    BY <1>10 DEF RootOf
  <2> QED
    BY <1>10, <2>1 DEF InTurn, Fresh, Open
<1>11. ASSUME NEW c \in Caller, Apply(c) \/ Drop(c) PROVE InTurn'
  BY <1>10, <1>11 DEF Apply, Drop
<1>12. CASE UNCHANGED vars
  BY <1>10, <1>12 DEF vars
<1> QED
  BY <1>1, <1>4, <1>5, <1>6, <1>7, <1>8, <1>9, <1>11, <1>12 DEF Next, Serve

(* SPEC.md's "published root", and the race is the only way to lose it: as     *)
(* long as no two calls are between the tree they read or zeroed and the root  *)
(* they wait for, then whenever no call is under way and none failed, the      *)
(* tree's root is on chain, in whatever order the mints and revocations came   *)
(* and whatever the ledger dropped.                                          *)
THEOREM InTurnTheRootIsPublished == Spec /\ []ChangesInTurn => []CurrentRootIsPublished
<1>1. InTurn => CurrentRootIsPublished
  BY DEF InTurn, Open, Unpublished, CurrentRootIsPublished, Quiet
<1> QED
  BY <1>1, InTurnAtFirst, InTurnStep, Invariance, PTL DEF Spec
-----------------------------------------------------------------------------
(* MintLog.  Numbers that go up by one.                                     *)
Run(s) == \A i \in 1 .. Len(s) - 1 : s[i + 1] = s[i] + 1

LEMMA RunAppend ==
  ASSUME NEW s \in Seq(Nat), Run(s), NEW n \in Nat, s # <<>> => n = s[Len(s)] + 1
  PROVE  /\ Append(s, n) \in Seq(Nat) /\ Run(Append(s, n)) /\ Append(s, n) # <<>>
         /\ Append(s, n)[Len(Append(s, n))] = n
         /\ s # <<>> => Head(Append(s, n)) = Head(s)
<1> DEFINE t == Append(s, n)
<1>1. t \in Seq(Nat) /\ Len(t) = Len(s) + 1 /\ t[Len(s) + 1] = n /\ t # <<>>
  BY AppendProperties
<1>2. \A i \in 1 .. Len(s) : t[i] = s[i]
  BY AppendProperties
<1>3. s # <<>> <=> Len(s) >= 1
  BY EmptySeq
<1>4. s # <<>> => Head(t) = Head(s)
  BY <1>1, <1>2, <1>3
<1>5. Run(t)
  <2> SUFFICES ASSUME NEW i \in 1 .. Len(s) PROVE t[i + 1] = t[i] + 1
    BY <1>1 DEF Run
  <2>1. CASE i = Len(s)
    BY <1>1, <1>2, <1>3, <2>1
  <2>2. CASE i < Len(s)
    <3>1. i \in 1 .. Len(s) - 1 /\ i + 1 \in 1 .. Len(s)
      BY <2>2
    <3> QED
      BY <1>2, <3>1 DEF Run
  <2>3. i = Len(s) \/ i < Len(s)
    BY LenProperties
  <2> QED
    BY <2>1, <2>2, <2>3
<1> QED
  BY <1>1, <1>4, <1>5

LEMMA RunTail ==
  ASSUME NEW s \in Seq(Nat), Run(s), s # <<>>
  PROVE  /\ Head(s) \in Nat /\ Tail(s) \in Seq(Nat) /\ Run(Tail(s))
         /\ Tail(s) = <<>> => Head(s) = s[Len(s)]
         /\ Tail(s) # <<>> => /\ Head(Tail(s)) = Head(s) + 1
                              /\ Tail(s)[Len(Tail(s))] = s[Len(s)]
<1> DEFINE t == Tail(s)
<1>1. /\ t \in Seq(Nat) /\ Len(t) = Len(s) - 1 /\ Len(s) >= 1 /\ Len(s) \in Nat
      /\ \A i \in 1 .. Len(t) : t[i] = s[i + 1]
  BY HeadTailProperties, EmptySeq
<1>2. Head(s) = s[1] /\ Head(s) \in Nat
  BY <1>1
<1>3. Run(t)
  <2> SUFFICES ASSUME NEW i \in 1 .. Len(t) - 1 PROVE t[i + 1] = t[i] + 1
    BY DEF Run
  <2>1. i \in 1 .. Len(t) /\ i + 1 \in 1 .. Len(t) /\ i + 1 \in 1 .. Len(s) - 1
    BY <1>1
  <2> QED
    BY <1>1, <2>1 DEF Run
<1>4. t = <<>> <=> Len(t) = 0
  BY <1>1, EmptySeq
<1>5. t # <<>> => 1 \in 1 .. Len(s) - 1 /\ 1 \in 1 .. Len(t) /\ Len(t) \in 1 .. Len(t) /\ Head(t) = t[1]
  BY <1>1, <1>4
<1>6. t # <<>> => t[1] = s[1] + 1 /\ t[Len(t)] = s[Len(s)]
  BY <1>1, <1>5 DEF Run
<1> QED
  BY <1>1, <1>2, <1>3, <1>4, <1>5, <1>6

LEMMA RunEmpty == Run(<<>>)
  BY EmptySeq DEF Run

(* The list is a run that ends with the line written last: what expired was  *)
(* its beginning.                                                           *)
HistoryInv ==
  /\ Run(history)
  /\ history # <<>> =>
       /\ job = "running" =>
            history[Len(history)] = IF call = "rpush" THEN line - 1 ELSE line
       /\ job = "returned" => history[Len(history)] = LastLine

(* A request comes after the mint, and what is on its wire is a run up to    *)
(* the done event.                                                          *)
StreamInv(s) ==
  /\ stream[s].at # "new" => job = "returned"
  /\ stream[s].at \in {"new", "history"} => stream[s].wire = <<>>
  /\ Run(stream[s].wire)
  /\ stream[s].wire # <<>> => stream[s].wire[Len(stream[s].wire)] = Done

(* The form's connection goes on where what it shows of it ends; the done    *)
(* event is never the first of a connection.                                *)
SourceInv ==
  source # 0 =>
    LET w == stream[source].wire
    IN /\ stream[source].at # "new" /\ ~sealed
       /\ shown # <<>> /\ shown[Len(shown)][1] = source =>
            w # <<>> /\ Head(w) = shown[Len(shown)][2] + 1
       /\ w # <<>> /\ Head(w) = Done => shown # <<>> /\ shown[Len(shown)][1] = source
       /\ stream[source].at # "history" /\ w = <<>> => history = <<>> \/ stream[source].failed

ShownInv ==
  /\ \A i \in 1 .. Len(shown) : stream[shown[i][1]].at \notin {"new", "history"}
  /\ \A i \in 1 .. Len(shown) - 1 :
       shown[i][1] = shown[i + 1][1] => shown[i + 1][2] = shown[i][2] + 1
  /\ sealed => shown # <<>> /\ shown[Len(shown)][2] = LastLine

LInv ==
  /\ LTypeOK
  /\ HistoryInv
  /\ \A s \in Stream : StreamInv(s)
  /\ SourceInv
  /\ ShownInv

(* The types again, with the record of a stream as a set.                   *)
StreamType == [at : {"new", "history", "subscribe", "listening", "errored", "closed"},
               wire : Seq(Message), gone : BOOLEAN, aborted : BOOLEAN,
               failed : BOOLEAN, subscriber : {"none", "open", "quit"}]

LEMMA Numbers ==
  /\ Message \subseteq Nat /\ 1 .. LastLine \subseteq Message /\ Done \in Message
  /\ Done = LastLine + 1 /\ LastLine \in Nat \ {0} /\ 0 \notin Stream
  BY LogAssumption DEF Message, Done

LEMMA InitLog == LInit => LInv
<1> SUFFICES ASSUME LInit PROVE LInv
  OBVIOUS
<1>1. NewStream \in StreamType /\ NewStream.wire = <<>> /\ NewStream.at = "new"
  BY EmptySeq DEF NewStream, StreamType
<1>2. LTypeOK
  <2>1. stream \in [Stream -> StreamType]
    BY <1>1 DEF LInit
  <2>2. history \in Seq(1 .. LastLine) /\ shown \in Seq(Stream \X (1 .. LastLine))
    BY EmptySeq DEF LInit
  <2>3. 1 \in 1 .. LastLine
    BY Numbers
  <2> QED
    BY <2>1, <2>2, <2>3 DEF LInit, LTypeOK, StreamType
<1>3. \A s \in Stream : StreamInv(s)
  BY <1>1, RunEmpty DEF LInit, StreamInv
<1> QED
  BY <1>2, <1>3, RunEmpty, EmptySeq DEF LInit, LInv, HistoryInv, SourceInv, ShownInv

LEMMA WireNumbers == ASSUME NEW w \in Seq(Message) PROVE w \in Seq(Nat)
  BY LogAssumption DEF Message, Done

LEMMA AppendLine ==
  ASSUME NEW h \in Seq(1 .. LastLine), NEW n \in 1 .. LastLine
  PROVE  Append(h, n) \in Seq(1 .. LastLine) /\ Append(h, n) # <<>>
  BY AppendProperties

LEMMA AppendShown ==
  ASSUME NEW h \in Seq(Stream \X (1 .. LastLine)), NEW n \in Stream \X (1 .. LastLine)
  PROVE  /\ Append(h, n) \in Seq(Stream \X (1 .. LastLine)) /\ Append(h, n) # <<>>
         /\ Len(Append(h, n)) = Len(h) + 1 /\ Append(h, n)[Len(h) + 1] = n /\ Len(h) \in Nat
         /\ \A i \in 1 .. Len(h) : Append(h, n)[i] = h[i]
<1> DEFINE S == Stream \X (1 .. LastLine)
<1>1. h \in Seq(S) /\ n \in S
  OBVIOUS
<1> HIDE DEF S
<1>2. /\ Append(h, n) \in Seq(S) /\ Append(h, n) # <<>>
      /\ Len(Append(h, n)) = Len(h) + 1 /\ Append(h, n)[Len(h) + 1] = n /\ Len(h) \in Nat
      /\ \A i \in 1 .. Len(h) : Append(h, n)[i] = h[i]
  BY <1>1, AppendProperties, LenProperties
<1> QED
  BY <1>2 DEF S

(* publishMintLog, and the list's expiry: no stream is open before the mint  *)
(* has returned.                                                            *)
LEMMA LogStep == LInv /\ Log => LInv'
<1> SUFFICES ASSUME LInv, Log PROVE LInv'
  OBVIOUS
<1> USE Numbers DEF LInv, LTypeOK
<1>1. UNCHANGED <<stream, source, sealed, shown>>
  BY DEF Log, Rpush, SetExpiry, Publish, JobFails, Elapse
<1>2. CASE Rpush
  <2>1. history \in Seq(Nat) /\ Run(history) /\ line \in Nat
        /\ (history # <<>> => line = history[Len(history)] + 1)
    BY <1>2 DEF Rpush, HistoryInv
  <2>2. Run(Append(history, line)) /\ Append(history, line)[Len(Append(history, line))] = line
    BY <2>1, RunAppend
  <2>3. history' \in Seq(1 .. LastLine) /\ history' # <<>>
    BY <1>2, AppendLine DEF Rpush
  <2>5. LTypeOK'
    BY <1>1, <1>2, <2>3 DEF Rpush
  <2>6. HistoryInv'
    BY <1>2, <2>2, <2>3 DEF Rpush, HistoryInv
  <2>4. source = 0 /\ \A s \in Stream : stream[s].at = "new"
    BY <1>2 DEF Rpush, StreamInv, SourceInv
  <2> QED
    BY <1>1, <1>2, <2>4, <2>5, <2>6 DEF Rpush, StreamInv, SourceInv, ShownInv
<1>3. CASE SetExpiry \/ Publish \/ JobFails
  <2>1. UNCHANGED history /\ job = "running"
    BY <1>3 DEF SetExpiry, Publish, JobFails
  <2>2. LTypeOK'
    <3>1. CASE SetExpiry
      BY <1>1, <3>1 DEF SetExpiry
    <3>2. CASE Publish
      BY <1>1, <3>2 DEF Publish
    <3>3. CASE JobFails
      BY <1>1, <3>3 DEF JobFails
    <3> QED
      BY <1>3, <3>1, <3>2, <3>3
  <2>4. HistoryInv'
    BY <1>3 DEF SetExpiry, Publish, JobFails, HistoryInv
  <2>3. source = 0 /\ \A s \in Stream : stream[s].at = "new"
    BY <2>1 DEF StreamInv, SourceInv
  <2> QED
    BY <1>1, <2>2, <2>3, <2>4 DEF StreamInv, SourceInv, ShownInv
<1>4. CASE Elapse
  <2>1. history' = <<>> /\ expires' = FALSE /\ UNCHANGED <<job, line, call>>
    BY <1>4 DEF Elapse
  <2>2. LTypeOK' /\ HistoryInv'
    BY <1>1, <2>1, RunEmpty, EmptySeq DEF HistoryInv
  <2> QED
    BY <1>1, <2>1, <2>2 DEF StreamInv, SourceInv, ShownInv
<1> QED
  BY <1>2, <1>3, <1>4 DEF Log

(* What the other streams keep while one changes.                           *)
LEMMA OneStream ==
  ASSUME LInv, NEW s \in Stream, NEW new \in StreamType,
         stream' = [stream EXCEPT ![s] = new],
         UNCHANGED <<job, line, call, history, expires>>
  PROVE  /\ stream' \in [Stream -> StreamType] /\ HistoryInv'
         /\ stream'[s] = new /\ \A q \in Stream : q # s => stream'[q] = stream[q] /\ StreamInv(q)'
  BY DEF LInv, LTypeOK, StreamType, HistoryInv, StreamInv

(* The browser connects; the list is read.                                  *)
LEMMA ConnectStep == ASSUME LInv, NEW s \in Stream, Connect(s) PROVE LInv'
<1> USE Numbers DEF LInv, LTypeOK
<1> DEFINE new == [stream[s] EXCEPT !.at = "history", !.subscriber = "open"]
<1>1. /\ job = "returned" /\ source = 0 /\ ~sealed /\ stream[s].at = "new" /\ source' = s
      /\ stream' = [stream EXCEPT ![s] = new]
      /\ UNCHANGED <<job, line, call, history, expires, sealed, shown>>
  BY DEF Connect
<1>2. new \in StreamType /\ new.at = "history" /\ new.wire = stream[s].wire
  BY DEF StreamType
<1> HIDE DEF new
<1>3. /\ stream' \in [Stream -> StreamType] /\ HistoryInv' /\ stream'[s] = new
      /\ \A q \in Stream : q # s => stream'[q] = stream[q] /\ StreamInv(q)'
  BY <1>1, <1>2, OneStream
<1>4. StreamInv(s)'
  BY <1>1, <1>2, <1>3 DEF StreamInv
<1>5. \A i \in 1 .. Len(shown) : shown[i][1] \in Stream /\ shown[i][1] # s
  BY <1>1 DEF ShownInv
<1>6. SourceInv' /\ ShownInv'
  BY <1>1, <1>2, <1>3, <1>5 DEF SourceInv, ShownInv, StreamInv
<1> QED
  BY <1>1, <1>3, <1>4, <1>6 DEF StreamType

LEMMA ReplayStep == ASSUME LInv, NEW s \in Stream, Replay(s) PROVE LInv'
<1> USE Numbers DEF LInv, LTypeOK
<1>1. /\ stream[s].at = "history" /\ job = "returned"
      /\ UNCHANGED <<job, line, call, history, expires, source, sealed, shown>>
  BY DEF Replay, StreamInv
<1>2. /\ WithDone(history) \in Seq(Message) /\ Run(WithDone(history))
      /\ history # <<>> <=> WithDone(history) # <<>>
      /\ WithDone(history) # <<>> =>
           /\ WithDone(history)[Len(WithDone(history))] = Done
           /\ Head(WithDone(history)) # Done
  <2>1. CASE history = <<>>
    BY <2>1, RunEmpty, EmptySeq DEF WithDone
  <2>2. CASE history # <<>>
    <3>1. history[Len(history)] = LastLine /\ history \in Seq(Nat) /\ Run(history)
      BY <1>1, <2>2 DEF HistoryInv
    <3>2. WithDone(history) = Append(history, Done) /\ history \in Seq(Message)
      BY <2>2, <3>1 DEF WithDone
    <3>3. Head(history) \in 1 .. LastLine
      BY <2>2
    <3>4. Append(history, Done) \in Seq(Message)
      BY <3>2, AppendProperties
    <3>5. /\ Run(Append(history, Done)) /\ Append(history, Done) # <<>>
          /\ Append(history, Done)[Len(Append(history, Done))] = Done
          /\ Head(Append(history, Done)) = Head(history)
      BY <2>2, <3>1, RunAppend
    <3>6. Head(history) # Done
      BY <3>3
    <3> QED
      BY <2>2, <3>2, <3>4, <3>5, <3>6
  <2> QED
    BY <2>1, <2>2
<1>3. PICK new \in StreamType :
        /\ stream' = [stream EXCEPT ![s] = new] /\ new.at = "subscribe"
        /\ new.wire = WithDone(history) \/ (new.wire = <<>> /\ new.failed)
  <2>1. stream[s].wire = <<>>
    BY <1>1 DEF StreamInv
  <2>2. CASE stream' = [stream EXCEPT ![s].at = "subscribe", ![s].wire = WithDone(history)]
    <3> DEFINE new == [stream[s] EXCEPT !.at = "subscribe", !.wire = WithDone(history)]
    <3>1. new \in StreamType /\ new.at = "subscribe" /\ new.wire = WithDone(history)
      BY <1>2 DEF StreamType
    <3> QED
      BY <2>2, <3>1
  <2>3. CASE stream' = [stream EXCEPT ![s].at = "subscribe", ![s].failed = TRUE]
    <3> DEFINE new == [stream[s] EXCEPT !.at = "subscribe", !.failed = TRUE]
    <3>1. new \in StreamType /\ new.at = "subscribe" /\ new.wire = <<>> /\ new.failed
      BY <2>1 DEF StreamType
    <3> QED
      BY <2>3, <3>1
  <2> QED
    BY <2>2, <2>3 DEF Replay
<1>4. /\ stream' \in [Stream -> StreamType] /\ HistoryInv' /\ stream'[s] = new
      /\ \A q \in Stream : q # s => stream'[q] = stream[q] /\ StreamInv(q)'
  BY <1>1, <1>3, OneStream
<1>5. StreamInv(s)'
  BY <1>1, <1>2, <1>3, <1>4, RunEmpty DEF StreamInv
<1>6. \A i \in 1 .. Len(shown) : shown[i][1] \in Stream /\ shown[i][1] # s
  BY <1>1 DEF ShownInv
<1>7. SourceInv'
  <2>1. CASE source # s
    <3>1. source # 0 => stream'[source] = stream[source] /\ StreamInv(source)
      BY <1>4, <2>1
    <3> QED
      BY <1>1, <3>1 DEF SourceInv
  <2>2. CASE source = s
    <3>1. shown # <<>> => shown[Len(shown)][1] # s
      BY <1>6, EmptySeq
    <3>2. ~sealed
      BY <2>2 DEF SourceInv
    <3>3. /\ stream'[s].wire # <<>> => Head(stream'[s].wire) # Done
          /\ stream'[s].wire = <<>> => history = <<>> \/ stream'[s].failed
      BY <1>2, <1>3, <1>4
    <3> QED
      BY <1>1, <1>3, <1>4, <2>2, <3>1, <3>2, <3>3 DEF SourceInv
  <2> QED
    BY <2>1, <2>2
<1>8. ShownInv'
  BY <1>1, <1>4, <1>6 DEF ShownInv
<1> QED
  BY <1>1, <1>4, <1>5, <1>7, <1>8 DEF StreamType

(* The subscriber: neither what is on the wire nor what is shown changes.    *)
LEMMA SubscriberStep ==
  ASSUME LInv, NEW s \in Stream, Subscribe(s) \/ Abort(s)
  PROVE  LInv'
<1> USE Numbers DEF LInv, LTypeOK
<1>1. UNCHANGED <<job, line, call, history, expires, source, sealed, shown>>
  BY DEF Subscribe, Abort
<1>2. PICK new \in StreamType :
        /\ stream' = [stream EXCEPT ![s] = new]
        /\ new.wire = stream[s].wire /\ new.failed = stream[s].failed
        /\ new.at = stream[s].at \/ {new.at, stream[s].at} \cap {"new", "history"} = {}
  <2>2. CASE Subscribe(s)
    <3>1. PICK at \in {"listening", "errored"} :
            stream[s].at = "subscribe" /\ stream' = [stream EXCEPT ![s].at = at]
      BY <2>2 DEF Subscribe
    <3> DEFINE new == [stream[s] EXCEPT !.at = at]
    <3>2. /\ new \in StreamType /\ new.wire = stream[s].wire
          /\ new.failed = stream[s].failed /\ new.at = at
      BY DEF StreamType
    <3>3. stream' = [stream EXCEPT ![s] = new]
      BY <3>1
    <3>4. {at, stream[s].at} \cap {"new", "history"} = {}
      BY <3>1
    <3> HIDE DEF new
    <3> QED
      BY <3>2, <3>3, <3>4
  <2>3. CASE Abort(s)
    <3> DEFINE new == [stream[s] EXCEPT !.aborted = TRUE,
                         !.at = IF @ = "listening" THEN "closed" ELSE @,
                         !.subscriber = IF stream[s].at = "listening" THEN "quit" ELSE @]
    <3>1. new \in StreamType /\ new.wire = stream[s].wire /\ new.failed = stream[s].failed
          /\ new.at = IF stream[s].at = "listening" THEN "closed" ELSE stream[s].at
      BY DEF StreamType
    <3>2. stream' = [stream EXCEPT ![s] = new]
      BY <2>3 DEF Abort
    <3> QED
      BY <3>1, <3>2
  <2> QED
    BY <2>2, <2>3
<1>3. /\ stream' \in [Stream -> StreamType] /\ HistoryInv' /\ stream'[s] = new
      /\ \A q \in Stream : q # s => stream'[q] = stream[q] /\ StreamInv(q)'
  BY <1>1, <1>2, OneStream
<1>4. StreamInv(s)'
  BY <1>1, <1>2, <1>3 DEF StreamInv
<1>5. SourceInv'
  BY <1>1, <1>2, <1>3 DEF SourceInv
<1>6. \A i \in 1 .. Len(shown) : shown[i][1] \in Stream
  OBVIOUS
<1>7. ShownInv'
  BY <1>1, <1>2, <1>3, <1>6 DEF ShownInv
<1> QED
  BY <1>1, <1>3, <1>4, <1>5, <1>7 DEF StreamType

(* The form hears a line, or that it is done; or the connection is gone.     *)
LEMMA ReceiveStep == ASSUME LInv, Receive PROVE LInv'
<1> USE Numbers
<1> DEFINE w == stream[source].wire
           m == Head(w)
           new == [stream[source] EXCEPT !.wire = Tail(w), !.gone = (m = Done)]
<1>1. /\ source \in Stream /\ stream \in [Stream -> StreamType]
      /\ StreamInv(source) /\ SourceInv /\ ShownInv
      /\ shown \in Seq(Stream \X (1 .. LastLine)) /\ sealed \in BOOLEAN
  BY DEF LInv, LTypeOK, StreamType, Receive
<1>2. w # <<>> /\ w \in Seq(Message)
  BY <1>1 DEF Receive, StreamType
<1>3. /\ stream' = [stream EXCEPT ![source] = new]
      /\ UNCHANGED <<job, line, call, history, expires>>
      /\ \/ m # Done /\ shown' = Append(shown, <<source, m>>) /\ UNCHANGED <<sealed, source>>
         \/ m = Done /\ sealed' = TRUE /\ source' = 0 /\ UNCHANGED shown
  BY DEF Receive
<1>4. m \in Message /\ Tail(w) \in Seq(Message)
  BY <1>2, HeadTailProperties
<1>5. new \in StreamType /\ new.wire = Tail(w) /\ new.at = stream[source].at
      /\ new.failed = stream[source].failed
  BY <1>1, <1>4 DEF StreamType
<1>6. w \in Seq(Nat) /\ Run(w) /\ w[Len(w)] = Done /\ stream[source].at \notin {"new", "history"}
  <2>1. w \in Seq(Nat)
    BY <1>2, WireNumbers
  <2> QED
    BY <1>1, <1>2, <2>1 DEF StreamInv
<1>7. /\ Run(Tail(w)) /\ (Tail(w) = <<>> => m = Done)
      /\ Tail(w) # <<>> => Head(Tail(w)) = m + 1 /\ Tail(w)[Len(Tail(w))] = Done
  BY <1>2, <1>6, RunTail
<1>8. /\ job = "returned" /\ ~sealed /\ source # 0
      /\ shown # <<>> /\ shown[Len(shown)][1] = source => m = shown[Len(shown)][2] + 1
      /\ m = Done => shown # <<>> /\ shown[Len(shown)][1] = source
  BY <1>1, <1>2, <1>6 DEF SourceInv, StreamInv
<1> HIDE DEF w, m, new
<1>9. /\ stream' \in [Stream -> StreamType] /\ HistoryInv' /\ stream'[source] = new
      /\ \A q \in Stream : q # source => stream'[q] = stream[q] /\ StreamInv(q)'
  BY <1>1, <1>3, <1>5, OneStream
<1>10. \A q \in Stream : StreamInv(q)'
  <2>1. /\ stream'[source].wire = Tail(w) /\ stream'[source].at \notin {"new", "history"}
        /\ job' = "returned"
    BY <1>3, <1>5, <1>6, <1>8, <1>9
  <2>2. \A q \in Stream : q = source => StreamInv(q)'
    BY <1>7, <2>1 DEF StreamInv
  <2> QED
    BY <1>9, <2>2
<1>11. \A q \in Stream : stream'[q].at = stream[q].at
  BY <1>5, <1>9
<1>12. \A i \in 1 .. Len(shown) : shown[i][1] \in Stream /\ shown[i][2] \in 1 .. LastLine
  BY <1>1
<1>13. CASE m = Done
  <2>1. sealed' = TRUE /\ source' = 0 /\ UNCHANGED shown
    BY <1>3, <1>13
  <2>2. shown # <<>> /\ m = shown[Len(shown)][2] + 1
    BY <1>8, <1>13
  <2>3. shown[Len(shown)][2] = LastLine
    <3>1. Len(shown) \in 1 .. Len(shown)
      BY <1>1, <2>2, EmptySeq
    <3> QED
      BY <1>12, <1>13, <2>2, <3>1
  <2>4. ShownInv'
    BY <1>1, <1>11, <1>12, <2>1, <2>2, <2>3 DEF ShownInv
  <2>5. LTypeOK'
    BY <1>3, <1>9, <2>1 DEF LInv, LTypeOK, StreamType
  <2> QED
    BY <1>9, <1>10, <2>1, <2>4, <2>5 DEF LInv, SourceInv
<1>14. CASE m # Done
  <2>1. /\ shown' = Append(shown, <<source, m>>) /\ UNCHANGED <<sealed, source>>
        /\ m \in 1 .. LastLine
    BY <1>3, <1>4, <1>14 DEF Message, Done
  <2>2. /\ shown' \in Seq(Stream \X (1 .. LastLine)) /\ Len(shown') = Len(shown) + 1
        /\ shown'[Len(shown')] = <<source, m>> /\ shown' # <<>>
        /\ \A i \in 1 .. Len(shown) : shown'[i] = shown[i]
        /\ Len(shown) \in Nat
    BY <1>1, <2>1, AppendShown
  <2>3. SourceInv'
    <3>1. stream'[source].wire = Tail(w) /\ Tail(w) # <<>> /\ Head(Tail(w)) = m + 1
      BY <1>5, <1>7, <1>9, <1>14
    <3>2. stream'[source].at # "new"
      BY <1>1, <1>6, <1>11
    <3> QED
      BY <1>8, <2>1, <2>2, <3>1, <3>2 DEF SourceInv
  <2>4. ASSUME NEW i \in 1 .. Len(shown')
        PROVE  stream'[shown'[i][1]].at \notin {"new", "history"}
    <3>1. CASE i = Len(shown')
      BY <1>1, <1>6, <1>11, <2>2, <3>1
    <3>2. CASE i \in 1 .. Len(shown)
      BY <1>1, <1>11, <1>12, <2>2, <3>2 DEF ShownInv
    <3> QED
      BY <2>2, <3>1, <3>2
  <2>5. ASSUME NEW i \in 1 .. Len(shown') - 1, shown'[i][1] = shown'[i + 1][1]
        PROVE  shown'[i + 1][2] = shown'[i][2] + 1
    <3>1. CASE i = Len(shown)
      <4>1. shown # <<>> /\ shown'[i] = shown[i]
        BY <2>2, <3>1, EmptySeq
      <4> QED
        BY <1>8, <2>2, <2>5, <3>1, <4>1
    <3>2. CASE i \in 1 .. Len(shown) - 1
      <4>1. shown'[i] = shown[i] /\ shown'[i + 1] = shown[i + 1]
        BY <2>2, <3>2
      <4> QED
        BY <1>1, <2>5, <3>2, <4>1 DEF ShownInv
    <3> QED
      BY <2>2, <3>1, <3>2
  <2>6. LTypeOK'
    BY <1>3, <1>9, <2>1, <2>2 DEF LInv, LTypeOK, StreamType
  <2> QED
    BY <1>8, <1>9, <1>10, <2>1, <2>3, <2>4, <2>5, <2>6 DEF LInv, ShownInv
<1> QED
  BY <1>13, <1>14

LEMMA DisconnectStep == ASSUME LInv, Disconnect PROVE LInv'
<1> USE Numbers
<1> DEFINE new == [stream[source] EXCEPT !.wire = <<>>, !.gone = TRUE]
<1>1. /\ source \in Stream /\ stream \in [Stream -> StreamType] /\ ShownInv
      /\ StreamInv(source) /\ shown \in Seq(Stream \X (1 .. LastLine))
  BY DEF LInv, LTypeOK, StreamType, Disconnect
<1>2. /\ source' = 0 /\ stream' = [stream EXCEPT ![source] = new]
      /\ UNCHANGED <<job, line, call, history, expires, sealed, shown>>
  BY DEF Disconnect
<1>3. new \in StreamType /\ new.wire = <<>> /\ new.at = stream[source].at
  BY <1>1, EmptySeq DEF StreamType
<1> HIDE DEF new
<1>4. /\ stream' \in [Stream -> StreamType] /\ HistoryInv' /\ stream'[source] = new
      /\ \A q \in Stream : q # source => stream'[q] = stream[q] /\ StreamInv(q)'
  BY <1>1, <1>2, <1>3, OneStream
<1>5. \A q \in Stream : q = source => StreamInv(q)'
  BY <1>1, <1>2, <1>3, <1>4, RunEmpty DEF StreamInv
<1>6. \A q \in Stream : stream'[q].at = stream[q].at
  BY <1>3, <1>4
<1>7. \A i \in 1 .. Len(shown) : shown[i][1] \in Stream
  BY <1>1
<1>8. SourceInv' /\ ShownInv'
  BY <1>1, <1>2, <1>6, <1>7 DEF SourceInv, ShownInv
<1>9. LTypeOK'
  BY <1>2, <1>4 DEF LInv, LTypeOK, StreamType
<1> QED
  BY <1>4, <1>5, <1>8, <1>9 DEF LInv

LEMMA NextLog == LInv /\ [LNext]_lvars => LInv'
<1> SUFFICES ASSUME LInv, [LNext]_lvars PROVE LInv'
  OBVIOUS
<1>1. CASE UNCHANGED lvars
  BY <1>1 DEF lvars, LInv, LTypeOK, HistoryInv, StreamInv, SourceInv, ShownInv
<1>2. CASE LNext
  BY <1>2, LogStep, ConnectStep, ReplayStep, SubscriberStep, ReceiveStep, DisconnectStep
     DEF LNext, Form
<1> QED
  BY <1>1, <1>2

LEMMA LogInvariance == LSpec => []LInv
  BY InitLog, NextLog, PTL DEF LSpec

(* The log, its streams and the form keep their types.                      *)
THEOREM LogTypeCorrect == LSpec => []LTypeOK
  BY LogInvariance, PTL DEF LInv

(* Connections come in turn, and each begins with the line the first began   *)
(* with: once the mint has returned the list only expires, so what a replay  *)
(* finds begins as what was shown does.                                     *)
StreamsInTurn ==
  \A q, r \in Stream : stream[q].at # "new" /\ stream[r].at = "new" => q < r

ShownAgain ==
  /\ \A i \in 1 .. Len(shown) - 1 : shown[i][1] # shown[i + 1][1] =>
       shown[i][1] < shown[i + 1][1] /\ shown[i + 1][2] = shown[1][2]
  /\ history # <<>> /\ shown # <<>> => shown[1][2] = Head(history)

WireAgain ==
  source # 0 =>
    LET w == stream[source].wire
    IN /\ shown # <<>> => shown[Len(shown)][1] <= source
       /\ w # <<>> /\ shown # <<>> /\ shown[Len(shown)][1] # source => Head(w) = shown[1][2]
       /\ w # <<>> /\ shown = <<>> /\ history # <<>> => Head(w) = Head(history)

AgainInv == StreamsInTurn /\ ShownAgain /\ WireAgain

LEMMA LastShown ==
  ASSUME LInv, shown # <<>>
  PROVE  /\ Len(shown) \in 1 .. Len(shown) /\ Len(shown) \in Nat /\ 1 \in 1 .. Len(shown)
         /\ shown[Len(shown)][1] \in Stream /\ stream[shown[Len(shown)][1]].at \notin {"new", "history"}
<1>1. shown \in Seq(Stream \X (1 .. LastLine)) /\ ShownInv
  BY DEF LInv, LTypeOK
<1>2. Len(shown) \in 1 .. Len(shown) /\ Len(shown) \in Nat /\ 1 \in 1 .. Len(shown)
  BY <1>1, EmptySeq
<1> QED
  BY <1>1, <1>2 DEF ShownInv

LEMMA InitAgain == LInit => AgainInv
<1> SUFFICES ASSUME LInit PROVE AgainInv
  OBVIOUS
<1>1. \A s \in Stream : stream[s].at = "new"
  BY DEF LInit, NewStream
<1>2. shown = <<>> /\ Len(shown) = 0 /\ source = 0
  BY EmptySeq DEF LInit
<1> QED
  BY <1>1, <1>2 DEF AgainInv, StreamsInTurn, ShownAgain, WireAgain

(* While the mint runs nothing is shown; afterwards the list only expires.   *)
LEMMA LogAgain == LInv /\ AgainInv /\ Log => AgainInv'
<1> SUFFICES ASSUME LInv, AgainInv, Log PROVE AgainInv'
  OBVIOUS
<1>1. UNCHANGED <<stream, source, shown>>
  BY DEF Log, Rpush, SetExpiry, Publish, JobFails, Elapse
<1>2. StreamsInTurn'
  BY <1>1 DEF AgainInv, StreamsInTurn
<1>3. CASE history' = <<>> \/ history' = history
  BY <1>1, <1>2, <1>3 DEF AgainInv, ShownAgain, WireAgain
<1>4. CASE job = "running"
  <2>1. shown = <<>>
    BY <1>4, LastShown DEF LInv, StreamInv
  <2>2. source = 0
    BY <1>4 DEF LInv, LTypeOK, StreamInv, SourceInv
  <2> QED
    BY <1>1, <1>2, <2>1, <2>2, EmptySeq DEF AgainInv, ShownAgain, WireAgain
<1> QED
  BY <1>3, <1>4 DEF Log, Rpush, SetExpiry, Publish, JobFails, Elapse

LEMMA ConnectAgain == ASSUME LInv, AgainInv, NEW s \in Stream, Connect(s) PROVE AgainInv'
<1>1. /\ stream[s].at = "new" /\ source' = s /\ UNCHANGED <<history, shown>>
      /\ \A q \in Stream : q < s => stream[q].at # "new"
      /\ stream'[s].at # "new" /\ stream'[s].wire = stream[s].wire
      /\ \A q \in Stream : q # s => stream'[q] = stream[q]
  BY DEF Connect, LInv, LTypeOK
<1>2. Stream \subseteq Nat /\ stream[s].wire = <<>>
  BY <1>1, LogAssumption DEF LInv, StreamInv
<1>3. StreamsInTurn'
  <2> SUFFICES ASSUME NEW q \in Stream, NEW r \in Stream,
                      stream'[q].at # "new", stream'[r].at = "new"
               PROVE  q < r
    BY DEF StreamsInTurn
  <2>1. r # s /\ stream[r].at = "new"
    BY <1>1
  <2>2. s < r
    BY <1>1, <1>2, <2>1
  <2>3. q # s => q < r
    BY <1>1, <2>1 DEF AgainInv, StreamsInTurn
  <2> QED
    BY <2>2, <2>3
<1>4. shown # <<>> => shown[Len(shown)][1] < s
  BY <1>1, LastShown DEF AgainInv, StreamsInTurn
<1>5. shown # <<>> => shown[Len(shown)][1] \in Nat
  BY <1>2, LastShown
<1>6. shown # <<>> => shown[Len(shown)][1] <= s
  BY <1>2, <1>4, <1>5
<1> QED
  BY <1>1, <1>2, <1>3, <1>6 DEF AgainInv, ShownAgain, WireAgain

LEMMA ReplayAgain == ASSUME LInv, AgainInv, NEW s \in Stream, Replay(s) PROVE AgainInv'
<1>1. /\ stream[s].at = "history" /\ stream'[s].at = "subscribe"
      /\ stream'[s].wire = WithDone(history) \/ stream'[s].wire = stream[s].wire
      /\ \A q \in Stream : q # s => stream'[q] = stream[q]
      /\ UNCHANGED <<history, source, shown>>
  BY DEF Replay, LInv, LTypeOK
<1>2. stream[s].wire = <<>>
  BY <1>1 DEF LInv, StreamInv
<1>3. StreamsInTurn'
  BY <1>1 DEF AgainInv, StreamsInTurn
<1>4. ShownAgain'
  BY <1>1 DEF AgainInv, ShownAgain
<1>5. WithDone(history) # <<>> => history # <<>> /\ Head(WithDone(history)) = Head(history)
  <2>1. history \in Seq(1 .. LastLine)
    BY DEF LInv, LTypeOK
  <2>2. history # <<>> => Head(Append(history, Done)) = Head(history)
    <3>1. history \in Seq(Nat) /\ Done \in Nat
      BY <2>1, LogAssumption DEF Done
    <3>2. history # <<>> => Len(history) >= 1
      BY <3>1, EmptySeq
    <3>3. history # <<>> => Append(history, Done)[1] = history[1]
      BY <3>1, <3>2, AppendProperties
    <3> QED
      BY <3>1, <3>2, <3>3, AppendProperties
  <2> QED
    BY <2>2 DEF WithDone
<1>6. WireAgain'
  <2>1. CASE source # s
    <3>1. source # 0 => stream'[source] = stream[source]
      BY <1>1, <2>1 DEF LInv, LTypeOK
    <3> QED
      BY <1>1, <3>1 DEF AgainInv, WireAgain
  <2>2. CASE source = s
    BY <1>1, <1>2, <1>5, <2>2 DEF AgainInv, WireAgain, ShownAgain
  <2> QED
    BY <2>1, <2>2
<1> QED
  BY <1>3, <1>4, <1>6 DEF AgainInv

LEMMA SubscriberAgain ==
  ASSUME LInv, AgainInv, NEW s \in Stream, Subscribe(s) \/ Abort(s)
  PROVE  AgainInv'
<1>1. /\ UNCHANGED <<history, source, shown>>
      /\ \A q \in Stream : stream'[q].wire = stream[q].wire
      /\ \A q \in Stream : stream'[q].at = "new" <=> stream[q].at = "new"
  <2>1. CASE Subscribe(s)
    <3>1. PICK at \in {"listening", "errored"} :
            stream[s].at = "subscribe" /\ stream' = [stream EXCEPT ![s].at = at]
      BY <2>1 DEF Subscribe
    <3>2. UNCHANGED <<history, source, shown>>
      BY <2>1 DEF Subscribe
    <3> QED
      BY <3>1, <3>2 DEF LInv, LTypeOK
  <2>2. CASE Abort(s)
    BY <2>2 DEF Abort, LInv, LTypeOK
  <2> QED
    BY <2>1, <2>2
<1>2. source # 0 => source \in Stream
  BY DEF LInv, LTypeOK
<1> QED
  BY <1>1, <1>2 DEF AgainInv, StreamsInTurn, ShownAgain, WireAgain

(* The first line of a connection is the first line shown; a later one is    *)
(* one more than the line before it, and sets no connection apart.           *)
LEMMA ReceiveAgain == ASSUME LInv, AgainInv, Receive PROVE AgainInv'
<1> DEFINE m == Head(stream[source].wire)
<1>1. /\ source \in Stream /\ stream[source].wire # <<>> /\ UNCHANGED history
      /\ shown \in Seq(Stream \X (1 .. LastLine)) /\ stream \in [Stream -> StreamType]
      /\ stream[source].wire \in Seq(Message)
  BY DEF Receive, LInv, LTypeOK, StreamType
<1>2. \A q \in Stream : stream'[q].at = stream[q].at
  BY <1>1 DEF Receive, StreamType
<1>3. StreamsInTurn'
  BY <1>2 DEF AgainInv, StreamsInTurn
<1>4. CASE m = Done
  <2>1. source' = 0 /\ UNCHANGED shown
    BY <1>4 DEF Receive
  <2> QED
    BY <1>1, <1>3, <2>1 DEF AgainInv, ShownAgain, WireAgain
<1>5. CASE m # Done
  <2>1. m \in 1 .. LastLine /\ shown' = Append(shown, <<source, m>>) /\ UNCHANGED source
    <3>1. m \in Message
      BY <1>1, HeadTailProperties
    <3>2. m \in 1 .. LastLine
      BY <1>5, <3>1, Numbers DEF Message, Done
    <3>3. shown' = Append(shown, <<source, m>>) /\ UNCHANGED source
      BY <1>5 DEF Receive
    <3> QED
      BY <3>2, <3>3
  <2>2. /\ shown' # <<>> /\ Len(shown') = Len(shown) + 1 /\ Len(shown) \in Nat
        /\ shown'[Len(shown) + 1] = <<source, m>>
        /\ \A i \in 1 .. Len(shown) : shown'[i] = shown[i]
    BY <1>1, <2>1, AppendShown
  <2>3. shown # <<>> => shown'[1] = shown[1] /\ shown'[Len(shown)] = shown[Len(shown)]
    BY <2>2, LastShown
  <2>4. shown = <<>> => Len(shown) = 0 /\ shown'[1] = <<source, m>>
    BY <2>2, EmptySeq
  <2>5. ASSUME NEW i \in 1 .. Len(shown') - 1, shown'[i][1] # shown'[i + 1][1]
        PROVE  shown'[i][1] < shown'[i + 1][1] /\ shown'[i + 1][2] = shown'[1][2]
    <3>1. CASE i = Len(shown)
      <4>1. shown # <<>>
        BY <2>2, <2>4, <3>1
      <4>2. shown[Len(shown)][1] # source /\ shown'[i][1] = shown[Len(shown)][1]
            /\ shown'[i + 1] = <<source, m>>
        BY <2>2, <2>3, <2>5, <3>1, <4>1
      <4>3. shown[Len(shown)][1] \in Nat /\ source \in Nat /\ source # 0
        BY <1>1, <4>1, LastShown, LogAssumption
      <4>4. shown[Len(shown)][1] <= source /\ m = shown[1][2]
        BY <1>1, <4>1, <4>2, <4>3 DEF AgainInv, WireAgain
      <4> QED
        BY <2>3, <4>1, <4>2, <4>3, <4>4
    <3>2. CASE i \in 1 .. Len(shown) - 1
      <4>1. shown'[i] = shown[i] /\ shown'[i + 1] = shown[i + 1] /\ shown # <<>>
        BY <2>2, <2>4, <3>2
      <4> QED
        BY <2>3, <2>5, <3>2, <4>1 DEF AgainInv, ShownAgain
    <3> QED
      BY <2>2, <3>1, <3>2
  <2>6. history' # <<>> => shown'[1][2] = Head(history')
    <3>1. source # 0
      BY <1>1, LogAssumption
    <3> QED
      BY <1>1, <2>3, <2>4, <3>1 DEF AgainInv, ShownAgain, WireAgain
  <2>7. WireAgain'
    <3>1. source \in Nat /\ shown'[Len(shown')][1] = source
      BY <1>1, <2>2, LogAssumption
    <3> QED
      BY <2>1, <2>2, <3>1 DEF WireAgain
  <2> QED
    BY <1>3, <2>5, <2>6, <2>7 DEF AgainInv, ShownAgain
<1> QED
  BY <1>4, <1>5

LEMMA DisconnectAgain == ASSUME LInv, AgainInv, Disconnect PROVE AgainInv'
<1>1. source' = 0 /\ UNCHANGED <<history, shown>>
  BY DEF Disconnect
<1>2. \A q \in Stream : stream'[q].at = stream[q].at
  BY DEF Disconnect, LInv, LTypeOK
<1> QED
  BY <1>1, <1>2 DEF AgainInv, StreamsInTurn, ShownAgain, WireAgain

LEMMA NextAgain == LInv /\ AgainInv /\ [LNext]_lvars => AgainInv'
<1> SUFFICES ASSUME LInv, AgainInv, [LNext]_lvars PROVE AgainInv'
  OBVIOUS
<1>1. CASE UNCHANGED lvars
  BY <1>1 DEF lvars, AgainInv, StreamsInTurn, ShownAgain, WireAgain
<1>2. CASE LNext
  BY <1>2, LogAgain, ConnectAgain, ReplayAgain, SubscriberAgain, ReceiveAgain, DisconnectAgain
     DEF LNext, Form
<1> QED
  BY <1>1, <1>2

LEMMA AgainInvariance == LSpec => []AgainInv
  BY InitAgain, NextAgain, LogInvariance, PTL DEF LSpec

(* However often the connection breaks and whenever the list expires, what   *)
(* one connection shows is a run of the log, done comes right after SEALED,  *)
(* and an open stream has nothing to say only for want of a list.  What the  *)
(* form shows altogether is not a run: each later connection begins again    *)
(* with the first line shown (mint-log/route.ts:26-36, MintForm.tsx:45-56).  *)
THEOREM EachConnectionShowsARun == LSpec => []ShownIsARun
<1>1. LInv /\ AgainInv => ShownIsARun
  BY DEF LInv, LTypeOK, SourceInv, ShownInv, AgainInv, ShownAgain, ShownIsARun
<1> QED
  BY <1>1, LogInvariance, AgainInvariance, PTL

(* When a subscriber is left open.  SubscribersAreQuit does not hold, because *)
(* start registers its listener for the abort after it has replayed and      *)
(* subscribed; an abort that comes before is one nobody hears.              *)
AbortsAreHeard ==
  \A s \in Stream : stream[s].aborted => stream[s].at \notin {"history", "subscribe"}

AbortedAreQuit ==
  \A s \in Stream :
    /\ stream[s].aborted => stream[s].at \in {"new", "errored", "closed"}
    /\ stream[s].at = "closed" => stream[s].subscriber = "quit"

LEMMA AbortedStep ==
  ASSUME LInv, AbortsAreHeard, AbortsAreHeard', AbortedAreQuit, [LNext]_lvars
  PROVE  AbortedAreQuit'
<1>1. stream \in [Stream -> StreamType]
  BY DEF LInv, LTypeOK, StreamType
<1>2. ASSUME NEW s \in Stream, Connect(s) PROVE AbortedAreQuit'
  <2>1. stream' = [stream EXCEPT ![s].at = "history", ![s].subscriber = "open"]
    BY <1>2 DEF Connect
  <2>2. stream'[s].at = "history" /\ \A q \in Stream : q # s => stream'[q] = stream[q]
    BY <1>1, <2>1 DEF StreamType
  <2>3. ~stream'[s].aborted
    BY <2>2 DEF AbortsAreHeard
  <2> QED
    BY <2>2, <2>3 DEF AbortedAreQuit
<1>3. ASSUME NEW s \in Stream, Replay(s) \/ Subscribe(s) PROVE AbortedAreQuit'
  <2>1. ~stream[s].aborted
    BY <1>3 DEF Replay, Subscribe, AbortsAreHeard
  <2>2. /\ stream'[s].aborted = stream[s].aborted /\ stream'[s].at # "closed"
        /\ \A q \in Stream : q # s => stream'[q] = stream[q]
    BY <1>1, <1>3 DEF Replay, Subscribe, StreamType
  <2> QED
    BY <2>1, <2>2 DEF AbortedAreQuit
<1>4. ASSUME NEW s \in Stream, Abort(s) PROVE AbortedAreQuit'
  <2>1. /\ stream'[s].at = IF stream[s].at = "listening" THEN "closed" ELSE stream[s].at
        /\ stream'[s].subscriber = IF stream[s].at = "listening" THEN "quit" ELSE stream[s].subscriber
        /\ stream'[s].aborted
        /\ \A q \in Stream : q # s => stream'[q] = stream[q]
    BY <1>1, <1>4 DEF Abort, StreamType
  <2>2. stream'[s].at \notin {"history", "subscribe"}
    BY <2>1 DEF AbortsAreHeard
  <2>3. stream[s].at \in {"new", "history", "subscribe", "listening", "errored", "closed"}
    BY <1>1 DEF StreamType
  <2> QED
    BY <2>1, <2>2, <2>3 DEF AbortedAreQuit
<1>5. CASE Form
  <2>1. source \in Stream \cup {0} /\ source # 0
    BY <1>5 DEF Form, Receive, Disconnect, LInv, LTypeOK
  <2>2. /\ \A q \in Stream : q # source => stream'[q] = stream[q]
        /\ stream'[source].at = stream[source].at
        /\ stream'[source].aborted = stream[source].aborted
        /\ stream'[source].subscriber = stream[source].subscriber
    BY <1>1, <1>5, <2>1 DEF Form, Receive, Disconnect, StreamType
  <2> QED
    BY <2>1, <2>2 DEF AbortedAreQuit
<1>6. CASE Log \/ UNCHANGED lvars
  BY <1>6 DEF Log, Rpush, SetExpiry, Publish, JobFails, Elapse, lvars, AbortedAreQuit
<1> QED
  BY <1>2, <1>3, <1>4, <1>5, <1>6 DEF LNext

(* lib/redis.ts:14, "Callers must quit() it when done": as long as no abort    *)
(* comes before mint-log/route.ts listens for it, every stream whose client   *)
(* is known to have gone has told its subscriber to quit, but for one whose   *)
(* subscribe threw; so none that listens is left with an open one.          *)
THEOREM HeardAbortsQuit ==
  LSpec /\ []AbortsAreHeard => [](AbortedAreQuit /\ SubscribersAreQuit)
<1>1. LInit => AbortedAreQuit
  BY DEF LInit, NewStream, AbortedAreQuit
<1>2. AbortedAreQuit => SubscribersAreQuit
  BY DEF AbortedAreQuit, SubscribersAreQuit
<1> QED
  BY <1>1, <1>2, AbortedStep, LogInvariance, PTL DEF LSpec
-----------------------------------------------------------------------------
(* The tree of Circuit that has the leaves of s, when leafOf says what leaf  *)
(* each credential has.                                                     *)
Filled(leafOf, s) == [i \in DOMAIN s |-> leafOf[s[i]]]

(* Issuance writes a root as the set of leaves that are not zero.  This is   *)
(* the root MerkleService computes, in a tree of any depth that holds the    *)
(* leaves: two states of the tree have one root there exactly if they have   *)
(* one here, unless two credentials are given the same leaf.                *)
THEOREM RootOfIsTheTreesRoot ==
  ASSUME NEW leafOf,
         leafOf[Zero] = ZeroField,
         \A c, d \in Credential \cup {Zero} : leafOf[c] = leafOf[d] => c = d,
         NEW s \in Leaves, Len(s) <= Capacity[Depth],
         NEW t \in Leaves, Len(t) <= Capacity[Depth]
  PROVE  RootOf(s) = RootOf(t) <=> TreeRoot(Filled(leafOf, s)) = TreeRoot(Filled(leafOf, t))
<1> DEFINE Field == {leafOf[c] : c \in Credential \cup {Zero}}
<1>1. ASSUME NEW q \in Leaves
      PROVE  /\ Filled(leafOf, q) \in Seq(Field) /\ Len(Filled(leafOf, q)) = Len(q)
             /\ DOMAIN Filled(leafOf, q) = DOMAIN q
             /\ \A i \in DOMAIN q : Filled(leafOf, q)[i] = leafOf[q[i]]
             /\ \A i \in DOMAIN q : q[i] \in Credential \cup {Zero}
  <2>1. /\ Len(q) \in Nat /\ DOMAIN q = 1 .. Len(q)
        /\ \A i \in DOMAIN q : q[i] \in Credential \cup {Zero}
    BY DEF Leaves
  <2>2. Filled(leafOf, q) \in [1 .. Len(q) -> Field]
    BY <2>1 DEF Filled
  <2>3. Filled(leafOf, q) \in Seq(Field) /\ Len(Filled(leafOf, q)) = Len(q)
    BY <2>1, <2>2
  <2> QED
    BY <2>1, <2>3 DEF Filled
<1> HIDE DEF Field
<1>2. TreeRoot(Filled(leafOf, s)) = TreeRoot(Filled(leafOf, t))
        <=> LeafSet(Filled(leafOf, s)) = LeafSet(Filled(leafOf, t))
  BY <1>1, RootIsItsLeafSet
<1>3. ASSUME NEW q \in Leaves
      PROVE  /\ \A e : e \in RootOf(q) <=> \E i \in DOMAIN q : q[i] # Zero /\ e = <<i, q[i]>>
             /\ \A y : y \in LeafSet(Filled(leafOf, q))
                         <=> \E i \in DOMAIN q : q[i] # Zero /\ y = <<i, leafOf[q[i]]>>
  <2>1. \A i \in DOMAIN q : leafOf[q[i]] # ZeroField <=> q[i] # Zero
    BY <1>1
  <2>2. \A y : y \in LeafSet(Filled(leafOf, q))
                 <=> \E i \in DOMAIN q : leafOf[q[i]] # ZeroField /\ y = <<i, leafOf[q[i]]>>
    BY <1>1 DEF LeafSet
  <2> QED
    BY <2>1, <2>2 DEF RootOf
<1>4. ASSUME NEW p \in Leaves, NEW q \in Leaves, RootOf(p) = RootOf(q)
      PROVE  LeafSet(Filled(leafOf, p)) \subseteq LeafSet(Filled(leafOf, q))
  <2> SUFFICES ASSUME NEW y \in LeafSet(Filled(leafOf, p)) PROVE y \in LeafSet(Filled(leafOf, q))
    OBVIOUS
  <2>1. PICK i \in DOMAIN p : p[i] # Zero /\ y = <<i, leafOf[p[i]]>>
    BY <1>3
  <2>2. <<i, p[i]>> \in RootOf(p)
    BY <1>3, <2>1
  <2>3. PICK j \in DOMAIN q : q[j] # Zero /\ <<i, p[i]>> = <<j, q[j]>>
    BY <1>3, <1>4, <2>2
  <2> QED
    BY <1>3, <2>1, <2>3
<1>5. ASSUME NEW p \in Leaves, NEW q \in Leaves,
             LeafSet(Filled(leafOf, p)) = LeafSet(Filled(leafOf, q))
      PROVE  RootOf(p) \subseteq RootOf(q)
  <2> SUFFICES ASSUME NEW e \in RootOf(p) PROVE e \in RootOf(q)
    OBVIOUS
  <2>1. PICK i \in DOMAIN p : p[i] # Zero /\ e = <<i, p[i]>>
    BY <1>3
  <2>2. <<i, leafOf[p[i]]>> \in LeafSet(Filled(leafOf, p))
    BY <1>3, <2>1
  <2>3. PICK j \in DOMAIN q : q[j] # Zero /\ <<i, leafOf[p[i]]>> = <<j, leafOf[q[j]]>>
    BY <1>3, <1>5, <2>2
  <2>4. i = j /\ p[i] = q[j]
    BY <1>1, <2>1, <2>3
  <2> QED
    BY <1>3, <2>1, <2>3, <2>4
<1>6. ASSUME RootOf(s) = RootOf(t) PROVE LeafSet(Filled(leafOf, s)) = LeafSet(Filled(leafOf, t))
  <2>1. LeafSet(Filled(leafOf, s)) \subseteq LeafSet(Filled(leafOf, t))
    BY <1>4, <1>6
  <2>2. LeafSet(Filled(leafOf, t)) \subseteq LeafSet(Filled(leafOf, s))
    BY <1>4, <1>6
  <2> QED
    BY <2>1, <2>2
<1>7. ASSUME LeafSet(Filled(leafOf, s)) = LeafSet(Filled(leafOf, t)) PROVE RootOf(s) = RootOf(t)
  <2>1. RootOf(s) \subseteq RootOf(t)
    BY <1>5, <1>7
  <2>2. RootOf(t) \subseteq RootOf(s)
    BY <1>5, <1>7
  <2> QED
    BY <2>1, <2>2
<1> QED
  BY <1>2, <1>6, <1>7
-----------------------------------------------------------------------------
(* A behaviour of the run's specification is one of issuance, one of the     *)
(* tree and its prover and one of the mint log, two of them at rest: the     *)
(* theorems about each are about that run too.                               *)
THEOREM TreesAreIssuanceCircuitAndLog == TreeSpec => Spec /\ CSpec /\ LSpec
<1>1. TreeInit => Init /\ CInit /\ LInit
  BY DEF TreeInit
<1>2. [TreeNext]_<<vars, cvars, lvars>> => [Next]_vars /\ [CNext]_cvars /\ [LNext]_lvars
  BY DEF TreeNext
<1> QED
  BY <1>1, <1>2, PTL DEF TreeSpec, Spec, CSpec, LSpec

(* The leaves, credentials, calls and transactions of issuance, the terms,   *)
(* paths and witnesses of the prover, and the lists and streams of the mint  *)
(* log keep their types.                                                     *)
THEOREM TreesTypeCorrect == TreeSpec => []TypesOK
  BY TreesAreIssuanceCircuitAndLog, TypeCorrect, CircuitTypeCorrect, LogTypeCorrect, PTL
  DEF TypesOK
=============================================================================
