------------------------------- MODULE Circuit -------------------------------
(***************************************************************************)
(* The statement a proof makes, and the page that makes proofs: the Merkle  *)
(* tree of credential leaves, the circuit zelyo_credential and the client   *)
(* prover in front of it.                                                   *)
(*                                                                          *)
(* A field element is a term: a name, the zero, or Poseidon of a list of    *)
(* terms, so that Poseidon is collision free and nobody inverts it.  The    *)
(* proof system is taken as sound and complete for the circuit.             *)
(***************************************************************************)
EXTENDS Naturals, Sequences

CONSTANTS
  Secret,     \* values of s
  Attribute,  \* attribute sets, as records [track, rest] of names
  Address,    \* bound addresses, as field elements; Zero may be one of them
  Scope,      \* Poseidon(appId, chainId, registryId)
  ProvePage,  \* open prove pages
  Depth,      \* MERKLE_DEPTH
  MaxLeaf,    \* bound on the credentials minted
  NoTerm

(* The leaves of a tree that deep.                                          *)
Capacity[d \in 0 .. Depth] == IF d = 0 THEN 1 ELSE 2 * Capacity[d - 1]

ASSUME CircuitAssumption ==
  /\ Depth \in Nat \ {0} /\ MaxLeaf \in 1 .. Capacity[Depth]
  /\ \A a \in Attribute : a = [track |-> a.track, rest |-> a.rest]

VARIABLES
  tree,     \* the Leaf table: the leaf field of each index, in order
  minted,   \* the credential of each leaf: commitment, attributes, ACTIVE or not
  page      \* each page: its step, credential, served path and outcome

cvars == <<tree, minted, page>>

Poseidon(xs) == <<"Poseidon", xs>>
ZeroField    == <<"0">>

Commit(s)  == Poseidon(<<s>>)
HashOne(x) == Poseidon(<<x>>)
HashTwo(x, y) == Poseidon(<<x, y>>)
ComputeNullifier(s, scope) == Poseidon(<<s, scope>>)

HashTrackOnly(a) == Poseidon(<<a.track>>)   \* mutant: the other attributes are left out

HashAttributes(a) == Poseidon(<<a.track, a.rest>>)

BuildLeaf(idc, a) == HashTwo(idc, HashAttributes(a))
-----------------------------------------------------------------------------
(* IMT keeps the nodes over its leaves; any other is the root of a subtree   *)
(* of zero leaves.                                                          *)
ZeroNode[l \in 0 .. Depth] ==
  IF l = 0 THEN ZeroField ELSE HashTwo(ZeroNode[l - 1], ZeroNode[l - 1])

NodeAt(nodes, l, i) == IF i \in DOMAIN nodes THEN nodes[i] ELSE ZeroNode[l]

(* The level over the nodes of level l.                                     *)
Above(nodes, l) ==
  [i \in {j \div 2 : j \in DOMAIN nodes} |->
     HashTwo(NodeAt(nodes, l, 2 * i), NodeAt(nodes, l, 2 * i + 1))]

Nodes(t) ==
  LET level[l \in 0 .. Depth] == IF l = 0 THEN [i \in 0 .. Len(t) - 1 |-> t[i + 1]]
                                          ELSE Above(level[l - 1], l - 1)
  IN level

TreeRoot(t) == NodeAt(Nodes(t)[Depth], Depth, 0)

(* Where the way up from leaf i meets each level.                           *)
Positions(i) ==
  LET position[l \in 0 .. Depth] == IF l = 0 THEN i ELSE position[l - 1] \div 2
  IN position

Sibling(nodes, l, i) == NodeAt(nodes, l, IF i % 2 = 0 THEN i + 1 ELSE i - 1)

(* getMerkleProof: the sibling on each level, and whether the node is right. *)
ProofByLevel(t, i) ==   \* mutant: the position is not halved from level to level
  [siblings |-> [l \in 1 .. Depth |-> Sibling(Nodes(t)[l - 1], l - 1, Positions(i)[l - 1])],
   pathIndices |-> [l \in 1 .. Depth |-> i % 2],
   root |-> TreeRoot(t)]

MerkleProof(t, i) ==
  [siblings |-> [l \in 1 .. Depth |-> Sibling(Nodes(t)[l - 1], l - 1, Positions(i)[l - 1])],
   pathIndices |-> [l \in 1 .. Depth |-> Positions(i)[l - 1] % 2],
   root |-> TreeRoot(t)]

(* From a leaf to the root it leads to; isRight says on which side the node is. *)
WayUp(leaf, siblings, isRight) ==
  LET node[l \in 0 .. Depth] ==
        IF l = 0 THEN leaf
        ELSE IF isRight[l] THEN HashTwo(siblings[l], node[l - 1])
                           ELSE HashTwo(node[l - 1], siblings[l])
  IN node

Walk(leaf, siblings, isRight) == WayUp(leaf, siblings, isRight)[Depth]

(* main of the circuit: the constraints on private and public inputs.       *)
Main(s, a, siblings, isRight, pub) ==
  /\ Walk(BuildLeaf(Commit(s), a), siblings, isRight) = pub.root
  /\ pub.nullifier = ComputeNullifier(s, pub.scope)
  /\ pub.disclosed = HashOne(a.track)
  /\ pub.boundAddress # ZeroField

PublicInputs(s, a, root, address) ==
  [root |-> root, scope |-> Scope, boundAddress |-> address,
   nullifier |-> ComputeNullifier(s, Scope), disclosed |-> HashOne(a.track)]
-----------------------------------------------------------------------------
NoPath == [siblings |-> <<>>, pathIndices |-> <<>>, root |-> ZeroField]
NoPage == [at |-> "closed", credential |-> 0, live |-> FALSE, path |-> NoPath,
           secret |-> NoTerm, address |-> NoTerm, outcome |-> "none"]

Commitments == {Commit(s) : s \in Secret}

CTypeOK ==
  /\ minted \in Seq([commitment : Commitments, attributes : Attribute, active : BOOLEAN])
  /\ tree \in Seq({ZeroField} \cup {BuildLeaf(c, a) : c \in Commitments, a \in Attribute})
  /\ Len(tree) = Len(minted) /\ Len(tree) <= MaxLeaf
  /\ DOMAIN page = ProvePage
  /\ \A p \in ProvePage : LET k == page[p]
       IN /\ k = [at |-> k.at, credential |-> k.credential, live |-> k.live, path |-> k.path,
                  secret |-> k.secret, address |-> k.address, outcome |-> k.outcome]
          /\ k.at \in {"closed", "row", "served", "done"} /\ k.live \in BOOLEAN
          /\ k.at # "closed" => k.credential \in DOMAIN minted
          /\ k.outcome \in {"none", "proof", "LEAF_MISMATCH", "EXECUTE"}

CInit ==
  /\ tree = <<>> /\ minted = <<>>
  /\ page = [p \in ProvePage |-> NoPage]

(* Minting and revoking, as Issuance has them with no other call about.     *)
MintCredential ==
  /\ Len(tree) < MaxLeaf
  /\ \E s \in Secret, a \in Attribute :
       /\ tree' = Append(tree, BuildLeaf(Commit(s), a))
       /\ minted' = Append(minted, [commitment |-> Commit(s), attributes |-> a, active |-> TRUE])
  /\ UNCHANGED page

RevokeCredential ==
  /\ \E i \in DOMAIN minted :
       /\ minted[i].active
       /\ minted' = [minted EXCEPT ![i].active = FALSE]
       /\ tree' = [tree EXCEPT ![i] = ZeroField]
  /\ UNCHANGED page

(* The prove page reads the credential, then the tree for its path.         *)
OpenPage(p) ==
  /\ page[p].at = "closed"
  /\ \E i \in DOMAIN minted : page' = [page EXCEPT ![p].at = "row", ![p].credential = i]
  /\ UNCHANGED <<tree, minted>>

ServePath(p) ==
  LET i == page[p].credential
  IN /\ page[p].at = "row"
     /\ page' = [page EXCEPT ![p].at = "served", ![p].live = minted[i].active,
                             ![p].path = MerkleProof(tree, i - 1)]
     /\ UNCHANGED <<tree, minted>>

(* proveCredential, as often as asked, with whatever secret the browser     *)
(* holds by then.  The preflight walks the path in JavaScript; then the      *)
(* circuit is executed.                                                     *)
Preflight(s, a, path) ==
  Walk(BuildLeaf(Commit(s), a), path.siblings, [l \in 1 .. Depth |-> path.pathIndices[l] = 1])
    = path.root

ExecuteFlipped(s, a, path, address) ==   \* mutant: the circuit is given the other side
  Main(s, a, path.siblings, [l \in 1 .. Depth |-> path.pathIndices[l] = 0],
       PublicInputs(s, a, path.root, address))

Execute(s, a, path, address) ==
  Main(s, a, path.siblings, [l \in 1 .. Depth |-> path.pathIndices[l] = 1],
       PublicInputs(s, a, path.root, address))

Prove(p) ==
  LET a    == minted[page[p].credential].attributes
      path == page[p].path
  IN /\ page[p].at \in {"served", "done"}
     /\ \E s \in Secret, address \in Address :
          LET outcome == IF ~Preflight(s, a, path) THEN "LEAF_MISMATCH"
                         ELSE IF ~Execute(s, a, path, address) THEN "EXECUTE"
                         ELSE "proof"
          IN page' = [page EXCEPT ![p].at = "done", ![p].outcome = outcome,
                                  ![p].secret = s, ![p].address = address]
     /\ UNCHANGED <<tree, minted>>

CNext ==
  \/ MintCredential \/ RevokeCredential
  \/ \E p \in ProvePage : OpenPage(p) \/ ServePath(p) \/ Prove(p)

CSpec == CInit /\ [][CNext]_cvars
-----------------------------------------------------------------------------
(* Whatever witness one puts together, the circuit accepts it under the     *)
(* tree's root only if a credential with that secret's commitment and those  *)
(* attributes is ACTIVE: no path leads to the root from anything else, a     *)
(* zeroed leaf and an inner node included (main.nr:31-52).  The empty tree    *)
(* has the root of one with a zeroed leaf.                                  *)
Issued(s, a) ==
  \E i \in DOMAIN minted :
    minted[i].active /\ minted[i].commitment = Commit(s) /\ minted[i].attributes = a

Known ==
  Commitments \cup {HashAttributes(a) : a \in Attribute} \cup {ZeroNode[l] : l \in 0 .. Depth}
    \cup UNION {{Nodes(tree)[l][i] : i \in DOMAIN Nodes(tree)[l]} : l \in 0 .. Depth}

OnlyIssuedCredentialsProve ==
  tree # <<>> /\ (\A p \in ProvePage : page[p].at = "closed") =>
    \A s \in Secret, a \in Attribute, address \in Address :
      ~Issued(s, a) =>
        \A siblings \in [1 .. Depth -> Known], isRight \in [1 .. Depth -> BOOLEAN] :
          ~Main(s, a, siblings, isRight, PublicInputs(s, a, TreeRoot(tree), address))

(* A path that was served while the credential was ACTIVE proves with its    *)
(* holder's secret, however the tree has changed since                      *)
(* (merkle.service.ts:48-61, prover.client.ts:136-153).                     *)
ServedPathProves ==
  \A p \in ProvePage :
    /\ page[p].at = "done" /\ page[p].live /\ page[p].address # ZeroField
    /\ minted[page[p].credential].commitment = Commit(page[p].secret)
    => page[p].outcome = "proof"

(* "The circuit does the same and aborts with an opaque ACVM error if it     *)
(* fails" (prover.client.ts:137): after the preflight it fails only for an   *)
(* address that reduces to zero, and a mismatch means what the page says of  *)
(* it: another key, or a credential revoked by the time its path was served. *)
FailuresAreExplained ==
  \A p \in ProvePage :
    /\ page[p].outcome = "EXECUTE" => page[p].address = ZeroField
    /\ page[p].outcome = "LEAF_MISMATCH" =>
         \/ ~page[p].live
         \/ minted[page[p].credential].commitment # Commit(page[p].secret)
=============================================================================
