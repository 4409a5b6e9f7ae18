------------------------- MODULE CredentialRegistry -------------------------
(***************************************************************************)
(* The Soroban contract CredentialRegistry and the Verifier contract it     *)
(* calls on Path A.  One action per entry point that can succeed; a call    *)
(* that panics is rolled back by the host and is a stuttering step.  Which  *)
(* error code a rejected call reports is left out: the server never reads   *)
(* it (lib/stellar.ts asks the chain again instead).                        *)
(*                                                                          *)
(* `by` is the account that signed the invocation, the one whose            *)
(* require_auth the host accepts.                                           *)
(***************************************************************************)
EXTENDS Naturals, Sequences

CONSTANTS
  MaxKey,        \* the largest 32-byte address payload, read as an integer
  Modulus,       \* BN254_MODULUS_BE
  Root,          \* Merkle roots
  Nullifier,
  Verifier,      \* verifier contracts `initialize` may be given
  HostVerifies,  \* does the protocol verify UltraHonk proofs?  FALSE as shipped
  NoRoles        \* the instance storage before `initialize`

Key     == 0 .. MaxKey
Field   == 0 .. Modulus - 1
Address == Key

ASSUME FieldAssumption ==
  MaxKey \in Nat /\ Modulus \in Nat \ {0} /\ Modulus <= MaxKey + 1

Roles == [issuer : Address, attestor : Address, verifier : Verifier]

ASSUME RolesAssumption == NoRoles \notin Roles /\ HostVerifies \in BOOLEAN

PublicInputs == [root : Root, nullifier : Nullifier, boundAddress : Key]
Proof        == {"empty", "valid", "invalid"}

VARIABLES
  roles,       \* Issuer, Attestor and Verifier in instance storage
  validRoots,  \* the roots r with DataKey::Root(r) in persistent storage
  nullifiers,  \* the n with DataKey::Nullifier(n) in persistent storage
  events,      \* the Verified events, in ledger order
  rootStatus,  \* history: what the issuer last did with each root
  calls        \* history: who made the call behind each event

vars == <<roles, validRoots, nullifiers, events, rootStatus, calls>>

Verified == [nullifier : Nullifier, root : Root, boundAddress : Key]
Call     == [path : {"A", "B"}, by : Address, holder : Address]

TypeOK ==
  /\ roles \in Roles \cup {NoRoles}
  /\ validRoots \subseteq Root
  /\ nullifiers \subseteq Nullifier
  /\ events \in Seq(Verified)
  /\ rootStatus \in [Root -> {"never", "published", "revoked"}]
  /\ calls \in Seq(Call)
-----------------------------------------------------------------------------
Init ==
  /\ roles = NoRoles
  /\ validRoots = {}
  /\ nullifiers = {}
  /\ events = <<>>
  /\ rootStatus = [r \in Root |-> "never"]
  /\ calls = <<>>

(* address_to_field32: the raw key, reduced modulo the BN254 scalar field. *)
FieldOf(address) == address % Modulus

Initialized == roles # NoRoles

(* require_issuer: the caller signed and is the stored issuer. *)
RequireIssuer(caller, by) ==
  /\ by = caller
  /\ Initialized
  /\ caller = roles.issuer

(* Verifier.verify and verify_with_host: an empty proof never verifies, and *)
(* no other does until the host exposes the pairing functions.              *)
Verify(proof) == proof # "empty" /\ HostVerifies /\ proof = "valid"

Initialize(issuer, attestor, verifier) ==
  /\ ~Initialized
  /\ roles' = [issuer |-> issuer, attestor |-> attestor, verifier |-> verifier]
  /\ UNCHANGED <<validRoots, nullifiers, events, rootStatus, calls>>

SetRoot(issuer, by, root) ==
  /\ RequireIssuer(issuer, by)
  /\ validRoots' = validRoots \cup {root}
  /\ rootStatus' = [rootStatus EXCEPT ![root] = "published"]
  /\ UNCHANGED <<roles, nullifiers, events, calls>>

RevokeRoot(issuer, by, root) ==
  /\ RequireIssuer(issuer, by)
  /\ validRoots' = validRoots \ {root}
  /\ rootStatus' = [rootStatus EXCEPT ![root] = "revoked"]
  /\ UNCHANGED <<roles, nullifiers, events, calls>>

ChecksWithoutRoot(holder, pi) ==        \* mutant: check 1 dropped
  /\ FieldOf(holder) = pi.boundAddress
  /\ pi.nullifier \notin nullifiers

ChecksWithoutBinding(holder, pi) ==     \* mutant: check 2 dropped
  /\ pi.root \in validRoots
  /\ pi.nullifier \notin nullifiers

ChecksWithoutNullifier(holder, pi) ==   \* mutant: check 3 dropped
  /\ pi.root \in validRoots
  /\ FieldOf(holder) = pi.boundAddress

(* The three conditions of run_checks_and_register. *)
ChecksPass(holder, pi) ==
  /\ pi.root \in validRoots
  /\ FieldOf(holder) = pi.boundAddress
  /\ pi.nullifier \notin nullifiers

RunChecksAndRegister(holder, pi) ==
  /\ ChecksPass(holder, pi)
  /\ nullifiers' = nullifiers \cup {pi.nullifier}
  /\ events' = Append(events, [nullifier |-> pi.nullifier, root |-> pi.root,
                               boundAddress |-> pi.boundAddress])
  /\ UNCHANGED <<roles, validRoots, rootStatus>>

(* Path B: the attestor vouches for a proof the server verified. *)
Register(pi, attestor, holder, by) ==
  /\ by = attestor
  /\ Initialized
  /\ attestor = roles.attestor
  /\ RunChecksAndRegister(holder, pi)
  /\ calls' = Append(calls, [path |-> "B", by |-> by, holder |-> holder])

(* Path A: the holder's own wallet calls, and the verifier contract decides. *)
VerifyAndRegister(proof, pi, holder, by) ==
  /\ Initialized
  /\ Verify(proof)
  /\ by = holder
  /\ RunChecksAndRegister(holder, pi)
  /\ calls' = Append(calls, [path |-> "A", by |-> by, holder |-> holder])

Next ==
  \/ \E issuer, attestor \in Address, verifier \in Verifier :
        Initialize(issuer, attestor, verifier)
  \/ \E issuer, by \in Address, root \in Root : SetRoot(issuer, by, root)
  \/ \E issuer, by \in Address, root \in Root : RevokeRoot(issuer, by, root)
  \/ \E pi \in PublicInputs, attestor, holder, by \in Address :
        Register(pi, attestor, holder, by)
  \/ \E proof \in Proof, pi \in PublicInputs, holder, by \in Address :
        VerifyAndRegister(proof, pi, holder, by)

Spec == Init /\ [][Next]_vars
-----------------------------------------------------------------------------
(* The Sybil block: no two Verified events carry the same nullifier, over    *)
(* both paths, and the nullifier registry holds exactly the events' ones.    *)
NullifierOnce ==
  /\ \A i, j \in DOMAIN events :
        events[i].nullifier = events[j].nullifier => i = j
  /\ nullifiers = {events[i].nullifier : i \in DOMAIN events}

(* Every registration was bound to the holder it names and authorised by the *)
(* right party: the attestor on Path B, the holder itself on Path A.         *)
RegistrationsAuthorised ==
  /\ DOMAIN calls = DOMAIN events
  /\ \A i \in DOMAIN calls :
        /\ Initialized
        /\ events[i].boundAddress = FieldOf(calls[i].holder)
        /\ calls[i].by = IF calls[i].path = "A" THEN calls[i].holder
                                                 ELSE roles.attestor

(* A proof is accepted only against a root whose last issuer action was to   *)
(* publish it: never before set_root, never after revoke_root.               *)
RegistersOnlyAgainstLiveRoots ==
  [][events' # events =>
        rootStatus[events'[Len(events')].root] = "published"]_vars

(* Nothing that was granted is ever withdrawn: the roles stay as they were   *)
(* first set, a used nullifier stays used, and the event log only grows.     *)
StorageOnlyGrows ==
  [][/\ Initialized => roles' = roles
     /\ nullifiers \subseteq nullifiers'
     /\ SubSeq(events', 1, Len(events)) = events]_vars

(* With the verifier as shipped, Path A registers nobody.                    *)
PathADisabled == \A i \in DOMAIN calls : calls[i].path = "B"

(* The contract implements the abstract promise: its event log, read as a    *)
(* set of grants, only ever grows by a nullifier that is new.                *)
Grants == {[nullifier |-> events[i].nullifier, bound |-> events[i].boundAddress]
             : i \in DOMAIN events}

Abstract == INSTANCE SybilBlock WITH granted <- Grants, Bound <- Key

ImplementsSybilBlock == Abstract!Spec
=============================================================================
