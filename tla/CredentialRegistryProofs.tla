---------------------- MODULE CredentialRegistryProofs ----------------------
(***************************************************************************)
(* Theorems about the registry contract, for every size of key space and    *)
(* modulus and every set of roots, nullifiers and verifiers.                *)
(***************************************************************************)
EXTENDS CredentialRegistry, TLAPS

(* The contract's persistent root entries are exactly the roots whose last   *)
(* issuer action was set_root.                                              *)
RootsAreLive == validRoots = {r \in Root : rootStatus[r] = "published"}

IInv == TypeOK /\ NullifierOnce /\ RegistrationsAuthorised /\ RootsAreLive

(* What one accepted registration does to a log and its ghost.              *)
LEMMA AppendFacts ==
  ASSUME NEW S, NEW s \in Seq(S), NEW e \in S
  PROVE  /\ Append(s, e) \in Seq(S)
         /\ Len(Append(s, e)) = Len(s) + 1
         /\ DOMAIN Append(s, e) = 1 .. Len(s) + 1
         /\ DOMAIN s = 1 .. Len(s)
         /\ \A i \in DOMAIN s : Append(s, e)[i] = s[i]
         /\ Append(s, e)[Len(s) + 1] = e
  OBVIOUS

(* field reduction is into the scalar field, and an address is a key.       *)
LEMMA FieldOfType ==
  ASSUME NEW address \in Address PROVE FieldOf(address) \in Field
  BY FieldAssumption DEF FieldOf, Field, Address, Key

-----------------------------------------------------------------------------
(* TypeOK: the storage, the log and the ghosts keep their types.            *)
LEMMA InitTyped == Init => TypeOK
  BY DEF Init, TypeOK

LEMMA RegisterTyped ==
  ASSUME TypeOK, NEW pi \in PublicInputs, NEW holder \in Address,
         NEW by \in Address, NEW path \in {"A", "B"},
         RunChecksAndRegister(holder, pi),
         calls' = Append(calls, [path |-> path, by |-> by, holder |-> holder])
  PROVE  TypeOK'
<1>1. [nullifier |-> pi.nullifier, root |-> pi.root,
       boundAddress |-> pi.boundAddress] \in Verified
  BY DEF PublicInputs, Verified
<1>2. [path |-> path, by |-> by, holder |-> holder] \in Call
  BY DEF Call
<1>3. events' \in Seq(Verified) /\ calls' \in Seq(Call)
  BY <1>1, <1>2, AppendFacts DEF TypeOK, RunChecksAndRegister
<1>4. nullifiers' \subseteq Nullifier
  BY DEF TypeOK, RunChecksAndRegister, PublicInputs
<1> QED
  BY <1>3, <1>4 DEF TypeOK, RunChecksAndRegister

LEMMA NextTyped == TypeOK /\ [Next]_vars => TypeOK'
<1> SUFFICES ASSUME TypeOK, [Next]_vars PROVE TypeOK'
  OBVIOUS
<1>1. ASSUME NEW issuer \in Address, NEW attestor \in Address,
             NEW verifier \in Verifier, Initialize(issuer, attestor, verifier)
      PROVE  TypeOK'
  BY <1>1 DEF TypeOK, Initialize, Roles
<1>2. ASSUME NEW issuer \in Address, NEW by \in Address, NEW root \in Root,
             SetRoot(issuer, by, root)
      PROVE  TypeOK'
  BY <1>2 DEF TypeOK, SetRoot
<1>3. ASSUME NEW issuer \in Address, NEW by \in Address, NEW root \in Root,
             RevokeRoot(issuer, by, root)
      PROVE  TypeOK'
  BY <1>3 DEF TypeOK, RevokeRoot
<1>4. ASSUME NEW pi \in PublicInputs, NEW attestor \in Address,
             NEW holder \in Address, NEW by \in Address,
             Register(pi, attestor, holder, by)
      PROVE  TypeOK'
  BY <1>4, RegisterTyped DEF Register
<1>5. ASSUME NEW proof \in Proof, NEW pi \in PublicInputs,
             NEW holder \in Address, NEW by \in Address,
             VerifyAndRegister(proof, pi, holder, by)
      PROVE  TypeOK'
  BY <1>5, RegisterTyped DEF VerifyAndRegister
<1>6. CASE UNCHANGED vars
  BY <1>6 DEF TypeOK, vars
<1> QED
  BY <1>1, <1>2, <1>3, <1>4, <1>5, <1>6 DEF Next

(* The contract's storage, its event log and the history the properties     *)
(* read keep their types in every reachable state.                          *)
THEOREM TypeCorrect == Spec => []TypeOK
  BY InitTyped, NextTyped, PTL DEF Spec

-----------------------------------------------------------------------------
(* One accepted registration, on either path, keeps the log free of repeats *)
(* and every entry authorised.                                              *)
LEMMA RegisterPreserves ==
  ASSUME IInv, NEW pi \in PublicInputs, NEW holder \in Address,
         NEW by \in Address, NEW path \in {"A", "B"}, Initialized,
         by = IF path = "A" THEN holder ELSE roles.attestor,
         RunChecksAndRegister(holder, pi),
         calls' = Append(calls, [path |-> path, by |-> by, holder |-> holder])
  PROVE  IInv'
<1> DEFINE e == [nullifier |-> pi.nullifier, root |-> pi.root,
                 boundAddress |-> pi.boundAddress]
           k == [path |-> path, by |-> by, holder |-> holder]
<1>t. TypeOK'
  BY RegisterTyped DEF IInv
<1>e. /\ e \in Verified /\ k \in Call
      /\ events \in Seq(Verified) /\ calls \in Seq(Call)
      /\ events' = Append(events, e) /\ calls' = Append(calls, k)
  BY DEF Verified, Call, PublicInputs, RunChecksAndRegister, IInv, TypeOK
<1>d. DOMAIN events = 1 .. Len(events) /\ DOMAIN calls = 1 .. Len(calls)
      /\ Len(events) \in Nat /\ Len(calls) = Len(events)
  <2>1. DOMAIN calls = DOMAIN events
    BY DEF IInv, RegistrationsAuthorised
  <2> QED
    BY <1>e, <2>1
<1>1. NullifierOnce'
  <2>1. pi.nullifier \notin {events[i].nullifier : i \in DOMAIN events}
    BY DEF IInv, NullifierOnce, RunChecksAndRegister, ChecksPass
  <2>2. /\ DOMAIN events' = 1 .. Len(events) + 1
        /\ \A i \in 1 .. Len(events) : events'[i] = events[i]
        /\ events'[Len(events) + 1] = e
    BY <1>e, <1>d, AppendFacts
  <2>3. \A i, j \in DOMAIN events' :
           events'[i].nullifier = events'[j].nullifier => i = j
    <3> SUFFICES ASSUME NEW i \in DOMAIN events', NEW j \in DOMAIN events',
                        events'[i].nullifier = events'[j].nullifier
                 PROVE  i = j
      OBVIOUS
    <3>1. CASE i \in 1 .. Len(events) /\ j \in 1 .. Len(events)
      BY <3>1, <2>2, <1>d DEF IInv, NullifierOnce
    <3>2. CASE i \in 1 .. Len(events) /\ j = Len(events) + 1
      BY <3>2, <2>1, <2>2, <1>d
    <3>3. CASE i = Len(events) + 1 /\ j \in 1 .. Len(events)
      BY <3>3, <2>1, <2>2, <1>d
    <3> QED
      BY <3>1, <3>2, <3>3, <2>2, <1>d
  <2>4. nullifiers' = {events'[i].nullifier : i \in DOMAIN events'}
    <3>1. nullifiers' = {events[i].nullifier : i \in 1 .. Len(events)}
                          \cup {pi.nullifier}
      BY <1>d DEF IInv, NullifierOnce, RunChecksAndRegister
    <3>2. {events'[i].nullifier : i \in 1 .. Len(events) + 1}
            = {events'[i].nullifier : i \in 1 .. Len(events)} \cup {e.nullifier}
      <4>1. 1 .. Len(events) + 1 = (1 .. Len(events)) \cup {Len(events) + 1}
        BY <1>d
      <4> QED
        BY <4>1, <2>2
    <3>3. {events'[i].nullifier : i \in 1 .. Len(events)}
            = {events[i].nullifier : i \in 1 .. Len(events)}
      BY <2>2
    <3> QED
      BY <3>1, <3>2, <3>3, <2>2
  <2> QED
    BY <2>3, <2>4 DEF NullifierOnce
<1>2. RegistrationsAuthorised'
  <2>1. /\ DOMAIN events' = 1 .. Len(events) + 1
        /\ DOMAIN calls' = 1 .. Len(events) + 1
        /\ \A i \in 1 .. Len(events) : events'[i] = events[i] /\ calls'[i] = calls[i]
        /\ events'[Len(events) + 1] = e /\ calls'[Len(events) + 1] = k
    BY <1>e, <1>d, AppendFacts
  <2>2. roles' = roles /\ Initialized'
    BY DEF RunChecksAndRegister, Initialized
  <2>3. FieldOf(holder) = e.boundAddress
    BY DEF RunChecksAndRegister, ChecksPass
  <2>4. ASSUME NEW i \in DOMAIN calls'
        PROVE  /\ events'[i].boundAddress = FieldOf(calls'[i].holder)
               /\ calls'[i].by = IF calls'[i].path = "A" THEN calls'[i].holder
                                                         ELSE roles'.attestor
    <3>1. CASE i \in 1 .. Len(events)
      BY <3>1, <2>1, <2>2, <1>d DEF IInv, RegistrationsAuthorised
    <3>2. CASE i = Len(events) + 1
      BY <3>2, <2>1, <2>2, <2>3
    <3> QED
      BY <3>1, <3>2, <2>1, <1>d
  <2> QED
    BY <2>1, <2>2, <2>4 DEF RegistrationsAuthorised, FieldOf
<1>3. RootsAreLive'
  BY DEF IInv, RootsAreLive, RunChecksAndRegister
<1> QED
  BY <1>t, <1>1, <1>2, <1>3 DEF IInv

LEMMA InitInv == Init => IInv
<1> SUFFICES ASSUME Init PROVE IInv
  OBVIOUS
<1>1. DOMAIN events = {} /\ DOMAIN calls = {}
  BY DEF Init
<1>2. NullifierOnce /\ RegistrationsAuthorised
  BY <1>1 DEF Init, NullifierOnce, RegistrationsAuthorised
<1>3. RootsAreLive
  BY DEF Init, RootsAreLive
<1> QED
  BY <1>2, <1>3, InitTyped DEF IInv

(* IInv is inductive: each entry point on its own.                          *)
LEMMA NextInv == IInv /\ [Next]_vars => IInv'
<1> SUFFICES ASSUME IInv, [Next]_vars PROVE IInv'
  OBVIOUS
<1>t. TypeOK'
  BY NextTyped DEF IInv
<1>1. ASSUME NEW issuer \in Address, NEW attestor \in Address,
             NEW verifier \in Verifier, Initialize(issuer, attestor, verifier)
      PROVE  IInv'
  <2>1. DOMAIN calls = {}      \* before initialize nothing can register
    BY <1>1 DEF IInv, RegistrationsAuthorised, Initialize
  <2>2. RegistrationsAuthorised'
    BY <1>1, <2>1 DEF IInv, RegistrationsAuthorised, Initialize
  <2>3. NullifierOnce' /\ RootsAreLive'
    BY <1>1 DEF IInv, NullifierOnce, RootsAreLive, Initialize
  <2> QED
    BY <1>t, <2>2, <2>3 DEF IInv
<1>2. ASSUME NEW issuer \in Address, NEW by \in Address, NEW root \in Root,
             SetRoot(issuer, by, root)
      PROVE  IInv'
  <2>1. NullifierOnce' /\ RegistrationsAuthorised'
    BY <1>2 DEF IInv, NullifierOnce, RegistrationsAuthorised, SetRoot, Initialized
  <2>2. RootsAreLive'
    BY <1>2 DEF IInv, RootsAreLive, SetRoot, TypeOK
  <2> QED
    BY <1>t, <2>1, <2>2 DEF IInv
<1>3. ASSUME NEW issuer \in Address, NEW by \in Address, NEW root \in Root,
             RevokeRoot(issuer, by, root)
      PROVE  IInv'
  <2>1. NullifierOnce' /\ RegistrationsAuthorised'
    BY <1>3 DEF IInv, NullifierOnce, RegistrationsAuthorised, RevokeRoot, Initialized
  <2>2. RootsAreLive'
    BY <1>3 DEF IInv, RootsAreLive, RevokeRoot, TypeOK
  <2> QED
    BY <1>t, <2>1, <2>2 DEF IInv
<1>4. ASSUME NEW pi \in PublicInputs, NEW attestor \in Address,
             NEW holder \in Address, NEW by \in Address,
             Register(pi, attestor, holder, by)
      PROVE  IInv'
  BY <1>4, RegisterPreserves DEF Register
<1>5. ASSUME NEW proof \in Proof, NEW pi \in PublicInputs,
             NEW holder \in Address, NEW by \in Address,
             VerifyAndRegister(proof, pi, holder, by)
      PROVE  IInv'
  BY <1>5, RegisterPreserves DEF VerifyAndRegister
<1>6. CASE UNCHANGED vars
  <2>1. NullifierOnce' /\ RegistrationsAuthorised' /\ RootsAreLive'
    BY <1>6 DEF IInv, NullifierOnce, RegistrationsAuthorised, RootsAreLive, vars,
                Initialized
  <2> QED
    BY <1>t, <2>1 DEF IInv
<1> QED
  BY <1>1, <1>2, <1>3, <1>4, <1>5, <1>6 DEF Next

LEMMA Invariance == Spec => []IInv
  BY InitInv, NextInv, PTL DEF Spec

(* No nullifier is registered twice, over both paths.                       *)
THEOREM SybilBlocked == Spec => []NullifierOnce
<1>1. IInv => NullifierOnce
  BY DEF IInv
<1> QED
  BY <1>1, Invariance, PTL

(* Every registration is bound to its holder and authorised by the party    *)
(* its path requires.                                                       *)
THEOREM AllRegistrationsAuthorised == Spec => []RegistrationsAuthorised
<1>1. IInv => RegistrationsAuthorised
  BY DEF IInv
<1> QED
  BY <1>1, Invariance, PTL
-----------------------------------------------------------------------------
(* The two entry points that register, seen as one step.                    *)
Registers == \E pi \in PublicInputs, holder \in Address :
               RunChecksAndRegister(holder, pi)

LEMMA LogChangesOnlyByRegistering ==
  ASSUME IInv, [Next]_vars, events' # events PROVE Registers
  BY DEF Next, Initialize, SetRoot, RevokeRoot, Register, VerifyAndRegister,
         Registers, vars

LEMMA RegisterStep ==
  ASSUME IInv, NEW pi \in PublicInputs, NEW holder \in Address,
         RunChecksAndRegister(holder, pi)
  PROVE  /\ DOMAIN events = 1 .. Len(events) /\ Len(events) \in Nat
         /\ Len(events') = Len(events) + 1
         /\ DOMAIN events' = 1 .. Len(events) + 1
         /\ \A i \in 1 .. Len(events) : events'[i] = events[i]
         /\ events'[Len(events) + 1] =
              [nullifier |-> pi.nullifier, root |-> pi.root,
               boundAddress |-> pi.boundAddress]
<1> DEFINE e == [nullifier |-> pi.nullifier, root |-> pi.root,
                 boundAddress |-> pi.boundAddress]
<1>1. e \in Verified /\ events \in Seq(Verified) /\ events' = Append(events, e)
  BY DEF Verified, PublicInputs, RunChecksAndRegister, IInv, TypeOK
<1> QED
  BY <1>1, AppendFacts

(* One step: a registration is against a root the issuer published last, and *)
(* takes nothing back.                                                      *)
LEMMA LiveRootStep ==
  ASSUME IInv, [Next]_vars, events' # events
  PROVE  rootStatus[events'[Len(events')].root] = "published"
<1>1. PICK pi \in PublicInputs, holder \in Address : RunChecksAndRegister(holder, pi)
  BY LogChangesOnlyByRegistering DEF Registers
<1>2. events'[Len(events')].root = pi.root
  <2>1. /\ Len(events') = Len(events) + 1
        /\ events'[Len(events) + 1] =
             [nullifier |-> pi.nullifier, root |-> pi.root,
              boundAddress |-> pi.boundAddress]
    BY <1>1, RegisterStep, Zenon
  <2> QED
    BY <2>1
<1>3. pi.root \in validRoots
  BY <1>1 DEF RunChecksAndRegister, ChecksPass
<1> QED
  BY <1>2, <1>3 DEF IInv, RootsAreLive

Grows == /\ Initialized => roles' = roles
         /\ nullifiers \subseteq nullifiers'
         /\ SubSeq(events', 1, Len(events)) = events

LEMMA GrowsStep == ASSUME IInv, [Next]_vars PROVE Grows
<1>1. events \in Seq(Verified) /\ SubSeq(events, 1, Len(events)) = events
  BY DEF IInv, TypeOK
<1>2. SubSeq(events', 1, Len(events)) = events
  <2>1. CASE events' = events
    BY <2>1, <1>1
  <2>2. CASE events' # events
    <3>1. PICK pi \in PublicInputs, holder \in Address : RunChecksAndRegister(holder, pi)
      BY <2>2, LogChangesOnlyByRegistering DEF Registers
    <3>2. PICK e \in Verified : events' = Append(events, e)
      BY <3>1 DEF RunChecksAndRegister, Verified, PublicInputs
    <3> QED
      BY <3>2, <1>1
  <2> QED
    BY <2>1, <2>2
<1>3. /\ Initialized => roles' = roles
      /\ nullifiers \subseteq nullifiers'
  BY DEF Next, vars, Initialize, SetRoot, RevokeRoot, Register,
         VerifyAndRegister, RunChecksAndRegister
<1> QED
  BY <1>2, <1>3 DEF Grows

(* A proof is accepted only against a root the issuer published last.       *)
THEOREM RootsMustBeLive == Spec => RegistersOnlyAgainstLiveRoots
<1>1. IInv /\ [Next]_vars =>
        [events' # events =>
           rootStatus[events'[Len(events')].root] = "published"]_vars
  BY LiveRootStep
<1> QED
  BY <1>1, Invariance, PTL DEF Spec, RegistersOnlyAgainstLiveRoots

(* Roles, used nullifiers and logged events are never taken back.           *)
THEOREM NothingIsTakenBack == Spec => StorageOnlyGrows
<1>1. IInv /\ [Next]_vars => [Grows]_vars
  BY GrowsStep
<1> QED
  BY <1>1, Invariance, PTL DEF Spec, StorageOnlyGrows, Grows

(* With the verifier as shipped, whose host verification is a stub, no call *)
(* of Path A ever registers.                                                *)
THEOREM PathAStaysDisabled ==
  ASSUME HostVerifies = FALSE
  PROVE  Spec => []PathADisabled
<1>1. Init => PathADisabled
  BY DEF Init, PathADisabled
<1>2. TypeOK /\ PathADisabled /\ [Next]_vars => PathADisabled'
  <2> SUFFICES ASSUME TypeOK, PathADisabled, [Next]_vars PROVE PathADisabled'
    OBVIOUS
  <2>1. ASSUME NEW pi \in PublicInputs, NEW attestor \in Address,
               NEW holder \in Address, NEW by \in Address,
               Register(pi, attestor, holder, by)
        PROVE  PathADisabled'
    <3>1. PICK k \in Call : k.path = "B" /\ calls' = Append(calls, k)
      BY <2>1 DEF Register, Call
    <3>2. calls \in Seq(Call)
      BY DEF TypeOK
    <3>3. /\ DOMAIN calls' = 1 .. Len(calls) + 1 /\ DOMAIN calls = 1 .. Len(calls)
          /\ \A i \in DOMAIN calls : calls'[i] = calls[i]
          /\ calls'[Len(calls) + 1] = k /\ Len(calls) \in Nat
      BY <3>1, <3>2, AppendFacts
    <3> QED
      BY <3>1, <3>3 DEF PathADisabled
  <2>2. CASE calls' = calls
    BY <2>2 DEF PathADisabled
  <2> QED
    BY <2>1, <2>2 DEF Next, vars, Initialize, SetRoot, RevokeRoot,
                      VerifyAndRegister, Verify
<1> QED
  BY <1>1, <1>2, TypeCorrect, PTL DEF Spec

-----------------------------------------------------------------------------
(* The refinement: the log, read as a set of grants, implements the abstract *)
(* Sybil block.                                                             *)
LEMMA RegisterGrants ==
  ASSUME IInv, NEW pi \in PublicInputs, NEW holder \in Address,
         RunChecksAndRegister(holder, pi)
  PROVE  Abstract!Next
<1> DEFINE g == [nullifier |-> pi.nullifier, bound |-> pi.boundAddress]
<1>1. g \in Abstract!Grant
  BY DEF Abstract!Grant, PublicInputs
<1>2. \A h \in Grants : h.nullifier # g.nullifier
  BY DEF Grants, IInv, NullifierOnce, RunChecksAndRegister, ChecksPass
<1>3. Grants' = Grants \cup {g}
  <2>1. /\ DOMAIN events = 1 .. Len(events) /\ Len(events) \in Nat
        /\ DOMAIN events' = 1 .. Len(events) + 1
        /\ \A i \in 1 .. Len(events) : events'[i] = events[i]
    BY RegisterStep, Zenon
  <2>e. events'[Len(events) + 1] =
           [nullifier |-> pi.nullifier, root |-> pi.root,
            boundAddress |-> pi.boundAddress]
    BY RegisterStep, Zenon
  <2>2. 1 .. Len(events) + 1 = (1 .. Len(events)) \cup {Len(events) + 1}
    BY <2>1
  <2> QED
    BY <2>1, <2>e, <2>2 DEF Grants
<1> QED
  BY <1>1, <1>2, <1>3 DEF Abstract!Next, Abstract!GrantOne

(* The contract implements SybilBlock: a nullifier is granted to one bound  *)
(* address, once, and no grant is withdrawn.                                *)
THEOREM RegistryImplementsSybilBlock == Spec => ImplementsSybilBlock
<1>1. Init => Abstract!Init
  BY DEF Init, Abstract!Init, Grants
<1>2. IInv /\ [Next]_vars => [Abstract!Next]_Grants
  <2> SUFFICES ASSUME IInv, [Next]_vars, Grants' # Grants PROVE Abstract!Next
    OBVIOUS
  <2>1. events' # events
    BY DEF Grants
  <2> QED
    BY <2>1, LogChangesOnlyByRegistering, RegisterGrants DEF Registers
<1> QED
  BY <1>1, <1>2, Invariance, PTL DEF Spec, ImplementsSybilBlock, Abstract!Spec
=============================================================================
