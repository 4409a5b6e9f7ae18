------------------------------ MODULE MCAnchor ------------------------------
(***************************************************************************)
(* The contract, the services an anchor calls, the issuer's gate form and   *)
(* the installation of all this, each on a small instance.                  *)
(* The contract's keys are 0..2 with modulus 2, so that two addresses share *)
(* a field element.  The five modules share no state, so their behaviours   *)
(* are explored side by side, one of the five (of Setup, the deploy script  *)
(* or the rest), and not as a product.                                      *)
(***************************************************************************)
EXTENDS CredentialRegistry, Compliance, Quotes, GateDesk, Setup, TLC

Symmetry == Permutations(Account) \cup Permutations(RowId) \cup Permutations(Put) \cup Permutations(Deploy)

MCSlugOf == "Go" :> "go"

Wants(P, r, c) == [title |-> "Go", slug |-> "go", predicates |-> P,
                   rewardType |-> r, config |-> c]

(* Another administrator's gates: what the form could have sent, and what    *)
(* only a client of its own can: a reward without an asset, and a foreign   *)
(* regulated asset.                                                         *)
MCRival == {Wants({"v1"}, "CLAIMABLE_BALANCE", Unset),
            Wants({"v1"}, "REGULATED_ASSET",
                  [code |-> "TOKEN", issuer |-> "other", amount |-> "5"])}

MCEntry == {[code |-> "XLM", issuer |-> "", amount |-> "5"],
            [code |-> "TOKEN", issuer |-> "own", amount |-> "5"]}

MCPredicates == {{Blank}, {"v1"}}

NothingCalled  == roles = NoRoles
NothingDecided == DOMAIN verification = {} /\ \A r \in Request : pc[r] = "new"
NothingQuoted  == now = 1 /\ \A r \in DOMAIN stage : stage[r] = "new"
NothingTyped   == draft = BlankDraft /\ \A p \in Post : at[p] = "new"
NothingDeployed == \A d \in Deploy : deploying[d] = "new"
NothingSeeded  == /\ \A s \in Seed : seeding[s] = "new"
                  /\ \A u \in Username : users[u] = NoUser

NothingSetUp == NothingDeployed /\ NothingSeeded

AnchorInit == Init /\ AInit /\ QInit /\ GateDeskInit /\ SetupInit

AnchorNext ==
  \/ /\ NothingDecided /\ NothingQuoted /\ NothingTyped /\ NothingSetUp
     /\ Next /\ UNCHANGED <<avars, qvars, gateDeskVars, setupVars>>
  \/ /\ NothingCalled /\ NothingQuoted /\ NothingTyped /\ NothingSetUp
     /\ ANext /\ UNCHANGED <<vars, qvars, gateDeskVars, setupVars>>
  \/ /\ NothingCalled /\ NothingDecided /\ NothingTyped /\ NothingSetUp
     /\ QNext /\ UNCHANGED <<vars, avars, gateDeskVars, setupVars>>
  \/ /\ NothingCalled /\ NothingDecided /\ NothingQuoted /\ NothingSetUp
     /\ GateDeskNext /\ UNCHANGED <<vars, avars, qvars, setupVars>>
  \/ /\ NothingCalled /\ NothingDecided /\ NothingQuoted /\ NothingTyped
     /\ ((NothingSeeded /\ DeployNext) \/ (NothingDeployed /\ SeedNext))
     /\ UNCHANGED <<vars, avars, qvars, gateDeskVars>>

anchorVars == <<vars, avars, qvars, gateDeskVars, setupVars>>

AnchorSpec == AnchorInit /\ [][AnchorNext]_anchorVars

(* The contract's storage, the customers and the requests that decide about  *)
(* them, the prices and quotes, the gate form and the rows it makes, and    *)
(* the scripts' progress keep their types.                                  *)
TypesOK == TypeOK /\ ATypeOK /\ QTypeOK /\ GateDeskTypeOK /\ SetupTypeOK
=============================================================================
