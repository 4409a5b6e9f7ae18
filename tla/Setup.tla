-------------------------------- MODULE Setup --------------------------------
(***************************************************************************)
(* What has to be there before anything else works: the contracts, put on   *)
(* chain and into .env by scripts/deploy-contracts.ts; the admin, issuer,   *)
(* tree and demo gate of prisma/seed.ts, which runs before every release    *)
(* while the previous one serves; and the users who register and sign in    *)
(* meanwhile.  Both scripts may die anywhere and be run again.              *)
(***************************************************************************)
EXTENDS Naturals, FiniteSets

CONSTANTS
  Deploy,    \* runs of the deploy script, each with contracts of its own
  Seed,      \* runs of the seed script
  Username,
  AdminName, \* ADMIN_USERNAME
  Browser,
  Nobody

ASSUME SetupAssumption ==
  /\ AdminName \in Username
  /\ Nobody \notin Deploy /\ Nobody \notin Username

VARIABLES
  deploying,    \* how far each run of the deploy script has come
  roleHolder,   \* who initialized each run's registry: "none", "us", "stranger"
  envVerifier, envRegistry,   \* .env: the run whose contracts it names
  seeding,      \* how far each run of the seed script has come
  users,        \* the User rows: who made each and its role, or NoUser
  issuers, trees,   \* the Issuer and MerkleTree rows, by the run that made them
  demoGate,     \* is there the gate "data-engineering"?
  overlap,      \* history: have two seed runs been at work at once?
  session       \* each browser's session token: user name and role

deployVars == <<deploying, roleHolder, envVerifier, envRegistry>>
seedVars   == <<seeding, issuers, trees, demoGate, overlap>>
setupVars  == <<deployVars, seedVars, users, session>>

NoUser == [by |-> "none", role |-> "none"]
NoSession == [name |-> Nobody, role |-> "none"]

DeployStep == {"new", "deployed", "initialized", "verifier", "done", "dead"}
SeedStep   == {"new", "admin", "issuer", "createIssuer", "tree", "createTree",
               "gate", "done", "dead"}

SetupTypeOK ==
  /\ deploying \in [Deploy -> DeployStep]
  /\ roleHolder \in [Deploy -> {"none", "us", "stranger"}]
  /\ envVerifier \in Deploy \cup {Nobody} /\ envRegistry \in Deploy \cup {Nobody}
  /\ seeding \in [Seed -> SeedStep]
  /\ users \in [Username -> [by : {"none", "seed", "holder"},
                             role : {"none", "ADMIN", "HOLDER"}]]
  /\ issuers \subseteq Seed /\ trees \subseteq Seed
  /\ demoGate \in BOOLEAN /\ overlap \in BOOLEAN
  /\ session \in [Browser -> [name : Username \cup {Nobody},
                              role : {"none", "ADMIN", "HOLDER"}]]

SetupInit ==
  /\ deploying = [d \in Deploy |-> "new"]
  /\ roleHolder = [d \in Deploy |-> "none"]
  /\ envVerifier = Nobody /\ envRegistry = Nobody
  /\ seeding = [s \in Seed |-> "new"]
  /\ users = [u \in Username |-> NoUser]
  /\ issuers = {} /\ trees = {} /\ demoGate = FALSE /\ overlap = FALSE
  /\ session = [b \in Browser |-> NoSession]
-----------------------------------------------------------------------------
(* scripts/deploy-contracts.ts. *)

DeployTo(d, from, to) ==
  deploying[d] = from /\ deploying' = [deploying EXCEPT ![d] = to]

(* Both contracts are on chain; their ids are known to this run only. *)
DeployContracts(d) ==
  /\ DeployTo(d, "new", "deployed")
  /\ UNCHANGED <<roleHolder, envVerifier, envRegistry, seedVars, users, session>>

(* `initialize` asks for no authorization, so anybody may be first. *)
StrangerInitializes(d) ==
  /\ deploying[d] # "new" /\ roleHolder[d] = "none"
  /\ roleHolder' = [roleHolder EXCEPT ![d] = "stranger"]
  /\ UNCHANGED <<deploying, envVerifier, envRegistry, seedVars, users, session>>

InitializeRegardless(d) ==   \* mutant: a failed invocation does not end the script
  /\ DeployTo(d, "deployed", "initialized")
  /\ roleHolder' = [roleHolder EXCEPT ![d] = IF @ = "none" THEN "us" ELSE @]
  /\ UNCHANGED <<envVerifier, envRegistry, seedVars, users, session>>

(* The invocation fails on an initialized registry, and so does the script. *)
InitializeRegistry(d) ==
  /\ \/ /\ DeployTo(d, "deployed", "initialized")
        /\ roleHolder[d] = "none"
        /\ roleHolder' = [roleHolder EXCEPT ![d] = "us"]
     \/ /\ DeployTo(d, "deployed", "dead")
        /\ roleHolder[d] # "none"
        /\ UNCHANGED roleHolder
  /\ UNCHANGED <<envVerifier, envRegistry, seedVars, users, session>>

(* upsertEnv, once for each contract. *)
WriteEnv(d) ==
  /\ \/ /\ DeployTo(d, "initialized", "verifier")
        /\ envVerifier' = d /\ UNCHANGED envRegistry
     \/ /\ DeployTo(d, "verifier", "done")
        /\ envRegistry' = d /\ UNCHANGED envVerifier
  /\ UNCHANGED <<roleHolder, seedVars, users, session>>

DeployDies(d) ==
  /\ deploying[d] \notin {"new", "done"}
  /\ DeployTo(d, deploying[d], "dead")
  /\ UNCHANGED <<roleHolder, envVerifier, envRegistry, seedVars, users, session>>
-----------------------------------------------------------------------------
(* prisma/seed.ts. *)

SeedTo(s, from, to) == seeding[s] = from /\ seeding' = [seeding EXCEPT ![s] = to]

AtWork(s) == seeding[s] \notin {"new", "done", "dead"}

StartSeed(s) ==
  /\ SeedTo(s, "new", "admin")
  /\ overlap' = (overlap \/ \E t \in Seed : AtWork(t))
  /\ UNCHANGED <<deployVars, issuers, trees, demoGate, users, session>>

UpsertAdminRole(s) ==   \* mutant: the upsert also makes an existing user admin
  /\ SeedTo(s, "admin", "issuer")
  /\ users' = [users EXCEPT ![AdminName] =
       [by |-> IF @ = NoUser THEN "seed" ELSE @.by, role |-> "ADMIN"]]
  /\ UNCHANGED <<deployVars, issuers, trees, demoGate, overlap, session>>

(* user.upsert with `update: {}`: whoever has the name keeps the row. *)
UpsertAdmin(s) ==
  /\ SeedTo(s, "admin", "issuer")
  /\ users' = [users EXCEPT ![AdminName] =
       IF @ = NoUser THEN [by |-> "seed", role |-> "ADMIN"] ELSE @]
  /\ UNCHANGED <<deployVars, issuers, trees, demoGate, overlap, session>>

FindIssuer(s) ==
  /\ IF issuers = {} THEN SeedTo(s, "issuer", "createIssuer") ELSE SeedTo(s, "issuer", "tree")
  /\ UNCHANGED <<deployVars, issuers, trees, demoGate, overlap, users, session>>

CreateIssuer(s) ==
  /\ SeedTo(s, "createIssuer", "tree")
  /\ issuers' = issuers \cup {s}
  /\ UNCHANGED <<deployVars, trees, demoGate, overlap, users, session>>

FindTreeByIssuer(s) ==   \* mutant: a database with an issuer is taken for seeded
  /\ IF issuers = {s} THEN SeedTo(s, "tree", "createTree") ELSE SeedTo(s, "tree", "gate")
  /\ UNCHANGED <<deployVars, issuers, trees, demoGate, overlap, users, session>>

FindTree(s) ==
  /\ IF trees = {} THEN SeedTo(s, "tree", "createTree") ELSE SeedTo(s, "tree", "gate")
  /\ UNCHANGED <<deployVars, issuers, trees, demoGate, overlap, users, session>>

CreateTree(s) ==
  /\ SeedTo(s, "createTree", "gate")
  /\ trees' = trees \cup {s}
  /\ UNCHANGED <<deployVars, issuers, demoGate, overlap, users, session>>

UpsertDemoGate(s) ==
  /\ SeedTo(s, "gate", "done")
  /\ demoGate' = TRUE
  /\ UNCHANGED <<deployVars, issuers, trees, overlap, users, session>>

SeedDies(s) ==
  /\ AtWork(s)
  /\ SeedTo(s, seeding[s], "dead")
  /\ UNCHANGED <<deployVars, issuers, trees, demoGate, overlap, users, session>>
-----------------------------------------------------------------------------
(* Users. *)

(* registerHolder: user.create, refused when the name is taken (P2002).     *)
RegisterHolder(u) ==
  /\ users[u] = NoUser
  /\ users' = [users EXCEPT ![u] = [by |-> "holder", role |-> "HOLDER"]]
  /\ UNCHANGED <<deployVars, seedVars, session>>

(* authorize, and the jwt and session callbacks: the token carries the role *)
(* the row had at sign-in.  The forms sign in with what was typed.          *)
SignIn(b, u) ==
  /\ session[b] = NoSession /\ users[u] # NoUser
  /\ session' = [session EXCEPT ![b] = [name |-> u, role |-> users[u].role]]
  /\ UNCHANGED <<deployVars, seedVars, users>>

SignOut(b) ==
  /\ session[b] # NoSession
  /\ session' = [session EXCEPT ![b] = NoSession]
  /\ UNCHANGED <<deployVars, seedVars, users>>

DeployNext ==
  \E d \in Deploy : \/ DeployContracts(d) \/ StrangerInitializes(d)
                    \/ InitializeRegistry(d) \/ WriteEnv(d) \/ DeployDies(d)

SeedNext ==
  \/ \E s \in Seed : \/ StartSeed(s) \/ UpsertAdmin(s) \/ FindIssuer(s) \/ CreateIssuer(s)
                     \/ FindTree(s) \/ CreateTree(s) \/ UpsertDemoGate(s) \/ SeedDies(s)
  \/ \E u \in Username : RegisterHolder(u)
  \/ \E b \in Browser, u \in Username : SignIn(b, u)
  \/ \E b \in Browser : SignOut(b)

SetupNext == DeployNext \/ SeedNext

SetupSpec == SetupInit /\ [][SetupNext]_setupVars
-----------------------------------------------------------------------------
(* Whatever died or overlapped before it, a seed run that completes leaves  *)
(* an issuer, a tree and the demo gate, exactly one of each unless two runs *)
(* overlapped, and an admin unless a holder had taken the admin's name.     *)
SeedIsRepeatable ==
  \A s \in Seed : seeding[s] = "done" =>
    /\ issuers # {} /\ trees # {} /\ demoGate
    /\ ~overlap => Cardinality(issuers) = 1 /\ Cardinality(trees) = 1
    /\ users[AdminName] = [by |-> "seed", role |-> "ADMIN"]
       \/ users[AdminName] = [by |-> "holder", role |-> "HOLDER"]

(* The registry the server is configured with is one this deployer          *)
(* initialized: no crash, rerun or faster stranger puts another into .env.  *)
EnvRegistryIsOurs == envRegistry # Nobody => roleHolder[envRegistry] = "us"

(* The role in a session token is that of the user's row, though the row is *)
(* never read again after sign-in; only seeded users are admins.            *)
SessionsMatchUsers ==
  /\ \A b \in Browser :
       session[b] # NoSession => session[b].role = users[session[b].name].role
  /\ \A u \in Username : users[u].role = "ADMIN" => users[u].by = "seed"
=============================================================================
