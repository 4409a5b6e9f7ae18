SPECIFICATION AnchorSpec
CONSTANTS
  MaxKey = 2
  Modulus = 2
  Root = {r1, r2}
  Nullifier = {n1, n2}
  Verifier = {w1}
  HostVerifies = TRUE
  NoRoles = NoRoles
  Account = {a1, a2}
  Memo = {m1}
  RowId = {v1, v2}
  Put = {p1, p2}
  Get = {g1}
  Approve = {s1}
  None = None
  NoQuote = NoQuote
  Query = {q1}
  Ask = {k1, k2, k3}
  Quote = {f1, f2}
  Order = {o1, o2}
  Fetch = {l1}
  CacheTTL = 2
  MaxNow = 4
  Title = {"Go"}
  SlugOf <- MCSlugOf
  Predicates <- MCPredicates
  Entry <- MCEntry
  Rival <- MCRival
  Post = {1, 2}
  NoPost = 0
  Deploy = {d1, d2}
  Seed = {1, 2}
  Username = {admin, u1}
  AdminName = admin
  Browser = {b1}
  Nobody = Nobody
SYMMETRY Symmetry
INVARIANTS TypesOK RegistrationsAuthorised AcceptedIsVerified AcceptanceIsFinal  ApprovedAreVerified PriceIsRecent CreatedGatesStand FormGatesAreComplete SeedIsRepeatable EnvRegistryIsOurs SessionsMatchUsers
PROPERTIES RegistersOnlyAgainstLiveRoots ImplementsSybilBlock
CHECK_DEADLOCK FALSE
