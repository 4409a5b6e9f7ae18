CONSTANTS
  MaxKey = 1
  Modulus = 2
  r1 = r1
  r2 = r2
  n1 = n1
  n2 = n2
  c1 = c1
  Root = {r1, r2}
  Nullifier = {n1, n2}
  Verifier = {v1}
  HostVerifies = FALSE
  NoRoles = NoRoles
  None = None
  Credential = {c1}
  Covers <- MCCovers
  Service = 0
  Request = {q1, q2}
  Bundle <- MCBundles
  MaxIssuerTxs = 1
  Published = {r1}
  Faults = TRUE
SPECIFICATION FairSpec
INVARIANTS TypeOK RowsAgreeWithChain RegistrationsAreEarned
PROPERTIES RowsImplementSybilBlock EveryRequestAnswered
CHECK_DEADLOCK FALSE
