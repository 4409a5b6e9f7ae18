CONSTANTS
  MaxKey = 1
  Modulus = 2
  r1 = r1
  r2 = r2
  n1 = n1
  n2 = n2
  c1 = c1
  Root = {r1, r2}
  Nullifier = {n1, n2}
  Verifier = {v1}
  HostVerifies = FALSE
  NoRoles = NoRoles
  None = None
  Credential = {c1}
  Covers <- MCCovers
  Service = 0
  Request = {q1, q2}
  Bundle <- MCTwins
  MaxIssuerTxs = 1
  Published = {r1}
  Faults = FALSE
SPECIFICATION Spec
INVARIANT FirstSubmissionIsRecorded
CHECK_DEADLOCK FALSE
