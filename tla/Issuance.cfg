CONSTANTS
  o1 = o1
  o2 = o2
  Mint = {m1, m2}
  Revocation = {v1}
  Old <- TwoOld
  OldRevoked = {o1}
  Zero = Zero
  Faults = TRUE
  s1 = s1
  s2 = s2
  track1 = track1
  grade1 = grade1
  grade2 = grade2
  Secret = {s1, s2}
  Attribute <- Attributes
  Address <- Addresses
  Scope = scope
  ProvePage = {w1}
  Depth = 2
  MaxLeaf = 3
  NoTerm = NoTerm
  LastLine = 3
  Stream = {1, 2}
  LogFaults = TRUE
SPECIFICATION TreeSpec
SYMMETRY Symmetry
INVARIANTS TypesOK CredentialsOwnTheirLeaf IssuedIsProvable RootsAreOfTheTree OnlyIssuedCredentialsProve ServedPathProves FailuresAreExplained ShownIsARun
PROPERTIES LeavesOnlyZeroed
CHECK_DEADLOCK FALSE
