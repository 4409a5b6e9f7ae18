CONSTANTS
  o1 = o1
  o2 = o2
  Mint = {m1}
  Revocation = {v1}
  Old <- OneOld
  OldRevoked = {}
  Zero = Zero
  Faults = FALSE
SPECIFICATION Spec
INVARIANT CurrentRootIsPublished
CHECK_DEADLOCK FALSE
