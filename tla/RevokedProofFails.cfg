CONSTANTS
  o1 = o1
  o2 = o2
  Mint = {}
  Revocation = {v1}
  Old <- OneOld
  OldRevoked = {}
  Zero = Zero
  Faults = FALSE
SPECIFICATION Spec
INVARIANT RevokedProofFails
CHECK_DEADLOCK FALSE
