CONSTANTS
  g1 = g1
  g2 = g2
  g3 = g3
  g4 = g4
  n1 = n1
  n2 = n2
  a1 = a1
  a2 = a2
  t1 = t1
  t2 = t2
  None = None
  Gate = {g1, g2, g3, g4}
  Nullifier = {n1, n2}
  Address = {a1, a2}
  Track = {t1, t2}
  Reward <- MCReward
  Requires <- MCRequires
  Expiring = {g1}
  ContractWallet = {a2}
  Proof <- MCProof
  Claimer = {1, 2}
  Claim <- MCClaim
  Faults = TRUE
  Call = {1, 2}
  Wanted <- MCClaim
  SmartWallet = {a2}
  NoClaim = None
  Page = {1, 2}
  Link <- MCLink
  Convertible = {g1}
SPECIFICATION JobsSpec
INVARIANTS TypesOK RewardsAreEarned PanelTellsTheTruth
PROPERTIES EveryClaimAnswered ImplementsClaimDesk
CHECK_DEADLOCK FALSE
