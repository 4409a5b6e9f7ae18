CONSTANTS
  Holder = {h1}
  Account = {a1}
  PutReq = {p1}
  Token = {k1, k2}
  Delete = {x1}
  Challenge = {n1}
  ChallengeTTL = 1
  JwtMaxAge = 1
  MaxTime = 2
  Nil = Nil
SPECIFICATION WSpec
INVARIANT ChallengeUsedOnce
CHECK_DEADLOCK FALSE
