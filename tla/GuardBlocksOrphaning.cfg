CONSTANTS
  t1 = t1
  t2 = t2
  d1 = d1
  d2 = d2
  Secret = {s1, s2}
  Tab = {t1, t2}
  Device = {d1, d2}
  DeviceOf <- TwoBrowsers
  Credential = {c1, c2}
  None = None
  Holder = {}
  Account = {}
  PutReq = {}
  Token = {}
  Delete = {}
  Challenge = {}
  ChallengeTTL = 1
  JwtMaxAge = 1
  MaxTime = 2
  Nil = Nil
  LinkPage = {}
  Passkey = {}
  NoPasskey = NoPasskey
SPECIFICATION HolderSpec
PROPERTIES GuardBlocksOrphaning
CHECK_DEADLOCK FALSE
