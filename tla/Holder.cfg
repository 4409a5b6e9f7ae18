CONSTANTS
  t1 = t1
  t2 = t2
  d1 = d1
  d2 = d2
  Secret = {s1, s2}
  Tab = {t1, t2}
  Device = {d1}
  DeviceOf <- OneBrowser
  Credential = {c1, c2}
  None = None
  Holder = {h1, h2}
  Account = {a1, a2}
  PutReq = {p1}
  Token = {k1, k2}
  Delete = {x1, x2}
  Challenge = {n1}
  ChallengeTTL = 1
  JwtMaxAge = 1
  MaxTime = 2
  Nil = Nil
  LinkPage = {b1, b2}
  Passkey = {y1, y2}
  NoPasskey = NoPasskey
SPECIFICATION HolderSpec
SYMMETRY Symmetry
INVARIANTS TypesOK StoredKeysWereAccepted PublishedKeyIsHeld ExtraDefaultsArePending LinksStay PasskeysStay
PROPERTIES OrphansOnlyByRace SpentStaysSpent
CHECK_DEADLOCK FALSE
