\* Throttling, sessions, accounts, passkeys and roles.
SPECIFICATION WebSpec
CONSTANTS
  ann = ann
  Ann = Ann
  bob = bob
  session1 = session1
  ip1 = ip1
  Absent = Absent
  Thread = {r1, r2}
  LimitOf <- MCLimitOf
  Inputs <- MCInputs
  Fold <- MCFold
  MAX_BUCKETS = 1
  PRUNE_EVERY = 2
  MaxStale = 1
  MaxClock = 4
  MaxHits = 7
  Account = {u1}
  Sid = {id1, id2, id3}
  Secret = {x1, x2}
  Code = {code}
  SRequest = {r1, r2}
  Nothing = Nothing
  User = {x1, x2}
  Email = {x1, x2}
  Token = {k1}
  AccRequest = {r1, r2}
  NoOne = NoOne
  Holder = {u1}
  Browser = {x1, x2}
  Credential = {key}
  Challenge = {id1, id2, id3}
  PRequest = {r1, r2}
  NoValue = NoValue
  Member = {u1}
  Role = {x1, x2}
  Permission = {perm}
  Lookup = {r1, r2}
  MaxGeneration = 4
  MaxStart = 2
  Undefined = Undefined
INVARIANTS
  BurstBounded
  BucketsBounded
  SessionsEarned
  OneOwnerPerEmail
  SpentTokenDead
  AssertionCountsOnce
  CachedGrantsCurrent
SYMMETRY WebSymmetry
CHECK_DEADLOCK FALSE
