\* Scheduler, cache repository, migrator, boot, models and broadcast.
SPECIFICATION FrameworkSpec
CONSTANTS
  SECS = 2
  MINS = 2
  HOURS = 2
  DAYS = 2
  MONTHS = 2
  WEEK = 2
  Commands <- MCCommands
  NoZone = NoZone
  Ticker = {w1, w2}
  LastSecond = 9
  CKey = {k1, k2}
  Caller = {w1, w2}
  Ttls = {0, 1}
  MaxWrites = 3
  MaxTick = 3
  Miss = Miss
  m1 = m1
  m2 = m2
  m3 = m3
  Migrations <- MCMigrations
  Irreversible = {m3}
  Tolerant = {m1}
  Deployer = {w1, w2}
  MaxBatch = 3
  Ledger = Ledger
  Applications <- MCApplications
  NoProvider = 0
  Parent = parent
  Child = {child}
  Data = {k1, k2}
  Writer = {w1, w2}
  Reader = {r1}
  MaxBegun = 2
  Gone = Gone
  s1 = s1
  s2 = s2
  news = news
  room = room
  Wire = {news, room}
  PrivateWire = {room}
  Session = {s1, s2}
  Allowed <- MCAllowed
  Buffer = 2
  MaxMessages = 3
  NoSender = 0
INVARIANTS
  NoLeakedMark
  FlushRemovesAll
  RecordedIsApplied
  BootAnswersRight
  CachedRowsCurrent
  SubscribedMissNothing
PROPERTIES
  NextRunAhead
SYMMETRY FrameworkSymmetry
CHECK_DEADLOCK FALSE
