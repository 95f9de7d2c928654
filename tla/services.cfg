SPECIFICATION ServicesSpec
CONSTANTS
  Clients = {s1, s2}
  Operators = {o1, o2}
  StateIds = {q1}
  MaxTokens = 2
  MaxDay = 2
  StateTtl = 1
  Life = 1
  Buffer = 1
  AccessTtl = 2
  RefreshTtl = 3
  NoOne = NoOne
  Callers = {s1, s2}
  Principals = {p1, p2}
  Sandbox = {p1, p2}
  TaskIds = {t1, t2}
  Accounts = {o1, o2}
  MaxArms = 2
  Nil = Nil
  Seeders = {s1, s2}
  SeedKeys = {o1, o2}
  Fixtures = {o1, o2}
  Unseeded = Unseeded
  Calls = {s1, s2}
  Threshold = 2
  Cooldown = 1
  SessionTtl = 1
  MaxRetries = 1
  Savers = {s1, s2}
  Ids = {e1, e2, e3}
  Cap = 2
  Resolvers = {s1, s2}
  MaxHour = 3
  MaxVersion = 3
  FreshFor = 1
  KeptFor = 2
  MaxBudget = 4
  MaxAgents = 3
  MaxScore = 2
  Percents <- SomePercents
  Floors <- SomeFloors
  Caps <- SomeCaps
  Uncapped = Uncapped
CHECK_DEADLOCK FALSE
SYMMETRY Symmetry
INVARIANTS
  ServicesTypeOK
  StateUsedOnce
  OperatorsIsolated
  SerialTokensWhole
  OneShot
  CompletionStays
  TasksListed
  SeedsAgree
  TripsOnRun
  SessionsHealed
  PlainRunsOnce
  ListFaithful
  ListSound
  FetchedAtHonest
  SpendSound
PROPERTIES
  SerialTokensFresh
  HiddenOnlyIfForeign
  CoolsDown
