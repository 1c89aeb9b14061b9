CONSTANTS
  None = None  Never = None  Nobody = None  Nothing = None  Null = None
  r1 = r1  r2 = r2  d1 = d1  d2 = d2
  s1 = s1  s2 = s2  s3 = s3  m1 = m1  m2 = m2  m3 = m3  f1 = f1  pa = pa  pb = pb
  Run <- MCRun  Digest <- MCDigest  Identity <- MCIdentity
  Family = {o1, o2}  Person = {e1, e2}  Role = {"DEMO", "SUPER_ADMIN"}
  MaxAttempts = 2  MaxDemoDuration = 1  AccessLife = 1  RefreshLife = 1  MaxSequence = 1
  AccountHorizon = 2
  Principal = {e1, e2}  Call = {p1, p2, p3}
  RateLimit = 2  DailyQuota = 3  ConcurrencyLimit = 2  MaxPrincipals = 1
  RateWindow = 2  QuotaWindow = 3  BudgetHorizon = 7
  Publisher = {p1, p2, p3}  Operation = {o1, o2}  Entity = {e1, e2}  Snapshot = {a1, a2}
  RowId = {1, 2}  ClockHorizon = 1  MaxSetbacks = 1
  Conn = {o1, o2}  u1 = u1  u2 = u2  town = town  dir = dir  sub = sub  ana = ana  beto = beto
  Unit <- MCUnit  Below <- MCBelow  Assignment <- MCAssignment  ScopeOf <- MCScopeOf
  Artifact <- MCArtifact  ConfiguredSha = s1
  Filter = {None, u2}  Limit = 1
  MaxRequests = 2  MaxChanges = 1  MaxFaults = 1  MaxMonth = 2
INIT UnitsInit
NEXT UnitsNext
CHECK_DEADLOCK FALSE
SYMMETRY Symm
PROPERTIES ImplementsService
INVARIANTS
  PublishedWasValidated LastKnownGoodUntilPublished DuplicateIsThePublication FailureCanBeRecorded
  EndedStaysEnded OneHeir GuessesAreBounded DemoEndsInTime
  NoSlotLeaks BurstsAreBounded
  ReadersGetTheLastPublished AnswersAreTrue
  NothingUnrecorded WithinWhatWasHeld WalkShowsTheList ChainIsWhole
