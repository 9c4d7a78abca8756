CONSTANTS
  Docs = {method}
  StandardSections = {profile}
  QualitySections = {laboratory}
  Titles <- EveryDocument
  RequiredTypes <- EveryDocument
  People = {officer}
  Conditions = {c1}
  Evidence = {e1}
  Accounts = {a1}
  Portals = {p, q}
  Tokens = {t1, t2}
  Requests = {r1, r2}
  Unset = Unset
  Clients = {r1, r2}
  OTP_MAX_ATTEMPTS = 2
  OTP_MAX_ISSUES_PER_WINDOW = 2
  OTP_MAX_FAILURES_PER_WINDOW = 3
  MaxCodes = 3
  Papers = {licence}
  ScopedPapers = {licence}
  Dates = {insurance}
  MaxVersions = 2
  N = 8
  Databases <- MCDatabases
  Contents <- MCContents
  Values = {"a", "b"}
  Blank = ""
  PKs = {1, 2, 3, 4, 5, 6, 7, 8, 9, 10}
  NoPK = NoPK
  Absent = Absent
  MaxWrites = 1
  MaxRefusals = 1
SPECIFICATION OnboardingSpec
CONSTRAINT WritesAlone
INVARIANTS
  OnboardingTypeOK
  AccountsHold
  LapseRestricts
  TimelineHolds
  SecondRunInsertsNothing
  RehearsalHolds
PROPERTIES
  VerifiedThroughApplication
  BothDesksAgree
  LapseIsReported
CHECK_DEADLOCK FALSE
