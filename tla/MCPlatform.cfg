CONSTANTS
  u1 = u1
  f1 = f1
  Users = {u1, u2}
  Organisations = {lab}
  Files = {f1, f2}
  Workers = {w1, w2}
  Idle = Idle
  MaxDocuments = 3
  Methods = {x1, x2}
  Certificates = {c1, c2}
  CorrectiveActions = {a1, a2}
  Professionals = {p1, p2}
  Missing = Missing
  RequiredKeys = {k1, k2}
  OptionalKeys = {k3}
  Foreign = {k4}
  MaxUploads = 4
  Persons = {founder, colleague}
  Founder = founder
  Invitations = {i1}
  MaxEntries = 3
  Absent = Absent
  SectionKeys = {s1, s2}
  Verdicts = {"verified", "info_requested"}
  Documents = {d1}
  Required = {d1}
  MaxFiles = 2
  Findings = {n1}
  Causes = {q1, q2}
  WeightOf <- MCWeightOf
  DeskStatuses = {"suspended"}
  DeskScores = {50}
  Unread = Unread
  Editors = {"a", "b", "c"}
  Standing <- MCStanding
  Limit = 1
  Nothing = Nothing
  Days = 8
  Month <- MCMonth
  FirstDay = 4
  KPI_TREND_MONTHS = 3
  Approvals = {"approval"}
  Raised = {"finding"}
  Visits = {"visit"}
  Entries = {"site 1", "site 2"}
  CompanyOf <- MCCompanyOf
  EntryRows <- MCEntryRows
  DueDays = {5}
  VisitDays = {4, 7}
  WholeRegister = "register"
  NoDay = NoDay
  Ids = {1, 2, 3, 4}
  Emails = {"a", "b", "m"}
  OldUsers <- MCOldUsers
  NoEmail = ""
  TestEmails = {"b"}
  AdminEmail = "m"
  Gone = Gone
CONSTRAINTS
  OneRecord
  OneKind
  FirstUpload
SPECIFICATION PlatformSpec
INVARIANTS
  PlatformTypeOK
  ChecksStillHold
  RecordsHold
  SubmittedIsFrozen
  PeopleHold
  RegistersAgree
PROPERTIES
  ImplementsHistory
  DecisionHolds
  ReadingsAgree
CHECK_DEADLOCK FALSE
