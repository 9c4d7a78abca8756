CONSTANTS
  Domains = {d1, d2}
  Types = {t1, t2, t3}
  Requests = {r1}
  Conditions = {c1}
  None = None
  Warehouses = {"w1", "w2"}
  Facilities <- MCFacilities
  SiteOf <- MCSiteOf
  Zones = {z1}
  Lots = {l1, l2}
  Releases = {r1}
  NoRow = NoRow
  Orders = {o}
  Movements = {m1, m2}
  Deliveries = {v1, v2}
  Trucks = {t}
  MaxPatches = 1
  Absent = Absent
  Rows = {x1, x2}
  LockedRows = {x1, x2}
  ReviewedRows = {}
  StoredNames = {f1, f2, f3}
  NamesOf <- MCNamesOf
  NoFile = NoFile
  Handlers = {h1, h2}
  MaxUploads = 3
  MaxCopies = 3
  Names = {"licence", "reply"}
  OrganisationNames = {}
  Reply = "reply"
  Asks = {q1}
  NoCopy = NoCopy
SYMMETRY DeskSymmetry
CONSTRAINTS
  PatchBesideOne
SPECIFICATION DesksSpec
INVARIANTS
  SignedOffOnEvidence
  RequestsHoldTheFile
  ClearedOnEvidence
  ApprovedOnEvidence
  OperationsHold
  LockedInStep
PROPERTIES
  PapersHold
  ApprovedFileOnlyAges
CHECK_DEADLOCK FALSE
