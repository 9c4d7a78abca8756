CONSTANTS
  Reviewers = {r1, r2}
  Applications = {a1}
  Sections = {s1, s2}
  SiteVerdicts = {"verified", "info_requested", "flagged"}
  OwnerStatuses = {"operational", "suspended"}
  Nobody = Nobody
  MarkedSections = {k1, k2}
  Points = {35}
  Weights = {0, 30}
  Findings = {f1}
  Critical = {f1}
  NoEdit = NoEdit
  Evidence = {e1}
  Orders = {o1}
  Events = {v1, v2}
  v1 = v1
  MaxRevisions = 2
  NoOrder = NoOrder
  permit = permit
  proof = proof
  corporate = corporate
  haulage = haulage
  c1 = c1
  Domains = {corporate, haulage}
  Mineral = haulage
  Types = {permit, proof}
  Checklist = {permit, proof}
  RequiredTypes = {permit}
  EvidenceDomains = {corporate}
  DomainOf <- MCDomainOf
  LinkOf <- MCLinkOf
  ScopedTypes = {proof}
  ScopedConditions = {c1}
  Requests = {r1}
  Conditions = {c1}
  Manual = Manual
  None = None
CONSTRAINT FirstEvent
SPECIFICATION ExtractionSpec
INVARIANTS
  MiningTypes
  MarketHolds
  NotStranded
  WaitingHoldsTheFile
  ApprovedStands
  ConditionsHold
PROPERTIES
  SiteReviewsHold
CHECK_DEADLOCK FALSE
