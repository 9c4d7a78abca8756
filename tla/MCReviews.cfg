CONSTANTS
  company = company
  method = method
  permit = permit
  Docs = {company, method, permit}
  StandardSections = {profile}
  QualitySections = {laboratory}
  Titles <- MCTitles
  RequiredTypes <- MCTitles
  People = {officer}
  Conditions = {c1, c2}
  Evidence = {e1, e2}
  Domains = {d1}
  Types = {t1}
  Requests = {r1}
  Terms = {x1}
  None = None
  Shipments = {s1}
SYMMETRY ConditionSymmetry
SPECIFICATION ReviewsSpec
CONSTRAINTS
  OneReuploaded
  RequestsOrConditions
INVARIANTS
  VerifiedIsEarned
  RefusedDocumentHoldsFile
  CountsOnlyOnNewFile
PROPERTIES
  VerifiedFileIsFrozen
  ImplementsReview
  ImplementsDesk
  ReviewedRecordsHold
