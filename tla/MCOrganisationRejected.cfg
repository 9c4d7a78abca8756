CONSTANTS
  Docs = {company}
  StandardSections = {profile}
  QualitySections = {}
  Titles <- EveryDocument
  RequiredTypes <- EveryDocument
  People = {officer}
  Conditions = {c1}
  Evidence = {e1}
SPECIFICATION OrgSpec
INVARIANT
  VerifiedApplicationVerifiesOrganisation
