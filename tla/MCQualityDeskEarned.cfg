CONSTANTS
  Docs = {method}
  StandardSections = {profile}
  QualitySections = {laboratory}
  Titles <- EveryDocument
  RequiredTypes <- EveryDocument
  People = {officer}
  Conditions = {c1}
  Evidence = {e1}
SPECIFICATION QualitySpec
INVARIANTS
  VerifiedIsEarned
