CONSTANTS
  Domains = {d1}
  Types = {t1, t2}
  Requests = {r1}
  Conditions = {c1}
  None = None
SPECIFICATION Spec
INVARIANT
  ReplaceableEvidence
