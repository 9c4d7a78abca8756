CONSTANTS
  permit = permit
  proof = proof
  corporate = corporate
  haulage = haulage
  c1 = c1
  Domains = {corporate, haulage}
  Mineral = haulage
  Types = {permit, proof}
  Checklist = {permit, proof}
  RequiredTypes = {permit}
  EvidenceDomains = {corporate}
  DomainOf <- MCDomainOf
  LinkOf <- MCLinkOf
  ScopedTypes = {proof}
  ScopedConditions = {c1}
  Requests = {r1}
  Conditions = {c1}
  Manual = Manual
  None = None
SPECIFICATION Spec
INVARIANT
  ApprovedOnSignOffs
