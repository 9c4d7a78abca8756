CONSTANTS
  document = document
  evidence = evidence
  Rows = {document, evidence}
  LockedRows = {document}
  ReviewedRows = {evidence}
  StoredNames = {"compliance/a", "compliance/b", "processing/a", "processing/b"}
  NamesOf <- MCNamesOf
  NoFile = NoFile
  Handlers = {h1, h2}
  MaxUploads = 2
SPECIFICATION FilesSpec
INVARIANT
  FilesInStep
CHECK_DEADLOCK FALSE
