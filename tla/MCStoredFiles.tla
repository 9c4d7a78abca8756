--------------------------- MODULE MCStoredFiles ---------------------------
(* A document of the compliance desk and one of the processing desk, each   *)
(* with a folder of two names, and two requests under way.                  *)
EXTENDS StoredFiles

CONSTANTS document, evidence

MCNamesOf ==
  [r \in Rows |-> IF r = document THEN {"compliance/a", "compliance/b"}
                  ELSE {"processing/a", "processing/b"}]
=============================================================================
