------------------------------ MODULE MCReviews ------------------------------
(* An organisation's onboarding application and an exporter's file, which     *)
(* share no state: a behaviour is one of the chosen part.  The application    *)
(* has one required document on each checklist, a document the desk may ask   *)
(* for beside them, and one section per form.                                 *)
EXTENDS ComplianceApplication, TLC

CONSTANTS
  company, method, permit,                            \* document types
  Domains, Types, Requests, Terms, None, Shipments    \* of the exporter's file

VARIABLES
  part,
  file, section, document, request, term,
  active, profile, shipment, item, finding, decision

MCTitles == [k \in Kinds |->
  CASE k = "standard" -> {company}
    [] k = "quality" -> {method}
    [] k = "logistics" -> {permit}]

Export == INSTANCE ExportDesk
            WITH status <- file, condition <- term, account <- active, Conditions <- Terms

exportVars ==
  <<file, section, document, request, term, active, profile, shipment, item, finding, decision>>
reviewsVars == <<part, vars, exportVars>>

ReviewsInit ==
  /\ part \in {"application", "export"}
  /\ Init /\ Export!Init
  /\ part = "export" => organisation = "draft" /\ sector = "other" /\ account = TRUE

ReviewsNext ==
  \/ part = "application" /\ Next /\ UNCHANGED <<part, exportVars>>
  \/ part = "export" /\ Export!Next /\ UNCHANGED <<part, vars>>

ReviewsSpec == ReviewsInit /\ [][ReviewsNext]_reviewsVars

ConditionSymmetry == Permutations(Conditions) \cup Permutations(Evidence)

\* The export desk is an EvidenceDesk (ExportDesk.ImplementsDesk, which only
\* the steps of its own part need be compared with).
ImplementsDesk ==
  Export!Desk!Init /\ [][part = "export" => Export!Desk!Next]_(Export!Desk!vars)

\* What a reviewer sees of the exporter's trade does not move under the review
\* (ExportDesk.ReviewedRecordsHold).
ReviewedRecordsHold == Export!ReviewedRecordsHold
\* Bounds: evidence is sent again for one of the conditions only, and requests
\* and conditions do not meet on an exporter's file (they do in MCDesks:
\* ExportDesk adds nothing that reads the two together).
OneReuploaded ==
  \A c, d \in Conditions : c # d =>
    \E e \in Evidence : evidence[c][e] = "none" \/ evidence[d][e] = "none"
RequestsOrConditions ==
  \/ \A r \in Requests : request[r] = "none"
  \/ \A x \in Terms : term[x] = "none"

=============================================================================
