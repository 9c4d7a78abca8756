----------------------- MODULE ComplianceApplication -----------------------
(***************************************************************************)
(* One organisation's onboarding application at the compliance desk        *)
(* (compliance/views.py, compliance/workflow.py, application_progress).    *)
(*                                                                         *)
(* Every handler runs in one transaction that locks the application row    *)
(* (dispatch and get_object), so a handler is one atomic action here.  The *)
(* sync of the Quality & Control desk's copy, the tail of some of these    *)
(* handlers, writes another component's state: QualityOnboarding adds it.  *)
(***************************************************************************)
EXTENDS ComplianceWorkflow

CONSTANTS
  StandardSections,  \* sections of the general onboarding form
  QualitySections,   \* sections of the Quality & Control form
  Docs,              \* document types a checklist or the desk may ask for
  Titles,            \* Titles[k]: the types on the checklist of kind k
  RequiredTypes,     \* RequiredTypes[k]: those of them that are required
  People,            \* personnel records
  Conditions,        \* approval conditions the desk may issue
  Evidence           \* evidence uploads for one condition

Kinds == {"standard", "quality", "logistics"}

\* Every document on every checklist: the checklists of small instances.
EveryDocument == [k \in Kinds |-> Docs]

ASSUME ChecklistAssumption ==
  /\ Titles \in [Kinds -> SUBSET Docs]
  /\ RequiredTypes \in [Kinds -> SUBSET Docs]
  /\ \A k \in Kinds : RequiredTypes[k] \subseteq Titles[k]

ASSUME SectionAssumption == StandardSections \cap QualitySections = {}

VARIABLES
  status,        \* of the application, "none" before it is filed
  organisation,  \* verification_status of the organisation
  sector,        \* "logistics" or any "other" sector
  sections,      \* form sections saved with content
  personnel,     \* personnel records on file
  documents,     \* status of each document row, "none" without one
  files,         \* documents whose row holds a file
  conditions,    \* status of each approval condition, "none" before issue
  evidence,      \* status of each evidence upload of each condition
  requirements,  \* conditional_requirements (legacy free text) is not empty
  account,       \* the applicant is active with a verified email address
  answered       \* history: documents uploaded since last asked for or refused

fileVars == <<sections, personnel, documents, files, answered>>
conditionVars == <<conditions, evidence, requirements>>
vars == <<status, organisation, sector, account, fileVars, conditionVars>>

-----------------------------------------------------------------------------

IsQuality == sections \cap QualitySections # {}

Kind == IF IsQuality THEN "quality"
        ELSE IF sector = "logistics" THEN "logistics" ELSE "standard"

WithStatus(S) == {d \in Docs : documents[d] \in S}
OnFile == Docs \ WithStatus({"none"})

\* application_progress: the parts of 100 percent.  Of the quality form only the
\* required sections count (QUALITY_REQUIRED_SECTIONS), and only they are modelled.
FormComplete ==
  IF IsQuality THEN QualitySections \subseteq sections
               ELSE StandardSections \subseteq sections
PersonnelComplete == IsQuality \/ personnel # {}
DocumentsComplete ==
  /\ RequiredTypes[Kind] \subseteq files \cap WithStatus({"submitted", "verified"})
  /\ OnFile \subseteq files \cap WithStatus({"submitted", "verified"})
ProgressComplete ==
  account /\ FormComplete /\ PersonnelComplete /\ DocumentsComplete

Outstanding == {c \in Conditions : conditions[c] \notin {"none", "cleared"}}
Issued == {c \in Conditions : conditions[c] # "none"}

Editable == status \in {"draft", "action_required", "rejected"}
\* Fault: evidence stays open on a verified application.
EvidenceAlwaysEditable == status # "none"
EvidenceEditable == status \notin {"none", "verified"}
UnderReview == status \in REVIEW_STATES

\* workflow.transition: the application moves and the organisation with it.
Transition(target) ==
  /\ target \in TRANSITIONS(status)
  /\ status' = target
  /\ organisation' = Standing(target)

\* Fault: the desk's request or refusal leaves the application where it is.
NoSendBack == UNCHANGED <<status, organisation>>

\* A desk action that sends the file back unless it already is with the
\* applicant.
SendBack ==
  IF status = "action_required" THEN UNCHANGED <<status, organisation>>
                                ELSE Transition("action_required")

-----------------------------------------------------------------------------

Init ==
  /\ status = "none"
  /\ organisation \in OrganisationStatus
  /\ sector \in {"logistics", "other"}
  /\ sections = {}
  /\ personnel = {}
  /\ documents = [d \in Docs |-> "none"]
  /\ files = {}
  /\ conditions = [c \in Conditions |-> "none"]
  /\ evidence = [c \in Conditions |-> [e \in Evidence |-> "none"]]
  /\ requirements = FALSE
  /\ account \in BOOLEAN
  /\ answered = {}

CreateApplication ==
  /\ status = "none"
  /\ status' = "draft"
  /\ UNCHANGED <<organisation, sector, account, fileVars, conditionVars>>

\* The applicant verifies an email address; an account is disabled or enabled.
AccountChanges ==
  /\ account' = ~account
  /\ UNCHANGED <<status, organisation, sector, fileVars, conditionVars>>

\* Only staff may file an application under another sector, at any time.
RefileSector ==
  /\ status # "none"
  /\ sector' \in {"logistics", "other"}
  /\ UNCHANGED <<status, organisation, account, fileVars, conditionVars>>

SaveSection(s) ==
  /\ Editable
  /\ sections' = sections \cup {s}
  /\ UNCHANGED <<status, organisation, sector, account, personnel, documents,
                 files, answered, conditionVars>>

AddPersonnel(p) ==
  /\ EvidenceEditable
  /\ p \notin personnel
  /\ personnel' = personnel \cup {p}
  /\ UNCHANGED <<status, organisation, sector, account, sections, documents,
                 files, answered, conditionVars>>

RemovePersonnel(p) ==
  /\ EvidenceEditable
  /\ p \in personnel
  /\ personnel' = personnel \ {p}
  /\ UNCHANGED <<status, organisation, sector, account, sections, documents,
                 files, answered, conditionVars>>

\* Fault: the late upload may replace a verified document.
LateUploadOverVerified(d) ==
  status # "none" /\ sector = "logistics" /\ d \in Titles["logistics"]

\* A verified logistics account may still supply what its checklist asks for,
\* except over a verified document.
LateLogisticsUpload(d) ==
  /\ status # "none"
  /\ sector = "logistics"
  /\ d \in Titles["logistics"]
  /\ documents[d] # "verified"

UploadDocument(d) ==
  /\ EvidenceEditable \/ LateLogisticsUpload(d)
  /\ d \in Titles[Kind] \cup OnFile
  /\ documents' = [documents EXCEPT ![d] = "submitted"]
  /\ files' = files \cup {d}
  /\ answered' = answered \cup {d}
  /\ UNCHANGED <<status, organisation, sector, account, sections, personnel,
                 conditionVars>>

Submit ==
  /\ Editable
  /\ account
  /\ WithStatus({"rejected"}) = {}
  /\ Transition("under_review")
  /\ UNCHANGED <<sector, account, sections, personnel, documents, files,
                 answered, conditionVars>>

\* Fault: a conditional approval without any condition.
DecideWithoutCondition(target, issued) ==
  /\ UnderReview
  /\ target # "under_review"
  /\ issued # {} => target = "conditionally_approved"
  /\ issued \cap Issued = {}
  /\ target \in {"verified", "conditionally_approved"} =>
       ProgressComplete /\ OnFile \subseteq WithStatus({"verified"})
  /\ target = "verified" => /\ requirements => Issued # {}
                            /\ Outstanding = {}
  /\ requirements' \in BOOLEAN
  /\ Transition(target)
  /\ conditions' = [c \in Conditions |->
                      IF c \in issued THEN "pending" ELSE conditions[c]]
  /\ UNCHANGED <<sector, account, fileVars, evidence>>

\* The desk's verdict; issued are the conditions sent along with it.
Decide(target, issued) ==
  /\ UnderReview
  /\ target # "under_review"
  /\ issued # {} => target = "conditionally_approved"
  /\ issued \cap Issued = {}
  /\ target \in {"verified", "conditionally_approved"} =>
       ProgressComplete /\ OnFile \subseteq WithStatus({"verified"})
  /\ target = "conditionally_approved" => issued \cup Outstanding # {}
  /\ target = "verified" => /\ requirements => Issued # {}
                            /\ Outstanding = {}
  /\ requirements' \in BOOLEAN
  /\ Transition(target)
  /\ conditions' = [c \in Conditions |->
                      IF c \in issued THEN "pending" ELSE conditions[c]]
  /\ UNCHANGED <<sector, account, fileVars, evidence>>

\* Asking (again) for a document keeps the file it already holds.
RequestDocument(d) ==
  /\ UnderReview
  /\ documents' = [documents EXCEPT ![d] = "requested"]
  /\ answered' = answered \ {d}
  /\ SendBack
  /\ UNCHANGED <<sector, account, sections, personnel, files,
                 conditionVars>>

\* Fault: any document with a file may be reviewed, a requested one too.
ReviewAnyDocument(d, verdict) ==
  /\ UnderReview
  /\ d \in files
  /\ documents' = [documents EXCEPT ![d] = verdict]
  /\ IF verdict = "rejected"
       THEN SendBack /\ answered' = answered \ {d}
       ELSE UNCHANGED <<status, organisation, answered>>
  /\ UNCHANGED <<sector, account, sections, personnel, files,
                 conditionVars>>

ReviewDocument(d, verdict) ==
  /\ UnderReview
  /\ documents[d] = "submitted"
  /\ d \in files
  /\ documents' = [documents EXCEPT ![d] = verdict]
  /\ IF verdict = "rejected"
       THEN SendBack /\ answered' = answered \ {d}
       ELSE UNCHANGED <<status, organisation, answered>>
  /\ UNCHANGED <<sector, account, sections, personnel, files,
                 conditionVars>>

IssueCondition(c) ==
  /\ UnderReview
  /\ conditions[c] = "none"
  /\ conditions' = [conditions EXCEPT ![c] = "pending"]
  /\ UNCHANGED <<status, organisation, sector, account, fileVars, evidence,
                 requirements>>

SubmitEvidence(c, e) ==
  /\ status \in {"conditionally_approved", "action_required"}
  /\ conditions[c] \in {"pending", "rejected"}
  /\ evidence[c][e] = "none"
  /\ evidence' = [evidence EXCEPT ![c][e] = "submitted"]
  /\ conditions' = [conditions EXCEPT ![c] = "submitted"]
  /\ UNCHANGED <<status, organisation, sector, account, fileVars, requirements>>

ReviewEvidence(c, e, verdict) ==
  /\ UnderReview
  /\ conditions[c] = "submitted"
  /\ evidence[c][e] = "submitted"
  /\ evidence' = [evidence EXCEPT ![c][e] = verdict]
  /\ conditions' = [conditions EXCEPT
                      ![c] = IF verdict = "verified" THEN "cleared" ELSE "rejected"]
  /\ UNCHANGED <<status, organisation, sector, account, fileVars, requirements>>

Verdicts == {"verified", "rejected"}

Next ==
  \/ CreateApplication
  \/ AccountChanges
  \/ RefileSector
  \/ \E s \in StandardSections \cup QualitySections : SaveSection(s)
  \/ \E p \in People : AddPersonnel(p) \/ RemovePersonnel(p)
  \/ \E d \in Docs : UploadDocument(d)
  \/ Submit
  \/ \E target \in ApplicationStatus, issued \in SUBSET Conditions :
       Decide(target, issued)
  \/ \E d \in Docs : RequestDocument(d)
  \/ \E d \in Docs, verdict \in Verdicts : ReviewDocument(d, verdict)
  \/ \E c \in Conditions : IssueCondition(c)
  \/ \E c \in Conditions, e \in Evidence : SubmitEvidence(c, e)
  \/ \E c \in Conditions, e \in Evidence, verdict \in Verdicts :
       ReviewEvidence(c, e, verdict)

Spec == Init /\ [][Next]_vars

-----------------------------------------------------------------------------
(* Correctness *)

DocumentStatus == {"none", "requested", "submitted", "verified", "rejected"}
ConditionStatus == {"none", "pending", "submitted", "rejected", "cleared"}
EvidenceStatus == {"none", "submitted", "verified", "rejected"}

\* Every variable holds a value the database column allows.
TypeOK ==
  /\ status \in ApplicationStatus \cup {"none"}
  /\ organisation \in OrganisationStatus
  /\ sector \in {"logistics", "other"}
  /\ sections \subseteq StandardSections \cup QualitySections
  /\ personnel \subseteq People
  /\ documents \in [Docs -> DocumentStatus]
  /\ files \subseteq Docs
  /\ conditions \in [Conditions -> ConditionStatus]
  /\ evidence \in [Conditions -> [Evidence -> EvidenceStatus]]
  /\ requirements \in BOOLEAN
  /\ account \in BOOLEAN
  /\ answered \subseteq Docs

\* Some checklist is verified in full and so is every document on file that a
\* logistics account could not have added after its verification.
DocumentsProven ==
  /\ \E k \in Kinds : RequiredTypes[k] \subseteq WithStatus({"verified"})
  /\ OnFile \ Titles["logistics"] \subseteq WithStatus({"verified"})

\* The file carries an approval (the applicant's account aside).
FileProven == FormComplete /\ PersonnelComplete /\ DocumentsProven

\* A verified application rests on a complete form, personnel, verified
\* documents and cleared conditions, whatever was uploaded, asked for, refused
\* or re-filed before and after the decision (views.decide).
VerifiedIsEarned == status = "verified" => FileProven /\ Outstanding = {}

\* A refused document keeps the application away from a reviewer until it is
\* replaced: it is with the applicant, or rejected as a whole, while any
\* document is refused (application_progress, submit, review_document).
RefusedDocumentHoldsFile ==
  WithStatus({"rejected"}) # {} => status \in {"action_required", "rejected"}

\* A document counts (submitted or verified) only on a file uploaded after the
\* desk last asked for it or refused it, never on the older file that a request
\* leaves in the row (request_document, review_document, documents).
CountsOnlyOnNewFile ==
  WithStatus({"submitted", "verified"}) \subseteq answered \cap files

\* A condition and its evidence agree: awaiting review exactly when one upload
\* awaits it, cleared exactly when one was verified (condition_evidence,
\* review_condition_evidence).
ConditionMatchesEvidence ==
  \A c \in Conditions :
    /\ conditions[c] = "submitted" <=> \E e \in Evidence : evidence[c][e] = "submitted"
    /\ conditions[c] = "cleared" <=> \E e \in Evidence : evidence[c][e] = "verified"
    /\ \A e, f \in Evidence :
         evidence[c][e] = "submitted" /\ evidence[c][f] = "submitted" => e = f

\* From the first submission on the organisation stands where its application
\* does (workflow.transition is the only writer among these handlers).
OrganisationFollows ==
  status \notin {"none", "draft"} => organisation = Standing(status)

\* Once verified an application stays so, and everything its verification
\* rested on stays as it was (the locks of views.py and TRANSITIONS).
VerifiedFileIsFrozen ==
  [][status = "verified" =>
       /\ UNCHANGED <<status, organisation, sections, personnel, conditions, evidence>>
       /\ \A d \in Docs : documents[d] = "verified" => documents'[d] = "verified"
     ]_vars

\* "Application review now enforces these transitions" (README.md, Review
\* workflow): the table, row by row.
Documented(s) ==
  CASE s \in {"draft", "rejected"} -> {"under_review"}
    [] s = "under_review" ->
         {"action_required", "conditionally_approved", "verified", "rejected"}
    [] s = "action_required" -> {"under_review", "rejected"}
    [] s = "conditionally_approved" -> {"action_required", "verified", "rejected"}
    [] OTHER -> {}
DocumentedTransitions ==
  [][status # "none" /\ status' # status => status' \in Documented(status)]_vars

\* The promise of ComplianceReview.
Review == INSTANCE ComplianceReview
            WITH complete <- FileProven, owing <- (Outstanding # {})
ImplementsReview == Review!Spec

=============================================================================
