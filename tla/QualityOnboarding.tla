------------------------- MODULE QualityOnboarding -------------------------
(***************************************************************************)
(* A Quality & Control organisation's onboarding application seen by two   *)
(* desks: the compliance desk of ComplianceApplication, and the Q&C desk,  *)
(* which works on a mirror of it (quality/bridge.py) and carries its own   *)
(* verdicts back (quality/views.py, QualityApplicationViewSet).            *)
(*                                                                         *)
(* Handlers of the two desks are atomic with respect to each other here.   *)
(***************************************************************************)
EXTENDS ComplianceApplication

VARIABLES
  mirror,  \* status of the Q&C desk's record, "none" before it is made
  copies   \* the mirror's copy of each document's status, "absent" without one

mirrorVars == <<mirror, copies>>
qualityVars == <<vars, mirrorVars>>

MirrorStatus == {"submitted", "in_review", "info_requested", "approved", "rejected"}
CopyStatus == {"pending", "verified", "flagged", "expired"}

-----------------------------------------------------------------------------
(* The compliance desk's side: bridge.sync_partner_application *)

\* _MIRROR_STATUS: the decisions a mirror repeats.
Decided == [verified |-> "approved", conditionally_approved |-> "approved",
            rejected |-> "rejected", action_required |-> "info_requested"]

\* _CLOSED
Closed == {"info_requested", "rejected", "approved"}

\* Fault: a decision is repeated under the application's own name for it.
MirrorRepeatsName(s) == IF s \in DOMAIN Decided THEN s ELSE "submitted"

\* Fault: a mirror the desk has closed is not reopened by a resubmission.
MirrorStaysClosed(s) ==
  IF mirror = "none" THEN "submitted"
  ELSE IF s \in DOMAIN Decided THEN Decided[s]
  ELSE mirror

\* The mirror of an application that is now in status s.
Mirrored(s) ==
  IF mirror = "none" THEN "submitted"
  ELSE IF s \in DOMAIN Decided THEN Decided[s]
  ELSE IF s = "under_review" /\ mirror \in Closed THEN "submitted"
  ELSE mirror

\* _DOC_STATUS
Copied(s) == CASE s = "verified" -> "verified"
               [] s = "rejected" -> "flagged"
               [] OTHER -> "pending"

\* views._sync_quality, the last step of a handler that moved the application.
SyncQuality ==
  IF IsQuality /\ status' # "draft"
    THEN /\ mirror' = Mirrored(status')
         /\ copies' = [d \in Docs |->
                         IF d \in files' THEN Copied(documents'[d]) ELSE "absent"]
    ELSE UNCHANGED mirrorVars

SyncedStep ==
  \/ \E d \in Docs : UploadDocument(d)
  \/ Submit
  \/ \E target \in ApplicationStatus, issued \in SUBSET Conditions :
       Decide(target, issued)
  \/ \E d \in Docs : RequestDocument(d)
  \/ \E d \in Docs, verdict \in Verdicts : ReviewDocument(d, verdict)

UnsyncedStep ==
  \/ CreateApplication
  \/ AccountChanges
  \/ RefileSector
  \/ \E s \in StandardSections \cup QualitySections : SaveSection(s)
  \/ \E p \in People : AddPersonnel(p) \/ RemovePersonnel(p)
  \/ \E c \in Conditions : IssueCondition(c)
  \/ \E c \in Conditions, e \in Evidence : SubmitEvidence(c, e)
  \/ \E c \in Conditions, e \in Evidence, verdict \in Verdicts :
       ReviewEvidence(c, e, verdict)

-----------------------------------------------------------------------------
(* The Q&C desk's side *)

\* The applicant's document a copy marked s stands for.
CarriedStatus(s) == CASE s = "verified" -> "verified"
                      [] s \in {"flagged", "expired"} -> "rejected"
                      [] s = "pending" -> "submitted"

\* document_status: any mark at any time, carried back to the document itself.
DeskDocument(d, s) ==
  /\ mirror # "none"
  /\ copies[d] # "absent"
  /\ copies' = [copies EXCEPT ![d] = s]
  /\ documents' = [documents EXCEPT ![d] = CarriedStatus(s)]
  /\ answered' = IF CarriedStatus(s) = "rejected" THEN answered \ {d} ELSE answered
  /\ UNCHANGED <<mirror, status, organisation, sector, account, sections,
                 personnel, files, conditionVars>>

\* upload_document: the file stays with the mirror, so does its status.
DeskUpload(d) ==
  /\ mirror # "none"
  /\ copies[d] # "absent"
  /\ copies' = [copies EXCEPT ![d] = "pending"]
  /\ UNCHANGED <<mirror, vars>>

\* _DECISION
Decision == [approved |-> "verified", rejected |-> "rejected",
             info_requested |-> "action_required"]

\* carry_decision_back: silently nothing where the application cannot follow.
CarryDecisionBack(s) ==
  IF s \in DOMAIN Decision /\ Decision[s] \in TRANSITIONS(status)
    THEN Transition(Decision[s])
    ELSE UNCHANGED <<status, organisation>>

DeskDecide(s) ==
  /\ mirror \notin {"none", "approved", "rejected"}
  /\ mirror' = s
  /\ CarryDecisionBack(s)
  /\ UNCHANGED <<copies, sector, account, fileVars, conditionVars>>

Assign ==
  /\ mirror = "submitted"
  /\ mirror' = "in_review"
  /\ UNCHANGED <<copies, vars>>

QualityInit ==
  /\ Init
  /\ mirror = "none"
  /\ copies = [d \in Docs |-> "absent"]

QualityNext ==
  \/ SyncedStep /\ SyncQuality
  \/ UnsyncedStep /\ UNCHANGED mirrorVars
  \/ \E d \in Docs, s \in CopyStatus : DeskDocument(d, s)
  \/ \E d \in Docs : DeskUpload(d)
  \/ \E s \in MirrorStatus : DeskDecide(s)
  \/ Assign

QualitySpec == QualityInit /\ [][QualityNext]_qualityVars

-----------------------------------------------------------------------------
(* Correctness *)

QualityTypeOK ==
  /\ TypeOK
  /\ mirror \in MirrorStatus \cup {"none"}
  /\ copies \in [Docs -> CopyStatus \cup {"absent"}]

\* The two desks read the same verdict in an application and its mirror.
Agree(s, m) ==
  IF s = "under_review" THEN m \in {"submitted", "in_review"}
                        ELSE s \in DOMAIN Decided /\ m = Decided[s]

\* Whichever desk or applicant moves an application that has a mirror, the two
\* agree after the move (sync_partner_application, carry_decision_back).
MovesReachBothDesks ==
  [][mirror # "none" /\ status' # status => Agree(status', mirror')]_qualityVars

\* A copy tells the Q&C desk what became of the document.
Shows(copy, s) ==
  /\ copy = "verified" <=> s = "verified"
  /\ copy \in {"flagged", "expired"} <=> s = "rejected"

\* Whichever desk or applicant changes a document of an application that has a
\* mirror, its copy shows the change (_documents, carry_document_status_back).
DocumentsReachBothDesks ==
  [][\A d \in Docs :
       mirror' # "none" /\ d \in files' /\ documents'[d] # documents[d] =>
         Shows(copies'[d], documents'[d])]_qualityVars

\* What either desk or the applicant does shows on both desks.
BothDesksAgree == MovesReachBothDesks /\ DocumentsReachBothDesks

=============================================================================
