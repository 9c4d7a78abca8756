-------------------- MODULE ComplianceApplicationProofs --------------------
(***************************************************************************)
(* What TLAPS proves of ComplianceApplication, for every checklist, form,  *)
(* set of people, conditions and evidence.                                 *)
(***************************************************************************)
EXTENDS ComplianceApplication, TLAPS

-----------------------------------------------------------------------------
(* Type correctness *)

\* The workflow only hands out statuses of the application and standings of
\* the organisation (workflow.TRANSITIONS, workflow.transition).
LEMMA TransitionType ==
  ASSUME NEW target, Transition(target)
  PROVE  status' \in ApplicationStatus /\ organisation' \in OrganisationStatus
BY DEF Transition, TRANSITIONS, ApplicationStatus, OrganisationStatus, Standing

\* Every handler leaves every column with a value it allows.
LEMMA TypeStep == TypeOK /\ [Next]_vars => TypeOK'
<1> SUFFICES ASSUME TypeOK, [Next]_vars
             PROVE  TypeOK'
    OBVIOUS
<1> USE DEF TypeOK, fileVars, conditionVars, DocumentStatus, ConditionStatus,
            EvidenceStatus
<1>1. CASE CreateApplication
  BY <1>1 DEF CreateApplication, ApplicationStatus
<1>2. CASE AccountChanges
  BY <1>2 DEF AccountChanges
<1>3. CASE RefileSector
  BY <1>3 DEF RefileSector
<1>4. CASE \E s \in StandardSections \cup QualitySections : SaveSection(s)
  BY <1>4 DEF SaveSection
<1>5. CASE \E p \in People : AddPersonnel(p) \/ RemovePersonnel(p)
  BY <1>5 DEF AddPersonnel, RemovePersonnel
<1>6. CASE \E d \in Docs : UploadDocument(d)
  BY <1>6 DEF UploadDocument
<1>7. CASE Submit
  BY <1>7, TransitionType DEF Submit
<1>8. ASSUME NEW target \in ApplicationStatus, NEW issued \in SUBSET Conditions,
             Decide(target, issued)
      PROVE  TypeOK'
  BY <1>8, TransitionType DEF Decide
<1>9. ASSUME NEW d \in Docs, RequestDocument(d)
      PROVE  TypeOK'
  BY <1>9, TransitionType DEF RequestDocument, SendBack
<1>10. ASSUME NEW d \in Docs, NEW verdict \in Verdicts, ReviewDocument(d, verdict)
       PROVE  TypeOK'
  BY <1>10, TransitionType DEF ReviewDocument, SendBack, Verdicts
<1>11. CASE \E c \in Conditions : IssueCondition(c)
  BY <1>11 DEF IssueCondition
<1>12. CASE \E c \in Conditions, e \in Evidence : SubmitEvidence(c, e)
  BY <1>12 DEF SubmitEvidence
<1>13. CASE \E c \in Conditions, e \in Evidence, verdict \in Verdicts :
              ReviewEvidence(c, e, verdict)
  BY <1>13 DEF ReviewEvidence, Verdicts
<1>14. CASE UNCHANGED vars
  BY <1>14 DEF vars
<1> QED
  BY <1>1, <1>2, <1>3, <1>4, <1>5, <1>6, <1>7, <1>8, <1>9, <1>10, <1>11, <1>12,
     <1>13, <1>14 DEF Next

\* TypeOK holds in every reachable state of the application.
THEOREM TypeCorrect == Spec => []TypeOK
<1>1. ASSUME Init
      PROVE  TypeOK
  <2>1. /\ documents \in [Docs -> DocumentStatus]
        /\ conditions \in [Conditions -> ConditionStatus]
        /\ evidence \in [Conditions -> [Evidence -> EvidenceStatus]]
    BY <1>1 DEF Init, DocumentStatus, ConditionStatus, EvidenceStatus
  <2>2. /\ sections \subseteq StandardSections \cup QualitySections
        /\ personnel \subseteq People
        /\ files \subseteq Docs
        /\ answered \subseteq Docs
    BY <1>1 DEF Init
  <2>3. QED
    BY <1>1, <2>1, <2>2 DEF Init, TypeOK
<1>2. QED
  BY <1>1, TypeStep, PTL DEF Spec

-----------------------------------------------------------------------------
(* The frozen file *)

\* A step out of a verified application: only a logistics document that is not
\* verified can change, and only to submitted.
FrozenFile ==
  /\ UNCHANGED <<status, organisation, sections, personnel, conditions, evidence>>
  /\ \A d \in Docs :
       \/ documents'[d] = documents[d]
       \/ /\ d \in Titles["logistics"]
          /\ documents[d] # "verified"
          /\ documents'[d] = "submitted"

\* No handler but a late logistics upload writes to a verified application
\* (_assert_editable, _assert_evidence_editable, require_review).
LEMMA FrozenStep ==
  ASSUME TypeOK, [Next]_vars, status = "verified"
  PROVE  FrozenFile
<1> USE DEF FrozenFile, fileVars, conditionVars, TypeOK
<1>1. CASE CreateApplication
  BY <1>1 DEF CreateApplication
<1>2. CASE AccountChanges
  BY <1>2 DEF AccountChanges
<1>3. CASE RefileSector
  BY <1>3 DEF RefileSector
<1>4. CASE \E s \in StandardSections \cup QualitySections : SaveSection(s)
  BY <1>4 DEF SaveSection, Editable
<1>5. CASE \E p \in People : AddPersonnel(p) \/ RemovePersonnel(p)
  BY <1>5 DEF AddPersonnel, RemovePersonnel, EvidenceEditable
<1>6. CASE \E d \in Docs : UploadDocument(d)
  BY <1>6 DEF UploadDocument, EvidenceEditable, LateLogisticsUpload
<1>7. CASE Submit
  BY <1>7 DEF Submit, Editable
<1>8. ~UnderReview
  BY DEF UnderReview, REVIEW_STATES
<1>9. CASE \E c \in Conditions, e \in Evidence : SubmitEvidence(c, e)
  BY <1>9 DEF SubmitEvidence
<1>10. CASE UNCHANGED vars
  BY <1>10 DEF vars
<1> QED
  BY <1>1, <1>2, <1>3, <1>4, <1>5, <1>6, <1>7, <1>8, <1>9, <1>10
     DEF Next, Decide, RequestDocument, ReviewDocument, IssueCondition, ReviewEvidence

\* Once verified, an application stays verified and so does everything its
\* verification rested on.
THEOREM FileFrozen == Spec => VerifiedFileIsFrozen
<1>1. TypeOK /\ [Next]_vars =>
        [status = "verified" =>
           /\ UNCHANGED <<status, organisation, sections, personnel, conditions, evidence>>
           /\ \A d \in Docs : documents[d] = "verified" => documents'[d] = "verified"]_vars
  BY FrozenStep DEF FrozenFile
<1>2. QED
  BY <1>1, TypeCorrect, PTL DEF Spec, VerifiedFileIsFrozen

-----------------------------------------------------------------------------
(* A verified application is earned *)

\* Full progress with every document verified is what FileProven says.
LEMMA ApprovalProven ==
  ASSUME ProgressComplete, OnFile \subseteq WithStatus({"verified"})
  PROVE  FileProven
<1>1. Kind \in Kinds
  BY DEF Kind, Kinds
<1>2. WithStatus({"submitted", "verified"}) \subseteq OnFile
  BY DEF WithStatus, OnFile
<1>3. RequiredTypes[Kind] \subseteq WithStatus({"verified"})
  BY <1>2 DEF ProgressComplete, DocumentsComplete
<1>4. QED
  BY <1>1, <1>3 DEF ProgressComplete, FileProven, DocumentsProven

\* The frozen file keeps FileProven and Outstanding.
LEMMA FrozenProven ==
  ASSUME TypeOK, FrozenFile
  PROVE  /\ FileProven => FileProven'
         /\ Outstanding' = Outstanding
<1>1. WithStatus({"verified"}) \subseteq WithStatus({"verified"})'
  BY DEF FrozenFile, WithStatus
<1>2. (OnFile \ Titles["logistics"])' = OnFile \ Titles["logistics"]
  BY DEF FrozenFile, OnFile, WithStatus
<1>3. DocumentsProven => DocumentsProven'
  BY <1>1, <1>2 DEF DocumentsProven
<1>4. /\ FormComplete => FormComplete'
      /\ PersonnelComplete => PersonnelComplete'
  BY DEF FrozenFile, FormComplete, PersonnelComplete, IsQuality
<1>5. Outstanding' = Outstanding
  BY DEF FrozenFile, Outstanding
<1>6. QED
  BY <1>3, <1>4, <1>5 DEF FileProven


\* How a step may touch the status: not at all, by filing, by submitting or
\* sending back, or by a decision.
LEMMA StatusStep ==
  ASSUME [Next]_vars
  PROVE  \/ UNCHANGED <<status, organisation>>
         \/ CreateApplication
         \/ Submit
         \/ Transition("action_required")
         \/ \E target \in ApplicationStatus, issued \in SUBSET Conditions :
              Decide(target, issued)
<1> USE DEF fileVars, conditionVars, SendBack
<1>1. CASE \E d \in Docs : RequestDocument(d)
  BY <1>1 DEF RequestDocument
<1>2. CASE \E d \in Docs, verdict \in Verdicts : ReviewDocument(d, verdict)
  BY <1>2 DEF ReviewDocument
<1>3. CASE UNCHANGED vars
  BY <1>3 DEF vars
<1> QED
  BY <1>1, <1>2, <1>3
     DEF Next, AccountChanges, RefileSector, SaveSection, AddPersonnel,
         RemovePersonnel, UploadDocument, IssueCondition, SubmitEvidence,
         ReviewEvidence

\* A decision leaves the file as it is.
LEMMA DecisionKeepsFile ==
  ASSUME NEW target, NEW issued, Decide(target, issued)
  PROVE  FileProven' = FileProven
BY DEF Decide, fileVars, FileProven, FormComplete, PersonnelComplete, IsQuality,
       DocumentsProven, WithStatus, OnFile

\* Verifying issues no condition, so nothing is outstanding after it either.
LEMMA VerifyingLeavesNothing ==
  ASSUME TypeOK, NEW issued, Decide("verified", issued)
  PROVE  FileProven /\ Outstanding = {} /\ Outstanding' = {}
<1>1. FileProven /\ Outstanding = {}
  BY ApprovalProven DEF Decide
<1>2. issued = {}
  BY DEF Decide
<1>3. conditions' = conditions
  BY <1>2 DEF Decide, TypeOK
<1>4. QED
  BY <1>1, <1>3 DEF Outstanding

LEMMA EarnedStep ==
  ASSUME TypeOK, VerifiedIsEarned, [Next]_vars
  PROVE  VerifiedIsEarned'
<1>1. CASE status = "verified"
  BY <1>1, FrozenStep, FrozenProven DEF VerifiedIsEarned
<1>2. CASE status # "verified"
  <2>1. SUFFICES ASSUME status' = "verified"
                 PROVE  FileProven' /\ Outstanding' = {}
    BY DEF VerifiedIsEarned
  <2>2. PICK target \in ApplicationStatus, issued \in SUBSET Conditions :
          Decide(target, issued)
    BY <1>2, <2>1, StatusStep DEF CreateApplication, Submit, Transition
  <2>3. target = "verified"
    BY <2>1, <2>2 DEF Decide, Transition
  <2>4. QED
    BY <2>2, <2>3, VerifyingLeavesNothing, DecisionKeepsFile
<1>3. QED
  BY <1>1, <1>2

\* A verified application rests on a complete form, personnel, verified
\* documents and cleared conditions.
THEOREM Earned == Spec => []VerifiedIsEarned
<1>1. Init => VerifiedIsEarned
  BY DEF Init, VerifiedIsEarned
<1>2. TypeOK /\ VerifiedIsEarned /\ [Next]_vars => VerifiedIsEarned'
  BY EarnedStep
<1>3. QED
  BY <1>1, <1>2, TypeCorrect, PTL DEF Spec

-----------------------------------------------------------------------------
(* The promise of ComplianceReview *)


\* Before the application is filed no handler reaches it.
LEMMA UnfiledStep ==
  ASSUME TypeOK, [Next]_vars, status = "none"
  PROVE  UNCHANGED <<sections, personnel, documents, conditions>>
<1> USE DEF fileVars, conditionVars
<1>1. ~UnderReview /\ ~Editable /\ ~EvidenceEditable
  BY DEF UnderReview, REVIEW_STATES, Editable, EvidenceEditable
<1>2. CASE UNCHANGED vars
  BY <1>2 DEF vars
<1> QED
  BY <1>1, <1>2
     DEF Next, CreateApplication, AccountChanges, RefileSector, SaveSection,
         AddPersonnel, RemovePersonnel, UploadDocument, LateLogisticsUpload,
         Submit, Decide, RequestDocument, ReviewDocument, IssueCondition,
         SubmitEvidence, ReviewEvidence

\* What the abstract variables stand for is determined by these four.
LEMMA MappingUnchanged ==
  ASSUME UNCHANGED <<sections, personnel, documents, conditions>>
  PROVE  FileProven' = FileProven /\ Outstanding' = Outstanding
BY DEF FileProven, FormComplete, PersonnelComplete, IsQuality, DocumentsProven,
       WithStatus, OnFile, Outstanding

\* The review speaks of the same statuses and the same transitions.
LEMMA SameWorkflow ==
  /\ Review!ApplicationStatus = ApplicationStatus
  /\ Review!OrganisationStatus = OrganisationStatus
  /\ \A s : Review!TRANSITIONS(s) = TRANSITIONS(s)
  /\ \A s : Review!Standing(s) = Standing(s)
BY DEF Review!ApplicationStatus, ApplicationStatus, Review!OrganisationStatus,
       OrganisationStatus, Review!TRANSITIONS, TRANSITIONS, Review!Standing, Standing

LEMMA MappingType == FileProven \in BOOLEAN /\ FileProven' \in BOOLEAN
BY DEF FileProven, FormComplete, PersonnelComplete, DocumentsProven

\* A step that keeps status and organisation is abstract work on an open file
\* and a stutter on an unfiled or a verified one.
LEMMA QuietStep ==
  ASSUME TypeOK, VerifiedIsEarned, [Next]_vars, UNCHANGED <<status, organisation>>
  PROVE  [Review!Next]_(Review!vars)
<1>1. CASE status = "none"
  BY <1>1, UnfiledStep, MappingUnchanged DEF Review!vars
<1>2. CASE status = "verified"
  <2>1. FileProven /\ FileProven' /\ Outstanding' = Outstanding
    BY <1>2, FrozenStep, FrozenProven DEF VerifiedIsEarned
  <2>2. QED
    BY <2>1 DEF Review!vars
<1>3. CASE status \notin {"none", "verified"}
  BY <1>3, MappingType DEF Review!Next, Review!Work
<1>4. QED
  BY <1>1, <1>2, <1>3

\* A decision is an abstract move: an approval finds the file complete, a
\* conditional one leaves a condition owing.
LEMMA DecideStep ==
  ASSUME TypeOK, NEW target \in ApplicationStatus, NEW issued \in SUBSET Conditions,
         Decide(target, issued)
  PROVE  Review!Move(target)
<1>1. Transition(target)
  BY DEF Decide
<1>2. target = "conditionally_approved" => FileProven /\ Outstanding' # {}
  <2>1. SUFFICES ASSUME target = "conditionally_approved"
                 PROVE  FileProven /\ Outstanding' # {}
    OBVIOUS
  <2>2. FileProven
    BY <2>1, ApprovalProven DEF Decide
  <2>3. PICK c \in issued \cup Outstanding : TRUE
    BY <2>1 DEF Decide
  <2>4. c \in Outstanding'
    BY <2>3 DEF Decide, Outstanding, TypeOK
  <2>5. QED
    BY <2>2, <2>4
<1>3. target = "verified" =>
        FileProven /\ FileProven' /\ Outstanding = {} /\ Outstanding' = {}
  BY VerifyingLeavesNothing, DecisionKeepsFile
<1>4. QED
  BY <1>1, <1>2, <1>3, MappingType, SameWorkflow DEF Review!Move, Transition

\* Every step of the application is a step of the review it promises.
LEMMA ReviewStep ==
  ASSUME TypeOK, VerifiedIsEarned, [Next]_vars
  PROVE  [Review!Next]_(Review!vars)
<1>1. CASE UNCHANGED <<status, organisation>>
  BY <1>1, QuietStep
<1>2. CASE CreateApplication
  <2>1. FileProven' = FileProven /\ Outstanding' = Outstanding
    BY <1>2, MappingUnchanged DEF CreateApplication, fileVars, conditionVars
  <2>2. Review!File
    BY <1>2, <2>1 DEF CreateApplication, Review!File
  <2>3. QED
    BY <2>2 DEF Review!Next
<1>3. CASE Submit
  <2>1. Review!Move("under_review")
    BY <1>3, MappingType, SameWorkflow DEF Submit, Transition, Review!Move
  <2>2. QED
    BY <2>1, SameWorkflow DEF Review!Next, ApplicationStatus
<1>4. CASE Transition("action_required")
  <2>1. Review!Move("action_required")
    BY <1>4, MappingType, SameWorkflow DEF Transition, Review!Move
  <2>2. QED
    BY <2>1, SameWorkflow DEF Review!Next, ApplicationStatus
<1>5. ASSUME NEW target \in ApplicationStatus, NEW issued \in SUBSET Conditions,
             Decide(target, issued)
      PROVE  Review!Next
  BY <1>5, DecideStep, SameWorkflow DEF Review!Next
<1>6. QED
  BY <1>1, <1>2, <1>3, <1>4, <1>5, StatusStep

\* ComplianceApplication implements ComplianceReview.
THEOREM Implements == Spec => ImplementsReview
<1>1. Init => Review!Init
  BY MappingType, SameWorkflow DEF Init, Review!Init, Outstanding
<1>2. TypeOK /\ VerifiedIsEarned /\ [Next]_vars => [Review!Next]_(Review!vars)
  BY ReviewStep
<1>3. QED
  BY <1>1, <1>2, TypeCorrect, Earned, PTL DEF Spec, ImplementsReview, Review!Spec

-----------------------------------------------------------------------------
(* Documents and evidence *)

LEMMA RefusedStep ==
  ASSUME TypeOK, RefusedDocumentHoldsFile, [Next]_vars
  PROVE  RefusedDocumentHoldsFile'
<1> DEFINE Refused == WithStatus({"rejected"})
<1> SUFFICES ASSUME Refused' # {}
             PROVE  status' \in {"action_required", "rejected"}
    BY DEF RefusedDocumentHoldsFile
<1>1. Transition("action_required") => status' \in {"action_required", "rejected"}
  BY DEF Transition
<1>2. ASSUME NEW d \in Docs, RequestDocument(d)
      PROVE  status' \in {"action_required", "rejected"}
  BY <1>1, <1>2 DEF RequestDocument, SendBack
<1>3. ASSUME NEW d \in Docs, NEW verdict \in Verdicts, ReviewDocument(d, verdict)
      PROVE  status' \in {"action_required", "rejected"}
  <2>1. CASE verdict = "rejected"
    BY <1>1, <1>3, <2>1 DEF ReviewDocument, SendBack
  <2>2. CASE verdict # "rejected"
    <3>1. Refused # {}
      BY <1>3, <2>2 DEF WithStatus, TypeOK, ReviewDocument
    <3>2. QED
      BY <1>3, <2>2, <3>1 DEF ReviewDocument, RefusedDocumentHoldsFile
  <2>3. QED
    BY <2>1, <2>2
<1>4. ASSUME NEW d \in Docs, UploadDocument(d)
      PROVE  status' \in {"action_required", "rejected"}
  <2>1. Refused # {}
    BY <1>4 DEF WithStatus, TypeOK, UploadDocument
  <2>2. QED
    BY <1>4, <2>1 DEF UploadDocument, RefusedDocumentHoldsFile
<1>5. CASE documents' = documents
  <2>1. Refused' = Refused
    BY <1>5 DEF WithStatus
  <2>2. status \in {"action_required", "rejected"}
    BY <2>1 DEF RefusedDocumentHoldsFile
  <2>3. ~CreateApplication
    BY <2>2 DEF CreateApplication
  <2>4. ~Submit
    BY <2>1 DEF Submit
  <2>5. ASSUME NEW target \in ApplicationStatus, NEW issued \in SUBSET Conditions,
               Decide(target, issued)
        PROVE  target \notin {"verified", "conditionally_approved", "under_review"}
    <3>1. ~(OnFile \subseteq WithStatus({"verified"}))
      BY <2>1 DEF OnFile, WithStatus
    <3>2. QED
      BY <2>5, <3>1 DEF Decide
  <2>6. ASSUME NEW target \in ApplicationStatus, NEW issued \in SUBSET Conditions,
               Decide(target, issued)
        PROVE  status' \in {"action_required", "rejected"}
    BY <2>5, <2>6 DEF Decide, Transition, TRANSITIONS, ApplicationStatus
  <2>7. QED
    BY <1>1, <2>2, <2>3, <2>4, <2>6, StatusStep
<1>6. documents' = documents \/ (\E d \in Docs : UploadDocument(d))
        \/ (\E d \in Docs : RequestDocument(d))
        \/ (\E d \in Docs, verdict \in Verdicts : ReviewDocument(d, verdict))
  BY DEF Next, vars, fileVars, CreateApplication, AccountChanges, RefileSector,
         SaveSection, AddPersonnel, RemovePersonnel, Submit, Decide,
         IssueCondition, SubmitEvidence, ReviewEvidence
<1>7. QED
  BY <1>2, <1>3, <1>4, <1>5, <1>6

\* While a document is refused the application is with the applicant or
\* rejected: no reviewer is handed a refused file again.
THEOREM RefusedHolds == Spec => []RefusedDocumentHoldsFile
<1>1. Init => RefusedDocumentHoldsFile
  BY DEF Init, RefusedDocumentHoldsFile, WithStatus
<1>2. TypeOK /\ RefusedDocumentHoldsFile /\ [Next]_vars => RefusedDocumentHoldsFile'
  BY RefusedStep
<1>3. QED
  BY <1>1, <1>2, TypeCorrect, PTL DEF Spec

LEMMA CountsStep ==
  ASSUME TypeOK, CountsOnlyOnNewFile, [Next]_vars
  PROVE  CountsOnlyOnNewFile'
<1> DEFINE S == {"submitted", "verified"}
<1>1. ASSUME NEW d \in Docs, UploadDocument(d)
      PROVE  CountsOnlyOnNewFile'
  BY <1>1 DEF WithStatus, TypeOK, UploadDocument, CountsOnlyOnNewFile
<1>2. ASSUME NEW d \in Docs, RequestDocument(d)
      PROVE  CountsOnlyOnNewFile'
  BY <1>2 DEF WithStatus, TypeOK, RequestDocument, CountsOnlyOnNewFile
<1>3. ASSUME NEW d \in Docs, NEW verdict \in Verdicts, ReviewDocument(d, verdict)
      PROVE  CountsOnlyOnNewFile'
  <2>1. d \in answered \cap files
    BY <1>3 DEF ReviewDocument, CountsOnlyOnNewFile, WithStatus
  <2>2. CASE verdict = "rejected"
    BY <1>3, <2>2 DEF WithStatus, TypeOK, ReviewDocument, CountsOnlyOnNewFile
  <2>3. CASE verdict = "verified"
    BY <1>3, <2>1, <2>3 DEF WithStatus, TypeOK, ReviewDocument, CountsOnlyOnNewFile
  <2>4. QED
    BY <2>2, <2>3 DEF Verdicts
<1>4. CASE UNCHANGED <<documents, files, answered>>
  BY <1>4 DEF CountsOnlyOnNewFile, WithStatus
<1>5. UNCHANGED <<documents, files, answered>>
        \/ (\E d \in Docs : UploadDocument(d))
        \/ (\E d \in Docs : RequestDocument(d))
        \/ (\E d \in Docs, verdict \in Verdicts : ReviewDocument(d, verdict))
  BY DEF Next, vars, fileVars, CreateApplication, AccountChanges, RefileSector,
         SaveSection, AddPersonnel, RemovePersonnel, Submit, Decide,
         IssueCondition, SubmitEvidence, ReviewEvidence
<1>6. QED
  BY <1>1, <1>2, <1>3, <1>4, <1>5

\* A document that was asked for or refused counts again only on a new file.
THEOREM CountsOnNewFile == Spec => []CountsOnlyOnNewFile
<1>1. Init => CountsOnlyOnNewFile
  BY DEF Init, CountsOnlyOnNewFile, WithStatus
<1>2. TypeOK /\ CountsOnlyOnNewFile /\ [Next]_vars => CountsOnlyOnNewFile'
  BY CountsStep
<1>3. QED
  BY <1>1, <1>2, TypeCorrect, PTL DEF Spec

LEMMA EvidenceStep ==
  ASSUME TypeOK, ConditionMatchesEvidence, [Next]_vars
  PROVE  ConditionMatchesEvidence'
<1> USE DEF ConditionMatchesEvidence, TypeOK
<1>1. ASSUME NEW target \in ApplicationStatus, NEW issued \in SUBSET Conditions,
             Decide(target, issued)
      PROVE  ConditionMatchesEvidence'
  <2>1. \A c \in issued : conditions[c] = "none" /\ conditions'[c] = "pending"
    BY <1>1 DEF Decide, Issued
  <2>2. \A c \in Conditions \ issued : conditions'[c] = conditions[c]
    BY <1>1 DEF Decide
  <2>3. evidence' = evidence
    BY <1>1 DEF Decide
  <2>4. QED
    BY <2>1, <2>2, <2>3
<1>2. ASSUME NEW c \in Conditions, IssueCondition(c)
      PROVE  ConditionMatchesEvidence'
  BY <1>2 DEF IssueCondition
<1>3. ASSUME NEW c \in Conditions, NEW e \in Evidence, SubmitEvidence(c, e)
      PROVE  ConditionMatchesEvidence'
  BY <1>3 DEF SubmitEvidence
<1>4. ASSUME NEW c \in Conditions, NEW e \in Evidence, NEW verdict \in Verdicts,
             ReviewEvidence(c, e, verdict)
      PROVE  ConditionMatchesEvidence'
  BY <1>4 DEF ReviewEvidence, Verdicts
<1>5. CASE UNCHANGED <<conditions, evidence>>
  BY <1>5
<1>6. QED
  BY <1>1, <1>2, <1>3, <1>4, <1>5
     DEF Next, vars, conditionVars, CreateApplication, AccountChanges, RefileSector,
         SaveSection, AddPersonnel, RemovePersonnel, UploadDocument, Submit,
         RequestDocument, ReviewDocument

\* A condition awaits review on exactly one upload and is cleared exactly by a
\* verified one.
THEOREM EvidenceAgrees == Spec => []ConditionMatchesEvidence
<1>1. Init => ConditionMatchesEvidence
  BY DEF Init, ConditionMatchesEvidence
<1>2. TypeOK /\ ConditionMatchesEvidence /\ [Next]_vars => ConditionMatchesEvidence'
  BY EvidenceStep
<1>3. QED
  BY <1>1, <1>2, TypeCorrect, PTL DEF Spec

-----------------------------------------------------------------------------
(* The organisation *)

LEMMA FollowsStep ==
  ASSUME TypeOK, OrganisationFollows, [Next]_vars
  PROVE  OrganisationFollows'
<1>1. CASE UNCHANGED <<status, organisation>>
  BY <1>1 DEF OrganisationFollows
<1>2. CASE CreateApplication
  BY <1>2 DEF CreateApplication, OrganisationFollows
<1>3. ASSUME NEW target, Transition(target)
      PROVE  OrganisationFollows'
  BY <1>3 DEF Transition, OrganisationFollows
<1>4. QED
  BY <1>1, <1>2, <1>3, StatusStep DEF Submit, Decide

\* From its first submission on the application and its organisation agree.
THEOREM OrganisationAgrees == Spec => []OrganisationFollows
<1>1. Init => OrganisationFollows
  BY DEF Init, OrganisationFollows
<1>2. TypeOK /\ OrganisationFollows /\ [Next]_vars => OrganisationFollows'
  BY FollowsStep
<1>3. QED
  BY <1>1, <1>2, TypeCorrect, PTL DEF Spec

=============================================================================
