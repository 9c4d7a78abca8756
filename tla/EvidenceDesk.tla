--------------------------- MODULE EvidenceDesk ---------------------------
(***************************************************************************)
(* The review desk of a warehousing application: the operator fills in its *)
(* sections and uploads evidence, a reviewer verifies the evidence, signs  *)
(* the sections off, asks for information, sets conditions and decides.    *)
(* Every handler runs in one transaction with the application row locked   *)
(* (AtomicViewSet), so a handler is one action.  The export desk has the   *)
(* same handlers and instantiates this module (ExportDesk).                *)
(*                                                                         *)
(* Abstracted: scores and weights, texts, file contents, who acts (the     *)
(* role checks), notifications and the audit trail.  A date is abstracted  *)
(* to whether it has passed.                                               *)
(***************************************************************************)
EXTENDS Naturals, FiniteSets

CONSTANTS
  Domains,     \* section keys
  Types,       \* document types: at most one current version of each
  Requests,    \* information requests that may be raised
  Conditions,  \* approval conditions that may be set
  None

VARIABLES
  status,      \* the application's status
  section,     \* [Domains -> what is declared and the reviewer's verdict]
  document,    \* [Types -> the current version, or None]
  request,     \* [Requests -> "none", "open", "responded", "accepted"]
  condition,   \* [Conditions -> "none", "open", "cleared"]
  ready        \* the account, profile and records checks of progress() hold

vars == <<status, section, document, request, condition, ready>>

Statuses == {"draft", "submitted", "under_review", "awaiting_information",
             "conditionally_approved", "approved", "rejected"}
Editable == {"draft", "awaiting_information", "rejected"}
\* Fault: an approved file can still be reviewed.
ReviewableForever ==
  {"under_review", "awaiting_information", "conditionally_approved", "approved"}
Reviewable == {"under_review", "awaiting_information", "conditionally_approved"}
Uploadable == Editable \cup {"conditionally_approved", "approved"}

Verdicts == {"passed", "attention", "failed"}
Section == [filled : BOOLEAN, applicable : BOOLEAN,
            status : Verdicts \cup {"pending"}]
Document == [domain : Domains, condition : Conditions \cup {None},
             status : {"pending", "verified", "rejected"}, expired : BOOLEAN]

ASSUME NoneAssumption == None \notin Conditions /\ None \notin Document

DeskTypeOK ==
  /\ status \in Statuses
  /\ section \in [Domains -> Section]
  /\ document \in [Types -> Document \cup {None}]
  /\ request \in [Requests -> {"none", "open", "responded", "accepted"}]
  /\ condition \in [Conditions -> {"none", "open", "cleared"}]
  /\ ready \in BOOLEAN

-----------------------------------------------------------------------------
Current == {t \in Types : document[t] # None}
DomainEvidence(d) == {t \in Current : document[t].domain = d}
Linked(c) == {t \in Current : document[t].condition = c}
Verified(ts) == \A t \in ts : document[t].status = "verified"
InDate(ts) == \A t \in ts : ~document[t].expired
Required == {d \in Domains : section[d].applicable}
Outstanding == {c \in Conditions : condition[c] = "open"}

\* Sections with a current document that is neither rejected nor expired.
Supplied ==
  {document[t].domain : t \in {u \in Current : /\ document[u].status # "rejected"
                                               /\ ~document[u].expired}}

\* Fault: outstanding requests do not hold the submission back.
CompleteButRequests ==
  /\ ready
  /\ Required # {}
  /\ \A d \in Required : section[d].filled
  /\ Required \subseteq Supplied
  /\ \A t \in Current : document[t].status # "rejected" /\ ~document[t].expired
\* progress() at 100 percent, and no current document to replace.
Complete ==
  /\ ready
  /\ Required # {}
  /\ \A d \in Required : section[d].filled
  /\ Required \subseteq Supplied
  /\ \A r \in Requests : request[r] \in {"none", "accepted"}
  /\ \A t \in Current : document[t].status # "rejected" /\ ~document[t].expired

\* Fault: approval does not look at the sign-offs.
MayApproveUnsigned(verdicts) == Complete /\ Verified(Current)
MayApprove(verdicts) ==
  /\ Complete
  /\ Verified(Current)
  /\ \A d \in Required : section[d].status \in verdicts

-----------------------------------------------------------------------------
Init ==
  /\ status = "draft"
  /\ section = [d \in Domains |->
                  [filled |-> FALSE, applicable |-> TRUE, status |-> "pending"]]
  /\ document = [t \in Types |-> None]
  /\ request = [r \in Requests |-> "none"]
  /\ condition = [c \in Conditions |-> "none"]
  /\ ready = FALSE

\* Faults: an upload leaves the sign-off alone; it clears the verdict.
StillReviewed(s) == s
Unreviewed(s) == [filled |-> s.filled, applicable |-> s.applicable,
                  status |-> "pending"]

\* The operator: declare a section, upload evidence, submit, answer.
SaveSection(d) ==
  /\ status \in Editable
  /\ section' = [section EXCEPT ![d] =
       [filled |-> TRUE, applicable |-> @.applicable, status |-> "pending"]]
  /\ UNCHANGED <<status, document, request, condition, ready>>

\* Fault: the named condition may have been cleared.
MayUploadForAny(t, d, c) ==
  /\ status \in Uploadable
  /\ c # None => condition[c] # "none"
  /\ IF document[t] = None
       THEN status # "approved"
       ELSE document[t].domain = d /\ document[t].condition = c
\* A first version may name an outstanding condition; a later one keeps the
\* domain and the condition of the version it replaces.
MayUpload(t, d, c) ==
  /\ status \in Uploadable
  /\ c # None => condition[c] = "open"
  /\ IF document[t] = None
       THEN status # "approved"
       ELSE document[t].domain = d /\ document[t].condition = c

Upload(t, d, c, expired) ==
  /\ MayUpload(t, d, c)
  /\ document' = [document EXCEPT ![t] =
       [domain |-> d, condition |-> c, status |-> "pending", expired |-> expired]]
  /\ section' = [section EXCEPT ![d] = Unreviewed(@)]
  /\ UNCHANGED <<status, request, condition, ready>>

Submit ==
  /\ status \in Editable
  /\ Complete
  /\ status' = "submitted"
  /\ UNCHANGED <<section, document, request, condition, ready>>

\* An answer attaches at least one current document that is not rejected.
Respond(r) ==
  /\ status = "awaiting_information"
  /\ request[r] = "open"
  /\ \E t \in Current : document[t].status # "rejected"
  /\ request' = [request EXCEPT ![r] = "responded"]
  /\ UNCHANGED <<status, section, document, condition, ready>>

-----------------------------------------------------------------------------
\* The reviewer.
StartReview ==
  /\ status = "submitted"
  /\ status' = "under_review"
  /\ UNCHANGED <<section, document, request, condition, ready>>

MayPass(d) ==
  /\ section[d].filled
  /\ DomainEvidence(d) # {}
  /\ Verified(DomainEvidence(d))
  /\ InDate(DomainEvidence(d))

ReviewSection(d, verdict, applicable) ==
  /\ status \in Reviewable
  /\ verdict = "passed" /\ applicable => MayPass(d)
  /\ section' = [section EXCEPT ![d] =
       [filled |-> @.filled, applicable |-> applicable, status |-> verdict]]
  /\ UNCHANGED <<status, document, request, condition, ready>>

ReviewDocument(t, verdict) ==
  /\ status \in Reviewable
  /\ document[t] # None
  /\ document[t].status = "pending"
  /\ verdict = "verified" => ~document[t].expired
  /\ document' = [document EXCEPT ![t] =
       [domain |-> @.domain, condition |-> @.condition, status |-> verdict,
        expired |-> @.expired]]
  /\ UNCHANGED <<status, section, request, condition, ready>>

RaiseRequest(r) ==
  /\ status \in Reviewable
  /\ request[r] = "none"
  /\ request' = [request EXCEPT ![r] = "open"]
  /\ status' = "awaiting_information"
  /\ UNCHANGED <<section, document, condition, ready>>

ReviewResponse(r, accepted) ==
  /\ status \in Reviewable
  /\ request[r] = "responded"
  /\ request' = [request EXCEPT ![r] = IF accepted THEN "accepted" ELSE "open"]
  /\ UNCHANGED <<status, section, document, condition, ready>>

AddCondition(c) ==
  /\ status \in Reviewable
  /\ condition[c] = "none"
  /\ condition' = [condition EXCEPT ![c] = "open"]
  /\ UNCHANGED <<status, section, document, request, ready>>

ClearCondition(c) ==
  /\ status \in Reviewable
  /\ condition[c] = "open"
  /\ Linked(c) # {}
  /\ Verified(Linked(c))
  /\ InDate(Linked(c))
  /\ condition' = [condition EXCEPT ![c] = "cleared"]
  /\ UNCHANGED <<status, section, document, request, ready>>

Decide == status \in {"under_review", "conditionally_approved"}

Reject ==
  /\ Decide
  /\ status' = "rejected"
  /\ UNCHANGED <<section, document, request, condition, ready>>

Approve ==
  /\ Decide
  /\ MayApprove({"passed"})
  /\ Outstanding = {}
  /\ status' = "approved"
  /\ UNCHANGED <<section, document, request, condition, ready>>

\* Conditional approval may come with new conditions and needs one outstanding.
ApproveConditionally(new) ==
  /\ Decide
  /\ MayApprove({"passed", "attention"})
  /\ \A c \in new : condition[c] = "none"
  /\ Outstanding \cup new # {}
  /\ condition' = [c \in Conditions |-> IF c \in new THEN "open" ELSE condition[c]]
  /\ status' = "conditionally_approved"
  /\ UNCHANGED <<section, document, request, ready>>

-----------------------------------------------------------------------------
\* The calendar, and what other handlers do to the records progress() counts:
\* accounts are deactivated, facilities retired and lots dispatched at any time.
Expire(t) ==
  /\ document[t] # None
  /\ ~document[t].expired
  /\ document' = [document EXCEPT ![t] =
       [domain |-> @.domain, condition |-> @.condition, status |-> @.status,
        expired |-> TRUE]]
  /\ UNCHANGED <<status, section, request, condition, ready>>

RecordsChange ==
  /\ ready' = ~ready
  /\ UNCHANGED <<status, section, document, request, condition>>

Next ==
  \/ Submit \/ StartReview \/ Reject \/ Approve \/ RecordsChange
  \/ \E d \in Domains :
       \/ SaveSection(d)
       \/ \E v \in Verdicts, a \in BOOLEAN : ReviewSection(d, v, a)
  \/ \E t \in Types :
       \/ \E d \in Domains, c \in Conditions \cup {None}, e \in BOOLEAN :
            Upload(t, d, c, e)
       \/ \E v \in {"verified", "rejected"} : ReviewDocument(t, v)
       \/ Expire(t)
  \/ \E r \in Requests :
       \/ RaiseRequest(r)
       \/ Respond(r)
       \/ \E a \in BOOLEAN : ReviewResponse(r, a)
  \/ \E c \in Conditions : AddCondition(c) \/ ClearCondition(c)
  \/ \E new \in SUBSET Conditions : ApproveConditionally(new)

Spec == Init /\ [][Next]_vars
-----------------------------------------------------------------------------
\* A section signed off as passed rests on declared data and on current evidence
\* that is all verified: a new version, a rejection or a new declaration cannot
\* slip under a sign-off that review_section has given (views.py:310-327).
SignedOffOnEvidence ==
  \A d \in Domains :
    section[d].status = "passed" /\ section[d].applicable =>
      section[d].filled /\ DomainEvidence(d) # {} /\ Verified(DomainEvidence(d))

\* A cleared condition keeps the verified evidence it was cleared on
\* (views.py:519-531): no later upload replaces that evidence.
ClearedOnEvidence ==
  \A c \in Conditions :
    condition[c] = "cleared" => Linked(c) # {} /\ Verified(Linked(c))

\* While a request for information is not accepted, the file waits for the
\* operator: it cannot be resubmitted, taken up or decided around the request.
RequestsHoldTheFile ==
  (\E r \in Requests : request[r] \in {"open", "responded"})
    => status = "awaiting_information"

\* An approved file has nothing left open, and every required section is passed
\* or waits on a renewal uploaded since (views.py:342-349).
ApprovedOnEvidence ==
  status = "approved" =>
    /\ Outstanding = {}
    /\ \A r \in Requests : request[r] \in {"none", "accepted"}
    /\ \A t \in Current : document[t].status # "rejected"
    /\ \A d \in Required :
         \/ section[d].status = "passed"
         \/ \E t \in DomainEvidence(d) : document[t].status = "pending"

\* Approval is final, and what is uploaded after it is never reviewed: once a
\* file is approved no document becomes verified, no section is signed off and
\* no condition or request is touched (EDITABLE and REVIEWABLE leave it out).
ApprovedFileOnlyAges ==
  [][status = "approved" =>
       /\ status' = "approved"
       /\ UNCHANGED <<request, condition>>
       /\ \A t \in Types :
            document'[t] # None /\ document'[t].status = "verified" =>
              document[t] # None /\ document[t].status = "verified"
       /\ \A d \in Domains :
            section'[d].status \in {section[d].status, "pending"}]_vars

\* services.py:104 tells the operator to "Replace rejected or expired evidence
\* before submission.": while the file is the operator's, a rejected or expired
\* document can be replaced.
ReplaceableEvidence ==
  status \in Editable =>
    \A t \in Current :
      document[t].status = "rejected" \/ document[t].expired =>
        \E d \in Domains, c \in Conditions \cup {None} : MayUpload(t, d, c)
=============================================================================
