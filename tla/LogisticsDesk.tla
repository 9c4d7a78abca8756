--------------------------- MODULE LogisticsDesk ---------------------------
(***************************************************************************)
(* The review desk of a logistics application.  It differs from            *)
(* EvidenceDesk in what brings a file back: a request or a rejected        *)
(* document parks it on awaiting_information and resume_review returns it  *)
(* to the reviewer.  Company services decide whether the mineral section   *)
(* applies, scope restrictions hold back full approval, and an expiry      *)
(* monitor adds restrictions of its own.                                   *)
(*                                                                         *)
(* Every handler of an application runs in one transaction with its row    *)
(* locked (AtomicViewSet, editable_company), so a handler is one action.   *)
(* A document type keeps its domain, scope and condition from its first    *)
(* version on; they are constants here, and a theorem quantifies over      *)
(* them.  Scores, texts, files, notifications and role checks are left     *)
(* out; a date is abstracted to whether it has passed.                     *)
(***************************************************************************)
EXTENDS Naturals, FiniteSets

CONSTANTS
  Domains, Mineral,   \* section keys, and the one services decide on
  Types,              \* document types, at most one current version each
  Checklist,          \* types of the published checklist
  RequiredTypes,      \* those a submission needs
  EvidenceDomains,    \* domains a sign-off needs documents in
  DomainOf, LinkOf,   \* of a type: its domain, its condition or None
  ScopedTypes, ScopedConditions,  \* those that name a service
  Requests, Conditions,
  Manual,             \* a restriction set by a reviewer
  None

VARIABLES
  status,      \* the application's status
  section,     \* [Domains -> what is declared and the reviewer's verdict]
  signed,      \* history: domains whose verdict was given as applicable
  document,    \* [Types -> the current version, or None]
  request,     \* [Requests -> "none", "open", "responded", "accepted"]
  answer,      \* [Requests -> types of the answer, {} once one is replaced]
  condition,   \* [Conditions -> "none", "open", "cleared"]
  restricted,  \* sources of the restrictions that are not resolved
  mineral,     \* a declared service mentions minerals
  profile,     \* the company, its fleet and its drivers are declared
  account      \* the applicant's account is active and verified

company == <<mineral, profile, account>>
vars == <<status, section, signed, document, request, answer, condition,
          restricted, company>>

Statuses == {"draft", "submitted", "under_review", "awaiting_information",
             "conditionally_approved", "approved", "rejected"}
EDITABLE == {"draft", "awaiting_information", "rejected"}
REVIEWABLE == {"under_review", "awaiting_information", "conditionally_approved"}
Verdicts == {"passed", "attention", "failed"}
Section == [filled : BOOLEAN, applicable : BOOLEAN,
            status : Verdicts \cup {"pending"}]
Document == [status : {"pending", "verified", "rejected"}, expired : BOOLEAN]
Sources == {Manual} \cup Types \cup Conditions

ASSUME LogisticsAssumption ==
  /\ Mineral \in Domains
  /\ RequiredTypes \subseteq Checklist /\ Checklist \subseteq Types
  /\ EvidenceDomains \subseteq Domains
  /\ DomainOf \in [Types -> Domains]
  /\ LinkOf \in [Types -> Conditions \cup {None}]
  /\ None \notin Conditions /\ None \notin Document
  /\ Manual \notin Types \cup Conditions /\ Types \cap Conditions = {}

LogisticsTypeOK ==
  /\ status \in Statuses
  /\ section \in [Domains -> Section]
  /\ signed \subseteq Domains
  /\ document \in [Types -> Document \cup {None}]
  /\ request \in [Requests -> {"none", "open", "responded", "accepted"}]
  /\ answer \in [Requests -> SUBSET Types]
  /\ condition \in [Conditions -> {"none", "open", "cleared"}]
  /\ restricted \subseteq Sources
  /\ mineral \in BOOLEAN /\ profile \in BOOLEAN /\ account \in BOOLEAN

-----------------------------------------------------------------------------
Current == {t \in Types : document[t] # None}
Linked(c) == {t \in Current : LinkOf[t] = c}
Rejected == {t \in Current : document[t].status = "rejected"}
Verified(ts) == \A t \in ts : document[t].status = "verified"
InDate(ts) == \A t \in ts : ~document[t].expired
Required == {d \in Domains : section[d].applicable}
Unaccepted(req) == {r \in Requests : req[r] \in {"open", "responded"}}
Outstanding == {c \in Conditions : condition[c] = "open"}

\* progress() at 100 percent, and no current document to replace.
Complete ==
  /\ account /\ profile
  /\ Required # {}
  /\ \A d \in Required : section[d].filled
  /\ RequiredTypes \subseteq Current
  /\ Rejected = {} /\ InDate(Current)
  /\ Unaccepted(request) = {}

MayApprove(verdicts) ==
  /\ Complete
  /\ Verified(Current)
  /\ \A d \in Required : section[d].status \in verdicts

\* Fault: refused documents do not hold the file.
ResumeOnRequests(req, doc) ==
  IF status = "awaiting_information" /\ Unaccepted(req) = {}
    THEN "under_review" ELSE status
\* The status resume_review leaves, given the requests and documents as saved.
Resume(req, doc) ==
  IF /\ status = "awaiting_information"
     /\ Unaccepted(req) = {}
     /\ \A t \in Types : doc[t] # None => doc[t].status # "rejected"
    THEN "under_review" ELSE status

Marked(d, verdict, applicable) ==
  [section EXCEPT ![d] =
     [filled |-> @.filled, applicable |-> applicable, status |-> verdict]]
Pending(d) == Marked(d, "pending", section[d].applicable)
Stamped(t, verdict) ==
  [document EXCEPT ![t] = [status |-> verdict, expired |-> @.expired]]

-----------------------------------------------------------------------------
Init ==
  /\ status = "draft"
  /\ mineral \in BOOLEAN /\ profile = FALSE /\ account \in BOOLEAN
  /\ section = [d \in Domains |->
       [filled |-> FALSE, applicable |-> d # Mineral \/ mineral,
        status |-> "pending"]]
  /\ signed = {}
  /\ document = [t \in Types |-> None]
  /\ request = [r \in Requests |-> "none"]
  /\ answer = [r \in Requests |-> {}]
  /\ condition = [c \in Conditions |-> "none"]
  /\ restricted \in {{}, {Manual}}

\* The company: its services, fleet, drivers; and the applicant's account.
DeclareServices(m) ==
  /\ status \in EDITABLE
  /\ mineral' = m
  /\ section' = Marked(Mineral, section[Mineral].status, m)
  /\ UNCHANGED <<status, signed, document, request, answer, condition,
                 restricted, profile, account>>

SaveCompany ==
  /\ status \in EDITABLE
  /\ profile' \in BOOLEAN
  /\ UNCHANGED <<status, section, signed, document, request, answer, condition,
                 restricted, mineral, account>>

SetAccount ==
  /\ account' = ~account
  /\ UNCHANGED <<status, section, signed, document, request, answer, condition,
                 restricted, mineral, profile>>

\* The applicant: declare a section, upload evidence, submit, answer.
SaveSection(d) ==
  /\ status \in EDITABLE
  /\ section' = [section EXCEPT ![d] =
       [filled |-> TRUE, applicable |-> @.applicable, status |-> "pending"]]
  /\ signed' = signed \ {d}
  /\ UNCHANGED <<status, document, request, answer, condition, restricted, company>>

\* A version may name an outstanding condition only, and one that replaces
\* another names its condition again; answers with the old version are stale.
NewVersion(t) ==
  /\ LinkOf[t] # None => condition[LinkOf[t]] = "open"
  /\ document' = [document EXCEPT ![t] = [status |-> "pending", expired |-> FALSE]]
  /\ answer' = [r \in Requests |-> IF t \in answer[r] THEN {} ELSE answer[r]]
  /\ UNCHANGED <<request, condition, restricted, company>>

\* The first version of a checklist document, wherever the file stands: only a
\* file open to the applicant has the section's verdict withdrawn.
AddToChecklist(t) ==
  /\ t \in Checklist \ Current
  /\ NewVersion(t)
  /\ IF status \in EDITABLE
       THEN section' = Pending(DomainOf[t]) /\ signed' = signed \ {DomainOf[t]}
       ELSE UNCHANGED <<section, signed>>
  /\ UNCHANGED status

\* Fault: a renewal after approval leaves the file approved.
UploadKeepsApproval(t) ==
  /\ t \notin Checklist \ Current
  /\ \/ status \in EDITABLE
     \/ status = "conditionally_approved" /\ LinkOf[t] # None
     \/ status = "approved" /\ t \in Current
  /\ NewVersion(t)
  /\ section' = Pending(DomainOf[t])
  /\ signed' = signed \ {DomainOf[t]}
  /\ UNCHANGED status
\* Any other upload: condition evidence while the approval is conditional, a
\* renewal after approval, which reopens the file.
Upload(t) ==
  /\ t \notin Checklist \ Current
  /\ \/ status \in EDITABLE
     \/ status = "conditionally_approved" /\ LinkOf[t] # None
     \/ status = "approved" /\ t \in Current
  /\ NewVersion(t)
  /\ section' = Pending(DomainOf[t])
  /\ signed' = signed \ {DomainOf[t]}
  /\ status' = IF status = "approved" THEN "awaiting_information" ELSE status

\* The endpoint of the condition itself; the document takes its scope.
UploadEvidence(t) ==
  /\ LinkOf[t] # None
  /\ status \in {"conditionally_approved", "awaiting_information"}
  /\ t \in ScopedTypes <=> LinkOf[t] \in ScopedConditions
  /\ NewVersion(t)
  /\ section' = Pending(DomainOf[t])
  /\ signed' = signed \ {DomainOf[t]}
  /\ UNCHANGED status

Submit ==
  /\ status \in EDITABLE
  /\ Complete
  /\ status' = "submitted"
  /\ UNCHANGED <<section, signed, document, request, answer, condition,
                 restricted, company>>

Respond(r, ts) ==
  /\ status = "awaiting_information"
  /\ request[r] = "open"
  /\ ts # {} /\ ts \subseteq Current \ Rejected
  /\ request' = [request EXCEPT ![r] = "responded"]
  /\ answer' = [answer EXCEPT ![r] = ts]
  /\ UNCHANGED <<status, section, signed, document, condition, restricted, company>>

-----------------------------------------------------------------------------
\* The reviewer.
StartReview ==
  /\ status = "submitted"
  /\ status' = "under_review"
  /\ UNCHANGED <<section, signed, document, request, answer, condition,
                 restricted, company>>

MayPass(d) ==
  LET evidence == {t \in Current : DomainOf[t] = d}
  IN /\ section[d].filled
     /\ d \in EvidenceDomains => evidence # {}
     /\ Verified(evidence) /\ InDate(evidence)

ReviewSection(d, verdict, applicable) ==
  /\ status \in REVIEWABLE
  /\ ~applicable => d = Mineral /\ ~mineral
  /\ verdict = "passed" /\ applicable => MayPass(d)
  /\ section' = Marked(d, verdict, applicable)
  /\ signed' = IF applicable THEN signed \cup {d} ELSE signed \ {d}
  /\ UNCHANGED <<status, document, request, answer, condition, restricted, company>>

Verify(t) ==
  /\ status \in REVIEWABLE
  /\ t \in Current
  /\ document[t] = [status |-> "pending", expired |-> FALSE]
  /\ document' = Stamped(t, "verified")
  /\ status' = Resume(request, document')
  /\ UNCHANGED <<section, signed, request, answer, condition, restricted, company>>

RejectDocument(t) ==
  /\ status \in REVIEWABLE
  /\ t \in Current
  /\ document[t].status = "pending"
  /\ document' = Stamped(t, "rejected")
  /\ section' = Marked(DomainOf[t], "attention", section[DomainOf[t]].applicable)
  /\ status' = IF status = "conditionally_approved" THEN status
                                                    ELSE "awaiting_information"
  /\ UNCHANGED <<signed, request, answer, condition, restricted, company>>

RaiseRequest(r) ==
  /\ status \in REVIEWABLE
  /\ request[r] = "none"
  /\ request' = [request EXCEPT ![r] = "open"]
  /\ status' = "awaiting_information"
  /\ UNCHANGED <<section, signed, document, answer, condition, restricted, company>>

AcceptResponse(r) ==
  /\ status \in REVIEWABLE
  /\ request[r] = "responded"
  /\ answer[r] # {} /\ Verified(answer[r]) /\ InDate(answer[r])
  /\ request' = [request EXCEPT ![r] = "accepted"]
  /\ answer' = [answer EXCEPT ![r] = {}]
  /\ status' = Resume(request', document)
  /\ UNCHANGED <<section, signed, document, condition, restricted, company>>

ReturnResponse(r) ==
  /\ status \in REVIEWABLE
  /\ request[r] = "responded"
  /\ request' = [request EXCEPT ![r] = "open"]
  /\ answer' = [answer EXCEPT ![r] = {}]
  /\ UNCHANGED <<status, section, signed, document, condition, restricted, company>>

\* Fault: a withdrawn request does not hand the file back.
WithdrawOnly(r) ==
  /\ status \in REVIEWABLE
  /\ request[r] \in {"open", "responded"}
  /\ request' = [request EXCEPT ![r] = "accepted"]
  /\ answer' = [answer EXCEPT ![r] = {}]
  /\ UNCHANGED <<status, section, signed, document, condition, restricted, company>>
\* The request is no longer needed, answered or not.
Withdraw(r) ==
  /\ status \in REVIEWABLE
  /\ request[r] \in {"open", "responded"}
  /\ request' = [request EXCEPT ![r] = "accepted"]
  /\ answer' = [answer EXCEPT ![r] = {}]
  /\ status' = Resume(request', document)
  /\ UNCHANGED <<section, signed, document, condition, restricted, company>>

Opened(cs) == [c \in Conditions |-> IF c \in cs THEN "open" ELSE condition[c]]

\* add_condition, for each of cs: a scoped condition restricts its service.
Add(cs) ==
  /\ \A c \in cs : condition[c] = "none"
  /\ condition' = Opened(cs)
  /\ restricted' = restricted \cup (cs \cap ScopedConditions)

AddCondition(c) ==
  /\ status \in REVIEWABLE
  /\ Add({c})
  /\ UNCHANGED <<status, section, signed, document, request, answer, company>>

ClearCondition(c) ==
  /\ status \in REVIEWABLE
  /\ condition[c] = "open"
  /\ Linked(c) # {} /\ Verified(Linked(c)) /\ InDate(Linked(c))
  /\ condition' = [condition EXCEPT ![c] = "cleared"]
  /\ UNCHANGED <<status, section, signed, document, request, answer,
                 restricted, company>>

Approve ==
  /\ status \in {"under_review", "conditionally_approved"}
  /\ MayApprove({"passed"})
  /\ Outstanding = {}
  /\ restricted = {}
  /\ status' = "approved"
  /\ UNCHANGED <<section, signed, document, request, answer, condition,
                 restricted, company>>

ApproveConditionally(cs) ==
  /\ status = "under_review"
  /\ MayApprove({"passed", "attention"})
  /\ Outstanding \cup cs # {}
  /\ Add(cs)
  /\ status' = "conditionally_approved"
  /\ UNCHANGED <<section, signed, document, request, answer, company>>

Reject ==
  /\ status \in {"under_review", "conditionally_approved"}
  /\ status' = "rejected"
  /\ UNCHANGED <<section, signed, document, request, answer, condition,
                 restricted, company>>

-----------------------------------------------------------------------------
\* Restrictions: set by a reviewer, by the monitor, and resolved.  Several may
\* have one source; resolving one of them may leave the source restricted.
PlaceRestriction ==
  /\ restricted' = restricted \cup {Manual}
  /\ UNCHANGED <<status, section, signed, document, request, answer, condition, company>>

Monitor ==
  /\ status \notin {"draft", "rejected"}
  /\ restricted' = restricted \cup {t \in Current \cap ScopedTypes : document[t].expired}
  /\ UNCHANGED <<status, section, signed, document, request, answer, condition, company>>

\* Fault: the source condition may be outstanding.
ResolvableEarly(x) ==
  x \in Types => x \in Current /\ document[x] = [status |-> "verified", expired |-> FALSE]
Resolvable(x) ==
  /\ x \in Conditions => condition[x] = "cleared"
  /\ x \in Types => x \in Current /\ document[x] = [status |-> "verified", expired |-> FALSE]

Resolve(x) ==
  /\ x \in restricted
  /\ Resolvable(x)
  /\ restricted' = restricted \ {x}
  /\ UNCHANGED <<status, section, signed, document, request, answer, condition, company>>

\* The calendar.
Expire(t) ==
  /\ t \in Current
  /\ ~document[t].expired
  /\ document' = [document EXCEPT ![t] = [status |-> @.status, expired |-> TRUE]]
  /\ UNCHANGED <<status, section, signed, request, answer, condition, restricted, company>>

Next ==
  \/ \E m \in BOOLEAN : DeclareServices(m)
  \/ SaveCompany \/ SetAccount \/ Submit \/ StartReview \/ Approve \/ Reject
  \/ PlaceRestriction \/ Monitor
  \/ \E d \in Domains :
       \/ SaveSection(d)
       \/ \E v \in Verdicts, a \in BOOLEAN : ReviewSection(d, v, a)
  \/ \E t \in Types :
       \/ AddToChecklist(t) \/ Upload(t) \/ UploadEvidence(t)
       \/ Verify(t) \/ RejectDocument(t) \/ Expire(t)
  \/ \E r \in Requests :
       \/ RaiseRequest(r) \/ AcceptResponse(r) \/ ReturnResponse(r) \/ Withdraw(r)
       \/ \E ts \in SUBSET Types : Respond(r, ts)
  \/ \E c \in Conditions : AddCondition(c) \/ ClearCondition(c)
  \/ \E cs \in SUBSET Conditions : ApproveConditionally(cs)
  \/ \E x \in Sources : Resolve(x)

Spec == Init /\ [][Next]_vars
-----------------------------------------------------------------------------
\* A file that waits for information waits for somebody: a request is not
\* accepted, or a document is refused or not yet reviewed.  Otherwise nothing
\* moves it back to a decision (resume_review, RequestViewSet.withdraw).
NotStranded ==
  status = "awaiting_information" =>
    \/ Unaccepted(request) # {}
    \/ \E t \in Current : document[t].status \in {"pending", "rejected"}

\* What the reviewer asked for or refused keeps the file from a verdict: it waits
\* for the request, and a refused document admits at most a rejection.
WaitingHoldsTheFile ==
  /\ Unaccepted(request) # {} => status = "awaiting_information"
  /\ Rejected # {} =>
       status \in {"awaiting_information", "conditionally_approved", "rejected"}

\* A fully approved file has declared fleet and services, verified checklist
\* documents, sections all passed and nothing open, whatever was added to the
\* checklist, expired or restricted since (decide, require_approval).
ApprovedStands ==
  status = "approved" =>
    /\ profile /\ Outstanding = {} /\ Unaccepted(request) = {}
    /\ RequiredTypes \subseteq Current /\ Verified(RequiredTypes)
    /\ \A d \in Required : section[d].filled /\ section[d].status = "passed"

\* A cleared condition keeps the verified evidence it was cleared on.
ClearedOnEvidence ==
  \A c \in Conditions :
    condition[c] = "cleared" => Linked(c) # {} /\ Verified(Linked(c))

\* A service an outstanding condition is about stays restricted, whichever of
\* its restrictions are resolved meanwhile (add_condition, resolve).
OpenConditionRestricts == Outstanding \cap ScopedConditions \subseteq restricted

\* From the day it is imposed a condition holds back its service, and once it is
\* cleared what it was cleared on is kept (add_condition, ConditionViewSet.review).
ConditionsHold == OpenConditionRestricts /\ ClearedOnEvidence

\* services.require_approval asks to "Complete the required domain sign-offs.":
\* at approval every section that applies was signed off as one that applies.
ApprovedOnSignOffs == status = "approved" => Required \subseteq signed
=============================================================================
