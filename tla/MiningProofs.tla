----------------------------- MODULE MiningProofs -----------------------------
(* What holds at a mining company for any number of reviewers, applications,  *)
(* sections, findings and requests: the claims of the mining desk, the score  *)
(* and findings of a site, and the file of its logistics desk.                *)
EXTENDS MCMining, SumProofs, TLAPS

-----------------------------------------------------------------------------
(* LogisticsDesk, for every checklist, every way to file documents under      *)
(* sections, scopes and conditions.                                           *)

Inv ==
  /\ LogisticsTypeOK
  /\ NotStranded
  /\ WaitingHoldsTheFile
  /\ ApprovedStands
  /\ ClearedOnEvidence
  /\ OpenConditionRestricts

LEMMA InitInv == Init => Inv
<1> SUFFICES ASSUME Init PROVE Inv
  OBVIOUS
<1>1. Current = {} /\ Rejected = {}
  BY DEF Init, Current, Rejected
<1>2. LogisticsTypeOK
  BY LogisticsAssumption
     DEF Init, LogisticsTypeOK, Statuses, Section, Document, Sources
<1>3. Unaccepted(request) = {} /\ Outstanding = {}
  BY DEF Init, Unaccepted, Outstanding
<1>4. NotStranded /\ WaitingHoldsTheFile /\ ApprovedStands
  BY <1>1, <1>3 DEF Init, NotStranded, WaitingHoldsTheFile, ApprovedStands
<1>5. ClearedOnEvidence /\ OpenConditionRestricts
  BY <1>3 DEF Init, ClearedOnEvidence, OpenConditionRestricts
<1> QED
  BY <1>2, <1>4, <1>5 DEF Inv

-----------------------------------------------------------------------------
(* What the company and its account declare, and the verdicts on sections. *)

LEMMA MarkedTyped ==
  ASSUME section \in [Domains -> Section], NEW d \in Domains,
         NEW v \in Verdicts \cup {"pending"}, NEW a \in BOOLEAN
  PROVE  /\ Marked(d, v, a) \in [Domains -> Section]
         /\ Pending(d) \in [Domains -> Section]
BY DEF Marked, Pending, Section

\* None of these steps touches documents, requests, conditions or restrictions,
\* and those that touch a section or the profile are not open to an approved file.
LEMMA SectionStep ==
  ASSUME Inv,
         \/ \E m \in BOOLEAN : DeclareServices(m)
         \/ SaveCompany
         \/ SetAccount
         \/ \E d \in Domains : SaveSection(d)
         \/ \E d \in Domains, v \in Verdicts, a \in BOOLEAN : ReviewSection(d, v, a)
  PROVE  Inv'
<1> USE DEF Inv
<1>1. UNCHANGED <<status, document, request, condition, restricted>>
  BY DEF DeclareServices, SaveCompany, SetAccount, SaveSection, ReviewSection, company
<1>2. LogisticsTypeOK'
  <2>1. ASSUME NEW m \in BOOLEAN, DeclareServices(m) PROVE LogisticsTypeOK'
    <3>1. Mineral \in Domains
      BY LogisticsAssumption
    <3>2. section[Mineral].status \in Verdicts \cup {"pending"}
      BY <3>1 DEF LogisticsTypeOK, Section
    <3>3. section' \in [Domains -> Section]
      BY <2>1, <3>1, <3>2, MarkedTyped DEF LogisticsTypeOK, DeclareServices
    <3> QED
      BY <2>1, <3>3 DEF LogisticsTypeOK, DeclareServices
  <2>2. CASE SaveCompany \/ SetAccount
    BY <2>2 DEF LogisticsTypeOK, SaveCompany, SetAccount
  <2>3. ASSUME NEW d \in Domains, SaveSection(d) PROVE LogisticsTypeOK'
    BY <2>3 DEF LogisticsTypeOK, SaveSection, company, Section
  <2>4. ASSUME NEW d \in Domains, NEW v \in Verdicts, NEW a \in BOOLEAN,
               ReviewSection(d, v, a)
        PROVE  LogisticsTypeOK'
    BY <2>4, MarkedTyped DEF LogisticsTypeOK, ReviewSection, company
  <2> QED
    BY <2>1, <2>2, <2>3, <2>4
<1>3. status = "approved" => UNCHANGED <<section, profile>>
  BY DEF DeclareServices, SaveCompany, SetAccount, SaveSection, ReviewSection,
         company, EDITABLE, REVIEWABLE
<1>4. NotStranded' /\ WaitingHoldsTheFile'
  BY <1>1 DEF NotStranded, WaitingHoldsTheFile, Unaccepted, Current, Rejected
<1>5. ApprovedStands'
  BY <1>1, <1>3 DEF ApprovedStands, Outstanding, Unaccepted, Current, Verified, Required
<1>6. ClearedOnEvidence' /\ OpenConditionRestricts'
  BY <1>1 DEF ClearedOnEvidence, OpenConditionRestricts, Linked, Current, Verified,
              Outstanding
<1> QED
  BY <1>2, <1>4, <1>5, <1>6

-----------------------------------------------------------------------------
(* Uploads. *)

\* What the three uploads share: a new pending version, outside the evidence of
\* every cleared condition.
LEMMA NewVersionStep ==
  ASSUME Inv, NEW t \in Types, NewVersion(t)
  PROVE  /\ document' \in [Types -> Document \cup {None}]
         /\ answer' \in [Requests -> SUBSET Types]
         /\ document'[t] # None /\ document'[t].status = "pending"
         /\ \A u \in Types : u # t => document'[u] = document[u]
         /\ Current' = Current \cup {t}
         /\ Rejected' \subseteq Rejected
         /\ ClearedOnEvidence'
         /\ OpenConditionRestricts'
<1> DEFINE new == [status |-> "pending", expired |-> FALSE]
<1>0. new \in Document
  BY DEF Document
<1>1. new \in Document /\ new # None
  BY <1>0, LogisticsAssumption
<1>2. document' = [document EXCEPT ![t] = new] /\ UNCHANGED <<condition, restricted>>
  BY DEF NewVersion
<1> HIDE DEF new
<1>3. /\ document' \in [Types -> Document \cup {None}]
      /\ document'[t] = new
      /\ \A u \in Types : u # t => document'[u] = document[u]
  BY <1>1, <1>2 DEF Inv, LogisticsTypeOK
<1>4. answer' \in [Requests -> SUBSET Types]
  BY DEF Inv, LogisticsTypeOK, NewVersion
<1>5. Current' = Current \cup {t}
  BY <1>1, <1>3 DEF Current
<1>6. Rejected' \subseteq Rejected
  BY <1>3, <1>5 DEF Rejected, Current, new
<1>7. ClearedOnEvidence'
  <2> SUFFICES ASSUME NEW c \in Conditions, condition'[c] = "cleared"
               PROVE  Linked(c)' # {} /\ Verified(Linked(c))'
    BY DEF ClearedOnEvidence
  <2>1. Linked(c) # {} /\ Verified(Linked(c))
    BY <1>2 DEF Inv, ClearedOnEvidence
  <2>2. LinkOf[t] # c
    BY <1>2, LogisticsAssumption DEF NewVersion
  <2>3. Linked(c)' = Linked(c) /\ t \notin Linked(c)
    BY <1>5, <2>2 DEF Linked
  <2> QED
    BY <1>3, <2>1, <2>3 DEF Verified, Linked, Current
<1>8. OpenConditionRestricts'
  BY <1>2 DEF Inv, OpenConditionRestricts, Outstanding
<1> QED
  BY <1>1, <1>3, <1>4, <1>5, <1>6, <1>7, <1>8 DEF new

\* An upload that resets its section; after approval it reopens the file.
LEMMA UploadStep ==
  ASSUME Inv, NEW t \in Types, NewVersion(t),
         section' = Pending(DomainOf[t]), signed' = signed \ {DomainOf[t]},
         status' = IF status = "approved" THEN "awaiting_information" ELSE status
  PROVE  Inv'
<1>1. UNCHANGED <<request, condition, restricted, company>>
  BY DEF NewVersion
<1>2. LogisticsTypeOK'
  <2>1. DomainOf[t] \in Domains
    BY LogisticsAssumption
  <2>2. section' \in [Domains -> Section]
    BY <2>1, MarkedTyped DEF Inv, LogisticsTypeOK
  <2> QED
    BY <1>1, <2>2, NewVersionStep DEF Inv, LogisticsTypeOK, Statuses, company
<1>3. NotStranded'
  BY NewVersionStep DEF NotStranded
<1>4. WaitingHoldsTheFile'
  BY <1>1, NewVersionStep DEF Inv, WaitingHoldsTheFile, Unaccepted
<1>5. ApprovedStands'
  BY DEF ApprovedStands
<1> QED
  BY <1>2, <1>3, <1>4, <1>5, NewVersionStep DEF Inv

\* The first version of a checklist document leaves an approved file approved: it
\* is none of the documents the approval rested on.
LEMMA AddToChecklistStep ==
  ASSUME Inv, NEW t \in Types, AddToChecklist(t)
  PROVE  Inv'
<1>1. CASE status \in EDITABLE
  BY <1>1, UploadStep DEF AddToChecklist, EDITABLE
<1>2. CASE status \notin EDITABLE
  <2>1. NewVersion(t) /\ UNCHANGED <<status, section, signed, request, condition,
                                     restricted, company>>
    BY <1>2 DEF AddToChecklist, NewVersion
  <2>2. LogisticsTypeOK'
    BY <2>1, NewVersionStep DEF Inv, LogisticsTypeOK, company
  <2>3. NotStranded'
    BY <1>2, <2>1 DEF NotStranded, EDITABLE
  <2>4. WaitingHoldsTheFile'
    BY <2>1, NewVersionStep DEF Inv, WaitingHoldsTheFile, Unaccepted
  <2>5. ApprovedStands'
    <3> SUFFICES ASSUME status = "approved" PROVE ApprovedStands'
      BY <2>1 DEF ApprovedStands
    <3>1. t \notin RequiredTypes
      BY DEF AddToChecklist, Inv, ApprovedStands
    <3>2. RequiredTypes \subseteq Current' /\ Verified(RequiredTypes)'
      BY <2>1, <3>1, NewVersionStep, LogisticsAssumption
         DEF Inv, ApprovedStands, Verified
    <3> QED
      BY <2>1, <3>2
         DEF Inv, ApprovedStands, Outstanding, Unaccepted, Required, company
  <2> QED
    BY <2>1, <2>2, <2>3, <2>4, <2>5, NewVersionStep DEF Inv
<1> QED
  BY <1>1, <1>2

LEMMA UploadSteps ==
  ASSUME Inv, NEW t \in Types, Upload(t) \/ UploadEvidence(t) \/ AddToChecklist(t)
  PROVE  Inv'
<1>1. CASE Upload(t)
  BY <1>1, UploadStep DEF Upload
<1>2. CASE UploadEvidence(t)
  BY <1>2, UploadStep DEF UploadEvidence
<1> QED
  BY <1>1, <1>2, AddToChecklistStep

-----------------------------------------------------------------------------
(* Handlers that move the status alone. *)

\* Each is stopped by what the file waits for, or ends in a rejection.
LEMMA StatusStep ==
  ASSUME Inv, Submit \/ StartReview \/ Approve \/ Reject
  PROVE  Inv'
<1> USE DEF Inv
<1>1. UNCHANGED <<section, signed, document, request, answer, condition,
                  restricted, company>>
  BY DEF Submit, StartReview, Approve, Reject
<1>2. LogisticsTypeOK'
  BY <1>1 DEF LogisticsTypeOK, company, Statuses, Submit, StartReview, Approve, Reject
<1>3. NotStranded'
  BY DEF NotStranded, Submit, StartReview, Approve, Reject
<1>4. status' = "rejected" \/ (Unaccepted(request) = {} /\ Rejected = {})
  BY DEF Submit, StartReview, Approve, Reject, MayApprove, Complete, WaitingHoldsTheFile
<1>5. Unaccepted(request) = {}
  BY DEF WaitingHoldsTheFile, Submit, StartReview, Approve, Reject, Complete
<1>6. WaitingHoldsTheFile'
  BY <1>1, <1>4, <1>5 DEF WaitingHoldsTheFile, Unaccepted, Rejected, Current
<1>7. ApprovedStands'
  <2> SUFFICES ASSUME status' = "approved" PROVE ApprovedStands'
    BY DEF ApprovedStands
  <2>1. Approve
    BY DEF Submit, StartReview, Reject
  <2>2. /\ profile /\ Outstanding = {} /\ Unaccepted(request) = {}
        /\ RequiredTypes \subseteq Current /\ Verified(RequiredTypes)
        /\ \A d \in Required : section[d].filled /\ section[d].status = "passed"
    BY <2>1 DEF Approve, MayApprove, Complete, Verified
  <2> QED
    BY <1>1, <2>2 DEF ApprovedStands, Outstanding, Unaccepted, Current, Verified,
                      Required, company
<1>8. ClearedOnEvidence' /\ OpenConditionRestricts'
  BY <1>1 DEF ClearedOnEvidence, OpenConditionRestricts, Linked, Current, Verified,
              Outstanding
<1> QED
  BY <1>2, <1>3, <1>6, <1>7, <1>8

-----------------------------------------------------------------------------
(* The reviewer's verdicts on documents, and the calendar. *)

LEMMA StampedFacts ==
  ASSUME LogisticsTypeOK, NEW t \in Current, NEW v \in {"verified", "rejected"},
         document' = Stamped(t, v)
  PROVE  /\ document' \in [Types -> Document \cup {None}]
         /\ document'[t].status = v
         /\ \A u \in Types : u # t => document'[u] = document[u]
         /\ Current' = Current
<1> DEFINE new == [status |-> v, expired |-> document[t].expired]
<1>1. t \in Types /\ document[t] \in Document
  BY DEF Current, LogisticsTypeOK
<1>2. new \in Document
  BY <1>1 DEF Document
<1>3. new # None
  BY <1>2, LogisticsAssumption
<1>4. document' = [document EXCEPT ![t] = new]
  BY DEF Stamped
<1>5. new.status = v
  OBVIOUS
<1> HIDE DEF new
<1>6. /\ document' \in [Types -> Document \cup {None}]
      /\ document'[t] = new
      /\ \A u \in Types : u # t => document'[u] = document[u]
  BY <1>1, <1>2, <1>4 DEF LogisticsTypeOK
<1>7. Current' = Current
  BY <1>1, <1>3, <1>6 DEF Current
<1> QED
  BY <1>5, <1>6, <1>7

\* A verified document takes nothing away; with the last refused one replaced the
\* file returns to the reviewer.
LEMMA VerifyStep ==
  ASSUME Inv, NEW t \in Types, Verify(t)
  PROVE  Inv'
<1>1. /\ document' = Stamped(t, "verified")
      /\ UNCHANGED <<section, signed, request, answer, condition, restricted, company>>
      /\ status' = Resume(request, document')
      /\ t \in Current /\ status # "approved"
  BY DEF Verify, REVIEWABLE
<1>2. /\ document' \in [Types -> Document \cup {None}]
      /\ document'[t].status = "verified"
      /\ \A u \in Types : u # t => document'[u] = document[u]
      /\ Current' = Current
  BY <1>1, StampedFacts DEF Inv
<1>3. LogisticsTypeOK'
  BY <1>1, <1>2 DEF Inv, LogisticsTypeOK, Resume, Statuses, company
<1>4. Rejected' \subseteq Rejected
  BY <1>2 DEF Rejected, Current
<1>5. status' = "awaiting_information" =>
        Unaccepted(request) # {} \/ \E u \in Current' : document'[u].status = "rejected"
  BY <1>1 DEF Resume, Current
<1>6. status' = status \/ (Unaccepted(request) = {} /\ Rejected' = {})
  BY <1>1 DEF Resume, Rejected, Current
<1>7. NotStranded'
  BY <1>1, <1>5 DEF NotStranded, Unaccepted
<1>8. WaitingHoldsTheFile'
  BY <1>1, <1>4, <1>6 DEF Inv, WaitingHoldsTheFile, Unaccepted
<1>9. ApprovedStands'
  BY <1>1 DEF ApprovedStands, Resume
<1>10. ClearedOnEvidence'
  <2> SUFFICES ASSUME NEW c \in Conditions, condition'[c] = "cleared"
               PROVE  Linked(c)' # {} /\ Verified(Linked(c))'
    BY DEF ClearedOnEvidence
  <2>1. Linked(c) # {} /\ Verified(Linked(c)) /\ Linked(c)' = Linked(c)
    BY <1>1, <1>2 DEF Inv, ClearedOnEvidence, Linked
  <2> QED
    BY <1>2, <2>1 DEF Linked, Verified, Current
<1>11. OpenConditionRestricts'
  BY <1>1 DEF Inv, OpenConditionRestricts, Outstanding
<1> QED
  BY <1>3, <1>7, <1>8, <1>9, <1>10, <1>11 DEF Inv

\* A refused document was pending, so no cleared condition rests on it.
LEMMA RejectDocumentStep ==
  ASSUME Inv, NEW t \in Types, RejectDocument(t)
  PROVE  Inv'
<1>1. /\ document' = Stamped(t, "rejected")
      /\ UNCHANGED <<signed, request, answer, condition, restricted, company>>
      /\ t \in Current /\ document[t].status = "pending"
      /\ status \in REVIEWABLE
      /\ status' = IF status = "conditionally_approved" THEN status
                                                       ELSE "awaiting_information"
      /\ section' = Marked(DomainOf[t], "attention", section[DomainOf[t]].applicable)
  BY DEF RejectDocument
<1>2. /\ document' \in [Types -> Document \cup {None}]
      /\ document'[t].status = "rejected"
      /\ \A u \in Types : u # t => document'[u] = document[u]
      /\ Current' = Current
  BY <1>1, StampedFacts DEF Inv
<1>3. section' \in [Domains -> Section]
  <2>1. DomainOf[t] \in Domains
    BY LogisticsAssumption
  <2>2. section[DomainOf[t]].applicable \in BOOLEAN
    BY <2>1 DEF Inv, LogisticsTypeOK, Section
  <2> QED
    BY <1>1, <2>1, <2>2, MarkedTyped DEF Inv, LogisticsTypeOK, Verdicts
<1>4. LogisticsTypeOK'
  BY <1>1, <1>2, <1>3 DEF Inv, LogisticsTypeOK, Statuses, company
<1>5. NotStranded'
  BY <1>1, <1>2 DEF NotStranded
<1>6. WaitingHoldsTheFile'
  BY <1>1 DEF Inv, WaitingHoldsTheFile, Unaccepted
<1>7. ApprovedStands'
  BY <1>1 DEF ApprovedStands
<1>8. ClearedOnEvidence'
  <2> SUFFICES ASSUME NEW c \in Conditions, condition'[c] = "cleared"
               PROVE  Linked(c)' # {} /\ Verified(Linked(c))'
    BY DEF ClearedOnEvidence
  <2>1. Linked(c) # {} /\ Verified(Linked(c)) /\ t \notin Linked(c)
    BY <1>1 DEF Inv, ClearedOnEvidence, Verified
  <2> QED
    BY <1>2, <2>1 DEF Linked, Verified, Current
<1>9. OpenConditionRestricts'
  BY <1>1 DEF Inv, OpenConditionRestricts, Outstanding
<1> QED
  BY <1>4, <1>5, <1>6, <1>7, <1>8, <1>9 DEF Inv

LEMMA ExpireStep ==
  ASSUME Inv, NEW t \in Types, Expire(t)
  PROVE  Inv'
<1> DEFINE new == [status |-> document[t].status, expired |-> TRUE]
<1>1. UNCHANGED <<status, section, signed, request, answer, condition, restricted, company>>
  BY DEF Expire
<1>2. document[t] \in Document
  BY DEF Expire, Current, Inv, LogisticsTypeOK
<1>3. new \in Document
  BY <1>2 DEF Document
<1>4. new # None
  BY <1>3, LogisticsAssumption
<1>5. document' = [document EXCEPT ![t] = new]
  BY DEF Expire
<1>6. new.status = document[t].status
  OBVIOUS
<1> HIDE DEF new
<1>7. /\ document' \in [Types -> Document \cup {None}]
      /\ \A u \in Types : document[u] # None <=> document'[u] # None
      /\ \A u \in Current : document'[u].status = document[u].status
  <2>1. document[t] # None /\ document \in [Types -> Document \cup {None}]
    BY DEF Expire, Current, Inv, LogisticsTypeOK
  <2>2. /\ document' \in [Types -> Document \cup {None}]
        /\ document'[t] = new
        /\ \A u \in Types : u # t => document'[u] = document[u]
    BY <1>3, <1>5, <2>1
  <2> QED
    BY <1>4, <1>6, <2>1, <2>2 DEF Current
<1>8. Current' = Current /\ Rejected' = Rejected
  BY <1>7 DEF Current, Rejected
<1>9. LogisticsTypeOK'
  BY <1>1, <1>7 DEF Inv, LogisticsTypeOK, company
<1>10. NotStranded' /\ WaitingHoldsTheFile'
  BY <1>1, <1>7, <1>8 DEF Inv, NotStranded, WaitingHoldsTheFile, Unaccepted
<1>11. ApprovedStands'
  BY <1>1, <1>7, <1>8
     DEF Inv, ApprovedStands, Outstanding, Unaccepted, Verified, Required, company
<1>12. ClearedOnEvidence' /\ OpenConditionRestricts'
  BY <1>1, <1>7, <1>8
     DEF Inv, ClearedOnEvidence, OpenConditionRestricts, Linked, Verified, Outstanding
<1> QED
  BY <1>9, <1>10, <1>11, <1>12 DEF Inv

-----------------------------------------------------------------------------
(* Requests, conditions and restrictions. *)

\* A request that is closed hands the file back unless something is refused or
\* asked for still.
LEMMA RequestStep ==
  ASSUME Inv, NEW r \in Requests,
         \/ RaiseRequest(r) \/ AcceptResponse(r) \/ ReturnResponse(r) \/ Withdraw(r)
         \/ \E ts \in SUBSET Types : Respond(r, ts)
  PROVE  Inv'
<1>1. UNCHANGED <<section, signed, document, condition, restricted, company>>
  BY DEF RaiseRequest, AcceptResponse, ReturnResponse, Withdraw, Respond
<1>2. /\ request' \in [Requests -> {"none", "open", "responded", "accepted"}]
      /\ answer' \in [Requests -> SUBSET Types]
      /\ status' \in Statuses
  BY DEF Inv, LogisticsTypeOK, RaiseRequest, AcceptResponse, ReturnResponse, Withdraw,
         Respond, Resume, Statuses
<1>3. LogisticsTypeOK'
  BY <1>1, <1>2 DEF Inv, LogisticsTypeOK, company
<1>4. status # "approved" /\ status' # "approved" /\ status # "rejected"
  BY DEF RaiseRequest, AcceptResponse, ReturnResponse, Withdraw, Respond, Resume,
         REVIEWABLE
<1>5. \A q \in Requests : q # r => request'[q] = request[q]
  BY DEF Inv, LogisticsTypeOK, RaiseRequest, AcceptResponse, ReturnResponse, Withdraw,
         Respond
<1>6. ASSUME RaiseRequest(r) PROVE NotStranded' /\ WaitingHoldsTheFile'
  <2>1. status' = "awaiting_information" /\ r \in Unaccepted(request')
    BY <1>6 DEF RaiseRequest, Unaccepted, Inv, LogisticsTypeOK
  <2> QED
    BY <2>1 DEF NotStranded, WaitingHoldsTheFile, Unaccepted
<1>7. ASSUME ReturnResponse(r) \/ \E ts \in SUBSET Types : Respond(r, ts)
      PROVE NotStranded' /\ WaitingHoldsTheFile'
  <2>1. /\ status' = status /\ r \in Unaccepted(request) /\ r \in Unaccepted(request')
    BY <1>7 DEF ReturnResponse, Respond, Unaccepted, Inv, LogisticsTypeOK
  <2>2. status = "awaiting_information"
    BY <2>1 DEF Inv, WaitingHoldsTheFile
  <2> QED
    BY <2>1, <2>2 DEF NotStranded, WaitingHoldsTheFile, Unaccepted
<1>8. ASSUME AcceptResponse(r) \/ Withdraw(r) PROVE NotStranded' /\ WaitingHoldsTheFile'
  <2>1. r \in Unaccepted(request) /\ status' = Resume(request', document)
    BY <1>8 DEF AcceptResponse, Withdraw, Unaccepted
  <2>2. status = "awaiting_information"
    BY <2>1 DEF Inv, WaitingHoldsTheFile
  <2>3. CASE status' = "under_review" /\ Unaccepted(request') = {} /\ Rejected = {}
    BY <1>1, <2>3 DEF NotStranded, WaitingHoldsTheFile, Unaccepted, Rejected, Current
  <2>4. CASE /\ status' = "awaiting_information"
             /\ Unaccepted(request') # {} \/ \E u \in Current : document[u].status = "rejected"
    BY <1>1, <2>4 DEF NotStranded, WaitingHoldsTheFile, Unaccepted, Rejected, Current
  <2> QED
    BY <2>1, <2>2, <2>3, <2>4 DEF Resume, Rejected, Current
<1>9. NotStranded' /\ WaitingHoldsTheFile'
  BY <1>6, <1>7, <1>8
<1>10. ApprovedStands'
  BY <1>4 DEF ApprovedStands
<1>11. ClearedOnEvidence' /\ OpenConditionRestricts'
  BY <1>1 DEF Inv, ClearedOnEvidence, OpenConditionRestricts, Linked, Current, Verified,
              Outstanding
<1> QED
  BY <1>3, <1>9, <1>10, <1>11 DEF Inv

\* A condition restricts its service from the step that sets it.
LEMMA AddStep ==
  ASSUME Inv, NEW cs \in SUBSET Conditions, Add(cs),
         UNCHANGED <<section, signed, document, request, answer, company>>,
         \/ status' = status /\ status # "approved"
         \/ /\ status' = "conditionally_approved" /\ Rejected = {}
            /\ Unaccepted(request) = {}
  PROVE  Inv'
<1>1. /\ condition' \in [Conditions -> {"none", "open", "cleared"}]
      /\ restricted' \subseteq Sources
  BY DEF Inv, LogisticsTypeOK, Add, Opened, Sources
<1>2. LogisticsTypeOK'
  BY <1>1 DEF Inv, LogisticsTypeOK, company, Statuses
<1>3. NotStranded' /\ WaitingHoldsTheFile' /\ ApprovedStands'
  BY DEF Inv, NotStranded, WaitingHoldsTheFile, ApprovedStands, Unaccepted, Rejected,
         Current
<1>4. \A c \in Conditions : condition'[c] = "cleared" => condition[c] = "cleared"
  BY DEF Add, Opened
<1>5. ClearedOnEvidence'
  BY <1>4 DEF Inv, ClearedOnEvidence, Linked, Current, Verified
<1>6. Outstanding' \subseteq Outstanding \cup cs
  BY DEF Outstanding, Add, Opened
<1>7. OpenConditionRestricts'
  BY <1>6 DEF Inv, OpenConditionRestricts, Add
<1> QED
  BY <1>2, <1>3, <1>5, <1>7 DEF Inv

LEMMA ConditionStep ==
  ASSUME Inv,
         \/ \E c \in Conditions : AddCondition(c) \/ ClearCondition(c)
         \/ \E cs \in SUBSET Conditions : ApproveConditionally(cs)
  PROVE  Inv'
<1>1. ASSUME NEW c \in Conditions, AddCondition(c) PROVE Inv'
  <2>1. {c} \in SUBSET Conditions /\ status # "approved"
    BY <1>1 DEF AddCondition, REVIEWABLE
  <2> QED
    BY <1>1, <2>1, AddStep DEF AddCondition
<1>2. ASSUME NEW cs \in SUBSET Conditions, ApproveConditionally(cs) PROVE Inv'
  <2>1. Rejected = {} /\ Unaccepted(request) = {}
    BY <1>2 DEF ApproveConditionally, MayApprove, Complete
  <2> QED
    BY <1>2, <2>1, AddStep DEF ApproveConditionally
<1>3. ASSUME NEW c \in Conditions, ClearCondition(c) PROVE Inv'
  <2>1. /\ UNCHANGED <<status, section, signed, document, request, answer, restricted,
                       company>>
        /\ condition' = [condition EXCEPT ![c] = "cleared"]
        /\ Linked(c) # {} /\ Verified(Linked(c)) /\ status # "approved"
    BY <1>3 DEF ClearCondition, REVIEWABLE
  <2>2. LogisticsTypeOK'
    BY <2>1 DEF Inv, LogisticsTypeOK, company
  <2>3. NotStranded' /\ WaitingHoldsTheFile' /\ ApprovedStands'
    BY <2>1 DEF Inv, NotStranded, WaitingHoldsTheFile, ApprovedStands, Unaccepted,
                Rejected, Current
  <2>4. ClearedOnEvidence'
    BY <2>1 DEF Inv, LogisticsTypeOK, ClearedOnEvidence, Linked, Current, Verified
  <2>5. Outstanding' \subseteq Outstanding
    BY <2>1 DEF Inv, LogisticsTypeOK, Outstanding
  <2>6. OpenConditionRestricts'
    BY <2>1, <2>5 DEF Inv, OpenConditionRestricts
  <2> QED
    BY <2>2, <2>3, <2>4, <2>6 DEF Inv
<1> QED
  BY <1>1, <1>2, <1>3

\* A restriction with an outstanding condition behind it is not resolved.
LEMMA RestrictionStep ==
  ASSUME Inv, PlaceRestriction \/ Monitor \/ \E x \in Sources : Resolve(x)
  PROVE  Inv'
<1>1. UNCHANGED <<status, section, signed, document, request, answer, condition, company>>
  BY DEF PlaceRestriction, Monitor, Resolve
<1>2. restricted' \subseteq Sources
  BY DEF Inv, LogisticsTypeOK, PlaceRestriction, Monitor, Resolve, Sources, Current
<1>3. LogisticsTypeOK'
  BY <1>1, <1>2 DEF Inv, LogisticsTypeOK, company
<1>4. NotStranded' /\ WaitingHoldsTheFile'
  BY <1>1 DEF Inv, NotStranded, WaitingHoldsTheFile, Unaccepted, Rejected, Current
<1>5. ApprovedStands' /\ ClearedOnEvidence'
  BY <1>1 DEF Inv, ApprovedStands, ClearedOnEvidence, Outstanding, Unaccepted, Current,
              Verified, Required, Linked, company
<1>6. OpenConditionRestricts'
  BY <1>1 DEF Inv, OpenConditionRestricts, Outstanding, PlaceRestriction, Monitor, Resolve,
              Resolvable
<1> QED
  BY <1>3, <1>4, <1>5, <1>6 DEF Inv
-----------------------------------------------------------------------------
LEMMA StepInv == Inv /\ [Next]_vars => Inv'
<1> SUFFICES ASSUME Inv, [Next]_vars PROVE Inv'
  OBVIOUS
<1>1. CASE UNCHANGED vars
  BY <1>1 DEF Inv, LogisticsTypeOK, NotStranded, WaitingHoldsTheFile, ApprovedStands,
              ClearedOnEvidence, OpenConditionRestricts, vars, company, Current,
              Linked, Rejected, Verified, Required, Unaccepted, Outstanding
<1>2. CASE Next
  BY <1>2, SectionStep, UploadSteps, StatusStep, VerifyStep, RejectDocumentStep,
     ExpireStep, RequestStep, ConditionStep, RestrictionStep DEF Next
<1> QED
  BY <1>1, <1>2

LEMMA Always == Spec => []Inv
BY InitInv, StepInv, PTL DEF Spec

\* The desk's state keeps its types.
THEOREM LogisticsTypeCorrect == Spec => []LogisticsTypeOK
<1>1. Inv => LogisticsTypeOK
  BY DEF Inv
<1> QED
  BY <1>1, Always, PTL

\* A file awaiting information always waits for a request, a refused document or
\* a document not reviewed yet: resume_review is called wherever the last of them
\* may go.
THEOREM NeverStranded == Spec => []NotStranded
<1>1. Inv => NotStranded
  BY DEF Inv
<1> QED
  BY <1>1, Always, PTL

\* While a request is not accepted the file awaits information, and a refused
\* document admits no approval.
THEOREM WaitingHolds == Spec => []WaitingHoldsTheFile
<1>1. Inv => WaitingHoldsTheFile
  BY DEF Inv
<1> QED
  BY <1>1, Always, PTL

\* What a full approval rested on stays as it was until the file is reopened.
THEOREM ApprovalStands == Spec => []ApprovedStands
<1>1. Inv => ApprovedStands
  BY DEF Inv
<1> QED
  BY <1>1, Always, PTL

\* An outstanding condition keeps its service restricted and a cleared one the
\* verified evidence it was cleared on.
THEOREM ConditionsStand == Spec => []ConditionsHold
<1>1. Inv => ConditionsHold
  BY DEF Inv, ConditionsHold
<1> QED
  BY <1>1, Always, PTL

-----------------------------------------------------------------------------
(* MiningDesk.  Whoever else acts, only its holder or staff free a claim.     *)

Exclusive(a) ==
  Taken(a) => application'[a].holder \in {application[a].holder, Nobody} \/ EditSave(a)
UnderClaim(a) ==
  Open(a) /\ application'[a].status \in Decided =>
    \/ Taken(a)
    \/ application'[a].status = "approved" /\ AllVerified(siteSection')
    \/ EditSave(a)

LEMMA DeskStart == MiningInit => MiningTypeOK
<1> SUFFICES ASSUME MiningInit PROVE MiningTypeOK
  OBVIOUS
<1>1. [status |-> "none", holder |-> Nobody, linked |-> FALSE] \in Row
  BY DEF Row
<1>2. application \in [Applications -> Row]
  BY <1>1 DEF MiningInit
<1>3. gate \in Gate
  BY DEF MiningInit, Gate
<1> QED BY <1>2, <1>3 DEF MiningInit, MiningTypeOK, ReviewState, SiteStatus

\* A column of a row written.
LEMMA RowEdited ==
  ASSUME NEW r \in Row, NEW s \in AppStatus, NEW h \in Reviewers \cup {Nobody}
  PROVE  /\ [r EXCEPT !.holder = h] \in Row
         /\ [r EXCEPT !.holder = h].status = r.status /\ [r EXCEPT !.holder = h].holder = h
         /\ [r EXCEPT !.status = s] \in Row
         /\ [r EXCEPT !.status = s].status = s /\ [r EXCEPT !.status = s].holder = r.holder
         /\ [r EXCEPT !.status = s, !.linked = TRUE] \in Row
         /\ [r EXCEPT !.status = s, !.linked = TRUE].status = s
         /\ [r EXCEPT !.status = s, !.linked = TRUE].holder = r.holder
<1>1. [r EXCEPT !.holder = h] \in Row
  BY DEF Row
<1>2. [r EXCEPT !.holder = h].status = r.status /\ [r EXCEPT !.holder = h].holder = h
  BY DEF Row
<1>3. [r EXCEPT !.status = s] \in Row
  BY DEF Row
<1>4. [r EXCEPT !.status = s].status = s /\ [r EXCEPT !.status = s].holder = r.holder
  BY DEF Row
<1>5. [r EXCEPT !.status = s, !.linked = TRUE] \in Row
  BY DEF Row
<1>6. [r EXCEPT !.status = s, !.linked = TRUE].status = s
  BY DEF Row
<1>7. [r EXCEPT !.status = s, !.linked = TRUE].holder = r.holder
  BY DEF Row
<1> QED BY <1>1, <1>2, <1>3, <1>4, <1>5, <1>6, <1>7

\* One row written.
LEMMA RowWritten ==
  ASSUME MiningTypeOK, NEW b \in Applications, NEW row \in Row,
         application' = [application EXCEPT ![b] = row],
         Taken(b) => row.holder \in {application[b].holder, Nobody} \/ EditSave(b),
         Open(b) /\ row.status \in Decided => Taken(b) \/ EditSave(b)
  PROVE  /\ application' \in [Applications -> Row]
         /\ \A a \in Applications : Exclusive(a) /\ UnderClaim(a)
<1>2. application \in [Applications -> Row]
  BY DEF MiningTypeOK
<1>3. application' \in [Applications -> Row]
  BY <1>2
<1>4. application'[b] = row /\ \A a \in Applications : a # b => application'[a] = application[a]
  BY <1>2
<1>5. ASSUME NEW a \in Applications PROVE Exclusive(a) /\ UnderClaim(a)
  <2>1. CASE a = b
    BY <1>4, <2>1 DEF Exclusive, UnderClaim
  <2>2. CASE a # b
    BY <1>4, <2>2 DEF Exclusive, UnderClaim, Open, Decided
  <2> QED BY <2>1, <2>2
<1> QED BY <1>3, <1>5

\* Nobody's row written.
LEMMA RowsKept ==
  ASSUME MiningTypeOK, application' = application
  PROVE  /\ application' \in [Applications -> Row]
         /\ \A a \in Applications : Exclusive(a) /\ UnderClaim(a)
BY DEF MiningTypeOK, Exclusive, UnderClaim, Open, Decided

\* A full set of verdicts approves what is linked to the site.
LEMMA OutcomeIs ==
  ASSUME MiningTypeOK, application' = Outcome, AllVerified(siteSection')
  PROVE  /\ application' \in [Applications -> Row]
         /\ \A a \in Applications : Exclusive(a) /\ UnderClaim(a)
<1>1. ASSUME NEW a \in Applications
      PROVE  /\ application'[a] \in Row
             /\ application'[a].holder = application[a].holder
             /\ application'[a].status \in {application[a].status, "approved"}
  <2>1. application[a] \in Row
    BY DEF MiningTypeOK
  <2> DEFINE row == [application[a] EXCEPT !.status = "approved"]
  <2>2. row \in Row /\ row.holder = application[a].holder /\ row.status = "approved"
    BY <2>1 DEF Row, AppStatus
  <2>3. application'[a] = row \/ application'[a] = application[a]
    BY DEF Outcome
  <2> HIDE DEF row
  <2> QED BY <2>1, <2>2, <2>3
<1>2. application' \in [Applications -> Row]
  BY <1>1 DEF Outcome
<1>3. ASSUME NEW a \in Applications PROVE Exclusive(a) /\ UnderClaim(a)
  BY <1>1 DEF Exclusive, UnderClaim, Open, Decided
<1> QED BY <1>2, <1>3

LEMMA DeskStep ==
  ASSUME MiningTypeOK, [MiningNext]_miningVars
  PROVE  /\ MiningTypeOK'
         /\ \A a \in Applications : Exclusive(a) /\ UnderClaim(a)
<1> DEFINE Good == /\ application' \in [Applications -> Row]
                   /\ \A a \in Applications : Exclusive(a) /\ UnderClaim(a)
<1>0. /\ application \in [Applications -> Row]
      /\ edit \in [Applications -> Row \cup {Nobody}]
      /\ siteSection \in [Sections -> ReviewState]
      /\ "verified" \in ReviewState /\ "pending" \in ReviewState /\ "under_review" \in ReviewState
  BY DEF MiningTypeOK, ReviewState
<1>1. ASSUME NEW b \in Applications, File(b) PROVE MiningTypeOK' /\ Good
  <2>1. PICK l \in BOOLEAN :
          application' = [application EXCEPT ![b] = [status |-> "pending", holder |-> Nobody, linked |-> l]]
    BY <1>1 DEF File
  <2> DEFINE row == [status |-> "pending", holder |-> Nobody, linked |-> l]
  <2>2. row \in Row /\ row.status = "pending" /\ row.holder = Nobody
    BY DEF Row, AppStatus
  <2> HIDE DEF row
  <2>3. application' = [application EXCEPT ![b] = row]
    BY <2>1 DEF row
  <2>4. Good
    BY <2>2, <2>3, RowWritten DEF Decided
  <2> QED BY <1>1, <2>4 DEF File, MiningTypeOK
<1>2. ASSUME NEW b \in Applications, EditBegin(b) PROVE MiningTypeOK' /\ Good
  <2>1. application' = application /\ edit' \in [Applications -> Row \cup {Nobody}]
    BY <1>0, <1>2 DEF EditBegin
  <2>2. Good
    BY <2>1, RowsKept
  <2> QED BY <1>2, <2>1, <2>2 DEF EditBegin, MiningTypeOK
<1>3. ASSUME NEW b \in Applications, EditSave(b) PROVE MiningTypeOK' /\ Good
  <2>1. edit[b] \in Row
    BY <1>0, <1>3 DEF EditSave
  <2>2. edit[b].status \in AppStatus \cup {"none"} /\ edit[b].holder \in Reviewers \cup {Nobody}
    BY <2>1 DEF Row
  <2>3. PICK l \in BOOLEAN :
          application' = [application EXCEPT ![b] =
                            [status |-> edit[b].status, holder |-> edit[b].holder, linked |-> l]]
    BY <1>3 DEF EditSave
  <2> DEFINE row == [status |-> edit[b].status, holder |-> edit[b].holder, linked |-> l]
  <2>4. row \in Row
    BY <2>2 DEF Row
  <2> HIDE DEF row
  <2>5. application' = [application EXCEPT ![b] = row]
    BY <2>3 DEF row
  <2>6. Good
    BY <1>3, <2>4, <2>5, RowWritten
  <2>7. edit' \in [Applications -> Row \cup {Nobody}]
    BY <1>0, <1>3 DEF EditSave
  <2> QED BY <1>3, <2>6, <2>7 DEF EditSave, MiningTypeOK
<1>4. ASSUME NEW b \in Applications, NEW h \in Reviewers \cup {Nobody},
             application' = [application EXCEPT ![b].holder = h],
             h = Nobody \/ application[b].holder = Nobody
      PROVE  Good
  <2> DEFINE row == [application[b] EXCEPT !.holder = h]
  <2>1. row \in Row /\ row.holder = h /\ row.status = application[b].status
    <3>1. PICK s \in AppStatus : TRUE
      BY DEF AppStatus
    <3>2. PICK r \in Row : r = application[b]
      BY <1>0
    <3>3. /\ [r EXCEPT !.holder = h] \in Row
          /\ [r EXCEPT !.holder = h].status = r.status /\ [r EXCEPT !.holder = h].holder = h
      BY <3>1, RowEdited
    <3> QED BY <3>2, <3>3
  <2>2. application' = [application EXCEPT ![b] = row]
    BY <1>4
  <2> HIDE DEF row
  <2>3. Taken(b) => row.holder \in {application[b].holder, Nobody}
    BY <1>4, <2>1 DEF Taken
  <2>4. ~(Open(b) /\ row.status \in Decided)
    BY <2>1 DEF Open
  <2> QED BY <2>1, <2>2, <2>3, <2>4, RowWritten
<1>5. ASSUME NEW b \in Applications, NEW s \in AppStatus, ClaimedForDecision(application[b].holder, b),
             application[b].holder \in Reviewers,
             \/ application' = [application EXCEPT ![b].status = s]
             \/ application' = [application EXCEPT ![b].status = s, ![b].linked = TRUE]
      PROVE  Good
  <2>1. Nobody \in Reviewers \cup {Nobody} /\ application[b] \in Row
    BY <1>0
  <2>2. PICK row \in Row : /\ row.holder = application[b].holder
                           /\ application' = [application EXCEPT ![b] = row]
    <3>1. CASE application' = [application EXCEPT ![b].status = s]
      <4>1. application' = [application EXCEPT ![b] = [application[b] EXCEPT !.status = s]]
        BY <3>1
      <4> QED BY <2>1, <4>1, RowEdited
    <3>2. CASE application' = [application EXCEPT ![b].status = s, ![b].linked = TRUE]
      <4>1. application' = [application EXCEPT ![b] = [application[b] EXCEPT !.status = s, !.linked = TRUE]]
        BY <1>0, <3>2
      <4> QED BY <2>1, <4>1, RowEdited
    <3> QED BY <1>5, <3>1, <3>2
  <2>3. Taken(b)
    BY <1>5, MiningAssumption DEF Taken
  <2> QED BY <2>2, <2>3, RowWritten
<1>6. ASSUME NEW b \in Applications, Release(b) PROVE MiningTypeOK' /\ Good
  <2>1. Good
    BY <1>4, <1>6 DEF Release
  <2> QED BY <1>6, <2>1 DEF Release, MiningTypeOK
<1>7. ASSUME NEW b \in Applications, NEW r \in Reviewers, Claim(r, b) PROVE MiningTypeOK' /\ Good
  <2>1. Good
    BY <1>4, <1>7 DEF Claim
  <2> QED BY <1>7, <2>1 DEF Claim, MiningTypeOK
<1>8. ASSUME NEW b \in Applications, NEW r \in Reviewers, VerifyOrganisation(r, b) PROVE MiningTypeOK' /\ Good
  <2>1. Good
    <3>1. CASE application' = application
      BY <3>1, RowsKept
    <3>2. CASE application' = [application EXCEPT ![b].status = "under_review"]
      BY <1>5, <1>8, <3>2 DEF VerifyOrganisation, ClaimedForDecision, AppStatus
    <3> QED BY <1>8, <3>1, <3>2 DEF VerifyOrganisation
  <2> QED BY <1>8, <2>1 DEF VerifyOrganisation, MiningTypeOK
<1>9. ASSUME NEW b \in Applications, NEW r \in Reviewers, RejectOrganisation(r, b) \/ RejectApplication(r, b)
      PROVE  MiningTypeOK' /\ Good
  <2>1. Good
    BY <1>5, <1>9 DEF RejectOrganisation, RejectApplication, ClaimedForDecision, AppStatus
  <2> QED BY <1>9, <2>1 DEF RejectOrganisation, RejectApplication, MiningTypeOK
<1>10. ASSUME NEW b \in Applications, NEW r \in Reviewers, ApproveApplication(r, b) PROVE MiningTypeOK' /\ Good
  <2>1. Good
    BY <1>5, <1>10 DEF ApproveApplication, ClaimedForDecision, AppStatus
  <2> QED BY <1>10, <2>1 DEF ApproveApplication, Cleared, MiningTypeOK, SiteStatus
<1>11. ASSUME NEW k \in Sections, NEW v \in SiteVerdicts, ReviewSiteSection(k, v) PROVE MiningTypeOK' /\ Good
  <2>1. Good
    BY <1>11, OutcomeIs, RowsKept DEF ReviewSiteSection
  <2>2. v \in ReviewState
    BY MiningAssumption
  <2>3. siteSection' \in [Sections -> ReviewState]
    BY <1>0, <1>11, <2>2 DEF ReviewSiteSection
  <2>4. site' \in SiteStatus /\ queue' \in {"none", "queued", "completed"}
    BY <1>11 DEF ReviewSiteSection, Cleared, MiningTypeOK, SiteStatus
  <2> QED BY <1>11, <2>1, <2>3, <2>4 DEF ReviewSiteSection, MiningTypeOK
<1>12. ASSUME NEW k \in Sections, SaveSiteSection(k) \/ ReplyToSection(k) PROVE MiningTypeOK' /\ Good
  <2>1. application' = application /\ siteSection' \in [Sections -> ReviewState]
    BY <1>0, <1>12 DEF SaveSiteSection, ReplyToSection
  <2>2. Good
    BY <2>1, RowsKept
  <2> QED BY <1>12, <2>1, <2>2 DEF SaveSiteSection, ReplyToSection, MiningTypeOK
<1>13. ASSUME \/ \E s \in OwnerStatuses : AmendSite(s)
              \/ \E r \in Reviewers : DecideCompany(r)
              \/ QueueReview \/ PapersMove \/ UNCHANGED miningVars
       PROVE  MiningTypeOK' /\ Good
  <2>1. application' = application
    BY <1>13 DEF AmendSite, DecideCompany, QueueReview, PapersMove, miningVars
  <2>2. Good
    BY <2>1, RowsKept
  <2> QED BY <1>13, <2>1, <2>2, MiningAssumption
          DEF AmendSite, DecideCompany, QueueReview, PapersMove, miningVars, MiningTypeOK
<1> QED BY <1>1, <1>2, <1>3, <1>6, <1>7, <1>8, <1>9, <1>10, <1>11, <1>12, <1>13 DEF MiningNext, Decide

\* A claim is exclusive, and a decision its holder's or the site's: whatever
\* the reviewers, the owner and the verdicts on the site do.
THEOREM ClaimsAreSafe == MiningSpec => []MiningTypeOK /\ ClaimsHold
<1>1. MiningTypeOK /\ [MiningNext]_miningVars => MiningTypeOK'
  BY DeskStep
<1>2. MiningTypeOK /\ [MiningNext]_miningVars =>
        [\A a \in Applications :
           Taken(a) => application'[a].holder \in {application[a].holder, Nobody} \/ EditSave(a)]_miningVars
  BY DeskStep DEF Exclusive
<1>3. MiningTypeOK /\ [MiningNext]_miningVars =>
        [\A a \in Applications :
           Open(a) /\ application'[a].status \in Decided =>
             \/ Taken(a)
             \/ application'[a].status = "approved" /\ AllVerified(siteSection')
             \/ EditSave(a)]_miningVars
  BY DeskStep DEF UnderClaim
<1> QED BY <1>1, <1>2, <1>3, DeskStart, PTL DEF MiningSpec, ClaimsHold, ClaimExclusive, DecidedUnderClaim

-----------------------------------------------------------------------------
(* MiningScore.  A score is the rounded average of the marks: if every mark   *)
(* with weight were above it, or below it, so would their average be.         *)

LEMMA RoundBounds ==
  ASSUME NEW n \in Nat, NEW d \in Nat \ {0}
  PROVE  /\ Round(n, d) \in Nat
         /\ \A c \in Nat : c * d <= n => c <= Round(n, d)
         /\ \A c \in Nat : n <= c * d => Round(n, d) <= c
<1> DEFINE q == n \div d
           r == n % d
<1>1. q \in Nat /\ r \in 0..(d - 1) /\ n = d * q + r
  OBVIOUS
<1> HIDE DEF q, r
<1>2. /\ Round(n, d) = q \/ Round(n, d) = q + 1
      /\ Round(n, d) = q + 1 => r # 0
  BY <1>1 DEF Round, q, r
<1>3. ASSUME NEW c \in Nat, c * d <= n PROVE c <= q
  <2>1. CASE c <= q
    BY <2>1
  <2>2. CASE c >= q + 1
    <3>1. PICK e \in Nat : c = q + 1 + e
      <4>1. c - q - 1 \in Nat /\ c = q + 1 + (c - q - 1)
        BY <1>1, <2>2
      <4> QED BY <4>1
    <3>2. c * d = d * q + d + e * d /\ e * d \in Nat
      BY <1>1, <3>1
    <3> QED BY <1>1, <1>3, <3>2
  <2> QED BY <1>1, <2>1, <2>2
<1>4. ASSUME NEW c \in Nat, n <= c * d PROVE q <= c /\ (q = c => r = 0)
  <2>1. CASE c < q
    <3>1. PICK e \in Nat : q = c + 1 + e
      <4>1. q - c - 1 \in Nat /\ q = c + 1 + (q - c - 1)
        BY <1>1, <2>1
      <4> QED BY <4>1
    <3>2. d * q = c * d + d + e * d /\ e * d \in Nat
      BY <1>1, <3>1
    <3> QED BY <1>1, <1>4, <3>2
  <2>2. CASE q = c
    <3>1. d * q = c * d
      BY <1>1, <2>2
    <3> QED BY <1>1, <1>4, <2>2, <3>1
  <2>3. CASE q < c
    BY <1>1, <2>3
  <2> QED BY <1>1, <2>1, <2>2, <2>3
<1>5. Round(n, d) \in Nat
  BY <1>1, <1>2
<1>6. ASSUME NEW c \in Nat, c * d <= n PROVE c <= Round(n, d)
  BY <1>1, <1>2, <1>3, <1>6
<1>7. ASSUME NEW c \in Nat, n <= c * d PROVE Round(n, d) <= c
  BY <1>1, <1>2, <1>4, <1>7
<1> QED BY <1>5, <1>6, <1>7

LEMMA MarkIs ==
  ASSUME NEW x \in Mark
  PROVE  x.weight \in Nat /\ x.score \in 0..100
<1>1. x.weight \in Weights \cup {10} /\ x.score \in Points \cup {0, 100}
  BY DEF Mark
<1>2. Weights \cup {10} \subseteq Nat /\ Points \cup {0, 100} \subseteq 0..100
  BY ScoreAssumption
<1> QED BY <1>1, <1>2

\* What a set of marks scores lies between two of them.
LEMMA ScoreBetween ==
  ASSUME NEW m \in [MarkedSections -> Mark], NEW stored, Weighing(m) # {}
  PROVE  /\ WeightedScore(m, stored) \in Nat
         /\ \E k \in Weighing(m) : m[k].score <= WeightedScore(m, stored)
         /\ \E k \in Weighing(m) : WeightedScore(m, stored) <= m[k].score
<1> DEFINE W == Weighing(m)
           weight == [k \in W |-> m[k].weight]
           weighed == [k \in W |-> m[k].weight * m[k].score]
           s == WeightedScore(m, stored)
<1>1. IsFiniteSet(W) /\ W # {} /\ W \subseteq MarkedSections
  BY ScoreAssumption, FS_Subset DEF Weighing
<1>2. \A k \in W : m[k].weight \in Nat \ {0} /\ m[k].score \in Nat
  <2> SUFFICES ASSUME NEW k \in W PROVE m[k].weight \in Nat \ {0} /\ m[k].score \in Nat
    OBVIOUS
  <2>1. m[k] \in Mark /\ m[k].weight # 0
    BY DEF Weighing
  <2>2. m[k].weight \in Nat /\ m[k].score \in 0..100
    BY <2>1, MarkIs
  <2> QED BY <2>1, <2>2
<1>3. \A k \in W : weight[k] = m[k].weight /\ weighed[k] = m[k].weight * m[k].score
                     /\ weight[k] \in Nat /\ weighed[k] \in Nat
  BY <1>2
<1>4. DOMAIN weight = W /\ DOMAIN weighed = W
  OBVIOUS
<1>5. s = Round(SumFunctionOnSet(weighed, W), SumFunctionOnSet(weight, W))
  BY <1>1, <1>4 DEF WeightedScore, SumFunction
<1> DEFINE n == SumFunctionOnSet(weighed, W)
           d == SumFunctionOnSet(weight, W)
<1> HIDE DEF W, weight, weighed
<1>6. n \in Nat /\ d \in Nat
  BY <1>1, <1>3, SumNat
<1>7. d # 0
  <2>1. PICK k \in W : TRUE
    BY <1>1
  <2>2. weight[k] <= d /\ weight[k] \in Nat \ {0}
    BY <1>1, <1>2, <1>3, SumCovers
  <2> QED BY <1>6, <2>2
<1>8. /\ s \in Nat
      /\ \A c \in Nat : c * d <= n => c <= s
      /\ \A c \in Nat : n <= c * d => s <= c
  <2> HIDE DEF n, d
  <2>1. s = Round(n, d)
    BY <1>5 DEF n, d
  <2> QED BY <1>6, <1>7, <2>1, RoundBounds
<1> HIDE DEF s
\* All above the score: by one at least.
<1>9. \E k \in W : m[k].score <= s
  <2> SUFFICES ASSUME \A k \in W : ~(m[k].score <= s) PROVE FALSE
    OBVIOUS
  <2>1. \A k \in W : weight[k] \in Nat /\ weighed[k] \in Nat /\ (s + 1) * weight[k] <= weighed[k]
    <3> SUFFICES ASSUME NEW k \in W PROVE (s + 1) * weight[k] <= weighed[k]
      BY <1>3
    <3>1. m[k].score \in Nat /\ m[k].weight \in Nat /\ s + 1 <= m[k].score
      BY <1>2, <1>8
    <3>2. PICK e \in Nat : m[k].score = s + 1 + e
      <4>1. m[k].score - (s + 1) \in Nat /\ m[k].score = s + 1 + (m[k].score - (s + 1))
        BY <1>8, <3>1
      <4> QED BY <4>1
    <3>3. m[k].weight * m[k].score = (s + 1) * m[k].weight + m[k].weight * e /\ m[k].weight * e \in Nat
      BY <1>8, <3>1, <3>2
    <3> QED BY <1>3, <1>8, <3>1, <3>3
  <2>2. (s + 1) * d <= n
    BY <1>1, <1>8, <2>1, SumAtLeast
  <2>3. s + 1 <= s
    BY <1>8, <2>2
  <2> QED BY <1>8, <2>3
\* All below it: by one at least.
<1>10. \E k \in W : s <= m[k].score
  <2> SUFFICES ASSUME \A k \in W : ~(s <= m[k].score) PROVE FALSE
    OBVIOUS
  <2>0. s - 1 \in Nat
    <3>1. PICK k \in W : TRUE
      BY <1>1
    <3>2. m[k].score \in Nat /\ m[k].score < s
      BY <1>2, <1>8
    <3> QED BY <1>8, <3>2
  <2>1. \A k \in W : weight[k] \in Nat /\ weighed[k] \in Nat /\ weighed[k] <= (s - 1) * weight[k]
    <3> SUFFICES ASSUME NEW k \in W PROVE weighed[k] <= (s - 1) * weight[k]
      BY <1>3
    <3>1. m[k].score \in Nat /\ m[k].weight \in Nat /\ m[k].score <= s - 1
      BY <1>2, <1>8
    <3>2. PICK e \in Nat : s - 1 = m[k].score + e
      <4>1. (s - 1) - m[k].score \in Nat /\ s - 1 = m[k].score + ((s - 1) - m[k].score)
        BY <1>8, <3>1
      <4> QED BY <4>1
    <3>3. (s - 1) * m[k].weight = m[k].weight * m[k].score + m[k].weight * e /\ m[k].weight * e \in Nat
      <4>1. (s - 1) * m[k].weight = (m[k].score + e) * m[k].weight
        BY <3>2
      <4>2. (m[k].score + e) * m[k].weight = m[k].weight * m[k].score + m[k].weight * e
        BY <3>1
      <4> QED BY <3>1, <4>1, <4>2
    <3>4. m[k].weight * m[k].score \in Nat
      BY <3>1
    <3> QED BY <1>3, <3>3, <3>4
  <2>2. n <= (s - 1) * d
    BY <1>1, <2>0, <2>1, SumAtMost
  <2>3. s <= s - 1
    BY <1>8, <2>0, <2>2
  <2> QED BY <1>8, <2>3
<1> QED BY <1>8, <1>9, <1>10 DEF W, s

LEMMA ScoreInRange ==
  ASSUME NEW m \in [MarkedSections -> Mark], NEW stored \in 0..100
  PROVE  WeightedScore(m, stored) \in 0..100
<1>1. CASE Weighing(m) = {}
  BY <1>1 DEF WeightedScore
<1>2. CASE Weighing(m) # {}
  <2>1. PICK k \in Weighing(m) : WeightedScore(m, stored) <= m[k].score
    BY <1>2, ScoreBetween
  <2>2. m[k].score \in 0..100
    BY MarkIs DEF Weighing
  <2>3. WeightedScore(m, stored) \in Nat
    BY <1>2, ScoreBetween
  <2> QED BY <2>1, <2>2, <2>3
<1> QED BY <1>1, <1>2

LEMMA ScoreStart == ScoreInit => ScoreTypeOK
<1> SUFFICES ASSUME ScoreInit PROVE ScoreTypeOK
  OBVIOUS
<1>1. [verdict |-> "pending", weight |-> 10, score |-> 0] \in Mark
  BY DEF Mark
<1>2. mark \in [MarkedSections -> Mark]
  BY <1>1 DEF ScoreInit
<1> QED BY <1>2 DEF ScoreInit, ScoreTypeOK, RiskBand, FindingStatus, Decision

\* An average of the marks, and a finding that ends with its action accepted.
Averaged ==
  score' # score =>
    /\ \E k \in Weighing(mark') : mark'[k].score <= score'
    /\ \E k \in Weighing(mark') : score' <= mark'[k].score
EndsAccepted(f) ==
  /\ finding'[f] = "closed"
  /\ <<finding'[f], action'[f]>> # <<finding[f], action[f]>>
  => action'[f] = "accepted" \/ AmendSave(f)

LEMMA Rescored ==
  ASSUME ScoreTypeOK, NEW m \in [MarkedSections -> Mark], mark' = m, score' = WeightedScore(m, score)
  PROVE  score' \in 0..100 /\ Averaged
<1>1. score \in 0..100
  BY DEF ScoreTypeOK
<1>2. score' \in 0..100
  BY <1>1, ScoreInRange
<1>3. CASE Weighing(m) = {}
  BY <1>2, <1>3 DEF WeightedScore, Averaged
<1>4. CASE Weighing(m) # {}
  <2>1. /\ \E k \in Weighing(m) : m[k].score <= WeightedScore(m, score)
        /\ \E k \in Weighing(m) : WeightedScore(m, score) <= m[k].score
    BY <1>4, ScoreBetween
  <2> QED BY <1>2, <2>1 DEF Averaged
<1> QED BY <1>3, <1>4

Edited(r, v, s) == [r EXCEPT !.verdict = v, !.score = s]

LEMMA MarkEdited ==
  ASSUME NEW r \in Mark, NEW v \in {"pending", "verified", "rejected", "flagged"},
         NEW s \in Points \cup {0, 100}
  PROVE  Edited(r, v, s) \in Mark
<1> DEFINE M(V, W, P) == [verdict : V, weight : W, score : P]
<1>1. ASSUME NEW V, NEW W, NEW P, NEW q \in M(V, W, P), NEW y \in V, NEW z \in P
      PROVE  [q EXCEPT !.verdict = y, !.score = z] \in M(V, W, P)
  OBVIOUS
<1> HIDE DEF M
<1>2. Mark = M({"pending", "verified", "rejected", "flagged"}, Weights \cup {10}, Points \cup {0, 100})
  BY DEF Mark, M
<1>3. Edited(r, v, s) \in M({"pending", "verified", "rejected", "flagged"}, Weights \cup {10}, Points \cup {0, 100})
  BY <1>1, <1>2 DEF Edited
<1> QED BY <1>2, <1>3

LEMMA SectionJudged ==
  ASSUME ScoreTypeOK, NEW k \in MarkedSections, NEW v \in {"pending", "verified", "rejected", "flagged"},
         NEW g \in Points \cup {NoEdit}, JudgeSection(k, v, g)
  PROVE  ScoreTypeOK' /\ Averaged
<1>1. mark \in [MarkedSections -> Mark]
  BY DEF ScoreTypeOK
<1> DEFINE s == Scored(mark[k].score, v, g)
           x == Edited(mark[k], v, s)
<1>2. s \in Points \cup {0, 100}
  <2>1. mark[k].score \in Points \cup {0, 100}
    BY <1>1 DEF Mark
  <2> QED BY <2>1 DEF Scored
<1>3. x \in Mark
  <2>1. mark[k] \in Mark
    BY <1>1
  <2>2. PICK r \in Mark : r = mark[k]
    BY <2>1
  <2>3. PICK p \in Points \cup {0, 100} : p = s
    BY <1>2
  <2>4. Edited(r, v, p) \in Mark
    BY MarkEdited, Zenon
  <2> HIDE DEF s
  <2> QED BY <2>2, <2>3, <2>4
<1>4. mark' = [mark EXCEPT ![k] = x]
  BY <1>1 DEF JudgeSection, Edited
<1> HIDE DEF s, x
<1>5. mark' \in [MarkedSections -> Mark]
  BY <1>1, <1>3, <1>4
<1>6. score' \in 0..100 /\ Averaged
  BY <1>5, Rescored DEF JudgeSection
<1>7. risk' \in RiskBand
  BY DEF JudgeSection, Band, RiskBand
<1> QED BY <1>5, <1>6, <1>7 DEF JudgeSection, ScoreTypeOK

LEMMA ScoreStep ==
  ASSUME ScoreTypeOK, [ScoreNext]_scoreVars
  PROVE  ScoreTypeOK' /\ Averaged /\ \A f \in Findings : EndsAccepted(f)
<1>0. /\ mark \in [MarkedSections -> Mark] /\ score \in 0..100
      /\ finding \in [Findings -> FindingStatus \cup {"none"}]
      /\ action \in [Findings -> Decision]
      /\ amending \in [Findings -> FindingStatus \cup {NoEdit}]
      /\ acting \subseteq Findings
  BY DEF ScoreTypeOK
<1>1. ASSUME UNCHANGED <<finding, action>> PROVE \A f \in Findings : EndsAccepted(f)
  BY <1>1 DEF EndsAccepted
<1>2. ASSUME UNCHANGED score PROVE Averaged
  BY <1>2 DEF Averaged
<1>3. ASSUME NEW k \in MarkedSections, NEW v \in {"pending", "verified", "rejected", "flagged"},
             NEW g \in Points \cup {NoEdit}, JudgeSection(k, v, g)
      PROVE  ScoreTypeOK' /\ Averaged /\ \A f \in Findings : EndsAccepted(f)
  BY <1>1, <1>3, SectionJudged DEF JudgeSection
<1>4. ASSUME NEW k \in MarkedSections, NEW w \in Weights, NEW s \in Points, SaveMark(k, w, s)
      PROVE  ScoreTypeOK' /\ Averaged /\ \A f \in Findings : EndsAccepted(f)
  <2> DEFINE x == [verdict |-> "pending", weight |-> w, score |-> s]
  <2>1. x \in Mark
    BY DEF Mark
  <2>2. mark' = [mark EXCEPT ![k] = x] /\ UNCHANGED <<score, risk, finding, action, amending, acting>>
    BY <1>4 DEF SaveMark
  <2> HIDE DEF x
  <2>3. mark' \in [MarkedSections -> Mark]
    BY <1>0, <2>1, <2>2
  <2> QED BY <1>1, <1>2, <2>2, <2>3 DEF ScoreTypeOK
<1>5. CASE RecomputeScore
  <2>1. mark' = mark /\ score' = WeightedScore(mark, score) /\ UNCHANGED <<risk, finding, action, amending, acting>>
    BY <1>5 DEF RecomputeScore
  <2>2. score' \in 0..100 /\ Averaged
    BY <1>0, <2>1, Rescored
  <2> QED BY <1>1, <2>1, <2>2 DEF ScoreTypeOK
<1>6. CASE (\E b \in RiskBand : AmendRisk(b)) \/ UNCHANGED scoreVars
  <2>1. risk' \in RiskBand /\ UNCHANGED <<mark, score, finding, action, amending, acting>>
    BY <1>6 DEF AmendRisk, scoreVars, ScoreTypeOK
  <2> QED BY <1>1, <1>2, <2>1 DEF ScoreTypeOK
<1>7. ASSUME NEW f \in Findings,
             RaiseFinding(f) \/ AmendBegin(f) \/ AmendSave(f) \/ ActBegin(f) \/ ActSave(f) \/ CloseFinding(f)
      PROVE  ScoreTypeOK' /\ Averaged /\ \A g \in Findings : EndsAccepted(g)
  <2>1. UNCHANGED <<mark, score, risk>>
    BY <1>7 DEF RaiseFinding, AmendBegin, AmendSave, ActBegin, ActSave, CloseFinding
  <2>2. finding' \in [Findings -> FindingStatus \cup {"none"}]
    BY <1>0, <1>7, ScoreAssumption
       DEF RaiseFinding, AmendBegin, AmendSave, ActBegin, ActSave, CloseFinding, FindingStatus
  <2>3. action' \in [Findings -> Decision]
    BY <1>0, <1>7 DEF RaiseFinding, AmendBegin, AmendSave, ActBegin, ActSave, CloseFinding, Decision
  <2>4. amending' \in [Findings -> FindingStatus \cup {NoEdit}] /\ acting' \subseteq Findings
    BY <1>0, <1>7 DEF RaiseFinding, AmendBegin, AmendSave, ActBegin, ActSave, CloseFinding
  <2>5. ASSUME NEW g \in Findings PROVE EndsAccepted(g)
    <3>1. CASE g # f
      <4>1. finding'[g] = finding[g] /\ action'[g] = action[g]
        BY <1>0, <1>7, <3>1 DEF RaiseFinding, AmendBegin, AmendSave, ActBegin, ActSave, CloseFinding
      <4> QED BY <4>1 DEF EndsAccepted
    <3>2. CASE g = f
      <4>1. CASE CloseFinding(f)
        BY <1>0, <3>2, <4>1 DEF CloseFinding, EndsAccepted
      <4>2. CASE AmendBegin(f) \/ ActBegin(f)
        BY <4>2 DEF AmendBegin, ActBegin, EndsAccepted
      <4>3. CASE AmendSave(f)
        BY <3>2, <4>3 DEF EndsAccepted
      <4>4. CASE RaiseFinding(f) \/ ActSave(f)
        <5>1. finding'[f] # "closed"
          BY <1>0, <4>4 DEF RaiseFinding, ActSave
        <5> QED BY <3>2, <5>1 DEF EndsAccepted
      <4> QED BY <1>7, <4>1, <4>2, <4>3, <4>4
    <3> QED BY <3>1, <3>2
  <2> QED BY <1>2, <2>1, <2>2, <2>3, <2>4, <2>5 DEF ScoreTypeOK
<1> QED BY <1>3, <1>4, <1>5, <1>6, <1>7 DEF ScoreNext

\* A stored score lies within the marks it was computed from, and a finding
\* ends with its newest corrective action accepted, for any weights and marks.
THEOREM ScoresAreSafe == ScoreSpec => []ScoreTypeOK /\ ScoringHolds
<1>1. ScoreTypeOK /\ [ScoreNext]_scoreVars => ScoreTypeOK'
  BY ScoreStep
<1>2. ScoreTypeOK /\ [ScoreNext]_scoreVars =>
        [score' # score =>
           /\ \E k \in Weighing(mark') : mark'[k].score <= score'
           /\ \E k \in Weighing(mark') : score' <= mark'[k].score]_scoreVars
  BY ScoreStep DEF Averaged
<1>3. ScoreTypeOK /\ [ScoreNext]_scoreVars =>
        [\A f \in Findings :
           /\ finding'[f] = "closed"
           /\ <<finding'[f], action'[f]>> # <<finding[f], action[f]>>
           => action'[f] = "accepted" \/ AmendSave(f)]_scoreVars
  BY ScoreStep DEF EndsAccepted
<1> QED BY <1>1, <1>2, <1>3, ScoreStart, PTL DEF ScoreSpec, ScoringHolds, ScoreIsAnAverage, ClosedOnAcceptance

-----------------------------------------------------------------------------
(* The parts of MCMining, side by side.                                      *)

\* The parts share no state: a behaviour of them together is one of each.
LEMMA EveryMiningPart == ExtractionSpec => MiningSpec /\ ScoreSpec /\ Spec
<1>1. ExtractionInit => MiningInit /\ ScoreInit /\ Init
  BY DEF ExtractionInit
<1>2. [ExtractionNext]_extractionVars => [MiningNext]_miningVars
  BY DEF ExtractionNext, extractionVars
<1>3. [ExtractionNext]_extractionVars => [ScoreNext]_scoreVars
  BY DEF ExtractionNext, extractionVars
<1>4. [ExtractionNext]_extractionVars => [Next]_vars
  BY DEF ExtractionNext, extractionVars
<1> QED
  BY <1>1, <1>2, <1>3, <1>4, PTL DEF ExtractionSpec, MiningSpec, ScoreSpec, Spec

\* Whichever part moves, the rows of the desk and of a site's score are of
\* their types.
THEOREM MiningTypesHold == ExtractionSpec => []MiningTypes
<1>1. MiningTypeOK /\ ScoreTypeOK => MiningTypes
  BY DEF MiningTypes
<1> QED BY <1>1, EveryMiningPart, ClaimsAreSafe, ScoresAreSafe, PTL

\* A site's reviewers keep to their claims and its score to the marks it was
\* computed from, beside everything else of the company.
THEOREM SiteReviewsAreSafe == ExtractionSpec => SiteReviewsHold
BY EveryMiningPart, ClaimsAreSafe, ScoresAreSafe, PTL DEF SiteReviewsHold

\* And so does its logistics file: nothing waits for nothing, and an approval
\* and its conditions rest on what they were given on.
THEOREM LogisticsFileHolds ==
  ExtractionSpec => [](NotStranded /\ WaitingHoldsTheFile /\ ApprovedStands /\ ConditionsHold)
BY EveryMiningPart, NeverStranded, WaitingHolds, ApprovalStands, ConditionsStand, PTL
=============================================================================
