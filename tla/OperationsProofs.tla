--------------------------- MODULE OperationsProofs ---------------------------
(* What the desks and the companies behind them rely on, for any number of    *)
(* rows and requests: a desk decides on evidence, a warehouse floor and a     *)
(* fleet tell one story, a mine's papers are never lost, and a row whose      *)
(* every handler locks its application finds the file it names.               *)
EXTENDS MCDesks, FiniteSetTheorems, TLAPS

-----------------------------------------------------------------------------
(* EvidenceDesk.  A decision rests on evidence that is still there: the        *)
(* reviewer's verdicts and the applicant's file are locked together.           *)

Inv ==
  /\ DeskTypeOK
  /\ SignedOffOnEvidence
  /\ ClearedOnEvidence
  /\ RequestsHoldTheFile
  /\ ApprovedOnEvidence

LEMMA InitInv == Init => Inv
<1> SUFFICES ASSUME Init PROVE Inv
  OBVIOUS
<1>1. Current = {}
  BY DEF Init, Current
<1>2. DeskTypeOK
  BY DEF Init, DeskTypeOK, Statuses, Section, Document
<1>3. SignedOffOnEvidence /\ ClearedOnEvidence
  BY DEF Init, SignedOffOnEvidence, ClearedOnEvidence
<1>4. RequestsHoldTheFile /\ ApprovedOnEvidence
  BY DEF Init, RequestsHoldTheFile, ApprovedOnEvidence
<1> QED
  BY <1>2, <1>3, <1>4 DEF Inv

-----------------------------------------------------------------------------
(* One lemma per group of handlers that disturb the same variables. *)

\* Declaring a section takes its sign-off back.
LEMMA SaveSectionStep ==
  ASSUME Inv, NEW d \in Domains, SaveSection(d)
  PROVE  Inv'
<1>1. DeskTypeOK'
  BY DEF Inv, DeskTypeOK, SaveSection, Section
<1>2. SignedOffOnEvidence'
  BY DEF Inv, DeskTypeOK, SaveSection, Section, SignedOffOnEvidence, DomainEvidence,
         Current, Verified
<1>3. ClearedOnEvidence' /\ RequestsHoldTheFile' /\ ApprovedOnEvidence'
  BY DEF Inv, SaveSection, Editable, ClearedOnEvidence, Linked, Current,
         Verified, RequestsHoldTheFile, ApprovedOnEvidence
<1> QED
  BY <1>1, <1>2, <1>3 DEF Inv

\* A new version resets the section it belongs to, and keeps out of the evidence
\* of a cleared condition.
LEMMA UploadStep ==
  ASSUME Inv, NEW t \in Types, NEW d \in Domains, NEW c \in Conditions \cup {None},
         NEW e \in BOOLEAN, Upload(t, d, c, e)
  PROVE  Inv'
<1> DEFINE new == [domain |-> d, condition |-> c, status |-> "pending", expired |-> e]
<1>1. new \in Document /\ new # None
  BY NoneAssumption DEF Document
<1>2. /\ document' = [document EXCEPT ![t] = new]
      /\ section' = [section EXCEPT ![d] = Unreviewed(@)]
      /\ UNCHANGED <<status, request, condition, ready>>
  BY DEF Upload
<1>3. DeskTypeOK'
  BY <1>1, <1>2 DEF Inv, DeskTypeOK, Section, Unreviewed
<1>4. /\ Current' = Current \cup {t}
      /\ \A u \in Types : u # t => document'[u] = document[u]
      /\ document'[t] = new
  BY <1>1, <1>2 DEF Inv, DeskTypeOK, Current
<1>5. t \in Current => document[t].domain = d /\ document[t].condition = c
  BY DEF Upload, MayUpload, Current
<1>6. SignedOffOnEvidence'
  <2> SUFFICES ASSUME NEW f \in Domains, section'[f].status = "passed",
                      section'[f].applicable
               PROVE  section'[f].filled /\ DomainEvidence(f)' # {} /\ Verified(DomainEvidence(f))'
    BY DEF SignedOffOnEvidence
  <2>1. f # d /\ section'[f] = section[f]
    BY <1>2 DEF Inv, DeskTypeOK, Unreviewed
  <2>2. section[f].filled /\ DomainEvidence(f) # {} /\ Verified(DomainEvidence(f))
    BY <2>1 DEF Inv, SignedOffOnEvidence
  <2>3. DomainEvidence(f)' = DomainEvidence(f) /\ t \notin DomainEvidence(f)
    BY <1>4, <1>5, <2>1 DEF DomainEvidence, Current
  <2> QED
    BY <1>4, <2>1, <2>2, <2>3 DEF Verified, DomainEvidence, Current
<1>7. ClearedOnEvidence'
  <2> SUFFICES ASSUME NEW k \in Conditions, condition'[k] = "cleared"
               PROVE  Linked(k)' # {} /\ Verified(Linked(k))'
    BY DEF ClearedOnEvidence
  <2>1. Linked(k) # {} /\ Verified(Linked(k))
    BY <1>2 DEF Inv, ClearedOnEvidence
  <2>2. c # k
    BY <1>2, NoneAssumption DEF Upload, MayUpload
  <2>3. Linked(k)' = Linked(k) /\ t \notin Linked(k)
    BY <1>4, <1>5, <2>2 DEF Linked, Current
  <2> QED
    BY <1>4, <2>1, <2>3 DEF Verified, Linked, Current
<1>8. RequestsHoldTheFile'
  BY <1>2 DEF Inv, RequestsHoldTheFile
<1>9. ApprovedOnEvidence'
  <2> SUFFICES ASSUME status = "approved"
               PROVE  ApprovedOnEvidence'
    BY <1>2 DEF ApprovedOnEvidence
  <2>1. /\ Outstanding' = {}
        /\ \A r \in Requests : request'[r] \in {"none", "accepted"}
    BY <1>2 DEF Inv, ApprovedOnEvidence, Outstanding
  <2>2. \A u \in Current' : document'[u].status # "rejected"
    <3>1. \A u \in Current : document[u].status # "rejected"
      BY <1>2 DEF Inv, ApprovedOnEvidence
    <3>2. document'[t].status = "pending"
      BY <1>4
    <3> QED
      BY <1>4, <3>1, <3>2 DEF Current
  <2>3. ASSUME NEW f \in Required'
        PROVE  \/ section'[f].status = "passed"
               \/ \E u \in DomainEvidence(f)' : document'[u].status = "pending"
    <3>1. CASE f = d
      BY <1>4, <3>1 DEF DomainEvidence
    <3>2. CASE f # d
      <4>1. f \in Required /\ section'[f] = section[f]
        BY <1>2, <2>3, <3>2 DEF Inv, DeskTypeOK, Required
      <4>2. DomainEvidence(f)' = DomainEvidence(f) /\ t \notin DomainEvidence(f)
        BY <1>4, <1>5, <3>2 DEF DomainEvidence, Current
      <4> QED
        BY <1>4, <4>1, <4>2 DEF Inv, ApprovedOnEvidence, DomainEvidence, Current
    <3> QED
      BY <3>1, <3>2
  <2> QED
    BY <2>1, <2>2, <2>3 DEF ApprovedOnEvidence
<1> QED
  BY <1>3, <1>6, <1>7, <1>8, <1>9 DEF Inv

\* A sign-off is given on verified evidence only.
LEMMA ReviewSectionStep ==
  ASSUME Inv, NEW d \in Domains, NEW v \in Verdicts, NEW a \in BOOLEAN,
         ReviewSection(d, v, a)
  PROVE  Inv'
<1>1. DeskTypeOK'
  BY DEF Inv, DeskTypeOK, ReviewSection, Section
<1>2. \A f \in Domains : DomainEvidence(f)' = DomainEvidence(f) /\ (Verified(DomainEvidence(f))' <=> Verified(DomainEvidence(f)))
  BY DEF ReviewSection, DomainEvidence, Current, Verified
<1>3. SignedOffOnEvidence'
  BY <1>2 DEF Inv, DeskTypeOK, ReviewSection, SignedOffOnEvidence, MayPass
<1>4. ClearedOnEvidence' /\ RequestsHoldTheFile' /\ ApprovedOnEvidence'
  BY DEF Inv, ReviewSection, Reviewable, ClearedOnEvidence, Linked, Current,
         Verified, RequestsHoldTheFile, ApprovedOnEvidence
<1> QED
  BY <1>1, <1>3, <1>4 DEF Inv

\* Only pending evidence changes its verdict, so no verified evidence is lost.
LEMMA ReviewDocumentStep ==
  ASSUME Inv, NEW t \in Types, NEW v \in {"verified", "rejected"},
         ReviewDocument(t, v)
  PROVE  Inv'
<1>1. DeskTypeOK'
  BY NoneAssumption DEF Inv, DeskTypeOK, ReviewDocument, Document
<1>2. /\ Current' = Current
      /\ t \in Current /\ document[t].status = "pending"
      /\ document'[t].domain = document[t].domain
      /\ document'[t].condition = document[t].condition
      /\ \A u \in Types : u # t => document'[u] = document[u]
  <2>1. document'[t] \in Document
    BY <1>1 DEF ReviewDocument, DeskTypeOK, Inv, Document
  <2> QED
    BY <2>1, NoneAssumption DEF Inv, DeskTypeOK, ReviewDocument, Current
<1>3. \A f \in Domains : DomainEvidence(f)' = DomainEvidence(f)
  BY <1>2 DEF DomainEvidence, Current
<1>4. \A c \in Conditions : Linked(c)' = Linked(c)
  BY <1>2 DEF Linked, Current
<1>5. SignedOffOnEvidence'
  BY <1>2, <1>3 DEF Inv, ReviewDocument, SignedOffOnEvidence, Verified, DomainEvidence,
                    Current
<1>6. ClearedOnEvidence'
  BY <1>2, <1>4 DEF Inv, ReviewDocument, ClearedOnEvidence, Verified, Linked,
                    Current
<1>7. RequestsHoldTheFile' /\ ApprovedOnEvidence'
  BY DEF Inv, ReviewDocument, Reviewable, RequestsHoldTheFile, ApprovedOnEvidence
<1> QED
  BY <1>1, <1>5, <1>6, <1>7 DEF Inv

\* Expiry touches no verdict and no link.
LEMMA ExpireStep ==
  ASSUME Inv, NEW t \in Types, Expire(t)
  PROVE  Inv'
<1>1. DeskTypeOK'
  BY NoneAssumption DEF Inv, DeskTypeOK, Expire, Document
<1>2. /\ Current' = Current
      /\ \A u \in Current : /\ document'[u].domain = document[u].domain
                            /\ document'[u].condition = document[u].condition
                            /\ document'[u].status = document[u].status
  <2>1. document'[t] \in Document
    BY <1>1 DEF Expire, DeskTypeOK, Inv, Document
  <2> QED
    BY <2>1, NoneAssumption DEF Inv, DeskTypeOK, Expire, Current
<1>3. /\ \A f \in Domains : DomainEvidence(f)' = DomainEvidence(f)
      /\ \A c \in Conditions : Linked(c)' = Linked(c)
  BY <1>2 DEF DomainEvidence, Linked
<1>4. SignedOffOnEvidence' /\ ClearedOnEvidence'
  BY <1>2, <1>3 DEF Inv, Expire, SignedOffOnEvidence, ClearedOnEvidence, Verified,
                    DomainEvidence, Linked
<1>5. RequestsHoldTheFile' /\ ApprovedOnEvidence'
  BY <1>2, <1>3 DEF Inv, Expire, RequestsHoldTheFile, ApprovedOnEvidence,
                    Outstanding, Required, DomainEvidence
<1> QED
  BY <1>1, <1>4, <1>5 DEF Inv

\* Requests and conditions.
LEMMA RequestStep ==
  ASSUME Inv, NEW r \in Requests,
         \/ RaiseRequest(r)
         \/ Respond(r)
         \/ \E a \in BOOLEAN : ReviewResponse(r, a)
  PROVE  Inv'
<1>1. DeskTypeOK'
  BY DEF Inv, DeskTypeOK, RaiseRequest, Respond, ReviewResponse, Statuses
<1>2. UNCHANGED <<section, document, condition>>
  BY DEF RaiseRequest, Respond, ReviewResponse
<1>3. SignedOffOnEvidence' /\ ClearedOnEvidence'
  BY <1>2 DEF Inv, SignedOffOnEvidence, ClearedOnEvidence, Verified, DomainEvidence,
              Linked, Current
<1>4. RequestsHoldTheFile'
  BY DEF Inv, DeskTypeOK, RaiseRequest, Respond, ReviewResponse,
         RequestsHoldTheFile
<1>5. status' # "approved"
  BY DEF RaiseRequest, Respond, ReviewResponse, Reviewable
<1> QED
  BY <1>1, <1>3, <1>4, <1>5 DEF Inv, ApprovedOnEvidence

LEMMA ConditionStep ==
  ASSUME Inv, NEW c \in Conditions, AddCondition(c) \/ ClearCondition(c)
  PROVE  Inv'
<1>1. DeskTypeOK'
  BY DEF Inv, DeskTypeOK, AddCondition, ClearCondition
<1>2. UNCHANGED <<status, section, document, request>> /\ status # "approved"
  BY DEF AddCondition, ClearCondition, Reviewable
<1>3. SignedOffOnEvidence' /\ RequestsHoldTheFile' /\ ApprovedOnEvidence'
  BY <1>2 DEF Inv, SignedOffOnEvidence, RequestsHoldTheFile, ApprovedOnEvidence,
              Verified, DomainEvidence, Current
<1>4. ClearedOnEvidence'
  BY <1>2 DEF Inv, DeskTypeOK, AddCondition, ClearCondition, ClearedOnEvidence,
              Linked, Verified, Current
<1> QED
  BY <1>1, <1>3, <1>4 DEF Inv

\* The steps of the file itself.  What is decided rests on Complete, so no
\* request is left.
LEMMA StatusStep ==
  ASSUME Inv,
         \/ Submit \/ StartReview \/ Reject \/ Approve \/ RecordsChange
         \/ \E new \in SUBSET Conditions : ApproveConditionally(new)
         \/ UNCHANGED vars
  PROVE  Inv'
<1> USE DEF Inv
<1>1. UNCHANGED <<section, document, request>>
  BY DEF Submit, StartReview, Reject, Approve, RecordsChange,
         ApproveConditionally, vars
<1>2. /\ condition' \in [Conditions -> {"none", "open", "cleared"}]
      /\ \A c \in Conditions : condition'[c] = "cleared" <=> condition[c] = "cleared"
  BY DEF DeskTypeOK, Submit, StartReview, Reject, Approve, RecordsChange,
         ApproveConditionally, vars
<1>3. DeskTypeOK'
  BY <1>1, <1>2 DEF DeskTypeOK, Submit, StartReview, Reject, Approve,
                    RecordsChange, ApproveConditionally, vars, Statuses
<1>4. SignedOffOnEvidence' /\ ClearedOnEvidence'
  BY <1>1, <1>2 DEF SignedOffOnEvidence, ClearedOnEvidence, Verified, DomainEvidence,
                    Linked, Current
<1>5. RequestsHoldTheFile'
  BY <1>1 DEF RequestsHoldTheFile, Submit, StartReview, Reject, Approve,
              RecordsChange, ApproveConditionally, vars, Decide, MayApprove, Complete
<1>6. ApprovedOnEvidence'
  <2>1. CASE Approve
    BY <1>1, <2>1 DEF Approve, ApprovedOnEvidence, MayApprove, Complete, Outstanding,
                      Required, Current
  <2>2. CASE status' # "approved"
    BY <2>2 DEF ApprovedOnEvidence
  <2>3. CASE ~Approve /\ status' = "approved"
    <3>1. UNCHANGED <<status, condition>>
      BY <2>3 DEF Submit, StartReview, Reject, RecordsChange,
                  ApproveConditionally, vars
    <3> QED
      BY <1>1, <3>1 DEF ApprovedOnEvidence, Outstanding, Required, DomainEvidence, Current
  <2> QED
    BY <2>1, <2>2, <2>3
<1> QED
  BY <1>3, <1>4, <1>5, <1>6

LEMMA Step == Inv /\ [Next]_vars => Inv'
<1> SUFFICES ASSUME Inv, [Next]_vars PROVE Inv'
  OBVIOUS
<1> QED
  BY SaveSectionStep, UploadStep, ReviewSectionStep, ReviewDocumentStep, ExpireStep,
     RequestStep, ConditionStep, StatusStep DEF Next

LEMMA Invariance == Spec => []Inv
  BY InitInv, Step, PTL DEF Spec

-----------------------------------------------------------------------------
\* The desk's state keeps its types.
THEOREM DeskTypeCorrect == Spec => []DeskTypeOK
  BY Invariance, PTL DEF Inv

\* A passed section stands on declared data and verified current evidence,
\* whatever is uploaded, reviewed or requested after the sign-off.
THEOREM SignOffsStand == Spec => []SignedOffOnEvidence
  BY Invariance, PTL DEF Inv

\* A cleared condition keeps its verified evidence.
THEOREM ClearancesStand == Spec => []ClearedOnEvidence
  BY Invariance, PTL DEF Inv

\* Nobody gets past an information request that is not accepted.
THEOREM RequestsHold == Spec => []RequestsHoldTheFile
  BY Invariance, PTL DEF Inv

\* An approved file has nothing open, and every required section is passed or
\* waits on a renewal.
THEOREM ApprovalsStand == Spec => []ApprovedOnEvidence
  BY Invariance, PTL DEF Inv

\* Approval is final and later uploads stay unreviewed.
THEOREM ApprovalIsFinal == Spec => ApprovedFileOnlyAges
<1>1. ASSUME DeskTypeOK, DeskTypeOK', [Next]_vars, status = "approved"
      PROVE  /\ status' = "approved"
             /\ UNCHANGED <<request, condition>>
             /\ \A t \in Types :
                  document'[t] # None /\ document'[t].status = "verified" =>
                    document[t] # None /\ document[t].status = "verified"
             /\ \A d \in Domains :
                  section'[d].status \in {section[d].status, "pending"}
  <2>1. CASE \E t \in Types, d \in Domains, c \in Conditions \cup {None}, e \in BOOLEAN :
               Upload(t, d, c, e)
    BY <1>1, <2>1 DEF Upload, DeskTypeOK, Unreviewed
  <2>2. CASE \E t \in Types : Expire(t)
    BY <1>1, <2>2 DEF Expire, DeskTypeOK
  <2>3. CASE RecordsChange \/ UNCHANGED vars
    BY <1>1, <2>3 DEF RecordsChange, vars
  <2> QED
    BY <1>1, <2>1, <2>2, <2>3
       DEF Next, Submit, StartReview, Reject, Approve, Decide, SaveSection,
           ReviewSection, ReviewDocument, RaiseRequest, Respond, ReviewResponse,
           AddCondition, ClearCondition, ApproveConditionally, Editable, Reviewable
<1> QED
  BY <1>1, DeskTypeCorrect, PTL DEF Spec, ApprovedFileOnlyAges

-----------------------------------------------------------------------------
(* WarehouseFloor.  A lot is checked against rows that nobody locks, and saved *)
(* some steps later; what it was checked against stays true because zones and  *)
(* lots never change hands.                                                    *)

\* The lot being written is in one warehouse, and stays in the lot's own.
WritingSound ==
  writing # NoRow =>
    /\ SiteOf[writing.row.facility] = writing.row.warehouse
    /\ zone[writing.row.zone] # NoRow /\ zone[writing.row.zone].warehouse = writing.row.warehouse
    /\ lot[writing.id] # NoRow => lot[writing.id].warehouse = writing.row.warehouse

ReleasedLotExists == \A r \in Releases : release[r] # NoRow => lot[release[r].lot] # NoRow

FloorIInv == FloorTypeOK /\ FloorInOneWarehouse /\ WritingSound /\ ReleasedLotExists

LEMMA FloorStart == FloorInit => FloorIInv
<1> SUFFICES ASSUME FloorInit PROVE FloorIInv
  OBVIOUS
<1>1. FloorTypeOK
  BY DEF FloorInit, FloorTypeOK
<1> QED BY <1>1 DEF FloorInit, FloorIInv, FloorInOneWarehouse, WritingSound, ReleasedLotExists

\* A zone is moved within its warehouse.
LEMMA SaveZoneStep ==
  ASSUME FloorIInv, NEW z \in Zones, NEW row \in StorageZone, SaveZone(z, row)
  PROVE  FloorIInv'
<1>1. zone' = [zone EXCEPT ![z] = row] /\ UNCHANGED <<application, lot, release, writing>>
  BY DEF SaveZone
<1>2. FloorTypeOK'
  BY <1>1 DEF FloorIInv, FloorTypeOK
<1>3. \A o \in Zones : zone[o] # NoRow => zone'[o] # NoRow /\ zone'[o].warehouse = zone[o].warehouse
  BY <1>1, FloorAssumption DEF FloorIInv, FloorTypeOK, SaveZone
<1>4. FloorInOneWarehouse'
  BY <1>1, <1>3, FloorAssumption DEF FloorIInv, FloorTypeOK, FloorInOneWarehouse, InventoryLot
<1>5. WritingSound'
  BY <1>1, <1>3, FloorAssumption DEF FloorIInv, FloorTypeOK, WritingSound, InventoryLot
<1> QED BY <1>1, <1>2, <1>4, <1>5 DEF FloorIInv, ReleasedLotExists

\* The lot is stored as it was checked, in the warehouse it had.
LEMMA SaveLotStep == ASSUME FloorIInv, SaveLot PROVE FloorIInv'
<1> DEFINE l == writing.id
<1>1. /\ lot' = [lot EXCEPT ![l] = writing.row] /\ writing' = NoRow /\ writing # NoRow
      /\ UNCHANGED <<application, zone, release>>
  BY DEF SaveLot
<1>2. l \in Lots /\ writing.row \in InventoryLot /\ NoRow \notin InventoryLot
  BY <1>1, FloorAssumption DEF FloorIInv, FloorTypeOK
<1>3. FloorTypeOK'
  BY <1>1, <1>2 DEF FloorIInv, FloorTypeOK
<1>4. \A o \in Lots : lot[o] # NoRow => lot'[o] # NoRow /\ lot'[o].warehouse = lot[o].warehouse
  BY <1>1, <1>2 DEF FloorIInv, FloorTypeOK, WritingSound
<1>5. \A r \in Releases : release[r] # NoRow => release[r].lot \in Lots
  BY FloorAssumption DEF FloorIInv, FloorTypeOK, ReleaseRequest
<1>6. \A o \in Lots : lot'[o] = lot[o] \/ lot'[o] = writing.row
  BY <1>1, <1>2 DEF FloorIInv, FloorTypeOK
<1>7. FloorInOneWarehouse'
  BY <1>1, <1>4, <1>5, <1>6 DEF FloorIInv, FloorInOneWarehouse, WritingSound, ReleasedLotExists
<1>8. WritingSound' /\ ReleasedLotExists'
  BY <1>1, <1>4, <1>5 DEF FloorIInv, WritingSound, ReleasedLotExists
<1> QED BY <1>3, <1>7, <1>8 DEF FloorIInv

\* A release names a lot there is, and the lot's warehouse.
LEMMA SaveReleaseStep ==
  ASSUME FloorIInv, NEW r \in Releases, NEW l \in Lots, SaveRelease(r, l)
  PROVE  FloorIInv'
<1> DEFINE row == [lot |-> l, warehouse |-> lot[l].warehouse,
                   status |-> IF release[r] = NoRow THEN "pending" ELSE release[r].status]
<1>1. /\ lot[l] # NoRow /\ release' = [release EXCEPT ![r] = row]
      /\ UNCHANGED <<application, zone, lot, writing>>
  BY DEF SaveRelease
<1>2. row \in ReleaseRequest
  BY <1>1 DEF FloorIInv, FloorTypeOK, InventoryLot, ReleaseRequest
<1>3. FloorTypeOK'
  BY <1>1, <1>2 DEF FloorIInv, FloorTypeOK
<1>4. \A s \in Releases : release'[s] = release[s] \/ release'[s] = row
  BY <1>1 DEF FloorIInv, FloorTypeOK
<1>5. row.lot = l /\ row.warehouse = lot[l].warehouse
  OBVIOUS
<1>6. FloorInOneWarehouse' /\ ReleasedLotExists'
  BY <1>1, <1>4, <1>5 DEF FloorIInv, FloorInOneWarehouse, ReleasedLotExists
<1> QED BY <1>1, <1>3, <1>6 DEF FloorIInv, WritingSound

\* Dispatching a lot changes its status alone.
LEMMA DecideReleaseStep ==
  ASSUME FloorIInv, NEW r \in Releases, NEW s \in {"authorised", "declined"}, DecideRelease(r, s)
  PROVE  FloorIInv'
<1> DEFINE l == release[r].lot
           row == [lot[l] EXCEPT !.status = "dispatched"]
           request1 == [release[r] EXCEPT !.status = s]
<1>1. /\ release[r] # NoRow /\ release' = [release EXCEPT ![r] = request1]
      /\ lot' = lot \/ lot' = [lot EXCEPT ![l] = row]
      /\ UNCHANGED <<application, zone, writing>>
  BY DEF DecideRelease
<1>2. /\ release[r] \in ReleaseRequest /\ l \in Lots
      /\ NoRow \notin InventoryLot /\ NoRow \notin ReleaseRequest
  BY <1>1, FloorAssumption DEF FloorIInv, FloorTypeOK, ReleaseRequest
<1>3. lot[l] \in InventoryLot
  BY <1>1, <1>2 DEF FloorIInv, FloorTypeOK, ReleasedLotExists
<1>4. /\ row \in InventoryLot /\ row.warehouse = lot[l].warehouse
      /\ row.zone = lot[l].zone /\ row.facility = lot[l].facility
  BY <1>3 DEF InventoryLot, LotStatus
<1>5. /\ request1 \in ReleaseRequest /\ request1.lot = l
      /\ request1.warehouse = release[r].warehouse
  BY <1>2 DEF ReleaseRequest
<1>6. FloorTypeOK'
  BY <1>1, <1>2, <1>4, <1>5 DEF FloorIInv, FloorTypeOK
<1>7. \A o \in Lots : /\ lot'[o] # NoRow <=> lot[o] # NoRow
                      /\ lot[o] # NoRow => /\ lot'[o].warehouse = lot[o].warehouse
                                           /\ lot'[o].zone = lot[o].zone
                                           /\ lot'[o].facility = lot[o].facility
  BY <1>1, <1>2, <1>3, <1>4 DEF FloorIInv, FloorTypeOK
<1>8. \A q \in Releases : /\ release'[q] # NoRow <=> release[q] # NoRow
                          /\ release[q] # NoRow => /\ release'[q].lot = release[q].lot
                                                   /\ release'[q].warehouse = release[q].warehouse
  BY <1>1, <1>2, <1>5 DEF FloorIInv, FloorTypeOK
<1>9. \A q \in Releases : release[q] # NoRow => release[q].lot \in Lots
  BY FloorAssumption DEF FloorIInv, FloorTypeOK, ReleaseRequest
<1>10. FloorInOneWarehouse'
  BY <1>1, <1>7, <1>8, <1>9 DEF FloorIInv, FloorInOneWarehouse, ReleasedLotExists
<1>11. ReleasedLotExists'
  BY <1>7, <1>8, <1>9 DEF FloorIInv, ReleasedLotExists
<1>12. WritingSound'
  BY <1>1, <1>7 DEF FloorIInv, FloorTypeOK, WritingSound
<1> QED BY <1>6, <1>10, <1>11, <1>12 DEF FloorIInv

\* FloorIInv is an invariant.
LEMMA FloorInvariant == FloorSpec => []FloorIInv
<1>1. FloorIInv /\ [FloorNext]_floorVars => FloorIInv'
  <2> SUFFICES ASSUME FloorIInv, [FloorNext]_floorVars PROVE FloorIInv'
    OBVIOUS
  <2> USE DEF FloorIInv
  <2>1. CASE UNCHANGED floorVars
    BY <2>1 DEF floorVars, FloorTypeOK, FloorInOneWarehouse, WritingSound, ReleasedLotExists
  <2>2. ASSUME NEW w \in Warehouses, Proceed(w) PROVE FloorIInv'
    BY <2>2 DEF Proceed, FloorTypeOK, FloorInOneWarehouse, WritingSound, ReleasedLotExists
  <2>3. ASSUME NEW l \in Lots, NEW row \in InventoryLot, WriteLot(l, row) PROVE FloorIInv'
    <3>1. writing' = [id |-> l, row |-> row] /\ UNCHANGED <<application, zone, lot, release>>
      BY <2>3 DEF WriteLot
    <3>2. FloorTypeOK' /\ WritingSound'
      BY <2>3, <3>1 DEF WriteLot, LotValidated, FloorTypeOK, WritingSound
    <3> QED BY <3>1, <3>2 DEF FloorInOneWarehouse, ReleasedLotExists
  <2>4. CASE RefuseLot
    BY <2>4 DEF RefuseLot, FloorTypeOK, FloorInOneWarehouse, WritingSound, ReleasedLotExists
  <2> QED
    BY <2>1, <2>2, <2>3, <2>4, SaveZoneStep, SaveLotStep, SaveReleaseStep, DecideReleaseStep
       DEF FloorNext
<1> QED BY <1>1, FloorStart, PTL DEF FloorSpec

\* Whatever zones are moved and releases decided while a lot is being written,
\* a lot's facility and zone, and the lot a release names, are one warehouse's.
THEOREM FloorStaysTogether == FloorSpec => [](FloorTypeOK /\ FloorInOneWarehouse)
<1>1. FloorIInv => FloorTypeOK /\ FloorInOneWarehouse
  BY DEF FloorIInv
<1> QED BY <1>1, FloorInvariant, PTL

-----------------------------------------------------------------------------
(* FleetOperations.  Accepting an order schedules a movement only when none    *)
(* is of that order; a locked movement keeps its row.                          *)

\* Two movements that no PATCH has touched are of two orders.
OneOwnEach ==
  \A m, n \in Movements :
    Own(m) /\ Own(n) /\ movement[m].order = movement[n].order /\ movement[m].order \in Orders => m = n

AssignedExists == \A m \in Movements : assigning[m] # Absent => movement[m] # Absent

FleetIInv == FleetTypeOK /\ OneOwnEach /\ AssignedExists /\ ArrivedIsReceived

\* The rows of one order that no PATCH has touched are one at most.
LEMMA OneOwnIsOne == FleetIInv => OneMovementPerOrder
<1> SUFFICES ASSUME FleetIInv, NEW o \in Orders
             PROVE  Cardinality({m \in Moving(o) : Own(m)}) <= 1
  BY DEF OneMovementPerOrder
<1> DEFINE S == {m \in Moving(o) : Own(m)}
<1>1. CASE S = {}
  BY <1>1, FS_EmptySet
<1>2. CASE S # {}
  <2>1. PICK m : m \in S
    BY <1>2
  <2>2. \A n \in S : n = m
    BY <2>1 DEF FleetIInv, OneOwnEach, Moving
  <2>3. S = {m}
    BY <2>1, <2>2
  <2> QED BY <2>3, FS_Singleton
<1> QED BY <1>1, <1>2

LEMMA MovementStatuses ==
  DOMAIN MOVEMENT_TRANSITIONS =
    {"scheduled", "assigned", "loading", "in_transit", "delayed", "arrived", "delivered", "cancelled"}
BY DEF MOVEMENT_TRANSITIONS

LEMMA Patched == ASSUME FleetIInv, Patching PROVE patches' \in 0..MaxPatches
BY FleetAssumption DEF Patching, FleetIInv, FleetTypeOK

LEMMA FleetStart == FleetInit => FleetIInv
<1> SUFFICES ASSUME FleetInit PROVE FleetIInv
  OBVIOUS
<1>1. FleetTypeOK
  <2>1. patches \in 0..MaxPatches
    BY FleetAssumption DEF FleetInit
  <2>2. restricted \in BOOLEAN
    BY DEF FleetInit
  <2> QED BY <2>1, <2>2 DEF FleetInit, FleetTypeOK
<1> QED BY <1>1 DEF FleetInit, FleetIInv, OneOwnEach, Own, AssignedExists, ArrivedIsReceived

\* What keeps the claims on movements: a row changes into one of the same order,
\* no more of them count as untouched, and none of those arrives.
LEMMA MovementKept ==
  ASSUME FleetIInv, FleetTypeOK', UNCHANGED delivery,
         \A n \in Movements : Own(n)' => /\ Own(n)
                                         /\ movement'[n].order = movement[n].order
                                         /\ movement'[n].status \in {"arrived", "delivered"} =>
                                              movement[n].status \in {"arrived", "delivered"},
         AssignedExists'
  PROVE  FleetIInv'
<1>1. OneOwnEach'
  BY DEF FleetIInv, OneOwnEach
<1>2. ArrivedIsReceived'
  BY DEF FleetIInv, ArrivedIsReceived, Receipts
<1> QED BY <1>1, <1>2 DEF FleetIInv

LEMMA AcceptStep == ASSUME FleetIInv, NEW o \in Orders, Accept(o) PROVE FleetIInv'
<1>1. order' = [order EXCEPT ![o] = "accepted"] /\ UNCHANGED <<delivery, fit, restricted, assigning, patches>>
  BY DEF Accept
<1>2. CASE UNCHANGED movement
  <2>1. FleetTypeOK'
    BY <1>1, <1>2 DEF FleetIInv, FleetTypeOK, OrderStatus
  <2> QED BY <1>1, <1>2, <2>1, MovementKept DEF FleetIInv, AssignedExists, Own
<1>3. ASSUME NEW m \in Movements, Moving(o) = {}, movement[m] = Absent, Scheduled(m, o)
      PROVE  FleetIInv'
  <2> DEFINE row == [status |-> "scheduled", order |-> o, truck |-> Absent, own |-> TRUE]
  <2>1. row \in Movement /\ row # Absent
    <3>1. row \in Movement
      BY MovementStatuses DEF Movement
    <3> QED BY <3>1, FleetAssumption
  <2>2. movement' = [movement EXCEPT ![m] = row]
    BY <1>3 DEF Scheduled
  <2>3. FleetTypeOK'
    BY <1>1, <2>1, <2>2 DEF FleetIInv, FleetTypeOK, OrderStatus
  <2>4. movement'[m] = row /\ \A n \in Movements : n # m => movement'[n] = movement[n]
    BY <2>2 DEF FleetIInv, FleetTypeOK
  <2>5. \A n \in Movements : n # m /\ Own(n)' => Own(n) /\ movement'[n].order # o
    BY <1>3, <2>4 DEF Own, Moving
  <2>6. OneOwnEach'
    BY <2>4, <2>5 DEF FleetIInv, OneOwnEach
  <2>7. AssignedExists'
    BY <1>1, <2>1, <2>4 DEF FleetIInv, AssignedExists
  <2>8. ArrivedIsReceived'
    BY <1>1, <2>4, <2>5 DEF FleetIInv, ArrivedIsReceived, Receipts
  <2> QED BY <2>3, <2>6, <2>7, <2>8 DEF FleetIInv
<1> QED BY <1>2, <1>3 DEF Accept

LEMMA AssignSaveStep == ASSUME FleetIInv, NEW m \in Movements, AssignSave(m) PROVE FleetIInv'
<1> DEFINE row == [movement[m] EXCEPT !.truck = assigning[m],
                     !.status = IF @ = "scheduled" THEN "assigned" ELSE @]
<1>1. /\ assigning[m] # Absent /\ movement' = [movement EXCEPT ![m] = row]
      /\ assigning' = [assigning EXCEPT ![m] = Absent]
      /\ UNCHANGED <<order, delivery, fit, restricted, patches>>
  BY DEF AssignSave
<1>2. movement[m] \in Movement /\ assigning[m] \in Trucks /\ Absent \notin Movement
  BY <1>1, FleetAssumption DEF FleetIInv, FleetTypeOK, AssignedExists
<1>3. /\ row \in Movement /\ row.order = movement[m].order /\ row.own = movement[m].own
      /\ row.status \in {"arrived", "delivered"} => movement[m].status \in {"arrived", "delivered"}
  BY <1>2, MovementStatuses DEF Movement
<1>4. FleetTypeOK'
  BY <1>1, <1>3 DEF FleetIInv, FleetTypeOK
<1>5. movement'[m] = row /\ \A n \in Movements : n # m => movement'[n] = movement[n]
  BY <1>1 DEF FleetIInv, FleetTypeOK
<1>6. AssignedExists'
  BY <1>1, <1>2, <1>3, <1>5 DEF FleetIInv, FleetTypeOK, AssignedExists
<1>7. \A n \in Movements : Own(n)' => /\ Own(n)
                                      /\ movement'[n].order = movement[n].order
                                      /\ movement'[n].status \in {"arrived", "delivered"} =>
                                           movement[n].status \in {"arrived", "delivered"}
  BY <1>2, <1>3, <1>5 DEF Own
<1> QED BY <1>1, <1>4, <1>6, <1>7, MovementKept

\* A delivery once there stays there, and the one of this movement is found or
\* made.
LEMMA ReceivedNow ==
  ASSUME FleetIInv, NEW m \in Movements, movement[m] # Absent, DeliveryForMovement(m)
  PROVE  /\ delivery' \in [Deliveries -> Delivery \cup {Absent}]
         /\ \E d \in Deliveries : delivery'[d] # Absent /\ delivery'[d].movement = m
         /\ \A d \in Deliveries : delivery[d] # Absent =>
              /\ delivery'[d] # Absent /\ delivery'[d].movement = delivery[d].movement
              /\ delivery'[d].own = delivery[d].own
<1>1. Absent \notin Delivery /\ delivery \in [Deliveries -> Delivery \cup {Absent}]
  BY FleetAssumption DEF FleetIInv, FleetTypeOK
<1>2. ASSUME NEW d \in Receipts(m), delivery' = [delivery EXCEPT ![d].status = "arrived"]
      PROVE  /\ delivery' = [delivery EXCEPT ![d] = [delivery[d] EXCEPT !.status = "arrived"]]
             /\ d \in Deliveries /\ delivery[d] \in Delivery /\ delivery[d].movement = m
             /\ [delivery[d] EXCEPT !.status = "arrived"] \in Delivery
  BY <1>1, <1>2 DEF Receipts, Delivery, DeliveryStatus
<1>3. ASSUME NEW d \in Deliveries, delivery[d] = Absent,
             delivery' = [delivery EXCEPT ![d] = [movement |-> m, status |-> "arrived", own |-> TRUE]]
      PROVE  [movement |-> m, status |-> "arrived", own |-> TRUE] \in Delivery
  BY DEF Delivery, DeliveryStatus
<1>4. CASE \E d \in Receipts(m) : delivery' = [delivery EXCEPT ![d].status = "arrived"]
  <2>1. PICK d \in Receipts(m) : delivery' = [delivery EXCEPT ![d].status = "arrived"]
    BY <1>4
  <2> DEFINE row == [delivery[d] EXCEPT !.status = "arrived"]
  <2>2. /\ delivery' = [delivery EXCEPT ![d] = row]
        /\ d \in Deliveries /\ delivery[d] \in Delivery /\ delivery[d].movement = m
        /\ row \in Delivery
    BY <1>2, <2>1
  <2>3. row.movement = m /\ row.own = delivery[d].own
    BY <2>2 DEF Delivery
  <2>4. delivery'[d] = row /\ \A e \in Deliveries : e # d => delivery'[e] = delivery[e]
    BY <1>1, <2>2
  <2>5. delivery' \in [Deliveries -> Delivery \cup {Absent}]
    BY <1>1, <2>2
  <2> QED BY <1>1, <2>2, <2>3, <2>4, <2>5
<1>5. CASE \E d \in Deliveries :
             /\ delivery[d] = Absent
             /\ delivery' = [delivery EXCEPT ![d] = [movement |-> m, status |-> "arrived", own |-> TRUE]]
  <2>1. PICK d \in Deliveries :
          /\ delivery[d] = Absent
          /\ delivery' = [delivery EXCEPT ![d] = [movement |-> m, status |-> "arrived", own |-> TRUE]]
    BY <1>5
  <2> DEFINE row == [movement |-> m, status |-> "arrived", own |-> TRUE]
  <2>2. row \in Delivery /\ row.movement = m
    BY <1>3, <2>1
  <2>3. delivery' = [delivery EXCEPT ![d] = row]
    BY <2>1
  <2> HIDE DEF row
  <2>4. delivery'[d] = row /\ \A e \in Deliveries : e # d => delivery'[e] = delivery[e]
    BY <1>1, <2>3
  <2> QED BY <1>1, <2>1, <2>2, <2>3, <2>4
<1> QED BY <1>4, <1>5 DEF DeliveryForMovement

LEMMA SetStatusStep ==
  ASSUME FleetIInv, NEW m \in Movements, NEW s \in DOMAIN MOVEMENT_TRANSITIONS, SetStatus(m, s)
  PROVE  FleetIInv'
<1> DEFINE row == [movement[m] EXCEPT !.status = s]
<1>1. /\ movement[m] # Absent /\ assigning[m] = Absent /\ movement' = [movement EXCEPT ![m] = row]
      /\ IF s \in {"arrived", "delivered"} THEN DeliveryForMovement(m) ELSE UNCHANGED delivery
      /\ UNCHANGED <<order, fit, restricted, assigning, patches>>
  BY DEF SetStatus, Open
<1>2. movement[m] \in Movement /\ Absent \notin Movement
  BY <1>1, FleetAssumption DEF FleetIInv, FleetTypeOK
<1>3. row \in Movement /\ row.order = movement[m].order /\ row.own = movement[m].own /\ row.status = s
  BY <1>2 DEF Movement
<1>4. movement'[m] = row /\ \A n \in Movements : n # m => movement'[n] = movement[n]
  BY <1>1 DEF FleetIInv, FleetTypeOK
<1>5. delivery' \in [Deliveries -> Delivery \cup {Absent}]
  BY <1>1, ReceivedNow DEF FleetIInv, FleetTypeOK
<1>6. FleetTypeOK'
  BY <1>1, <1>3, <1>5 DEF FleetIInv, FleetTypeOK
<1>7. \A n \in Movements : Own(n)' => Own(n) /\ movement'[n].order = movement[n].order
  BY <1>2, <1>3, <1>4 DEF Own
<1>8. OneOwnEach'
  BY <1>7 DEF FleetIInv, OneOwnEach
<1>9. AssignedExists'
  BY <1>1, <1>4 DEF FleetIInv, AssignedExists
<1>10. CASE s \in {"arrived", "delivered"}
  <2>1. DeliveryForMovement(m)
    BY <1>1, <1>10
  <2>2. /\ Receipts(m)' # {}
        /\ \A n \in Movements : Receipts(n) # {} => Receipts(n)' # {}
        /\ (\E d \in Deliveries : delivery[d] # Absent /\ ~delivery[d].own) =>
             \E d \in Deliveries : delivery'[d] # Absent /\ ~delivery'[d].own
    BY <1>1, <2>1, ReceivedNow DEF Receipts
  <2> QED BY <1>4, <1>6, <1>7, <1>8, <1>9, <2>2 DEF FleetIInv, ArrivedIsReceived
<1>11. CASE s \notin {"arrived", "delivered"}
  <2>1. UNCHANGED delivery
    BY <1>1, <1>11
  <2>2. \A n \in Movements : Own(n)' => /\ Own(n)
                                        /\ movement'[n].order = movement[n].order
                                        /\ movement'[n].status \in {"arrived", "delivered"} =>
                                             movement[n].status \in {"arrived", "delivered"}
    BY <1>3, <1>4, <1>7, <1>11
  <2> QED BY <1>6, <1>9, <2>1, <2>2, MovementKept
<1> QED BY <1>10, <1>11

LEMMA DeliveryStep ==
  ASSUME FleetIInv, NEW d \in Deliveries,
         PatchDelivery(d) \/ \E s \in DeliveryStatus : CompleteDelivery(d, s)
  PROVE  FleetIInv'
<1>1. PICK row \in Delivery :
        /\ delivery' = [delivery EXCEPT ![d] = row]
        /\ ~row.own \/ (delivery[d] # Absent /\ row.movement = delivery[d].movement /\ row.own = delivery[d].own)
        /\ UNCHANGED <<order, movement, fit, restricted, assigning>>
        /\ patches' \in 0..MaxPatches
  <2>1. CASE PatchDelivery(d)
    BY <2>1, Patched DEF PatchDelivery
  <2>2. ASSUME NEW s \in DeliveryStatus, CompleteDelivery(d, s)
        PROVE  /\ [delivery[d] EXCEPT !.status = s] \in Delivery
               /\ delivery' = [delivery EXCEPT ![d] = [delivery[d] EXCEPT !.status = s]]
               /\ [delivery[d] EXCEPT !.status = s].movement = delivery[d].movement
               /\ [delivery[d] EXCEPT !.status = s].own = delivery[d].own
               /\ delivery[d] # Absent /\ UNCHANGED <<order, movement, fit, restricted, assigning, patches>>
    <3>1. delivery[d] \in Delivery
      BY <2>2 DEF CompleteDelivery, FleetIInv, FleetTypeOK
    <3> QED BY <2>2, <3>1 DEF CompleteDelivery, Delivery
  <2> QED BY <2>1, <2>2 DEF FleetIInv, FleetTypeOK
<1>2. FleetTypeOK'
  BY <1>1 DEF FleetIInv, FleetTypeOK
<1>3. delivery'[d] = row /\ row # Absent /\ \A e \in Deliveries : e # d => delivery'[e] = delivery[e]
  BY <1>1, FleetAssumption DEF FleetIInv, FleetTypeOK
<1>4. OneOwnEach' /\ AssignedExists'
  BY <1>1 DEF FleetIInv, OneOwnEach, AssignedExists, Own
<1>5. CASE ~row.own
  BY <1>2, <1>3, <1>4, <1>5 DEF FleetIInv, ArrivedIsReceived
<1>6. CASE /\ delivery[d] # Absent /\ row.movement = delivery[d].movement
           /\ row.own = delivery[d].own
  <2>1. \A m \in Movements : Receipts(m) # {} => Receipts(m)' # {}
    BY <1>3, <1>6 DEF Receipts
  <2>2. (\E e \in Deliveries : delivery[e] # Absent /\ ~delivery[e].own) =>
          \E e \in Deliveries : delivery'[e] # Absent /\ ~delivery'[e].own
    BY <1>3, <1>6
  <2>3. ArrivedIsReceived'
    BY <1>1, <2>1, <2>2 DEF FleetIInv, ArrivedIsReceived, Own
  <2> QED BY <1>2, <1>4, <2>3 DEF FleetIInv
<1> QED BY <1>1, <1>5, <1>6

LEMMA PatchMovementStep ==
  ASSUME FleetIInv, NEW m \in Movements, PatchMovement(m) PROVE FleetIInv'
<1>1. PICK row \in Movement :
        /\ ~row.own /\ movement' = [movement EXCEPT ![m] = row] /\ assigning[m] = Absent
        /\ UNCHANGED <<order, delivery, fit, restricted, assigning>> /\ patches' \in 0..MaxPatches
  BY Patched DEF PatchMovement
<1>2. FleetTypeOK'
  BY <1>1 DEF FleetIInv, FleetTypeOK
<1>3. movement'[m] = row /\ \A n \in Movements : n # m => movement'[n] = movement[n]
  BY <1>1 DEF FleetIInv, FleetTypeOK
<1>4. AssignedExists'
  BY <1>1, <1>3 DEF FleetIInv, AssignedExists
<1> QED BY <1>1, <1>2, <1>3, <1>4, MovementKept DEF Own

\* FleetIInv is an invariant.
LEMMA FleetInvariant == FleetSpec => []FleetIInv
<1>1. FleetIInv /\ [FleetNext]_fleetVars => FleetIInv'
  <2> SUFFICES ASSUME FleetIInv, [FleetNext]_fleetVars PROVE FleetIInv'
    OBVIOUS
  <2>1. ASSUME FleetTypeOK', UNCHANGED <<movement, delivery>>, AssignedExists' PROVE FleetIInv'
    BY <2>1, MovementKept DEF Own
  <2>2. CASE UNCHANGED fleetVars
    BY <2>1, <2>2 DEF fleetVars, FleetIInv, FleetTypeOK, AssignedExists
  <2>3. ASSUME NEW o \in Orders, FileOrder(o) \/ Decline(o) \/ PatchOrder(o) PROVE FleetIInv'
    <3>1. /\ order' \in [Orders -> OrderStatus \cup {Absent}] /\ patches' \in 0..MaxPatches
          /\ UNCHANGED <<movement, delivery, fit, restricted, assigning>>
      BY <2>3, FleetAssumption
         DEF FileOrder, Decline, PatchOrder, Patching, FleetIInv, FleetTypeOK, OrderStatus
    <3> QED BY <2>1, <3>1 DEF FleetIInv, FleetTypeOK, AssignedExists
  <2>4. ASSUME NEW m \in Movements, NEW t \in Trucks, AssignCheck(m, t) PROVE FleetIInv'
    <3>1. /\ movement[m] # Absent /\ assigning' = [assigning EXCEPT ![m] = t]
          /\ UNCHANGED <<order, movement, delivery, fit, restricted, patches>>
      BY <2>4 DEF AssignCheck, Open
    <3> QED BY <2>1, <3>1 DEF FleetIInv, FleetTypeOK, AssignedExists
  <2>5. CASE Surroundings
    <3>1. /\ fit' \subseteq Trucks /\ restricted' \in BOOLEAN
          /\ UNCHANGED <<order, movement, delivery, assigning, patches>>
      BY <2>5 DEF Surroundings, FleetIInv, FleetTypeOK
    <3> QED BY <2>1, <3>1 DEF FleetIInv, FleetTypeOK, AssignedExists
  <2> QED
    BY <2>2, <2>3, <2>4, <2>5, AcceptStep, AssignSaveStep, SetStatusStep, DeliveryStep,
       PatchMovementStep DEF FleetNext
<1> QED BY <1>1, FleetStart, PTL DEF FleetSpec

\* However requests are blocked, accepted again, reassigned and patched, an order
\* has one movement that accepting it scheduled, and a movement taken to its
\* destination a delivery.
THEOREM FleetTellsOneStory == FleetSpec => [](FleetTypeOK /\ FleetAgrees)
<1>1. FleetIInv => FleetTypeOK /\ FleetAgrees
  BY OneOwnIsOne DEF FleetIInv, FleetAgrees
<1> QED BY <1>1, FleetInvariant, PTL

-----------------------------------------------------------------------------
(* MiningPapers.  A copy is replaced by one of its own paper that nobody has   *)
(* judged yet; what a handler holds of a copy stays true of it, since a filed  *)
(* copy is never taken back.                                                   *)

\* What requests and handlers point at has been filed.
PointsAtFiled ==
  /\ judging # NoCopy => judging \in Filed
  /\ replacing # NoCopy => replacing \in Filed
  /\ \A q \in Asks : /\ ask[q].copy # NoCopy => ask[q].copy \in Filed
                     /\ answering[q].copy # NoCopy => answering[q].copy \in Filed
                     /\ patching[q].copy # NoCopy => patching[q].copy \in Filed

PapersIInv == PapersTypeOK /\ PaperNeverLost /\ PointsAtFiled

LEMMA PapersStart == PapersInit => PapersIInv
<1> SUFFICES ASSUME PapersInit PROVE PapersIInv
  OBVIOUS
<1>1. /\ paper \in [Copies -> Paper] /\ ask \in [Asks -> InfoRequest] /\ answering \in [Asks -> InfoRequest]
      /\ patching \in [Asks -> InfoRequest]
  BY PapersAssumption DEF PapersInit, Paper, PaperState, InfoRequest, AskStatus, Idle
<1>2. \A c \in Copies : paper[c].state = "unfiled"
  BY DEF PapersInit
<1> QED
  BY <1>1, <1>2 DEF PapersInit, PapersIInv, PapersTypeOK, PaperNeverLost, PointsAtFiled, Filed, Unfiled, Idle

\* A step that judges or files copies, and takes none of a paper off the table
\* without putting another there, keeps what points at copies.
LEMMA FilesKept ==
  ASSUME PapersIInv, PapersTypeOK',
         \A c \in Copies : paper[c].state # "unfiled" =>
           paper'[c].state # "unfiled" /\ paper'[c].name = paper[c].name,
         PaperNeverLost',
         judging' \in {judging, NoCopy} \cup Filed, replacing' \in {replacing, NoCopy} \cup Filed,
         \A q \in Asks : /\ ask'[q].copy \in {ask[q].copy, NoCopy} \cup Filed'
                         /\ answering'[q].copy \in {answering[q].copy, ask[q].copy, NoCopy} \cup Filed'
                         /\ patching'[q].copy \in {patching[q].copy, ask[q].copy, NoCopy} \cup Filed'
  PROVE  PapersIInv'
<1>1. Filed \subseteq Filed'
  BY DEF Filed, Unfiled
<1>2. PointsAtFiled'
  BY <1>1 DEF PapersIInv, PointsAtFiled
<1> QED BY <1>2 DEF PapersIInv

\* A paper whose copies change their states but for one is not lost while that
\* one is not retired.
LEMMA JudgedKept ==
  ASSUME PapersIInv, NEW c \in Filed, NEW s \in {"pending", "verified", "rejected"},
         paper' = [paper EXCEPT ![c].state = s]
  PROVE  /\ paper' \in [Copies -> Paper] /\ PaperNeverLost'
         /\ \A d \in Copies : /\ paper[d].state # "unfiled" => paper'[d].state # "unfiled"
                              /\ paper'[d].name = paper[d].name
                              /\ d # c => paper'[d] = paper[d]
         /\ paper'[c].state = s
<1>1. c \in Copies /\ paper[c] \in Paper /\ paper[c].state # "unfiled" /\ paper \in [Copies -> Paper]
  BY DEF PapersIInv, PapersTypeOK, Filed, Unfiled
<1>2. /\ [paper[c] EXCEPT !.state = s] \in Paper /\ [paper[c] EXCEPT !.state = s].name = paper[c].name
      /\ [paper[c] EXCEPT !.state = s].state = s
      /\ paper' = [paper EXCEPT ![c] = [paper[c] EXCEPT !.state = s]]
  BY <1>1 DEF Paper, PaperState
<1>3. /\ paper' \in [Copies -> Paper] /\ paper'[c].state = s /\ paper'[c].name = paper[c].name
      /\ \A d \in Copies : d # c => paper'[d] = paper[d]
  BY <1>1, <1>2
<1>4. \A n : Live(n) # {} => Live(n)' # {}
  BY <1>1, <1>3 DEF Live, Judgeable, Filed, Unfiled
<1>5. PaperNeverLost'
  BY <1>1, <1>3, <1>4 DEF PapersIInv, PaperNeverLost, Filed, Unfiled
<1> QED BY <1>1, <1>3, <1>5

\* A new copy, of its own paper or of the one it retires.
LEMMA FiledKept ==
  ASSUME PapersIInv, NEW new \in Copies, Coming(new), NEW n \in Names, NEW old \in Filed \cup {NoCopy},
         old # NoCopy => n = paper[old].name,
         paper' = IF old = NoCopy THEN [paper EXCEPT ![new] = New(n, NoCopy)]
                  ELSE [paper EXCEPT ![new] = New(n, old), ![old].state = "superseded"]
  PROVE  /\ paper' \in [Copies -> Paper] /\ PaperNeverLost' /\ new \in Filed'
         /\ \A d \in Copies : /\ paper[d].state # "unfiled" =>
                                   paper'[d].state # "unfiled" /\ paper'[d].name = paper[d].name
                              /\ paper'[d].state = "rejected" => paper[d].state = "rejected"
<1>1. /\ new \in Copies /\ paper[new].state = "unfiled" /\ paper \in [Copies -> Paper]
      /\ NoCopy \notin Copies /\ \A d \in Filed : paper[d].state # "unfiled" /\ d \in Copies
  BY PapersAssumption DEF Coming, PapersIInv, PapersTypeOK, Filed, Unfiled, Copies
<1>2. New(n, old) \in Paper /\ New(n, old).name = n /\ New(n, old).state = "pending"
  BY <1>1 DEF New, Paper, PaperState
<1>3. /\ paper' \in [Copies -> Paper] /\ paper'[new] = New(n, old)
      /\ \A d \in Copies \ {new} : \/ paper'[d] = paper[d]
                                   \/ d = old /\ paper'[d].name = n /\ paper'[d].state = "superseded"
  <2>1. CASE old = NoCopy
    BY <1>1, <1>2, <2>1
  <2>2. CASE old # NoCopy
    <3>1. paper[old] \in Paper /\ old \in Copies /\ old # new
      BY <1>1, <2>2
    <3>2. /\ [paper[old] EXCEPT !.state = "superseded"] \in Paper
          /\ [paper[old] EXCEPT !.state = "superseded"].name = n
          /\ [paper[old] EXCEPT !.state = "superseded"].state = "superseded"
      BY <2>2, <3>1 DEF Paper, PaperState
    <3>3. paper' = [paper EXCEPT ![new] = New(n, old),
                                 ![old] = [paper[old] EXCEPT !.state = "superseded"]]
      BY <1>1, <2>2, <3>1
    <3> QED BY <1>1, <1>2, <3>1, <3>2, <3>3
  <2> QED BY <2>1, <2>2
<1>4. new \in Live(n)'
  BY <1>1, <1>2, <1>3 DEF Live, Judgeable, Filed, Unfiled
<1>5. \A m : m # n /\ Live(m) # {} => Live(m)' # {}
  BY <1>1, <1>3 DEF Live, Judgeable, Filed, Unfiled
<1>6. PaperNeverLost'
  BY <1>1, <1>2, <1>3, <1>4, <1>5 DEF PapersIInv, PaperNeverLost, Filed, Unfiled
<1>7. \A d \in Copies : /\ paper[d].state # "unfiled" =>
                             paper'[d].state # "unfiled" /\ paper'[d].name = paper[d].name
                        /\ paper'[d].state = "rejected" => paper[d].state = "rejected"
  BY <1>1, <1>2, <1>3
<1> QED BY <1>1, <1>2, <1>3, <1>6, <1>7 DEF Filed, Unfiled

LEMMA RetiredKept ==
  ASSUME PapersIInv, NEW new \in Copies, Coming(new), NEW old \in Filed, paper' = Replacement(old, new)
  PROVE  /\ paper' \in [Copies -> Paper] /\ PaperNeverLost' /\ new \in Filed'
         /\ \A d \in Copies : /\ paper[d].state # "unfiled" =>
                                   paper'[d].state # "unfiled" /\ paper'[d].name = paper[d].name
                              /\ paper'[d].state = "rejected" => paper[d].state = "rejected"
<1> DEFINE n == paper[old].name
<1>1. old # NoCopy /\ n \in Names
  BY PapersAssumption DEF PapersIInv, PapersTypeOK, Paper, Filed, Unfiled, Copies
<1>2. paper' = IF old = NoCopy THEN [paper EXCEPT ![new] = New(n, NoCopy)]
               ELSE [paper EXCEPT ![new] = New(n, old), ![old].state = "superseded"]
  BY <1>1 DEF Replacement
<1>3. n = paper[old].name
  OBVIOUS
<1> HIDE DEF n
<1> QED BY <1>1, <1>2, <1>3, FiledKept

LEMMA JudgeStep == ASSUME PapersIInv, NEW c \in Copies, Judge(c) PROVE PapersIInv'
<1>1. CASE JudgeBegin(c)
  BY <1>1, FilesKept DEF JudgeBegin, Judgeable, PapersIInv, PapersTypeOK, PaperNeverLost, Filed, Unfiled,
                         Live
<1>2. CASE AcceptCopy(c)
  <2> DEFINE row(q) == IF q \in Unclosed(c) THEN [ask[q] EXCEPT !.status = "closed"] ELSE ask[q]
  <2>1. /\ judging = c /\ judging' = NoCopy /\ paper' = [paper EXCEPT ![c].state = "verified"]
        /\ ask' = [q \in Asks |-> row(q)] /\ UNCHANGED <<replacing, answering, patching>>
    BY <1>2 DEF AcceptCopy
  <2>2. c \in Filed
    BY <2>1, PapersAssumption DEF PapersIInv, PointsAtFiled, Copies
  <2>3. \A q \in Asks : row(q) \in InfoRequest /\ row(q).copy = ask[q].copy
    BY DEF PapersIInv, PapersTypeOK, InfoRequest, AskStatus
  <2> HIDE DEF row
  <2>4. PapersTypeOK'
    BY <2>1, <2>2, <2>3, JudgedKept DEF PapersIInv, PapersTypeOK
  <2> QED BY <2>1, <2>2, <2>3, <2>4, JudgedKept, FilesKept
<1>3. CASE Refuse(c)
  <2> DEFINE row(q) == IF q \in Unclosed(c) THEN [ask[q] EXCEPT !.status = "open"] ELSE ask[q]
  <2>1. /\ judging = c /\ judging' = NoCopy /\ paper' = [paper EXCEPT ![c].state = "rejected"]
        /\ UNCHANGED <<replacing, answering, patching>>
        /\ \/ ask' = [q \in Asks |-> row(q)]
           \/ \E q \in Asks : ask' = [ask EXCEPT ![q] = [status |-> "open", copy |-> c]]
    BY <1>3 DEF Refuse, Reopened
  <2>2. c \in Filed
    BY <2>1, PapersAssumption DEF PapersIInv, PointsAtFiled, Copies
  <2>3. /\ \A q \in Asks : row(q) \in InfoRequest /\ row(q).copy = ask[q].copy
        /\ [status |-> "open", copy |-> c] \in InfoRequest
    BY DEF PapersIInv, PapersTypeOK, InfoRequest, AskStatus
  <2> HIDE DEF row
  <2>4. /\ ask' \in [Asks -> InfoRequest]
        /\ \A q \in Asks : ask'[q].copy = ask[q].copy \/ ask'[q].copy = c
    BY <2>1, <2>3 DEF PapersIInv, PapersTypeOK
  <2>5. c \in Filed'
    BY <2>1, <2>2, JudgedKept DEF Filed, Unfiled
  <2>6. PapersTypeOK'
    BY <2>1, <2>2, <2>4, JudgedKept DEF PapersIInv, PapersTypeOK
  <2> QED BY <2>1, <2>2, <2>4, <2>5, <2>6, JudgedKept, FilesKept
<1> QED BY <1>1, <1>2, <1>3 DEF Judge

\* A replacement retires a filed copy; what was asked about it, the copy that
\* took its place answers.
LEMMA ReplaceStep ==
  ASSUME PapersIInv, NEW old \in Copies, NEW new \in Copies, Replace(old, new)
  PROVE  PapersIInv'
<1> DEFINE row(q) == IF q \in Unclosed(old) THEN [status |-> "responded", copy |-> new] ELSE ask[q]
<1>1. /\ replacing = old /\ Coming(new) /\ replacing' = NoCopy /\ paper' = Replacement(old, new)
      /\ ask' = [q \in Asks |-> row(q)] /\ UNCHANGED <<judging, answering, patching>>
  BY DEF Replace
<1>2. old \in Filed /\ old # NoCopy /\ paper[old].name \in Names
  BY <1>1, PapersAssumption DEF PapersIInv, PointsAtFiled, PapersTypeOK, Paper, Copies
<1>3. \A q \in Asks : row(q) \in InfoRequest /\ (row(q).copy = ask[q].copy \/ row(q).copy = new)
  BY DEF PapersIInv, PapersTypeOK, InfoRequest, AskStatus
<1> HIDE DEF row
<1>4. /\ paper' \in [Copies -> Paper] /\ PaperNeverLost' /\ new \in Filed'
      /\ \A d \in Copies : paper[d].state # "unfiled" =>
           paper'[d].state # "unfiled" /\ paper'[d].name = paper[d].name
  BY <1>1, <1>2, RetiredKept
<1>5. PapersTypeOK'
  BY <1>1, <1>3, <1>4 DEF PapersIInv, PapersTypeOK
<1> QED BY <1>1, <1>3, <1>4, <1>5, FilesKept

LEMMA AnswerWithFileStep ==
  ASSUME PapersIInv, NEW q \in Asks, NEW new \in Copies, AnswerWithFile(q, new)
  PROVE  PapersIInv'
<1> DEFINE old == answering[q].copy
<1>1. /\ Coming(new) /\ answering' = [answering EXCEPT ![q] = Idle] /\ UNCHANGED <<judging, replacing, patching>>
  BY DEF AnswerWithFile
<1>2. old \in Filed \cup {NoCopy} /\ Reply \in Names /\ (old # NoCopy => paper[old].name \in Names)
  BY PapersAssumption DEF PapersIInv, PointsAtFiled, PapersTypeOK, Paper, Filed, Unfiled
<1>3. /\ paper' \in [Copies -> Paper] /\ PaperNeverLost' /\ new \in Filed'
      /\ \A d \in Copies : paper[d].state # "unfiled" =>
           paper'[d].state # "unfiled" /\ paper'[d].name = paper[d].name
  <2>1. CASE old = NoCopy
    <3>1. paper' = [paper EXCEPT ![new] = New(Reply, NoCopy)]
      BY <2>1 DEF AnswerWithFile
    <3> QED BY <1>1, <1>2, <2>1, <3>1, FiledKept
  <2>2. CASE old # NoCopy
    <3>1. paper' = Replacement(old, new)
      BY <2>2 DEF AnswerWithFile
    <3> QED BY <1>1, <1>2, <2>2, <3>1, RetiredKept
  <2> QED BY <2>1, <2>2
<1>4. /\ ask' \in [Asks -> InfoRequest]
      /\ \A p \in Asks : ask'[p].copy = ask[p].copy \/ ask'[p].copy = new
  <2>1. /\ [ask[q] EXCEPT !.status = "responded"] \in InfoRequest
        /\ [ask[q] EXCEPT !.status = "responded"].copy = ask[q].copy
        /\ [status |-> "responded", copy |-> new] \in InfoRequest
    BY DEF PapersIInv, PapersTypeOK, InfoRequest, AskStatus
  <2>2. \/ ask' = [ask EXCEPT ![q] = [ask[q] EXCEPT !.status = "responded"]]
        \/ ask' = [ask EXCEPT ![q] = [status |-> "responded", copy |-> new]]
    BY DEF AnswerWithFile
  <2>3. PICK row \in InfoRequest : /\ row.copy = ask[q].copy \/ row.copy = new
                                   /\ ask' = [ask EXCEPT ![q] = row]
    BY <2>1, <2>2
  <2> QED BY <2>3 DEF PapersIInv, PapersTypeOK
<1>5. /\ answering' \in [Asks -> InfoRequest]
      /\ \A p \in Asks : answering'[p].copy = answering[p].copy \/ answering'[p].copy = NoCopy
  BY <1>1 DEF PapersIInv, PapersTypeOK, InfoRequest, AskStatus, Idle
<1>6. PapersTypeOK'
  BY <1>1, <1>3, <1>4, <1>5 DEF PapersIInv, PapersTypeOK
<1> QED BY <1>1, <1>3, <1>4, <1>5, <1>6, FilesKept

\* The other steps leave the papers alone and point at filed ones.
LEMMA AskStep ==
  ASSUME PapersIInv, NEW q \in Asks,
         \/ \E c \in Filed \cup {NoCopy} : RaiseAsk(q, c) \/ AmendAsk(q, c)
         \/ AmendAskBegin(q) \/ AnswerBegin(q) \/ AnswerInWords(q) \/ CloseAsk(q)
  PROVE  PapersIInv'
<1>1. /\ UNCHANGED <<paper, judging, replacing>>
      /\ ask' \in [Asks -> InfoRequest] /\ answering' \in [Asks -> InfoRequest]
      /\ patching' \in [Asks -> InfoRequest]
      /\ \A p \in Asks : /\ ask'[p].copy \in {ask[p].copy, NoCopy} \cup Filed
                         /\ answering'[p].copy \in {answering[p].copy, ask[p].copy, NoCopy}
                         /\ patching'[p].copy \in {patching[p].copy, ask[p].copy, NoCopy}
  <2>1. /\ Idle \in InfoRequest /\ Idle.copy = NoCopy /\ ask \in [Asks -> InfoRequest]
        /\ answering \in [Asks -> InfoRequest] /\ patching \in [Asks -> InfoRequest]
        /\ Filed \subseteq Copies /\ (\A p \in Asks : ask[p] \in InfoRequest)
    BY DEF Idle, InfoRequest, AskStatus, PapersIInv, PapersTypeOK, Filed, Unfiled
  <2>2. ASSUME NEW c \in Filed \cup {NoCopy}, RaiseAsk(q, c) \/ AmendAsk(q, c)
        PROVE  /\ UNCHANGED <<paper, judging, replacing, answering>>
               /\ patching' = patching \/ patching' = [patching EXCEPT ![q] = Idle]
               /\ \E row \in InfoRequest : row.copy = c /\ ask' = [ask EXCEPT ![q] = row]
    <3>1. /\ [status |-> "open", copy |-> c] \in InfoRequest
          /\ [status |-> patching[q].status, copy |-> c] \in InfoRequest
      BY <2>1 DEF InfoRequest, AskStatus
    <3>2. CASE RaiseAsk(q, c)
      BY <3>1, <3>2 DEF RaiseAsk
    <3>3. CASE AmendAsk(q, c)
      BY <3>1, <3>3 DEF AmendAsk
    <3> QED BY <2>2, <3>2, <3>3
  <2>3. ASSUME AnswerInWords(q) \/ CloseAsk(q)
        PROVE  /\ UNCHANGED <<paper, judging, replacing, patching>>
               /\ answering' = answering \/ answering' = [answering EXCEPT ![q] = Idle]
               /\ \E row \in InfoRequest : row.copy = ask[q].copy /\ ask' = [ask EXCEPT ![q] = row]
    <3>1. \A s \in AskStatus : /\ [ask[q] EXCEPT !.status = s] \in InfoRequest
                               /\ [ask[q] EXCEPT !.status = s].copy = ask[q].copy
      BY <2>1 DEF InfoRequest
    <3>2. CASE AnswerInWords(q)
      BY <3>1, <3>2 DEF AnswerInWords, AskStatus
    <3>3. CASE CloseAsk(q)
      BY <3>1, <3>3 DEF CloseAsk, AskStatus
    <3> QED BY <2>3, <3>2, <3>3
  <2>4. CASE AnswerBegin(q)
    BY <2>1, <2>4 DEF AnswerBegin
  <2>5. CASE AmendAskBegin(q)
    BY <2>1, <2>5 DEF AmendAskBegin
  <2> QED BY <2>1, <2>2, <2>3, <2>4, <2>5
<1>2. PapersTypeOK' /\ PaperNeverLost'
  BY <1>1 DEF PapersIInv, PapersTypeOK, PaperNeverLost, Filed, Unfiled, Live, Judgeable
<1>3. Filed' = Filed
  BY <1>1 DEF Filed, Unfiled
<1> QED BY <1>1, <1>2, <1>3, FilesKept DEF PapersIInv, PointsAtFiled

LEMMA PapersInvariant == PapersSpec => []PapersIInv
<1>1. PapersIInv /\ [PapersNext]_papersVars => PapersIInv'
  <2> SUFFICES ASSUME PapersIInv, [PapersNext]_papersVars PROVE PapersIInv'
    OBVIOUS
  <2>1. CASE UNCHANGED papersVars
    BY <2>1 DEF papersVars, PapersIInv, PapersTypeOK, PaperNeverLost, PointsAtFiled, Filed, Unfiled,
                Live, Judgeable
  <2>2. ASSUME NEW c \in Copies, NEW n \in Names, FilePaper(c, n) PROVE PapersIInv'
    <3>1. /\ Coming(c) /\ paper' = [paper EXCEPT ![c] = New(n, NoCopy)]
          /\ UNCHANGED <<ask, judging, replacing, answering, patching>>
      BY <2>2 DEF FilePaper
    <3>2. /\ paper' \in [Copies -> Paper] /\ PaperNeverLost'
          /\ \A d \in Copies : paper[d].state # "unfiled" =>
               paper'[d].state # "unfiled" /\ paper'[d].name = paper[d].name
      BY <3>1, FiledKept
    <3>3. PapersTypeOK'
      BY <3>1, <3>2 DEF PapersIInv, PapersTypeOK
    <3> QED BY <3>1, <3>2, <3>3, FilesKept
  <2>3. ASSUME NEW c \in Copies, ReplaceBegin(c) PROVE PapersIInv'
    BY <2>3, FilesKept DEF ReplaceBegin, Judgeable, PapersIInv, PapersTypeOK, PaperNeverLost, Filed,
                           Unfiled, Live
  <2> QED
    BY <2>1, <2>2, <2>3, JudgeStep, ReplaceStep, AnswerWithFileStep, AskStep DEF PapersNext, Answer
<1> QED BY <1>1, PapersStart, PTL DEF PapersSpec

\* A copy turns rejected by Refuse alone, which asks about it.
LEMMA RefusalAsks ==
  ASSUME PapersIInv, PapersNext, NEW c \in Copies,
         paper[c].state # "rejected", paper'[c].state = "rejected"
  PROVE  \E q \in Asks : ask'[q] = [status |-> "open", copy |-> c]
<1>1. ASSUME NEW d \in Copies, Refuse(d) PROVE \E q \in Asks : ask'[q] = [status |-> "open", copy |-> d]
  <2>1. CASE Unclosed(d) # {}
    <3>1. PICK q \in Asks : q \in Unclosed(d)
      BY <2>1 DEF Unclosed
    <3>2. ask'[q] = [ask[q] EXCEPT !.status = "open"] /\ ask[q] \in InfoRequest /\ ask[q].copy = d
      BY <1>1, <2>1, <3>1 DEF Refuse, Reopened, Unclosed, PapersIInv, PapersTypeOK
    <3> QED BY <3>2 DEF InfoRequest
  <2>2. CASE Unclosed(d) = {}
    BY <1>1, <2>2 DEF Refuse, PapersIInv, PapersTypeOK
  <2> QED BY <2>1, <2>2
<1>2. ASSUME NEW d \in Copies, NEW s \in {"verified", "rejected"}, d = judging,
             paper' = [paper EXCEPT ![d].state = s]
      PROVE  d = c /\ s = "rejected"
  <2>1. d \in Filed
    BY <1>2, PapersAssumption DEF PapersIInv, PointsAtFiled, Copies
  <2> QED BY <1>2, <2>1, JudgedKept
<1>3. \A d \in Copies : ~AcceptCopy(d)
  BY <1>2 DEF AcceptCopy
<1>4. \A d \in Copies : Refuse(d) => d = c
  BY <1>2 DEF Refuse
<1>5. \A d \in Copies, n \in Names : ~FilePaper(d, n)
  BY FiledKept DEF FilePaper
<1>6. \A old, new \in Copies : ~Replace(old, new)
  <2> SUFFICES ASSUME NEW old \in Copies, NEW new \in Copies, Replace(old, new) PROVE FALSE
    OBVIOUS
  <2>1. Coming(new) /\ old \in Filed /\ paper' = Replacement(old, new)
    BY PapersAssumption DEF Replace, PapersIInv, PointsAtFiled, Copies
  <2> QED BY <2>1, RetiredKept
<1>7. \A q \in Asks, new \in Copies : ~AnswerWithFile(q, new)
  <2> SUFFICES ASSUME NEW q \in Asks, NEW new \in Copies, AnswerWithFile(q, new) PROVE FALSE
    OBVIOUS
  <2> DEFINE old == answering[q].copy
             n == IF old = NoCopy THEN Reply ELSE paper[old].name
  <2>1. old \in Filed \cup {NoCopy} /\ n \in Names /\ (old # NoCopy => n = paper[old].name)
    BY PapersAssumption DEF PapersIInv, PointsAtFiled, PapersTypeOK, Paper, Filed, Unfiled
  <2>2. /\ Coming(new)
        /\ paper' = IF old = NoCopy THEN [paper EXCEPT ![new] = New(n, NoCopy)]
                    ELSE [paper EXCEPT ![new] = New(n, old), ![old].state = "superseded"]
    BY DEF AnswerWithFile, Replacement
  <2> HIDE DEF n, old
  <2> QED BY <2>1, <2>2, FiledKept
<1>8. ~UNCHANGED paper
  OBVIOUS
<1>9. PICK d \in Copies : Refuse(d)
  BY <1>3, <1>5, <1>6, <1>7, <1>8
     DEF PapersNext, Judge, JudgeBegin, ReplaceBegin, RaiseAsk, AmendAskBegin, AmendAsk, Answer, AnswerBegin,
         AnswerInWords, CloseAsk
<1> QED BY <1>1, <1>4, <1>9

\* A paper once filed keeps a copy that counts, and a rejection reaches the miner
\* in the same step as an open request about that copy, whatever reviews,
\* replacements and answers overlap.
THEOREM PapersStand == PapersSpec => PapersHold
<1>1. PapersIInv => PaperNeverLost
  BY DEF PapersIInv
<1>2. PapersIInv /\ [PapersNext]_papersVars =>
        [\A c \in Copies : paper[c].state # "rejected" /\ paper'[c].state = "rejected" =>
           \E q \in Asks : ask'[q] = [status |-> "open", copy |-> c]]_papersVars
  BY RefusalAsks
<1> QED BY <1>1, <1>2, PapersInvariant, PTL DEF PapersSpec, PapersHold, RejectionAsks

-----------------------------------------------------------------------------
(* StoredFiles.  A row whose every handler locks its application finds the     *)
(* file it names, also beside rows whose handlers lock nothing.                *)

\* Requests about a locked row, and those with an upload stored for one.
Locking(q) == handler[q].row \in LockedRows
Awaiting(q) == Locking(q) /\ handler[q].phase = "saved" /\ handler[q].kind = "upload"

\* Names stay in their folder.
InFolder ==
  /\ \A r \in Rows : named[r].name # NoFile => named[r].name \in NamesOf[r]
  /\ \A q \in Handlers :
       /\ handler[q].dropped \subseteq NamesOf[handler[q].row]
       /\ handler[q].file.name # NoFile => handler[q].file.name \in NamesOf[handler[q].row]
       /\ handler[q].phase = "read" /\ handler[q].kind # "upload" => handler[q].file.name # NoFile

\* A locked row finds its file, which no other names.
RowsStored ==
  \A r \in LockedRows : named[r].name # NoFile =>
    /\ object[named[r].name] = named[r].upload /\ named[r].upload # 0
    /\ \A o \in LockedRows : o # r => named[o].name # named[r].name

\* One request at a time holds a locked row, and has read what the row names.
OneHolder ==
  \A p, q \in Handlers :
    Locking(q) /\ Busy(p) /\ Busy(q) /\ handler[p].row = handler[q].row => p = q
HasRead ==
  \A q \in Handlers :
    Locking(q) /\ Busy(q) /\ ~Awaiting(q) =>
      \/ handler[q].file = named[handler[q].row] /\ handler[q].dropped = {}
      \/ /\ handler[q].phase = "saved" /\ handler[q].kind = "remove"
         /\ handler[q].file = Empty
         /\ handler[q].dropped = {named[handler[q].row].name}

\* An upload not committed yet is stored, under a name no row has, and due for
\* removal at nobody's commit.
UploadStored ==
  \A q \in Handlers : Awaiting(q) =>
    /\ handler[q].file.name # NoFile
    /\ object[handler[q].file.name] = handler[q].file.upload /\ handler[q].file.upload # 0
    /\ \A r \in LockedRows : named[r].name # handler[q].file.name
    /\ \A p \in Handlers : Locking(p) => handler[q].file.name \notin handler[p].dropped
    /\ \A p \in Handlers : Awaiting(p) /\ p # q => handler[p].file.name # handler[q].file.name
    /\ handler[q].dropped = {named[handler[q].row].name} \ {NoFile}

\* What is due for removal is stored, of no row, and due once.
DueOnce ==
  \A q \in Handlers : Locking(q) /\ handler[q].phase = "committed" =>
    \A n \in handler[q].dropped :
      /\ object[n] # 0
      /\ \A r \in LockedRows : named[r].name # n
      /\ \A p \in Handlers : Locking(p) /\ handler[p].phase = "committed" /\ p # q =>
           n \notin handler[p].dropped

IdleDropsNothing == \A q \in Handlers : handler[q].phase = "idle" => handler[q].dropped = {}

FilesIInv ==
  /\ FilesTypeOK /\ InFolder /\ RowsStored /\ OneHolder /\ HasRead
  /\ UploadStored /\ DueOnce /\ IdleDropsNothing

-----------------------------------------------------------------------------
\* Folders of locked rows are theirs alone.
LEMMA Apart ==
  ASSUME NEW r \in LockedRows, NEW o \in Rows \ LockedRows, NEW n \in NamesOf[r]
  PROVE  n \notin NamesOf[o]
BY FilesAssumption

LEMMA FolderNames == \A r \in Rows : NamesOf[r] \subseteq StoredNames
BY FilesAssumption

LEMMA Uploads == UploadNumber \subseteq Nat /\ 0 \in UploadNumber /\ Empty \in File
BY FilesAssumption DEF UploadNumber, File, Empty

\* What a step of request q leaves of the requests.
LEMMA SavedIs ==
  ASSUME FilesTypeOK, NEW q \in Handlers, NEW new \in File, NEW d \in SUBSET StoredNames,
         handler' = Saved(q, new, d)
  PROVE  /\ handler' \in [Handlers -> Handler]
         /\ \A p \in Handlers : p # q => handler'[p] = handler[p]
         /\ handler'[q].phase = "saved" /\ handler'[q].file = new /\ handler'[q].dropped = d
         /\ handler'[q].row = handler[q].row /\ handler'[q].kind = handler[q].kind
<1>1. handler[q] \in Handler /\ handler \in [Handlers -> Handler]
  BY DEF FilesTypeOK
<1>2. handler'[q] = [phase |-> "saved", row |-> handler[q].row, kind |-> handler[q].kind,
                     file |-> new, dropped |-> d]
  BY <1>1 DEF Saved, Handler
<1>3. handler'[q] \in Handler
  BY <1>1, <1>2 DEF Handler
<1> QED BY <1>1, <1>2, <1>3 DEF Saved

LEMMA DoneIs ==
  ASSUME FilesTypeOK, NEW q \in Handlers, handler' = Done(q)
  PROVE  /\ handler' \in [Handlers -> Handler]
         /\ \A p \in Handlers : p # q => handler'[p] = handler[p]
         /\ handler'[q].phase = "idle" /\ handler'[q].file = Empty /\ handler'[q].dropped = {}
         /\ handler'[q].row = handler[q].row /\ handler'[q].kind = handler[q].kind
<1>1. handler[q] \in Handler /\ handler \in [Handlers -> Handler]
  BY DEF FilesTypeOK
<1>2. handler'[q] = [phase |-> "idle", row |-> handler[q].row, kind |-> handler[q].kind,
                     file |-> Empty, dropped |-> {}]
  BY <1>1 DEF Done, Handler
<1>3. handler'[q] \in Handler
  BY <1>1, <1>2, Uploads DEF Handler
<1> QED BY <1>1, <1>2, <1>3 DEF Done

LEMMA CommittedIs ==
  ASSUME FilesTypeOK, NEW q \in Handlers,
         handler' = [handler EXCEPT ![q].phase = "committed"]
  PROVE  /\ handler' \in [Handlers -> Handler]
         /\ \A p \in Handlers : p # q => handler'[p] = handler[p]
         /\ handler'[q].phase = "committed"
         /\ handler'[q].file = handler[q].file /\ handler'[q].dropped = handler[q].dropped
         /\ handler'[q].row = handler[q].row /\ handler'[q].kind = handler[q].kind
<1>1. handler[q] \in Handler /\ handler \in [Handlers -> Handler]
  BY DEF FilesTypeOK
<1>2. handler'[q] = [phase |-> "committed", row |-> handler[q].row, kind |-> handler[q].kind,
                     file |-> handler[q].file, dropped |-> handler[q].dropped]
  BY <1>1 DEF Handler
<1>3. handler'[q] \in Handler
  BY <1>1, <1>2 DEF Handler
<1> QED BY <1>1, <1>2, <1>3

\* What a locked row's request may drop, or has stored, is a name of its folder.
LEMMA OwnNames ==
  ASSUME FilesIInv
  PROVE  /\ \A r \in LockedRows : r \in Rows
         /\ \A q \in Handlers : handler[q].row \in Rows /\ handler[q].dropped \subseteq StoredNames
         /\ \A q \in Handlers, r \in LockedRows :
              ~Locking(q) /\ named[r].name # NoFile => named[r].name \notin handler[q].dropped
         /\ \A q, p \in Handlers :
              ~Locking(q) /\ Awaiting(p) => handler[p].file.name \notin handler[q].dropped
         /\ \A q, p \in Handlers :
              ~Locking(q) /\ Locking(p) => handler[p].dropped \cap handler[q].dropped = {}
<1>1. LockedRows \subseteq Rows
  BY FilesAssumption
<1>2. \A q \in Handlers : handler[q].row \in Rows /\ handler[q].dropped \subseteq StoredNames
  BY DEF FilesIInv, FilesTypeOK, Handler
<1>3. ASSUME NEW q \in Handlers, NEW r \in LockedRows, ~Locking(q), NEW n \in NamesOf[r]
      PROVE  n \notin handler[q].dropped
  BY <1>1, <1>2, <1>3, Apart DEF FilesIInv, InFolder, Locking
<1>4. \A q \in Handlers, r \in LockedRows :
        ~Locking(q) /\ named[r].name # NoFile => named[r].name \notin handler[q].dropped
  BY <1>1, <1>3 DEF FilesIInv, InFolder
<1>5. \A q, p \in Handlers :
        ~Locking(q) /\ Awaiting(p) => handler[p].file.name \notin handler[q].dropped
  BY <1>3 DEF FilesIInv, InFolder, UploadStored, Awaiting, Locking
<1>6. \A q, p \in Handlers :
        ~Locking(q) /\ Locking(p) => handler[p].dropped \cap handler[q].dropped = {}
  BY <1>3 DEF FilesIInv, InFolder, Locking
<1> QED BY <1>1, <1>2, <1>4, <1>5, <1>6

-----------------------------------------------------------------------------
LEMMA FilesStart == FilesInit => FilesIInv
<1> SUFFICES ASSUME FilesInit PROVE FilesIInv
  OBVIOUS
<1>1. /\ \A q \in Handlers : /\ handler[q].phase = "idle" /\ handler[q].file = Empty
                             /\ handler[q].dropped = {} /\ handler[q].kind = "upload"
                             /\ handler[q].row \in Rows
  BY FilesAssumption DEF FilesInit
<1>2. FilesTypeOK
  <2>1. named \in [Rows -> File]
    BY FilesAssumption DEF FilesInit, File, Empty, UploadNumber
  <2>2. object \in [StoredNames -> UploadNumber] /\ uploads \in UploadNumber
    BY FilesAssumption DEF FilesInit, UploadNumber
  <2>3. handler \in [Handlers -> Handler]
    <3>1. [phase |-> "idle", row |-> CHOOSE r \in Rows : TRUE, kind |-> "upload",
           file |-> Empty, dropped |-> {}] \in Handler
      BY FilesAssumption, Uploads DEF Handler, Kinds
    <3> QED BY <3>1 DEF FilesInit
  <2> QED BY <2>1, <2>2, <2>3 DEF FilesTypeOK
<1>3. InFolder
  BY <1>1 DEF InFolder, FilesInit, Empty
<1>4. RowsStored
  <2> SUFFICES ASSUME NEW r \in LockedRows, named[r].name # NoFile
               PROVE  /\ object[named[r].name] = named[r].upload /\ named[r].upload # 0
                      /\ \A o \in LockedRows : o # r => named[o].name # named[r].name
    BY DEF RowsStored
  <2>1. r \in Rows /\ LockedRows \subseteq Rows
    BY FilesAssumption
  <2>2. named[r].upload = 1 /\ named[r].name \in StoredNames
    BY <2>1 DEF FilesInit, Empty
  <2>3. object[named[r].name] = 1
    BY <2>1, <2>2 DEF FilesInit
  <2> QED BY <2>1, <2>2, <2>3 DEF FilesInit
<1> QED BY <1>1, <1>2, <1>3, <1>4
        DEF FilesIInv, OneHolder, HasRead, UploadStored, DueOnce, IdleDropsNothing, Busy, Awaiting

-----------------------------------------------------------------------------
\* A request takes hold of a row, or reads one without a lock.
LEMMA BeginStep ==
  ASSUME FilesIInv, NEW q \in Handlers, NEW r \in Rows, NEW k \in Kinds, Begin(q, r, k)
  PROVE  FilesIInv'
<1>1. FilesTypeOK /\ InFolder /\ handler[q].phase = "idle"
  BY DEF FilesIInv, Begin
<1>2. handler'[q] = [phase |-> "read", row |-> r, kind |-> k, file |-> named[r], dropped |-> {}]
  BY <1>1 DEF Begin, FilesTypeOK
<1>3. /\ \A p \in Handlers : p # q => handler'[p] = handler[p]
      /\ named' = named /\ object' = object /\ uploads' = uploads
  BY <1>1 DEF Begin, FilesTypeOK
<1>4. handler' \in [Handlers -> Handler]
  BY <1>1, <1>2 DEF Begin, FilesTypeOK, Handler
<1>5. FilesTypeOK'
  BY <1>1, <1>3, <1>4 DEF FilesTypeOK
<1>6. InFolder'
  BY <1>1, <1>2, <1>3 DEF InFolder, Begin
<1>7. RowsStored'
  BY <1>3 DEF FilesIInv, RowsStored
<1>8. r \in LockedRows => \A p \in Handlers : ~(Busy(p) /\ handler[p].row = r)
  BY DEF Begin, LockedBy, Locks
<1>9. OneHolder'
  BY <1>2, <1>3, <1>8 DEF FilesIInv, OneHolder, Locking, Busy
<1>10. HasRead'
  BY <1>2, <1>3 DEF FilesIInv, HasRead, Locking, Busy, Awaiting
<1>11. \A p \in Handlers : /\ Awaiting(p)' <=> Awaiting(p) /\ p # q
                           /\ Awaiting(p) => handler'[p] = handler[p]
  BY <1>1, <1>2, <1>3 DEF Awaiting, Locking
<1>12. UploadStored'
  BY <1>2, <1>3, <1>11 DEF FilesIInv, UploadStored, Locking
<1>13. DueOnce' /\ IdleDropsNothing'
  BY <1>2, <1>3 DEF FilesIInv, DueOnce, IdleDropsNothing, Locking
<1> QED BY <1>5, <1>6, <1>7, <1>9, <1>10, <1>12, <1>13 DEF FilesIInv

\* A name nothing is stored under is no locked row's, no other upload's, and
\* due for nobody.
LEMMA FreeName ==
  ASSUME FilesIInv, NEW n \in StoredNames, object[n] = 0
  PROVE  /\ \A r \in LockedRows : named[r].name # n
         /\ \A p \in Handlers : Awaiting(p) => handler[p].file.name # n
         /\ \A p \in Handlers : Locking(p) => n \notin handler[p].dropped
<1>1. n # NoFile
  BY FilesAssumption
<1>2. \A r \in LockedRows : named[r].name # n
  BY <1>1 DEF FilesIInv, RowsStored
<1>3. \A p \in Handlers : Awaiting(p) => handler[p].file.name # n
  BY DEF FilesIInv, UploadStored
<1>4. ASSUME NEW p \in Handlers, Locking(p) PROVE n \notin handler[p].dropped
  <2>1. CASE handler[p].phase = "idle"
    BY <2>1 DEF FilesIInv, IdleDropsNothing
  <2>2. CASE handler[p].phase = "committed"
    BY <1>4, <2>2 DEF FilesIInv, DueOnce
  <2>3. CASE Awaiting(p)
    BY <1>2, <1>4, <2>3 DEF FilesIInv, UploadStored, Locking
  <2>4. CASE Busy(p) /\ ~Awaiting(p)
    BY <1>2, <1>4, <2>4 DEF FilesIInv, HasRead, Locking
  <2> QED BY <2>1, <2>2, <2>3, <2>4 DEF FilesIInv, FilesTypeOK, Handler, Busy
<1> QED BY <1>2, <1>3, <1>4

LEMMA SaveUploadStep ==
  ASSUME FilesIInv, NEW q \in Handlers, NEW n \in StoredNames, SaveUpload(q, n)
  PROVE  FilesIInv'
<1> DEFINE r == handler[q].row
           new == [name |-> n, upload |-> uploads + 1]
           old == Replaced(r, new)
<1>1. /\ FilesTypeOK /\ InFolder /\ RowsStored /\ handler[q].phase = "read"
      /\ handler[q].kind = "upload" /\ n \in NamesOf[r] /\ object[n] = 0 /\ n # NoFile
      /\ named' = named
  BY FilesAssumption DEF FilesIInv, SaveUpload
<1>2. r \in Rows /\ new \in File /\ uploads + 1 \in UploadNumber /\ uploads + 1 # 0
  BY <1>1, FilesAssumption DEF SaveUpload, FilesTypeOK, Handler, File, UploadNumber
<1>3. old \subseteq NamesOf[r] /\ old \in SUBSET StoredNames
  BY <1>1, <1>2, FolderNames DEF InFolder, Replaced
<1>4. handler' = Saved(q, new, old)
  BY DEF SaveUpload
<1>5. /\ handler' \in [Handlers -> Handler]
      /\ \A p \in Handlers : p # q => handler'[p] = handler[p]
      /\ handler'[q].phase = "saved" /\ handler'[q].file = new /\ handler'[q].dropped = old
      /\ handler'[q].row = r /\ handler'[q].kind = "upload"
  BY <1>1, <1>2, <1>3, <1>4, SavedIs
<1>6. /\ object' \in [StoredNames -> UploadNumber] /\ object'[n] = uploads + 1
      /\ \A m \in StoredNames : m # n => object'[m] = object[m]
  BY <1>1, <1>2 DEF SaveUpload, FilesTypeOK
<1>7. FilesTypeOK'
  BY <1>1, <1>2, <1>5, <1>6 DEF FilesTypeOK, SaveUpload
<1>8. InFolder'
  BY <1>1, <1>3, <1>5 DEF InFolder
<1>9. /\ \A o \in LockedRows : named[o].name # n
      /\ \A p \in Handlers : Awaiting(p) => handler[p].file.name # n
      /\ \A p \in Handlers : Locking(p) => n \notin handler[p].dropped
  BY <1>1, FreeName
<1>10. \A o \in LockedRows : named[o].name # NoFile => named[o].name \in StoredNames
  BY <1>1, FilesAssumption DEF FilesTypeOK, File
<1>11. RowsStored'
  BY <1>1, <1>6, <1>9, <1>10 DEF RowsStored
<1>12. OneHolder'
  BY <1>1, <1>5 DEF FilesIInv, OneHolder, Locking, Busy
<1>13. \A p \in Handlers : /\ Locking(p)' <=> Locking(p)
                           /\ p # q => (Awaiting(p)' <=> Awaiting(p))
  BY <1>5 DEF Locking, Awaiting
<1>14. HasRead'
  BY <1>1, <1>5, <1>13 DEF FilesIInv, HasRead, Locking, Busy, Awaiting
<1>15. UploadStored'
  <2> SUFFICES ASSUME NEW p \in Handlers, Awaiting(p)'
               PROVE  /\ handler'[p].file.name # NoFile
                      /\ object'[handler'[p].file.name] = handler'[p].file.upload
                      /\ handler'[p].file.upload # 0
                      /\ \A o \in LockedRows : named'[o].name # handler'[p].file.name
                      /\ \A s \in Handlers : Locking(s)' => handler'[p].file.name \notin handler'[s].dropped
                      /\ \A s \in Handlers : Awaiting(s)' /\ s # p => handler'[s].file.name # handler'[p].file.name
                      /\ handler'[p].dropped = {named'[handler'[p].row].name} \ {NoFile}
    BY DEF UploadStored
  <2>1. CASE p = q
    <3>1. Locking(q) /\ r \in LockedRows
      BY <1>5, <1>13, <2>1 DEF Awaiting, Locking
    <3>2. old = {named[r].name} \ {NoFile}
      BY <1>9, <3>1 DEF Replaced
    <3>3. n \notin old
      BY <1>9, <3>1, <3>2
    <3>4. \A s \in Handlers : Locking(s)' => n \notin handler'[s].dropped
      BY <1>5, <1>9, <1>13, <3>3
    <3>5. \A s \in Handlers : Awaiting(s)' /\ s # q => handler'[s].file.name # n
      BY <1>5, <1>9, <1>13
    <3> QED BY <1>1, <1>2, <1>5, <1>6, <1>9, <2>1, <3>2, <3>4, <3>5
  <2>2. CASE p # q
    <3>1. handler'[p] = handler[p] /\ Awaiting(p)
      BY <1>5, <1>13, <2>2
    <3>2. /\ handler[p].file.name # NoFile /\ handler[p].file.name # n
          /\ object[handler[p].file.name] = handler[p].file.upload /\ handler[p].file.upload # 0
          /\ \A o \in LockedRows : named[o].name # handler[p].file.name
          /\ \A s \in Handlers : Locking(s) => handler[p].file.name \notin handler[s].dropped
          /\ \A s \in Handlers : Awaiting(s) /\ s # p => handler[s].file.name # handler[p].file.name
          /\ handler[p].dropped = {named[handler[p].row].name} \ {NoFile}
      BY <1>9, <3>1 DEF FilesIInv, UploadStored
    <3>3. handler[p].file.name \in StoredNames
      BY <1>1, <3>2 DEF FilesTypeOK, Handler, File
    <3>4. Locking(q) => handler[p].file.name \notin old
      BY <3>2 DEF Replaced, Locking
    <3> QED BY <1>1, <1>5, <1>6, <1>13, <2>2, <3>1, <3>2, <3>3, <3>4
  <2> QED BY <2>1, <2>2
<1>16. DueOnce'
  <2>1. \A p \in Handlers : Locking(p) => handler[p].dropped \subseteq StoredNames
    BY <1>1 DEF FilesTypeOK, Handler
  <2> QED BY <1>1, <1>5, <1>6, <1>9, <1>13, <2>1 DEF FilesIInv, DueOnce
<1>17. IdleDropsNothing'
  BY <1>5 DEF FilesIInv, IdleDropsNothing
<1> QED BY <1>7, <1>8, <1>11, <1>12, <1>14, <1>15, <1>16, <1>17 DEF FilesIInv

\* A save of the row as it was read replaces nothing of a locked row.
LEMMA SaveReadStep ==
  ASSUME FilesIInv, NEW q \in Handlers, SaveRead(q)
  PROVE  FilesIInv'
<1> DEFINE r == handler[q].row
           old == Replaced(r, handler[q].file)
<1>1. /\ FilesTypeOK /\ InFolder /\ handler[q].phase = "read" /\ handler[q].kind \in {"edit", "verdict"}
      /\ named' = named /\ object' = object /\ uploads' = uploads
  BY DEF FilesIInv, SaveRead
<1>2. r \in Rows /\ handler[q].file \in File
  BY <1>1 DEF FilesTypeOK, Handler
<1>3. old \subseteq NamesOf[r] /\ old \in SUBSET StoredNames
  BY <1>1, <1>2, FolderNames DEF InFolder, Replaced
<1>4. handler' = Saved(q, handler[q].file, old)
  BY DEF SaveRead
<1>5. /\ handler' \in [Handlers -> Handler]
      /\ \A p \in Handlers : p # q => handler'[p] = handler[p]
      /\ handler'[q].phase = "saved" /\ handler'[q].file = handler[q].file /\ handler'[q].dropped = old
      /\ handler'[q].row = r /\ handler'[q].kind = handler[q].kind
  BY <1>1, <1>2, <1>3, <1>4, SavedIs
<1>6. Locking(q) => handler[q].file = named[r] /\ old = {} /\ handler[q].dropped = {}
  BY <1>1 DEF FilesIInv, HasRead, Busy, Awaiting, Replaced
<1>7. \A p \in Handlers : /\ Locking(p)' <=> Locking(p)
                          /\ Awaiting(p)' <=> Awaiting(p)
                          /\ Awaiting(p) => p # q
                          /\ Locking(p) => handler'[p].dropped = handler[p].dropped
  BY <1>1, <1>5, <1>6 DEF Locking, Awaiting
<1>8. FilesTypeOK'
  BY <1>1, <1>5 DEF FilesTypeOK
<1>9. InFolder'
  BY <1>1, <1>3, <1>5 DEF InFolder
<1>10. RowsStored'
  BY <1>1 DEF FilesIInv, RowsStored
<1>11. OneHolder'
  BY <1>1, <1>5 DEF FilesIInv, OneHolder, Locking, Busy
<1>12. HasRead'
  BY <1>1, <1>5, <1>6, <1>7 DEF FilesIInv, HasRead, Busy, Locking
<1>13. UploadStored'
  BY <1>1, <1>5, <1>7 DEF FilesIInv, UploadStored
<1>14. DueOnce' /\ IdleDropsNothing'
  BY <1>1, <1>5, <1>7 DEF FilesIInv, DueOnce, IdleDropsNothing
<1> QED BY <1>8, <1>9, <1>10, <1>11, <1>12, <1>13, <1>14 DEF FilesIInv

LEMMA SaveRemoveStep ==
  ASSUME FilesIInv, NEW q \in Handlers, SaveRemove(q)
  PROVE  FilesIInv'
<1> DEFINE r == handler[q].row
           old == {handler[q].file.name}
<1>1. /\ FilesTypeOK /\ InFolder /\ handler[q].phase = "read" /\ handler[q].kind = "remove"
      /\ named' = named /\ object' = object /\ uploads' = uploads
  BY DEF FilesIInv, SaveRemove
<1>2. r \in Rows /\ handler[q].file.name # NoFile
  BY <1>1 DEF FilesTypeOK, Handler, InFolder
<1>3. old \subseteq NamesOf[r] /\ old \in SUBSET StoredNames
  BY <1>1, <1>2, FolderNames DEF InFolder
<1>4. /\ handler' \in [Handlers -> Handler]
      /\ \A p \in Handlers : p # q => handler'[p] = handler[p]
      /\ handler'[q].phase = "saved" /\ handler'[q].file = Empty /\ handler'[q].dropped = old
      /\ handler'[q].row = r /\ handler'[q].kind = "remove"
  <2>1. handler' = Saved(q, Empty, old)
    BY DEF SaveRemove
  <2> QED BY <1>1, <1>3, <2>1, Uploads, SavedIs
<1>5. Locking(q) => handler[q].file = named[r]
  BY <1>1 DEF FilesIInv, HasRead, Busy, Awaiting
<1>6. \A p \in Handlers : /\ Locking(p)' <=> Locking(p)
                          /\ Awaiting(p)' <=> Awaiting(p)
                          /\ Awaiting(p) => p # q
  BY <1>1, <1>4 DEF Locking, Awaiting
<1>7. FilesTypeOK'
  BY <1>1, <1>4 DEF FilesTypeOK
<1>8. InFolder'
  BY <1>1, <1>3, <1>4 DEF InFolder, Empty
<1>9. RowsStored'
  BY <1>1 DEF FilesIInv, RowsStored
<1>10. OneHolder'
  BY <1>1, <1>4 DEF FilesIInv, OneHolder, Locking, Busy
<1>11. HasRead'
  BY <1>1, <1>4, <1>5, <1>6 DEF FilesIInv, HasRead, Busy, Locking
<1>12. \A p \in Handlers : Awaiting(p) /\ Locking(q) => handler[p].file.name \notin old
  BY <1>5 DEF FilesIInv, UploadStored, Locking
<1>13. UploadStored'
  BY <1>1, <1>4, <1>6, <1>12 DEF FilesIInv, UploadStored
<1>14. DueOnce' /\ IdleDropsNothing'
  BY <1>1, <1>4, <1>6 DEF FilesIInv, DueOnce, IdleDropsNothing
<1> QED BY <1>7, <1>8, <1>9, <1>10, <1>11, <1>13, <1>14 DEF FilesIInv

\* The end of a request that drops nothing from storage.
LEMMA FailStep ==
  ASSUME FilesIInv, NEW q \in Handlers, Fail(q)
  PROVE  FilesIInv'
<1>1. /\ FilesTypeOK /\ InFolder /\ named' = named /\ object' = object /\ uploads' = uploads
      /\ handler' = Done(q)
  BY DEF FilesIInv, Fail
<1>2. /\ handler' \in [Handlers -> Handler]
      /\ \A p \in Handlers : p # q => handler'[p] = handler[p]
      /\ handler'[q].phase = "idle" /\ handler'[q].file = Empty /\ handler'[q].dropped = {}
      /\ handler'[q].row = handler[q].row /\ handler'[q].kind = handler[q].kind
  BY <1>1, DoneIs
<1>3. \A p \in Handlers : /\ Locking(p)' <=> Locking(p)
                          /\ Awaiting(p)' <=> Awaiting(p) /\ p # q
  BY <1>2 DEF Locking, Awaiting
<1>4. FilesTypeOK'
  BY <1>1, <1>2 DEF FilesTypeOK
<1>5. InFolder'
  BY <1>1, <1>2 DEF InFolder, Empty
<1>6. RowsStored'
  BY <1>1 DEF FilesIInv, RowsStored
<1>7. OneHolder' /\ HasRead'
  BY <1>1, <1>2, <1>3 DEF FilesIInv, OneHolder, HasRead, Locking, Busy
<1>8. UploadStored'
  BY <1>1, <1>2, <1>3 DEF FilesIInv, UploadStored
<1>9. DueOnce' /\ IdleDropsNothing'
  BY <1>1, <1>2, <1>3 DEF FilesIInv, DueOnce, IdleDropsNothing
<1> QED BY <1>4, <1>5, <1>6, <1>7, <1>8, <1>9 DEF FilesIInv

\* What a request on a locked row is about to commit.
LEMMA HeldRow ==
  ASSUME FilesIInv, NEW q \in Handlers, Locking(q), handler[q].phase = "saved",
         NEW r, r = handler[q].row, NEW f, f = handler[q].file
  PROVE  /\ \A n \in handler[q].dropped : n = named[r].name /\ n # NoFile /\ n # f.name
         /\ handler[q].kind = "verdict" => f = named[r]
         /\ f.name # NoFile => /\ object[f.name] = f.upload /\ f.upload # 0
                               /\ \A o \in LockedRows : o # r => named[o].name # f.name
         /\ \A p \in Handlers : Awaiting(p) /\ p # q => handler[p].file.name # f.name
         /\ \A p \in Handlers :
              Locking(p) /\ handler[p].phase = "committed" => f.name \notin handler[p].dropped
         /\ \A p \in Handlers : Busy(p) /\ p # q => handler[p].row # r
<1>1. r \in LockedRows /\ FilesTypeOK /\ InFolder /\ RowsStored
  BY DEF Locking, FilesIInv
<1>2. \A p \in Handlers : handler[p].dropped \subseteq StoredNames /\ NoFile \notin handler[p].dropped
  BY <1>1, FilesAssumption DEF FilesTypeOK, Handler
<1>3. \A p \in Handlers : Busy(p) /\ p # q => handler[p].row # r
  BY DEF FilesIInv, OneHolder, Busy
<1>4. CASE Awaiting(q)
  BY <1>2, <1>3, <1>4, <1>1 DEF FilesIInv, UploadStored, Awaiting
<1>5. CASE ~Awaiting(q) /\ f = named[r] /\ handler[q].dropped = {}
  <2>1. \A p \in Handlers : Awaiting(p) => handler[p].file.name # f.name
    BY <1>1, <1>5 DEF FilesIInv, UploadStored
  <2>2. \A p \in Handlers :
          Locking(p) /\ handler[p].phase = "committed" => f.name \notin handler[p].dropped
    BY <1>1, <1>5 DEF FilesIInv, DueOnce
  <2> QED BY <1>1, <1>3, <1>5, <2>1, <2>2 DEF RowsStored
<1>6. CASE /\ ~Awaiting(q) /\ handler[q].kind = "remove" /\ f = Empty
           /\ handler[q].dropped = {named[r].name}
  <2>1. f.name = NoFile
    BY <1>6 DEF Empty
  <2>2. \A p \in Handlers : Awaiting(p) => handler[p].file.name # f.name
    BY <2>1 DEF FilesIInv, UploadStored
  <2> QED BY <1>2, <1>3, <1>6, <2>1, <2>2
<1> QED BY <1>4, <1>5, <1>6 DEF FilesIInv, HasRead, Busy

LEMMA CommitStep ==
  ASSUME FilesIInv, NEW q \in Handlers, Commit(q)
  PROVE  FilesIInv'
<1> DEFINE r == handler[q].row
           f == handler[q].file
<1>1. /\ FilesTypeOK /\ InFolder /\ RowsStored /\ handler[q].phase = "saved"
      /\ object' = object /\ uploads' = uploads
  BY DEF FilesIInv, Commit
<1>2. r \in Rows /\ f \in File
  BY <1>1 DEF FilesTypeOK, Handler
<1>3. /\ handler' \in [Handlers -> Handler]
      /\ \A p \in Handlers : p # q => handler'[p] = handler[p]
      /\ handler'[q].phase = "committed"
      /\ handler'[q].file = f /\ handler'[q].dropped = handler[q].dropped
      /\ handler'[q].row = r /\ handler'[q].kind = handler[q].kind
  <2>1. handler' = [handler EXCEPT ![q].phase = "committed"]
    BY DEF Commit
  <2> QED BY <1>1, <2>1, CommittedIs
<1>4. /\ named' \in [Rows -> File] /\ \A o \in Rows : o # r => named'[o] = named[o]
      /\ named'[r] = IF handler[q].kind = "verdict" THEN named[r] ELSE f
  BY <1>1, <1>2 DEF Commit, FilesTypeOK
<1>5. \A p \in Handlers : /\ Locking(p)' <=> Locking(p)
                          /\ Awaiting(p)' <=> Awaiting(p) /\ p # q
                          /\ handler'[p].dropped = handler[p].dropped
                          /\ handler'[p].row = handler[p].row /\ handler'[p].file = handler[p].file
  BY <1>3 DEF Locking, Awaiting
<1>6. FilesTypeOK'
  BY <1>1, <1>3, <1>4 DEF FilesTypeOK
<1>7. InFolder'
  BY <1>1, <1>2, <1>3, <1>4 DEF InFolder
<1>8. OneHolder'
  BY <1>3 DEF FilesIInv, OneHolder, Locking, Busy
<1>9. IdleDropsNothing'
  BY <1>3 DEF FilesIInv, IdleDropsNothing
<1>10. LockedRows \subseteq Rows
  BY FilesAssumption
<1>11. CASE ~Locking(q)
  <2>1. \A o \in LockedRows : named'[o] = named[o]
    BY <1>4, <1>10, <1>11 DEF Locking
  <2>2. RowsStored'
    BY <1>1, <2>1 DEF RowsStored
  <2>3. HasRead'
    BY <1>3, <1>5, <2>1 DEF FilesIInv, HasRead, Locking, Busy
  <2>4. UploadStored'
    BY <1>1, <1>3, <1>5, <2>1 DEF FilesIInv, UploadStored, Awaiting, Locking
  <2>5. DueOnce'
    BY <1>1, <1>3, <1>5, <1>11, <2>1 DEF FilesIInv, DueOnce
  <2> QED BY <1>6, <1>7, <1>8, <1>9, <2>2, <2>3, <2>4, <2>5 DEF FilesIInv
<1>12. CASE Locking(q)
  <2>1. /\ \A n \in handler[q].dropped : n = named[r].name /\ n # NoFile /\ n # f.name
        /\ handler[q].kind = "verdict" => f = named[r]
        /\ f.name # NoFile => /\ object[f.name] = f.upload /\ f.upload # 0
                              /\ \A o \in LockedRows : o # r => named[o].name # f.name
        /\ \A p \in Handlers : Awaiting(p) /\ p # q => handler[p].file.name # f.name
        /\ \A p \in Handlers :
             Locking(p) /\ handler[p].phase = "committed" => f.name \notin handler[p].dropped
        /\ \A p \in Handlers : Busy(p) /\ p # q => handler[p].row # r
    BY <1>1, <1>12, HeldRow
  <2>2. r \in LockedRows /\ named'[r] = f
    BY <1>4, <1>12, <2>1 DEF Locking
  <2>3. \A o \in LockedRows : o # r => named'[o] = named[o]
    BY <1>4, <1>10
  <2>4. RowsStored'
    BY <1>1, <2>1, <2>2, <2>3 DEF RowsStored
  <2>5. HasRead'
    <3> SUFFICES ASSUME NEW p \in Handlers, Locking(p)', Busy(p)', ~Awaiting(p)'
                 PROVE  \/ handler'[p].file = named'[handler'[p].row] /\ handler'[p].dropped = {}
                        \/ /\ handler'[p].phase = "saved" /\ handler'[p].kind = "remove"
                           /\ handler'[p].file = Empty
                           /\ handler'[p].dropped = {named'[handler'[p].row].name}
      BY DEF HasRead
    <3>1. p # q
      BY <1>3 DEF Busy
    <3>2. handler'[p] = handler[p] /\ Locking(p) /\ ~Awaiting(p)
      BY <1>3, <1>5, <3>1
    <3>3. Busy(p)
      BY <3>2 DEF Busy
    <3>4. named'[handler[p].row] = named[handler[p].row]
      BY <2>1, <2>3, <3>1, <3>2, <3>3 DEF Locking
    <3> QED BY <3>2, <3>3, <3>4 DEF FilesIInv, HasRead
  <2>6. \A o \in LockedRows, p \in Handlers :
          Awaiting(p) /\ p # q => named'[o].name # handler[p].file.name
    BY <2>1, <2>2, <2>3 DEF FilesIInv, UploadStored
  <2>7. \A p \in Handlers : Awaiting(p) /\ p # q => named'[handler[p].row] = named[handler[p].row]
    BY <2>1, <2>3 DEF Awaiting, Busy, Locking
  <2>8. UploadStored'
    BY <1>1, <1>3, <1>5, <2>6, <2>7 DEF FilesIInv, UploadStored
  <2>9. DueOnce'
    <3> SUFFICES ASSUME NEW p \in Handlers, Locking(p)', handler'[p].phase = "committed",
                        NEW n \in handler'[p].dropped
                 PROVE  /\ object'[n] # 0
                        /\ \A o \in LockedRows : named'[o].name # n
                        /\ \A s \in Handlers :
                             Locking(s)' /\ handler'[s].phase = "committed" /\ s # p =>
                               n \notin handler'[s].dropped
      BY DEF DueOnce
    <3>1. CASE p = q
      <4>1. n = named[r].name /\ n # NoFile /\ n # f.name
        BY <1>5, <2>1, <3>1
      <4>2. object[n] # 0 /\ \A o \in LockedRows : o # r => named[o].name # n
        BY <1>1, <2>2, <4>1 DEF RowsStored
      <4>3. \A s \in Handlers :
              Locking(s) /\ handler[s].phase = "committed" => n \notin handler[s].dropped
        BY <2>2, <4>1 DEF FilesIInv, DueOnce
      <4> QED BY <1>1, <1>3, <1>5, <2>2, <2>3, <3>1, <4>1, <4>2, <4>3
    <3>2. CASE p # q
      <4>1. Locking(p) /\ handler[p].phase = "committed" /\ n \in handler[p].dropped
        BY <1>3, <1>5, <3>2
      <4>2. /\ object[n] # 0 /\ \A o \in LockedRows : named[o].name # n
            /\ \A s \in Handlers : Locking(s) /\ handler[s].phase = "committed" /\ s # p =>
                 n \notin handler[s].dropped
        BY <4>1 DEF FilesIInv, DueOnce
      <4>3. n # f.name /\ n \notin handler[q].dropped
        BY <2>1, <2>2, <4>1, <4>2
      <4> QED BY <1>1, <1>3, <1>5, <2>2, <2>3, <3>2, <4>2, <4>3
    <3> QED BY <3>1, <3>2
  <2> QED BY <1>6, <1>7, <1>8, <1>9, <2>4, <2>5, <2>8, <2>9 DEF FilesIInv
<1> QED BY <1>11, <1>12

\* A removal after the commit takes what no row, no upload and no other
\* removal is after.
LEMMA SweepStep ==
  ASSUME FilesIInv, NEW q \in Handlers, Sweep(q)
  PROVE  FilesIInv'
<1>1. /\ FilesTypeOK /\ InFolder /\ RowsStored /\ handler[q].phase = "committed"
      /\ named' = named /\ uploads' = uploads
      /\ object' = [n \in StoredNames |-> IF n \in handler[q].dropped THEN 0 ELSE object[n]]
  BY DEF FilesIInv, Sweep
<1>2. /\ handler' \in [Handlers -> Handler]
      /\ \A p \in Handlers : p # q => handler'[p] = handler[p]
      /\ handler'[q].phase = "idle" /\ handler'[q].file = Empty /\ handler'[q].dropped = {}
      /\ handler'[q].row = handler[q].row /\ handler'[q].kind = handler[q].kind
  <2>1. handler' = Done(q)
    BY DEF Sweep
  <2> QED BY <1>1, <2>1, DoneIs
<1>3. \A p \in Handlers : /\ Locking(p)' <=> Locking(p)
                          /\ Awaiting(p)' <=> Awaiting(p) /\ p # q
  BY <1>2 DEF Locking, Awaiting
<1>4. object' \in [StoredNames -> UploadNumber]
  BY <1>1, Uploads DEF FilesTypeOK
<1>5. FilesTypeOK'
  BY <1>1, <1>2, <1>4 DEF FilesTypeOK
<1>6. InFolder'
  BY <1>1, <1>2 DEF InFolder, Empty
<1>7. \A r \in LockedRows : named[r].name # NoFile => named[r].name \notin handler[q].dropped
  BY <1>1, OwnNames DEF FilesIInv, DueOnce
<1>8. \A p \in Handlers : Awaiting(p) => handler[p].file.name \notin handler[q].dropped
  BY OwnNames DEF FilesIInv, UploadStored
<1>9. \A p \in Handlers : Locking(p) /\ handler[p].phase = "committed" /\ p # q =>
        handler[p].dropped \cap handler[q].dropped = {}
  BY <1>1, OwnNames DEF FilesIInv, DueOnce
<1>10. RowsStored'
  <2>1. \A r \in LockedRows : named[r].name # NoFile => named[r].name \in StoredNames
    BY <1>1, FilesAssumption DEF FilesTypeOK, File
  <2> QED BY <1>1, <1>7, <2>1 DEF RowsStored
<1>11. OneHolder' /\ HasRead'
  BY <1>1, <1>2, <1>3 DEF FilesIInv, OneHolder, HasRead, Locking, Busy
<1>12. UploadStored'
  <2>1. \A p \in Handlers : handler[p].file.name # NoFile => handler[p].file.name \in StoredNames
    BY <1>1 DEF FilesTypeOK, Handler, File
  <2>2. \A p \in Handlers : Awaiting(p) => object'[handler[p].file.name] = object[handler[p].file.name]
    BY <1>1, <1>8, <2>1 DEF FilesIInv, UploadStored
  <2> QED BY <1>1, <1>2, <1>3, <2>2 DEF FilesIInv, UploadStored
<1>13. DueOnce'
  <2>1. \A p \in Handlers : handler[p].dropped \subseteq StoredNames
    BY <1>1 DEF FilesTypeOK, Handler
  <2> QED BY <1>1, <1>2, <1>3, <1>9, <2>1 DEF FilesIInv, DueOnce
<1>14. IdleDropsNothing'
  BY <1>2 DEF FilesIInv, IdleDropsNothing
<1> QED BY <1>5, <1>6, <1>10, <1>11, <1>12, <1>13, <1>14 DEF FilesIInv

-----------------------------------------------------------------------------
\* FilesIInv is an invariant: every step of a request keeps it.
THEOREM FilesInvariant == FilesSpec => []FilesIInv
<1>1. FilesIInv /\ [FilesNext]_filesVars => FilesIInv'
  <2> SUFFICES ASSUME FilesIInv, [FilesNext]_filesVars PROVE FilesIInv'
    OBVIOUS
  <2>1. CASE UNCHANGED filesVars
    BY <2>1 DEF filesVars, FilesIInv, FilesTypeOK, InFolder, RowsStored, OneHolder, HasRead,
                UploadStored, DueOnce, IdleDropsNothing, Locking, Awaiting, Busy
  <2>2. ASSUME NEW q \in Handlers, HandlerStep(q) PROVE FilesIInv'
    BY <2>2, BeginStep, SaveUploadStep, SaveReadStep, SaveRemoveStep, CommitStep, SweepStep, FailStep
       DEF HandlerStep
  <2> QED BY <2>1, <2>2 DEF FilesNext
<1> QED BY <1>1, FilesStart, PTL DEF FilesSpec

\* The rows, the objects and the requests keep their types.
THEOREM FilesTypeCorrect == FilesSpec => []FilesTypeOK
<1>1. FilesIInv => FilesTypeOK
  BY DEF FilesIInv
<1> QED BY <1>1, FilesInvariant, PTL

\* Where every handler locks the row first (compliance), a row that names a
\* file finds it, whatever requests overlap, fail, remove and store, beside
\* other rows of any kind.
THEOREM LockedStay == FilesSpec => []LockedInStep
<1>1. FilesIInv => LockedInStep
  BY DEF FilesIInv, RowsStored, LockedInStep, InStep
<1> QED BY <1>1, FilesInvariant, PTL
-----------------------------------------------------------------------------
(* The parts of MCDesks, side by side.                                         *)

\* A behaviour of the parts together is one of each.
LEMMA EachPart == DesksSpec => Spec /\ FloorSpec /\ FleetSpec /\ FilesSpec /\ PapersSpec
<1>1. DesksInit => Init /\ FloorInit /\ FleetInit /\ FilesInit /\ PapersInit
  BY DEF DesksInit
<1>2. [DesksNext]_desksVars => [Next]_vars
  BY DEF DesksNext, desksVars, vars
<1>3. [DesksNext]_desksVars => [FloorNext]_floorVars
  BY DEF DesksNext, desksVars, companyVars
<1>4. [DesksNext]_desksVars => [FleetNext]_fleetVars
  BY DEF DesksNext, desksVars, companyVars
<1>5. [DesksNext]_desksVars => [FilesNext]_filesVars
  BY DEF DesksNext, desksVars, companyVars
<1>6. [DesksNext]_desksVars => [PapersNext]_papersVars
  BY DEF DesksNext, desksVars
<1> QED
  BY <1>1, <1>2, <1>3, <1>4, <1>5, <1>6, PTL
     DEF DesksSpec, Spec, FloorSpec, FleetSpec, FilesSpec, PapersSpec

\* A lot lies in its own warehouse, and deliveries, orders and movements tell one
\* story, beside the review desk and the stored files.
THEOREM OperationsAgree == DesksSpec => []OperationsHold
<1>1. DeskTypeOK /\ (FloorTypeOK /\ FloorInOneWarehouse) /\ (FleetTypeOK /\ FleetAgrees)
        /\ FilesTypeOK /\ PapersTypeOK => OperationsHold
  BY DEF OperationsHold, DesksTypeOK
<1>2. PapersIInv => PapersTypeOK
  BY DEF PapersIInv
<1> QED BY <1>1, <1>2, EachPart, DeskTypeCorrect, FloorStaysTogether, FleetTellsOneStory,
          FilesTypeCorrect, PapersInvariant, PTL
=============================================================================
