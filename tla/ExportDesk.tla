----------------------------- MODULE ExportDesk -----------------------------
(***************************************************************************)
(* The export desk: the handlers of EvidenceDesk over an exporter's file,  *)
(* and the exporter's shipments, each with a checklist item and a finding  *)
(* (non-conformity), which may be edited and decided only while the        *)
(* application is editable.  The readiness EvidenceDesk leaves open is     *)
(* here the account, the profile (licence, products, buyers) and the       *)
(* shipments that are not cancelled.                                       *)
(***************************************************************************)
EXTENDS Naturals, FiniteSets

CONSTANTS Domains, Types, Requests, Conditions, None, Shipments

VARIABLES
  status, section, document, request, condition,  \* as in EvidenceDesk
  account,    \* the applicant's account is active and verified
  profile,    \* the profile is complete, a product and a buyer are active
  shipment,   \* [Shipments -> "none", "active", "cancelled"]
  item,       \* [Shipments -> "none", "open", "pass", "fail"], a checklist item
  finding,    \* [Shipments -> "none", "open", "responded", "closed"]
  decision    \* [Shipments -> "none" or the recorded outcome]

file == <<status, section, document, request, condition>>
trade == <<shipment, item, finding, decision>>
vars == <<status, section, document, request, condition, account, profile,
          shipment, item, finding, decision>>

Ready == account /\ profile /\ \E s \in Shipments : shipment[s] = "active"

Desk == INSTANCE EvidenceDesk WITH ready <- Ready

Outcomes == {"cleared", "conditionally_cleared", "declined"}
\* "active" stands for planned, ready, cleared, shipped and held, which no
\* handler tells apart.
ShipmentStatus == {"active", "cancelled"}
ItemState == {"open", "pass", "fail"}
FindingStatus == {"open", "responded", "closed"}

ExportTypeOK ==
  /\ Desk!DeskTypeOK
  /\ account \in BOOLEAN /\ profile \in BOOLEAN
  /\ shipment \in [Shipments -> ShipmentStatus \cup {"none"}]
  /\ item \in [Shipments -> ItemState \cup {"none"}]
  /\ finding \in [Shipments -> FindingStatus \cup {"none"}]
  /\ decision \in [Shipments -> Outcomes \cup {"none"}]

Init ==
  /\ account = TRUE
  /\ profile = FALSE
  /\ shipment = [s \in Shipments |-> "none"]
  /\ item = [s \in Shipments |-> "none"]
  /\ finding = [s \in Shipments |-> "none"]
  /\ decision = [s \in Shipments |-> "none"]
  /\ Desk!Init

-----------------------------------------------------------------------------
\* The application's handlers; none touches the records of the exporter.
OwnRecords == UNCHANGED <<account, profile, shipment, item, finding, decision>>

\* Fault: a section can be declared while the file is under review.
SectionInReview(d) ==
  /\ OwnRecords
  /\ section' = [section EXCEPT ![d].filled = TRUE, ![d].status = "pending"]
  /\ UNCHANGED <<status, document, request, condition>>
Section(d) == OwnRecords /\ Desk!SaveSection(d)
Submit == OwnRecords /\ Desk!Submit
StartReview == OwnRecords /\ Desk!StartReview
ReviewSection(d) ==
  /\ OwnRecords
  /\ \E v \in Desk!Verdicts, a \in BOOLEAN : Desk!ReviewSection(d, v, a)
Documents(t) ==
  /\ OwnRecords
  /\ \E d \in Domains, c \in Conditions \cup {None}, e \in BOOLEAN :
       Desk!Upload(t, d, c, e)
ReviewDocument(t) ==
  /\ OwnRecords
  /\ \E v \in {"verified", "rejected"} : Desk!ReviewDocument(t, v)
RaiseRequest(r) == OwnRecords /\ Desk!RaiseRequest(r)
Respond(r) == OwnRecords /\ Desk!Respond(r)
ReviewResponse(r) == OwnRecords /\ \E a \in BOOLEAN : Desk!ReviewResponse(r, a)
AddCondition(c) == OwnRecords /\ Desk!AddCondition(c)
ClearCondition(c) == OwnRecords /\ Desk!ClearCondition(c)
Decide ==
  /\ OwnRecords
  /\ \/ Desk!Reject
     \/ Desk!Approve
     \/ \E new \in SUBSET Conditions : Desk!ApproveConditionally(new)
Expire(t) == OwnRecords /\ Desk!Expire(t)

-----------------------------------------------------------------------------
\* Fault: the records can be edited while the file is under review.
EditableInReview == status \in Desk!Editable \cup {"submitted", "under_review"}
\* editable_exporter(): the application must be in a state of EDITABLE.
EditableExporter == status \in Desk!Editable

SetAccount ==
  /\ account' = ~account
  /\ UNCHANGED <<status, section, document, request, condition, profile,
                 shipment, item, finding, decision>>

SaveProfile ==
  /\ EditableExporter
  /\ profile' = ~profile
  /\ UNCHANGED <<status, section, document, request, condition, account,
                 shipment, item, finding, decision>>

\* A shipment is created or changed; its status is among the fields that may be
\* written.
SaveShipment(s, new) ==
  /\ EditableExporter
  /\ shipment' = [shipment EXCEPT ![s] = new]
  /\ UNCHANGED <<status, section, document, request, condition, account,
                 profile, item, finding, decision>>

SaveItem(s, state) ==
  /\ EditableExporter
  /\ shipment[s] # "none"
  /\ item' = [item EXCEPT ![s] = state]
  /\ UNCHANGED <<status, section, document, request, condition, account,
                 profile, shipment, finding, decision>>

RaiseFinding(s) ==
  /\ EditableExporter
  /\ shipment[s] # "none" /\ finding[s] = "none"
  /\ finding' = [finding EXCEPT ![s] = "open"]
  /\ UNCHANGED <<status, section, document, request, condition, account,
                 profile, shipment, item, decision>>

\* The one shipment handler that does not ask for an editable application.
RespondFinding(s) ==
  /\ finding[s] \in {"open", "responded"}
  /\ finding' = [finding EXCEPT ![s] = "responded"]
  /\ UNCHANGED <<status, section, document, request, condition, account,
                 profile, shipment, item, decision>>

CloseFinding(s) ==
  /\ EditableExporter
  /\ finding[s] # "none"
  /\ finding' = [finding EXCEPT ![s] = "closed"]
  /\ UNCHANGED <<status, section, document, request, condition, account,
                 profile, shipment, item, decision>>

Clearable(s) == item[s] # "fail" /\ finding[s] \in {"none", "closed"}

\* The shipment becomes cleared or held, and is active again if it was cancelled.
DecideShipment(s, outcome) ==
  /\ EditableExporter
  /\ shipment[s] # "none"
  /\ decision[s] = "none"
  /\ outcome = "cleared" => Clearable(s)
  /\ decision' = [decision EXCEPT ![s] = outcome]
  /\ shipment' = [shipment EXCEPT ![s] = "active"]
  /\ UNCHANGED <<status, section, document, request, condition, account,
                 profile, item, finding>>

-----------------------------------------------------------------------------
FileStep ==
  \/ Submit \/ StartReview \/ Decide
  \/ \E d \in Domains : Section(d) \/ ReviewSection(d)
  \/ \E t \in Types : Documents(t) \/ ReviewDocument(t) \/ Expire(t)
  \/ \E r \in Requests : RaiseRequest(r) \/ Respond(r) \/ ReviewResponse(r)
  \/ \E c \in Conditions : AddCondition(c) \/ ClearCondition(c)

ShipmentStep ==
  \E s \in Shipments :
    \/ \E new \in ShipmentStatus : SaveShipment(s, new)
    \/ \E state \in ItemState : SaveItem(s, state)
    \/ RaiseFinding(s) \/ RespondFinding(s) \/ CloseFinding(s)
    \/ \E outcome \in Outcomes : DecideShipment(s, outcome)

Next == FileStep \/ SetAccount \/ SaveProfile \/ ShipmentStep

Spec == Init /\ [][Next]_vars

-----------------------------------------------------------------------------
\* The export desk is an EvidenceDesk: every handler on shipments, products,
\* buyers or accounts changes at most the readiness of the file.
ImplementsDesk == Desk!Spec

\* What a reviewer sees of the exporter's trade does not move under the review:
\* outside EDITABLE the profile, the shipments, their checklists and decisions
\* stand still, and a finding can only be answered (views.py:47-51, 162-175).
ReviewedRecordsHold ==
  [][status \notin Desk!Editable /\ UNCHANGED account =>
       /\ UNCHANGED <<profile, shipment, item, decision>>
       /\ \A s \in Shipments :
            finding'[s] = finding[s] \/ finding'[s] = "responded"]_vars

\* A shipment is cleared in earnest only over a checklist without failures and
\* findings all closed, and its outcome is then never recorded anew.
ClearanceRecorded ==
  [][\A s \in Shipments : decision'[s] # decision[s] =>
       /\ decision[s] = "none"
       /\ decision'[s] = "cleared" =>
            /\ item[s] # "fail"
            /\ finding[s] \in {"none", "closed"}]_vars
=============================================================================
