-------------------------- MODULE ExportDeskProofs --------------------------
(***************************************************************************)
(* What TLAPS proves of ExportDesk, alone and beside the compliance desk   *)
(* (MCReviews): it implements EvidenceDesk, and hence keeps what is proved *)
(* there, and it protects the records under review.                        *)
(***************************************************************************)
EXTENDS MCReviews, TLAPS

\* A behaviour of the joined run is one of the export desk.
LEMMA ExportPart == ReviewsSpec => Export!Spec
<1>1. ReviewsInit => Export!Init
  BY DEF ReviewsInit
<1>2. [ReviewsNext]_reviewsVars => [Export!Next]_(Export!vars)
  BY DEF ReviewsNext, reviewsVars, exportVars, Export!vars, Export!file,
         Export!trade
<1> QED
  BY <1>1, <1>2, PTL DEF ReviewsSpec, Export!Spec

\* A step that leaves the file alone is at most a change of its readiness.
LEMMA OutsideFile ==
  ASSUME UNCHANGED Export!file
  PROVE  [Export!Desk!RecordsChange]_(Export!Desk!vars)
<1>1. Export!Ready \in BOOLEAN /\ Export!Ready' \in BOOLEAN
  BY DEF Export!Ready
<1>2. CASE Export!Ready' = Export!Ready
  BY <1>2 DEF Export!Desk!vars, Export!file
<1>3. CASE Export!Ready' = ~Export!Ready
  BY <1>3 DEF Export!Desk!RecordsChange, Export!file
<1> QED
  BY <1>1, <1>2, <1>3

\* Every handler of the file is the handler of EvidenceDesk.
LEMMA FileStepImplements == Export!FileStep => Export!Desk!Next
BY DEF Export!FileStep, Export!Submit, Export!StartReview, Export!Decide,
       Export!Section, Export!ReviewSection, Export!Documents,
       Export!ReviewDocument, Export!Expire, Export!RaiseRequest, Export!Respond,
       Export!ReviewResponse, Export!AddCondition, Export!ClearCondition,
       Export!Desk!Next

LEMMA OtherStepsLeaveFile ==
  Export!SetAccount \/ Export!SaveProfile \/ Export!ShipmentStep \/ UNCHANGED Export!vars
    => UNCHANGED Export!file
BY DEF Export!SetAccount, Export!SaveProfile, Export!ShipmentStep,
       Export!SaveShipment, Export!SaveItem, Export!RaiseFinding,
       Export!RespondFinding, Export!CloseFinding, Export!DecideShipment,
       Export!vars, Export!file

\* The export desk implements EvidenceDesk, its readiness computed from the
\* account, the profile and the shipments.
THEOREM ExportImplementsDesk == ReviewsSpec => ImplementsDesk
<1>1. Export!Init => Export!Desk!Init
  BY DEF Export!Init
<1>2. [Export!Next]_(Export!vars) => [Export!Desk!Next]_(Export!Desk!vars)
  <2> SUFFICES ASSUME [Export!Next]_(Export!vars)
               PROVE  [Export!Desk!Next]_(Export!Desk!vars)
    OBVIOUS
  <2>1. CASE Export!FileStep
    BY <2>1, FileStepImplements
  <2>2. CASE \/ Export!SetAccount \/ Export!SaveProfile
             \/ Export!ShipmentStep \/ UNCHANGED Export!vars
    BY <2>2, OtherStepsLeaveFile, OutsideFile DEF Export!Desk!Next
  <2> QED
    BY <2>1, <2>2 DEF Export!Next
<1> QED
  BY <1>1, <1>2, ExportPart, PTL DEF Export!Spec, ImplementsDesk

-----------------------------------------------------------------------------
\* The part of the type invariant the shipments need.
TradeTypes ==
  /\ item \in [Shipments -> Export!ItemState \cup {"none"}]
  /\ finding \in [Shipments -> Export!FindingStatus \cup {"none"}]
  /\ decision \in [Shipments -> Export!Outcomes \cup {"none"}]

LEMMA FileStepKeepsTrade ==
  Export!FileStep => UNCHANGED <<active, profile, Export!trade>>
BY DEF Export!FileStep, Export!Submit, Export!StartReview, Export!Decide,
       Export!Section, Export!ReviewSection, Export!Documents,
       Export!ReviewDocument, Export!Expire, Export!RaiseRequest, Export!Respond,
       Export!ReviewResponse, Export!AddCondition, Export!ClearCondition,
       Export!OwnRecords, Export!trade

LEMMA TradeTyped == Export!Spec => []TradeTypes
<1>1. Export!Init => TradeTypes
  BY DEF Export!Init, TradeTypes
<1>2. TradeTypes /\ [Export!Next]_(Export!vars) => TradeTypes'
  <2> SUFFICES ASSUME TradeTypes, [Export!Next]_(Export!vars) PROVE TradeTypes'
    OBVIOUS
  <2>1. CASE Export!FileStep
    BY <2>1, FileStepKeepsTrade DEF TradeTypes, Export!trade
  <2>2. CASE Export!SetAccount \/ Export!SaveProfile \/ UNCHANGED Export!vars
    BY <2>2 DEF TradeTypes, Export!SetAccount, Export!SaveProfile, Export!vars
  <2>3. CASE Export!ShipmentStep
    BY <2>3 DEF TradeTypes, Export!ShipmentStep, Export!SaveShipment,
                Export!SaveItem, Export!RaiseFinding, Export!RespondFinding,
                Export!CloseFinding, Export!DecideShipment, Export!FindingStatus
  <2> QED
    BY <2>1, <2>2, <2>3 DEF Export!Next
<1> QED
  BY <1>1, <1>2, PTL DEF Export!Spec

\* What the reviewer sees of the exporter's trade does not move under the review.
THEOREM RecordsHold == ReviewsSpec => ReviewedRecordsHold
<1>1. ASSUME TradeTypes, [Export!Next]_(Export!vars),
             file \notin Export!Desk!Editable, UNCHANGED active
      PROVE  /\ UNCHANGED <<profile, shipment, item, decision>>
             /\ \A s \in Shipments :
                  finding'[s] = finding[s] \/ finding'[s] = "responded"
  <2>1. CASE Export!FileStep
    BY <2>1, FileStepKeepsTrade DEF Export!trade
  <2>2. CASE \E s \in Shipments : Export!RespondFinding(s)
    BY <1>1, <2>2 DEF TradeTypes, Export!RespondFinding
  <2>3. CASE UNCHANGED Export!vars
    BY <2>3 DEF Export!vars
  <2>4. CASE Export!SetAccount
    BY <1>1, <2>4 DEF Export!SetAccount
  <2> QED
    BY <1>1, <2>1, <2>2, <2>3, <2>4
       DEF Export!Next, Export!SaveProfile, Export!ShipmentStep,
           Export!SaveShipment, Export!SaveItem, Export!RaiseFinding,
           Export!CloseFinding, Export!DecideShipment, Export!EditableExporter
<1>2. TradeTypes /\ [Export!Next]_(Export!vars) =>
        (file \notin Export!Desk!Editable /\ UNCHANGED active =>
          /\ UNCHANGED <<profile, shipment, item, decision>>
          /\ \A s \in Shipments :
               finding'[s] = finding[s] \/ finding'[s] = "responded")
  BY <1>1
<1> QED
  BY <1>2, TradeTyped, ExportPart, PTL
     DEF Export!Spec, ReviewedRecordsHold, Export!ReviewedRecordsHold

\* An outcome is recorded once, and a full clearance over clean records.
THEOREM ClearancesRecorded == ReviewsSpec => Export!ClearanceRecorded
<1>1. ASSUME TradeTypes, [Export!Next]_(Export!vars),
             NEW s \in Shipments, decision'[s] # decision[s]
      PROVE  /\ decision[s] = "none"
             /\ decision'[s] = "cleared" =>
                  /\ item[s] # "fail"
                  /\ finding[s] \in {"none", "closed"}
  <2>1. CASE \E z \in Shipments, outcome \in Export!Outcomes :
               Export!DecideShipment(z, outcome)
    BY <1>1, <2>1 DEF TradeTypes, Export!DecideShipment, Export!Clearable
  <2>2. CASE UNCHANGED decision
    BY <1>1, <2>2
  <2> QED
    BY <1>1, <2>1, <2>2, FileStepKeepsTrade
       DEF Export!Next, Export!SetAccount, Export!SaveProfile,
           Export!ShipmentStep, Export!SaveShipment, Export!SaveItem,
           Export!RaiseFinding, Export!RespondFinding, Export!CloseFinding,
           Export!trade, Export!vars
<1>2. TradeTypes /\ [Export!Next]_(Export!vars) =>
        \A s \in Shipments : decision'[s] # decision[s] =>
          /\ decision[s] = "none"
          /\ decision'[s] = "cleared" =>
               /\ item[s] # "fail"
               /\ finding[s] \in {"none", "closed"}
  BY <1>1
<1> QED
  BY <1>2, TradeTyped, ExportPart, PTL DEF Export!Spec, Export!ClearanceRecorded
=============================================================================
