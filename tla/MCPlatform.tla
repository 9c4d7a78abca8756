------------------------------ MODULE MCPlatform ------------------------------
(* What serves the desks and the sectors: the vault, the sample records, the *)
(* partner applications, the members of an organisation, the processing desk,*)
(* the registers, the dashboards and the upkeep of the accounts.  Two actors  *)
(* where requests overlap.  The modules share no state: a behaviour is one of *)
(* the chosen part.                                                          *)
EXTENDS Vault, QualitySamples, PartnerApplications, Membership, ProcessingDesk, Registers,
        Dashboards, AccountUpkeep

CONSTANTS u1, f1

VARIABLE part

MCWeightOf == [c \in Causes |-> 60]
MCStanding == [e \in Editors |-> IF e = "c" THEN "owner" ELSE "desk"]

\* Nine days of four months, one of a single day, and two companies' sites.
MCMonth == [d \in 0..8 |-> CASE d < 3 -> 0 [] d = 3 -> 1 [] d \in 4..6 -> 2 [] d > 6 -> 3]
MCCompanyOf == [x \in Records |-> IF x = "site 2" THEN "co 2" ELSE "co 1"]
MCUnassigned == [region |-> "", status |-> "operational", score |-> 100]
MCEntryRows == {MCUnassigned, [region |-> "north", status |-> "suspended", score |-> 35],
                [region |-> "north", status |-> "other", score |-> 0]}

\* The old backend's users: one inactive there, and one without an e-mail.
MCOldUsers == {[id |-> 1, email |-> "a", active |-> TRUE], [id |-> 2, email |-> "b", active |-> FALSE],
               [id |-> 3, email |-> "", active |-> TRUE]}

platformVars == <<part, vars, recordVars, partnerVars, memberVars, processingVars, registerVars, dashVars, upkeepVars>>

PlatformInit ==
  /\ part \in {"vault", "samples", "partner", "members", "processing", "registers", "dashboards", "upkeep"}
  /\ Init /\ SamplesInit /\ PartnerInit /\ MembershipInit /\ ProcessingInit /\ RegistersInit /\ DashInit
  /\ UpkeepInit
  /\ part # "registers" => register = "item"
  /\ part # "dashboards" => places = [e \in Entries |-> MCUnassigned]
  /\ part # "processing" => named = FALSE

PlatformNext ==
  \/ part = "vault" /\ Next
     /\ UNCHANGED <<part, recordVars, partnerVars, memberVars, processingVars, registerVars, dashVars, upkeepVars>>
  \/ part = "samples" /\ SamplesNext
     /\ UNCHANGED <<part, vars, partnerVars, memberVars, processingVars, registerVars, dashVars, upkeepVars>>
  \/ part = "partner" /\ PartnerNext
     /\ UNCHANGED <<part, vars, recordVars, memberVars, processingVars, registerVars, dashVars, upkeepVars>>
  \/ part = "members" /\ MembershipNext
     /\ UNCHANGED <<part, vars, recordVars, partnerVars, processingVars, registerVars, dashVars, upkeepVars>>
  \/ part = "processing" /\ ProcessingNext
     /\ UNCHANGED <<part, vars, recordVars, partnerVars, memberVars, registerVars, dashVars, upkeepVars>>
  \/ part = "registers" /\ RegistersNext
     /\ UNCHANGED <<part, vars, recordVars, partnerVars, memberVars, processingVars, dashVars, upkeepVars>>
  \/ part = "dashboards" /\ DashNext
     /\ UNCHANGED <<part, vars, recordVars, partnerVars, memberVars, processingVars, registerVars, upkeepVars>>
  \/ part = "upkeep" /\ UpkeepNext
     /\ UNCHANGED <<part, vars, recordVars, partnerVars, memberVars, processingVars, registerVars, dashVars>>

PlatformSpec == PlatformInit /\ [][PlatformNext]_platformVars

\* The vault's users and files are interchangeable: call the first document's
\* uploader u1 and its file f1.
FirstUpload == documents # <<>> => documents[1].by = u1 /\ documents[1].file = f1

\* Q&C: samples, findings and professionals have nothing in common; one of the
\* three is explored at a time.
OneKind ==
  Cardinality({k \in {1, 2, 3} :
    \/ k = 1 /\ sample.status # "registered"
    \/ k = 2 /\ (nonConformity # "open" \/ \E a \in CorrectiveActions : capa[a] # Missing)
    \/ k = 3 /\ \E p \in Professionals : professional[p] # Missing}) <= 1

\* Processing: the verdicts on documents, the requests on a finding and those on
\* the register entry are explored one at a time; they write nothing in common.
OneRecord ==
  Cardinality({r \in {1, 2, 3} :
    \/ r = 1 /\ (entry # Unread \/ processor.score \in DeskScores)
    \/ r = 2 /\ \E d \in Documents : reading[d] # Unread \/ document[d].state # "pending"
    \/ r = 3 /\ \E f \in Findings : amending[f] # Unread \/ f \in supplying}) <= 1

\* The state of the part that moves is of its type; the others' stay as they were.
PlatformTypeOK ==
  CASE part = "vault" -> VaultTypeOK [] part = "samples" -> SamplesTypeOK
    [] part = "partner" -> PartnerTypeOK [] part = "members" -> MembershipTypeOK
    [] part = "processing" -> ProcessingTypeOK [] part = "registers" -> RegistersTypeOK
    [] part = "dashboards" -> DashTypeOK [] part = "upkeep" -> UpkeepTypeOK

\* Who may act for an organisation is who was let in (MembershipHolds), and a
\* start of the web process leaves the accounts to their holders (LeftUntouched).
PeopleHold ==
  (part = "members" => MembershipHolds) /\ (part = "upkeep" => LeftUntouched)

\* A dashboard is computed anew at every reading, and its readings agree with
\* the registers and with each other (mining and processing _kpi_trend and
\* _regional): TrendIsComplete and RegionsAddUp, and ApprovalsStand of the
\* processing trend.
ReadingsAgree ==
  /\ [](part = "dashboards" => TrendIsComplete /\ RegionsAddUp)
  /\ [][part = "dashboards" => PastMonthsStand(ProcessingTrend)]_dashVars
=============================================================================
