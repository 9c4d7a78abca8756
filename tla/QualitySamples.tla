---------------------------- MODULE QualitySamples ----------------------------
(***************************************************************************)
(* The Q&C desk's own records: samples from registration to certificate,   *)
(* non-conformities with their corrective actions, and the applications of *)
(* professionals.  Handlers lock their record and are atomic; only the     *)
(* check for a professional's earlier application is apart from the        *)
(* creation of a new one.                                                  *)
(***************************************************************************)
EXTENDS Naturals, FiniteSets

CONSTANTS
  Methods,         \* rows a test request can ask for
  Certificates,
  CorrectiveActions,
  Professionals,   \* applications of one person
  Missing

VARIABLES
  sample,          \* one sample: status, results, review
  certificate,     \* [Certificates -> "active", "revoked" or Missing]
  nonConformity,   \* its status
  capa,            \* [CorrectiveActions -> status or Missing]
  professional     \* [Professionals -> status, "checked" or Missing]

sampleVars == <<sample, certificate>>
findingVars == <<nonConformity, capa>>
recordVars == <<sampleVars, findingVars, professional>>

-----------------------------------------------------------------------------
SampleStatus == {"registered", "in_transit", "received", "testing", "reviewed", "certified", "rejected"}
ResultVerdict == {"pass", "fail", "conditional", "pending"}
Sample == [status : SampleStatus, review : ResultVerdict \cup {Missing},
           results : [Methods -> {"pass", "fail", "pending", Missing}]]
CAPAStatus == {"open", "in_progress", "complete"}
NonConformityStatus == {"open", "capa_submitted", "closed"}
ProfessionalStatus == {"checked", "submitted", "in_review", "info_requested", "approved", "rejected"}

ASSUME SamplesAssumption == Missing \notin ResultVerdict \cup CAPAStatus \cup ProfessionalStatus \cup {"active", "revoked"}

SAMPLE_TRANSITIONS ==
  [registered |-> {"in_transit", "rejected"}, in_transit |-> {"received", "rejected"},
   received |-> {"testing", "rejected"}, testing |-> {"reviewed", "rejected"},
   reviewed |-> {"certified", "rejected"}, certified |-> {}, rejected |-> {}]

MovesFreely(from, to) == to = from \/ to # "registered"
Moves(from, to) == to = from \/ to \in SAMPLE_TRANSITIONS[from]

-----------------------------------------------------------------------------
\* An operator or partner may set the status itself: a sample is then
\* reviewed without a review, or certified without a certificate.
SetSampleStatus(s) ==
  /\ Moves(sample.status, s) /\ sample' = [sample EXCEPT !.status = s]
  /\ UNCHANGED <<certificate, findingVars, professional>>

\* Any party's event sends a sample on its way; a partner's or operator's
\* event on the way receives it.
CustodyEvent(receiver) ==
  /\ sample' = [sample EXCEPT !.status =
       CASE @ = "registered" -> "in_transit"
         [] @ = "in_transit" /\ receiver -> "received"
         [] OTHER -> @]
  /\ UNCHANGED <<certificate, findingVars, professional>>

\* The rows of an earlier request are replaced.
RequestTests(methods) ==
  /\ sample.status \in {"in_transit", "received", "testing"} /\ methods # {}
  /\ sample' = [sample EXCEPT !.status = "testing",
                              !.results = [x \in Methods |-> IF x \in methods THEN "pending" ELSE Missing]]
  /\ UNCHANGED <<certificate, findingVars, professional>>

\* limit_verdict knows no "conditional"; the sample's status does not matter.
RecordResult(x, verdict) ==
  /\ sample.results[x] # Missing /\ sample' = [sample EXCEPT !.results[x] = verdict]
  /\ UNCHANGED <<certificate, findingVars, professional>>

ReviewSample(verdict) ==
  LET target == IF verdict = "fail" THEN "rejected" ELSE "reviewed" IN
  /\ Moves(sample.status, target)
  /\ sample' = [sample EXCEPT !.review = verdict, !.status = target]
  /\ UNCHANGED <<certificate, findingVars, professional>>

IssueCertificate(c) ==
  /\ sample.status = "reviewed" /\ certificate[c] = Missing
  /\ certificate' = [certificate EXCEPT ![c] = "active"]
  /\ sample' = [sample EXCEPT !.status = "certified"]
  /\ UNCHANGED <<findingVars, professional>>

RevokeCertificate(c) ==
  /\ certificate[c] = "active" /\ certificate' = [certificate EXCEPT ![c] = "revoked"]
  /\ UNCHANGED <<sample, findingVars, professional>>

-----------------------------------------------------------------------------
AddCapa(a) ==
  /\ nonConformity # "closed" /\ capa[a] = Missing
  /\ capa' = [capa EXCEPT ![a] = "open"] /\ nonConformity' = "capa_submitted"
  /\ UNCHANGED <<sampleVars, professional>>

\* Also on a non-conformity that is closed, where it is always refused.
AdvanceCapa(a) ==
  /\ capa[a] \in {"open", "in_progress"}
  /\ capa' = [capa EXCEPT ![a] = IF @ = "open" THEN "in_progress" ELSE "complete"]
  /\ UNCHANGED <<sampleVars, nonConformity, professional>>

CloseNonConformity ==
  /\ nonConformity # "closed" /\ \A a \in CorrectiveActions : capa[a] \in {Missing, "complete"}
  /\ nonConformity' = "closed" /\ UNCHANGED <<sampleVars, capa, professional>>

-----------------------------------------------------------------------------
Live == {"submitted", "in_review", "approved"}

ProfessionalCheck(p) ==
  /\ professional[p] = Missing /\ \A q \in Professionals : professional[q] \notin Live
  /\ professional' = [professional EXCEPT ![p] = "checked"]
  /\ UNCHANGED <<sampleVars, findingVars>>

ProfessionalCreate(p) ==
  /\ professional[p] = "checked" /\ professional' = [professional EXCEPT ![p] = "submitted"]
  /\ UNCHANGED <<sampleVars, findingVars>>

ProfessionalDecide(p, s) ==
  /\ professional[p] \in {"submitted", "in_review", "info_requested"}
  /\ s \in ProfessionalStatus \ {"checked"}
  /\ professional' = [professional EXCEPT ![p] = s]
  /\ UNCHANGED <<sampleVars, findingVars>>

-----------------------------------------------------------------------------
SamplesInit ==
  /\ sample = [status |-> "registered", review |-> Missing, results |-> [x \in Methods |-> Missing]]
  /\ certificate = [c \in Certificates |-> Missing]
  /\ nonConformity = "open" /\ capa = [a \in CorrectiveActions |-> Missing]
  /\ professional = [p \in Professionals |-> Missing]

SampleStep ==
  \/ \E s \in SampleStatus : SetSampleStatus(s)
  \/ \E receiver \in BOOLEAN : CustodyEvent(receiver)
  \/ \E methods \in SUBSET Methods : RequestTests(methods)
  \/ \E x \in Methods, verdict \in {"pass", "fail", "pending"} : RecordResult(x, verdict)
  \/ \E verdict \in ResultVerdict : ReviewSample(verdict)
  \/ \E c \in Certificates : IssueCertificate(c) \/ RevokeCertificate(c)

SamplesNext ==
  \/ SampleStep
  \/ \E a \in CorrectiveActions : AddCapa(a) \/ AdvanceCapa(a)
  \/ CloseNonConformity
  \/ \E p \in Professionals :
       \/ ProfessionalCheck(p) \/ ProfessionalCreate(p)
       \/ \E s \in ProfessionalStatus : ProfessionalDecide(p, s)

SamplesSpec == SamplesInit /\ [][SamplesNext]_recordVars

-----------------------------------------------------------------------------
SamplesTypeOK ==
  /\ sample \in Sample
  /\ certificate \in [Certificates -> {"active", "revoked", Missing}]
  /\ nonConformity \in NonConformityStatus /\ capa \in [CorrectiveActions -> CAPAStatus \cup {Missing}]
  /\ professional \in [Professionals -> ProfessionalStatus \cup {Missing}]

\* Whatever order parties set statuses, repeat reviews and test requests in: a
\* sample gets one certificate in its life, a revoked one is not followed by
\* another, and the last review of a sample with a certificate did not fail it.
CertificatesHold ==
  LET issued == {c \in Certificates : certificate[c] # Missing} IN
  /\ Cardinality(issued) <= 1
  /\ issued # {} => sample.status = "certified" /\ sample.review # "fail"

\* A closed non-conformity has no corrective action left to do, and stays so;
\* an open one has none at all.
ClosedIsDone ==
  /\ nonConformity = "closed" => \A a \in CorrectiveActions : capa[a] \in {Missing, "complete"}
  /\ nonConformity = "open" => \A a \in CorrectiveActions : capa[a] = Missing
RecordsHold == CertificatesHold /\ ClosedIsDone

\* "You already have a professional application with Beldium.": one at a time.
OneProfessional == Cardinality({p \in Professionals : professional[p] \in Live}) <= 1
=============================================================================
