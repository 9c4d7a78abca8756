---------------------------- MODULE MiningScore ----------------------------
(***************************************************************************)
(* The numbers of a mine site: its sections' marks, the compliance score   *)
(* and risk band a verdict stores from them, and the non-conformities      *)
(* whose corrective action the desk accepts or returns.                    *)
(*                                                                         *)
(* Section handlers lock the site.  A finding is read unlocked: an amended *)
(* finding is saved whole, status included, and corrective action checks   *)
(* that the finding is open before it writes.  Both are two actions.       *)
(***************************************************************************)
EXTENDS Integers, FiniteSets, Functions

CONSTANTS
  MarkedSections,  \* the evidence sections of one site
  Points,    \* scores an instance explores, within 0..100
  Weights,   \* section weights, 10 by default
  Findings,
  Critical,  \* the findings of critical severity
  NoEdit

VARIABLES
  mark,      \* [MarkedSections -> verdict, weight, score]
  score,     \* MineSite.compliance_score
  risk,      \* MineSite.risk
  finding,   \* [Findings -> status, "none" before it is raised]
  action,    \* [Findings -> decision on the newest corrective action]
  amending,  \* [Findings -> the status a PATCH has read, or NoEdit]
  acting     \* findings whose owner has found them open

scoreVars == <<mark, score, risk, finding, action, amending, acting>>

Mark == [verdict : {"pending", "verified", "rejected", "flagged"},
         weight : Weights \cup {10}, score : Points \cup {0, 100}]
RiskBand == {"low", "medium", "high"}
FindingStatus == {"open", "in_progress", "awaiting_review", "closed", "escalated"}
Decision == {"none", "undecided", "accepted", "rejected"}

ASSUME ScoreAssumption ==
  /\ IsFiniteSet(MarkedSections) /\ MarkedSections # {}
  /\ Points \subseteq 0..100 /\ Weights \subseteq Nat
  /\ Critical \subseteq Findings
  /\ NoEdit \notin FindingStatus \cup {"none"}

-----------------------------------------------------------------------------
\* Python's round: to the nearest integer, halves to the even one.
Round(n, d) ==
  LET q == n \div d  r == 2 * (n % d) IN
    IF r > d \/ (r = d /\ q % 2 = 1) THEN q + 1 ELSE q

Weighing(m) == {k \in MarkedSections : m[k].weight # 0}
\* Sections without weight do not count; none with weight keeps what is stored
\* (a site has no score factors here).
WeightedScore(m, stored) ==
  LET W == Weighing(m)
      weight == [k \in W |-> m[k].weight]
      weighed == [k \in W |-> m[k].weight * m[k].score] IN
    IF W = {} THEN stored ELSE Round(SumFunction(weighed), SumFunction(weight))

Escalated == \E f \in Critical : finding[f] \notin {"none", "closed"}
BandBySeverity(s, critical) ==
  IF critical THEN "critical" ELSE IF s < 60 THEN "high" ELSE IF s >= 80 THEN "low" ELSE "medium"
Band(s, critical) ==
  IF critical \/ s < 60 THEN "high" ELSE IF s >= 80 THEN "low" ELSE "medium"

\* A verdict marks the section, given a score or not, then rescores the site.
Scored(old, v, given) ==
  IF given # NoEdit THEN given
  ELSE IF v = "verified" THEN 100 ELSE IF v \in {"rejected", "flagged"} THEN 0 ELSE old
JudgeSection(k, v, given) ==
  /\ mark' = [mark EXCEPT ![k].verdict = v, ![k].score = Scored(mark[k].score, v, given)]
  /\ score' = WeightedScore(mark', score)
  /\ risk' = Band(score', Escalated)
  /\ UNCHANGED <<finding, action, amending, acting>>

\* The owner's save takes the verdict back; weight and score are writable.
SaveMark(k, w, s) ==
  /\ mark' = [mark EXCEPT ![k] = [verdict |-> "pending", weight |-> w, score |-> s]]
  /\ UNCHANGED <<score, risk, finding, action, amending, acting>>

\* The band stays what the last verdict made it.
RecomputeScore ==
  /\ score' = WeightedScore(mark, score)
  /\ UNCHANGED <<mark, risk, finding, action, amending, acting>>

AmendRisk(b) ==
  /\ risk' = b
  /\ UNCHANGED <<mark, score, finding, action, amending, acting>>

-----------------------------------------------------------------------------
RaiseFinding(f) ==
  /\ finding[f] = "none"
  /\ finding' = [finding EXCEPT ![f] = "open"]
  /\ UNCHANGED <<mark, score, risk, action, amending, acting>>

AmendBegin(f) ==
  /\ finding[f] # "none" /\ amending[f] = NoEdit
  /\ amending' = [amending EXCEPT ![f] = finding[f]]
  /\ UNCHANGED <<mark, score, risk, finding, action, acting>>

AmendSave(f) ==
  /\ amending[f] # NoEdit
  /\ finding' = [finding EXCEPT ![f] = amending[f]]
  /\ amending' = [amending EXCEPT ![f] = NoEdit]
  /\ UNCHANGED <<mark, score, risk, action, acting>>

ActBegin(f) ==
  /\ finding[f] \notin {"none", "closed"}
  /\ acting' = acting \cup {f}
  /\ UNCHANGED <<mark, score, risk, finding, action, amending>>

\* A new corrective action, and the finding back to the desk.
ActSave(f) ==
  /\ f \in acting
  /\ acting' = acting \ {f}
  /\ action' = [action EXCEPT ![f] = "undecided"]
  /\ finding' = [finding EXCEPT ![f] = "awaiting_review"]
  /\ UNCHANGED <<mark, score, risk, amending>>

\* Accepting needs corrective action; either verdict falls on the newest.
CloseFinding(f) ==
  /\ finding[f] # "none"
  /\ \E accept \in BOOLEAN :
       /\ accept => action[f] # "none"
       /\ finding' = [finding EXCEPT ![f] = IF accept THEN "closed" ELSE "open"]
       /\ action' = [action EXCEPT ![f] = IF @ = "none" THEN @ ELSE IF accept THEN "accepted" ELSE "rejected"]
  /\ UNCHANGED <<mark, score, risk, amending, acting>>

-----------------------------------------------------------------------------
ScoreInit ==
  /\ mark = [k \in MarkedSections |-> [verdict |-> "pending", weight |-> 10, score |-> 0]]
  /\ score = 0 /\ risk = "medium"
  /\ finding = [f \in Findings |-> "none"]
  /\ action = [f \in Findings |-> "none"]
  /\ amending = [f \in Findings |-> NoEdit]
  /\ acting = {}

ScoreNext ==
  \/ \E k \in MarkedSections :
       \/ \E v \in {"pending", "verified", "rejected", "flagged"}, g \in Points \cup {NoEdit} : JudgeSection(k, v, g)
       \/ \E w \in Weights, s \in Points : SaveMark(k, w, s)
  \/ RecomputeScore \/ \E b \in RiskBand : AmendRisk(b)
  \/ \E f \in Findings :
       RaiseFinding(f) \/ AmendBegin(f) \/ AmendSave(f) \/ ActBegin(f) \/ ActSave(f) \/ CloseFinding(f)

ScoreSpec == ScoreInit /\ [][ScoreNext]_scoreVars

-----------------------------------------------------------------------------
ScoreTypeOK ==
  /\ mark \in [MarkedSections -> Mark]
  /\ score \in 0..100 /\ risk \in RiskBand
  /\ finding \in [Findings -> FindingStatus \cup {"none"}]
  /\ action \in [Findings -> Decision]
  /\ amending \in [Findings -> FindingStatus \cup {NoEdit}]
  /\ acting \subseteq Findings

\* A stored score never leaves the range of the marks it was computed from,
\* whatever the weights and however a half is rounded.
ScoreIsAnAverage ==
  [][score' # score =>
       /\ \E k \in Weighing(mark') : mark'[k].score <= score'
       /\ \E k \in Weighing(mark') : score' <= mark'[k].score]_scoreVars

\* A finding ends only with its newest corrective action accepted: evidence
\* sent while the desk closes brings the finding back instead of vanishing in
\* it.  Only the save of a stale PATCH writes the status otherwise.
ClosedOnAcceptance ==
  [][\A f \in Findings :
       /\ finding'[f] = "closed"
       /\ <<finding'[f], action'[f]>> # <<finding[f], action[f]>>
       => action'[f] = "accepted" \/ AmendSave(f)]_scoreVars

\* The two things a site's review may never get wrong once it is written down:
\* what its score averages, and what ended a finding.
ScoringHolds == ScoreIsAnAverage /\ ClosedOnAcceptance
=============================================================================
