--------------------------- MODULE ProcessingDesk ---------------------------
(***************************************************************************)
(* The processing compliance desk: a processor's admission application,    *)
(* its evidence sections and documents, the findings raised against it and *)
(* the decision carried over to the processor's entry in the register.     *)
(*                                                                         *)
(* Every writing handler of the application locks its row and is one       *)
(* action.  The others work on rows they have not locked and are two:      *)
(* judging a document, sending a finding's evidence, amending a finding    *)
(* and amending the processor; the last two save the whole row they read.  *)
(* A section stands for its prompts answered or not; a document for the    *)
(* file it holds, by number.                                               *)
(***************************************************************************)
EXTENDS Naturals, FiniteSets, Functions

CONSTANTS
  SectionKeys,
  Verdicts,     \* the section verdicts an instance explores
  Documents,    \* (section, name) pairs: one document row each
  Required,     \* those the processing type requires
  MaxFiles,     \* bound: files uploaded to one document
  Findings,
  Causes,       \* risk causes that can be added
  WeightOf,     \* [Causes -> weight]
  DeskStatuses, \* processor statuses an instance lets the desk set by hand,
  DeskScores,   \* and scores
  Unread        \* nothing read

VARIABLES
  stage, decision,
  named,        \* the application names the processor's entry in the register
  answered,     \* [SectionKeys -> required prompts answered]
  review,       \* [SectionKeys -> review state]
  document,     \* [Documents -> the file held (0: none) and its review state]
  reading,      \* [Documents -> the file a reviewer has open, or Unread]
  finding,      \* [Findings -> status, "none" before it is raised]
  evidence,     \* findings with corrective evidence
  supplying,    \* findings an upload of evidence has found open
  amending,     \* [Findings -> the status a PATCH has read, or Unread]
  causes,       \* risk causes on record
  processor,    \* status and score of the register entry
  entry         \* the entry a PATCH has read, or Unread

appVars == <<stage, decision, named, answered, review>>
docVars == <<document, reading>>
findVars == <<finding, evidence, supplying, amending>>
processingVars == <<appVars, docVars, findVars, causes, processor, entry>>

ApplicationStage == {"new", "in_review", "awaiting_info", "inspection", "decided"}
EDITABLE_STAGES == {"new", "awaiting_info"}
ReviewState == {"pending", "verified", "rejected", "info_requested", "flagged"}
DocumentVerdict == {"pending", "verified", "rejected"}
ApplicationDecision == {"none", "approved", "conditional_approval", "rejected"}
ProcessorStatus == {"under_review", "approved", "conditional", "suspended"}
DECISION_STATUS == [approved |-> "approved", conditional_approval |-> "conditional", rejected |-> "suspended"]
NCStatus == {"open", "evidence_submitted", "closed"}
Processor == [status : ProcessorStatus, score : 0..100]

ASSUME ProcessingAssumption ==
  /\ "verified" \in Verdicts /\ Verdicts \subseteq ReviewState
  /\ Required \subseteq Documents /\ MaxFiles \in Nat
  /\ IsFiniteSet(Causes) /\ WeightOf \in [Causes -> Nat]
  /\ DeskStatuses \subseteq ProcessorStatus /\ DeskScores \subseteq 0..100
  /\ Unread \notin Nat /\ Unread \notin Processor /\ Unread \notin NCStatus

ProcessingTypeOK ==
  /\ stage \in ApplicationStage /\ decision \in ApplicationDecision /\ named \in BOOLEAN
  /\ answered \in [SectionKeys -> BOOLEAN] /\ review \in [SectionKeys -> ReviewState]
  /\ document \in [Documents -> [file : Nat, state : DocumentVerdict]]
  /\ reading \in [Documents -> Nat \cup {Unread}]
  /\ finding \in [Findings -> NCStatus \cup {"none"}] /\ evidence \subseteq Findings
  /\ supplying \subseteq Findings
  /\ amending \in [Findings -> NCStatus \cup {Unread}]
  /\ causes \subseteq Causes
  /\ processor \in Processor /\ entry \in Processor \cup {Unread}

-----------------------------------------------------------------------------
Editable == stage \in EDITABLE_STAGES
Undecided == stage # "decided"
Complete ==
  /\ \A k \in SectionKeys : answered[k]
  /\ \A d \in Required : document[d].file # 0
\* Fault: the causes' weights add up beyond a hundred.
RiskScoreUncapped == SumFunctionOnSet(WeightOf, causes)
RiskScore == LET total == SumFunctionOnSet(WeightOf, causes)
             IN IF total > 100 THEN 100 ELSE total
AllSectionsVerified == \A k \in SectionKeys : review[k] = "verified"
Unclosed == {f \in Findings : finding[f] \notin {"none", "closed"}}

\* The applicant answers a section: its verdict goes.
SaveSection(k) ==
  /\ Editable
  /\ \E full \in BOOLEAN : answered' = [answered EXCEPT ![k] = full]
  /\ review' = [review EXCEPT ![k] = "pending"]
  /\ UNCHANGED <<stage, decision, named, docVars, findVars, causes, processor, entry>>

ReviewSection(k, v) ==
  /\ Undecided
  /\ review' = [review EXCEPT ![k] = v]
  /\ stage' = IF v = "info_requested" THEN "awaiting_info"
              ELSE IF stage = "new" THEN "in_review" ELSE stage
  /\ UNCHANGED <<decision, named, answered, docVars, findVars, causes, processor, entry>>

\* An upload replaces the file of its row and clears the verdict.
AddFile(d) ==
  /\ Editable /\ document[d].file < MaxFiles
  /\ document' = [document EXCEPT ![d] = [file |-> document[d].file + 1, state |-> "pending"]]
  /\ UNCHANGED <<appVars, reading, findVars, causes, processor, entry>>

ReadDocument(d) ==
  /\ document[d].file # 0 /\ reading[d] = Unread
  /\ reading' = [reading EXCEPT ![d] = document[d].file]
  /\ UNCHANGED <<appVars, document, findVars, causes, processor, entry>>

\* The verdict is written over whatever file the row holds by then.
JudgeDocument(d, v) ==
  /\ reading[d] # Unread
  /\ document' = [document EXCEPT ![d].state = v]
  /\ reading' = [reading EXCEPT ![d] = Unread]
  /\ UNCHANGED <<appVars, findVars, causes, processor, entry>>

AddCause(c) ==
  /\ c \notin causes /\ causes' = causes \cup {c}
  /\ UNCHANGED <<appVars, docVars, findVars, processor, entry>>

WithdrawCause(c) ==
  /\ c \in causes /\ causes' = causes \ {c}
  /\ UNCHANGED <<appVars, docVars, findVars, processor, entry>>

\* The applicant's PATCH of the application may name another processor, or none.
NameProcessor ==
  /\ Editable
  /\ named' \in BOOLEAN
  /\ UNCHANGED <<stage, decision, answered, review, docVars, findVars, causes, processor, entry>>

Submit ==
  /\ Editable /\ Complete
  /\ stage' = "in_review"
  /\ UNCHANGED <<decision, named, answered, review, docVars, findVars, causes, processor, entry>>

RequestInspection ==
  /\ Undecided
  /\ stage' = "inspection"
  /\ UNCHANGED <<decision, named, answered, review, docVars, findVars, causes, processor, entry>>

\* More information required: not an outcome.
RequireInformation ==
  /\ Undecided
  /\ stage' = "awaiting_info"
  /\ UNCHANGED <<decision, named, answered, review, docVars, findVars, causes, processor, entry>>

MayApprove == AllSectionsVerified /\ Unclosed = {}
\* A decision, and the processor's entry where the application has one.
DecideUnscored(d) ==
  /\ Undecided
  /\ d = "approved" => MayApprove
  /\ decision' = d /\ stage' = "decided"
  /\ \/ processor' = [processor EXCEPT !.status = DECISION_STATUS[d]]
     \/ processor' = processor
  /\ UNCHANGED <<named, answered, review, docVars, findVars, causes, entry>>
Decide(d) ==
  /\ Undecided
  /\ d = "approved" => MayApprove
  /\ decision' = d /\ stage' = "decided"
  /\ IF named THEN processor' = [status |-> DECISION_STATUS[d], score |-> 100 - RiskScore]
     ELSE UNCHANGED processor
  /\ UNCHANGED <<named, answered, review, docVars, findVars, causes, entry>>

-----------------------------------------------------------------------------
EntryBegin ==
  /\ entry = Unread /\ entry' = processor
  /\ UNCHANGED <<appVars, docVars, findVars, causes, processor>>

\* The desk amends the register entry: status and score are writable too, and
\* every column is saved as it was read or sent.
EntrySave ==
  /\ entry # Unread
  /\ \E s \in DeskStatuses \cup {entry.status}, n \in DeskScores \cup {entry.score} :
       processor' = [status |-> s, score |-> n]
  /\ entry' = Unread
  /\ UNCHANGED <<appVars, docVars, findVars, causes>>

RaiseFinding(f) ==
  /\ finding[f] = "none"
  /\ finding' = [finding EXCEPT ![f] = "open"]
  /\ UNCHANGED <<appVars, docVars, evidence, supplying, amending, causes, processor, entry>>

AmendBegin(f) ==
  /\ finding[f] # "none" /\ amending[f] = Unread
  /\ amending' = [amending EXCEPT ![f] = finding[f]]
  /\ UNCHANGED <<appVars, docVars, finding, evidence, supplying, causes, processor, entry>>

AmendSave(f) ==
  /\ amending[f] # Unread
  /\ finding' = [finding EXCEPT ![f] = amending[f]]
  /\ amending' = [amending EXCEPT ![f] = Unread]
  /\ UNCHANGED <<appVars, docVars, evidence, supplying, causes, processor, entry>>

EvidenceBegin(f) ==
  /\ finding[f] \notin {"none", "closed"}
  /\ supplying' = supplying \cup {f}
  /\ UNCHANGED <<appVars, docVars, finding, evidence, amending, causes, processor, entry>>

EvidenceSave(f) ==
  /\ f \in supplying
  /\ supplying' = supplying \ {f}
  /\ finding' = [finding EXCEPT ![f] = "evidence_submitted"]
  /\ evidence' = evidence \cup {f}
  /\ UNCHANGED <<appVars, docVars, amending, causes, processor, entry>>

CloseFinding(f) ==
  /\ finding[f] # "none"
  /\ \/ f \in evidence /\ finding' = [finding EXCEPT ![f] = "closed"]
     \/ finding' = [finding EXCEPT ![f] = "open"]
  /\ UNCHANGED <<appVars, docVars, evidence, supplying, amending, causes, processor, entry>>

-----------------------------------------------------------------------------
ProcessingInit ==
  /\ stage = "new" /\ decision = "none" /\ named \in BOOLEAN
  /\ answered = [k \in SectionKeys |-> FALSE]
  /\ review = [k \in SectionKeys |-> "pending"]
  /\ document = [d \in Documents |-> [file |-> 0, state |-> "pending"]]
  /\ reading = [d \in Documents |-> Unread]
  /\ finding = [f \in Findings |-> "none"] /\ evidence = {} /\ supplying = {}
  /\ amending = [f \in Findings |-> Unread]
  /\ causes = {}
  /\ processor = [status |-> "under_review", score |-> 0] /\ entry = Unread

ProcessingNext ==
  \/ \E k \in SectionKeys : SaveSection(k) \/ \E v \in Verdicts : ReviewSection(k, v)
  \/ \E d \in Documents : AddFile(d) \/ ReadDocument(d) \/ \E v \in DocumentVerdict : JudgeDocument(d, v)
  \/ \E c \in Causes : AddCause(c) \/ WithdrawCause(c)
  \/ NameProcessor \/ Submit \/ RequestInspection \/ RequireInformation
  \/ \E d \in ApplicationDecision \ {"none"} : Decide(d)
  \/ EntryBegin \/ EntrySave
  \/ \E f \in Findings :
       RaiseFinding(f) \/ AmendBegin(f) \/ AmendSave(f) \/ CloseFinding(f)
       \/ EvidenceBegin(f) \/ EvidenceSave(f)

ProcessingSpec == ProcessingInit /\ [][ProcessingNext]_processingVars

-----------------------------------------------------------------------------
\* An approved application still has every section verified: nothing the
\* applicant or the desk can do after the decision touches what it rests on.
ApprovedOnSections == decision = "approved" => AllSectionsVerified

\* Decided is final, and is decided: no stage change, request for information
\* or inspection reopens it, and no outcome is recorded before it.
DecidedForGood ==
  /\ []ApprovedOnSections
  /\ [][stage = "decided" => stage' = "decided" /\ decision' = decision]_processingVars
  /\ [](decision # "none" <=> stage = "decided")

Deciding == Undecided /\ stage' = "decided"

\* A decision writes the register entry the application names, in the same step
\* and with the score the risk causes give; only the desk's own hand, and no
\* decision on an application that names none, moves it otherwise.
RegisterFollows ==
  [][/\ processor' # processor => EntrySave \/ (Deciding /\ named)
     /\ Deciding /\ named => /\ processor'.status = DECISION_STATUS[decision']
                            /\ processor'.score + RiskScore = 100]_processingVars

\* A decision stands, and the register says what it said.
DecisionHolds == DecidedForGood /\ RegisterFollows

\* What documents() promises: a verdict is about the file it was read from.
VerdictOnItsFile ==
  [][\A d \in Documents, v \in DocumentVerdict :
       JudgeDocument(d, v) => reading[d] = document[d].file]_processingVars
=============================================================================
