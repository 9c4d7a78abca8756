--------------------------- MODULE OnboardingProofs ---------------------------
(* What holds around an organisation for any number of documents, accounts,   *)
(* requests, codes and old rows: the timeline its people read, the mirror of  *)
(* the Q&C desk, the sessions and codes of its accounts, the restrictions of  *)
(* its credentials, and the merge it may have come from.                      *)
EXTENDS MCOnboarding, ComplianceApplicationProofs, SumProofs, TLAPS

-----------------------------------------------------------------------------
(* OrganisationVerification.  No handler locks the organisation: what they     *)
(* checked may have changed by the time they write.  A handler that makes its  *)
(* checks after the filing can only be a submission.                           *)

\* Nothing is on file of an application nobody opened.
OrgIInv == TypeOK /\ late \subseteq {"submit"} /\ (status = "none" => OnFile = {})

\* What an application's own handlers do to the organisation is what they do to
\* the application.
LEMMA FilingMoves ==
  ASSUME TypeOK, [Next]_vars
  PROVE  /\ UNCHANGED organisation \/ organisation' = Standing(status')
         /\ status' = "none" => status = "none"
<1>1. CASE UNCHANGED <<status, organisation>> \/ CreateApplication
  BY <1>1 DEF CreateApplication
<1>2. CASE \E target : Transition(target)
  BY <1>2 DEF Transition, TRANSITIONS
<1>3. Submit => \E target : Transition(target)
  BY DEF Submit
<1>4. \A target, issued : Decide(target, issued) => Transition(target)
  BY DEF Decide
<1> QED BY <1>1, <1>2, <1>3, <1>4, StatusStep

LEMMA OrgStep == OrgIInv /\ [OrgNext]_orgVars => OrgIInv'
<1> SUFFICES ASSUME OrgIInv, [OrgNext]_orgVars PROVE OrgIInv'
  OBVIOUS
<1>1. CASE Next /\ UNCHANGED handlerVars
  <2>1. TypeOK'
    BY <1>1, TypeStep DEF OrgIInv
  <2>2. status' = "none" => OnFile' = {}
    <3>1. status' = "none" => status = "none" /\ UNCHANGED documents
      BY <1>1, FilingMoves, UnfiledStep DEF OrgIInv
    <3> QED BY <3>1 DEF OrgIInv, OnFile, WithStatus
  <2> QED BY <1>1, <2>1, <2>2 DEF OrgIInv, handlerVars
<1>2. ASSUME NEW h \in OrganisationHandlers, Check(h)
      PROVE  OrgIInv'
  <2>1. HasApplication => h = "submit"
    BY <1>2 DEF Check, Passes, DecideChecks, MiningChecks
  <2>2. UNCHANGED vars /\ late' \subseteq {"submit"}
    BY <1>2, <2>1 DEF Check, OrgIInv
  <2> QED BY <2>2 DEF vars, fileVars, conditionVars, OrgIInv, TypeOK, OnFile, WithStatus
<1>3. CASE (\E h \in OrganisationHandlers : Write(h)) \/ MiningReject
  <2>1. UNCHANGED applicationVars /\ late' \subseteq late
    BY <1>3 DEF Write, MiningReject, handlerVars
  <2>2. organisation' \in OrganisationStatus
    BY <1>3 DEF Write, Outcomes, MiningReject, OrganisationStatus, OrganisationHandlers
  <2> QED BY <2>1, <2>2 DEF applicationVars, fileVars, conditionVars, OrgIInv, TypeOK, OnFile, WithStatus
<1>4. CASE UNCHANGED orgVars
  BY <1>4 DEF orgVars, vars, fileVars, conditionVars, handlerVars, OrgIInv, TypeOK, OnFile, WithStatus
<1> QED BY <1>1, <1>2, <1>3, <1>4 DEF OrgNext

LEMMA OrgInvariant == OrgSpec => []OrgIInv
<1>1. OrgInit => OrgIInv
  <2> SUFFICES ASSUME OrgInit PROVE OrgIInv
    OBVIOUS
  <2>1. TypeOK
    BY DEF OrgInit, Init, TypeOK, DocumentStatus, ConditionStatus, EvidenceStatus
  <2>2. OnFile = {}
    BY DEF OrgInit, Init, OnFile, WithStatus
  <2> QED BY <2>1, <2>2 DEF OrgInit, OrgIInv
<1> QED BY <1>1, OrgStep, PTL DEF OrgSpec

LEMMA JointStep ==
  ASSUME OrgIInv, [OrgNext]_orgVars, HasApplication, checked \subseteq late,
         organisation # "verified", organisation' = "verified"
  PROVE  status' = "verified"
<1>1. CASE Next
  BY <1>1, FilingMoves DEF OrgIInv, Standing
<1>2. CASE \E h \in OrganisationHandlers : Write(h)
  <2>1. organisation' = "under_review"
    BY <1>2 DEF OrgIInv, Write, Outcomes
  <2> QED BY <2>1
<1>3. CASE MiningReject \/ UNCHANGED organisation
  BY <1>3 DEF MiningReject
<1> QED BY <1>1, <1>2, <1>3 DEF OrgNext, Check, orgVars, vars

\* Once the application is filed and what is in flight was checked after the
\* filing, an organisation becomes verified only together with it.
THEOREM OnlyThroughApplication == OrgSpec => VerifiedThroughApplication
BY JointStep, OrgInvariant, PTL DEF OrgSpec, VerifiedThroughApplication

-----------------------------------------------------------------------------
(* ReviewTimeline.  It is computed from the two statuses and the documents.    *)

LEMMA TimelineFollows == OrgIInv => TimelineTells
<1> SUFFICES ASSUME OrgIInv, NEW papers \in SUBSET Paper, NEW sites \in Sites
             PROVE  LET t == Timeline(papers, sites) IN
                    t \in [Stages -> StageStates] /\ DecisionIsLast(t) /\ ActionIsAsked(t, papers)
  BY DEF TimelineTells
<1> DEFINE t == Timeline(papers, sites)
<1>1. /\ status \in ApplicationStatus \cup {"none"} /\ organisation \in OrganisationStatus
      /\ status = "none" => OnFile = {}
  BY DEF OrgIInv, TypeOK
<1>2. /\ t.submitted = IF WasSubmitted \/ ShownVerified THEN "complete" ELSE "current"
      /\ t.document_review = OpenState(DocumentsDone(papers), Wanting(papers) \/ NeedsInfo)
      /\ t.site_verification = OpenState(SitesDone(sites), FALSE)
      /\ t.decision = DecisionStage(papers, sites)
  BY DEF Timeline
<1>3. \A done, asked \in BOOLEAN :
        /\ OpenState(done, asked) \in StageStates
        /\ done => OpenState(done, asked) = "complete"
        /\ OpenState(done, asked) = "attention" => ~done /\ asked
  BY DEF OpenState, StageStates
<1>4. /\ DocumentsDone(papers) \in BOOLEAN /\ SitesDone(sites) \in BOOLEAN
      /\ (Wanting(papers) \/ NeedsInfo) \in BOOLEAN
  BY DEF DocumentsDone, SitesDone, Wanting, NeedsInfo, ShownVerified, DecisionMade
<1>5. /\ DecisionStage(papers, sites) \in StageStates
      /\ DecisionStage(papers, sites) \in {"complete", "failed"} <=> ShownVerified \/ DecisionMade
      /\ DecisionStage(papers, sites) = "attention" <=> ~(ShownVerified \/ DecisionMade) /\ NeedsInfo
  BY DEF DecisionStage, StageStates, DecisionMade, NeedsInfo
<1>6. t \in [Stages -> StageStates]
  <2>1. /\ t.submitted \in StageStates /\ t.document_review \in StageStates
        /\ t.site_verification \in StageStates /\ t.decision \in StageStates
    BY <1>2, <1>3, <1>4, <1>5 DEF StageStates
  <2>2. /\ DOMAIN t = Stages /\ t = [s \in DOMAIN t |-> t[s]]
    BY DEF Timeline, Stages
  <2> HIDE DEF t
  <2> QED BY <2>1, <2>2 DEF Stages
<1>7. DecisionIsLast(t)
  <2>1. ShownVerified \/ DecisionMade => WasSubmitted \/ ShownVerified
    BY <1>1 DEF ShownVerified, DecisionMade, WasSubmitted, Shown, HasApplication
  <2>2. ShownVerified \/ DecisionMade => DocumentsDone(papers) /\ SitesDone(sites)
    BY DEF DocumentsDone, SitesDone
  <2> HIDE DEF t
  <2> QED BY <1>2, <1>3, <1>4, <1>5, <2>1, <2>2 DEF DecisionIsLast, Stages
<1>8. ActionIsAsked(t, papers)
  <2>1. status = "action_required" /\ organisation # "verified" => ~(ShownVerified \/ DecisionMade) /\ NeedsInfo
    BY DEF ShownVerified, DecisionMade, NeedsInfo, Shown, HasApplication
  <2>2. NeedsInfo => status = "action_required"
    BY <1>1 DEF NeedsInfo, Shown, HasApplication, OrganisationStatus
  <2>3. papers = {} /\ Wanting(papers) => status # "none"
    BY <1>1 DEF Wanting, DocumentStates
  <2>4. status = "verified" => DocumentsDone(papers)
    BY DEF DocumentsDone, ShownVerified, Shown, HasApplication
  <2> HIDE DEF t
  <2> QED BY <1>2, <1>3, <1>4, <1>5, <2>1, <2>2, <2>3, <2>4 DEF ActionIsAsked, Editable, EvidenceEditable
<1> QED BY <1>6, <1>7, <1>8

\* At every step of overlapping handlers the timeline tells what they did.
THEOREM TimelineStaysTrue == OrgSpec => []TimelineTells
BY OrgInvariant, TimelineFollows, PTL

-----------------------------------------------------------------------------
(* QualityOnboarding.  The mirror is made when a Q&C application is first      *)
(* submitted and stays one: the sections that make it a Q&C application are    *)
(* never taken away.                                                           *)

MirrorSound == mirror # "none" => IsQuality /\ status \notin {"none", "draft"}
QualityIInv == QualityTypeOK /\ MirrorSound

\* Either desk's step as one of the application.
LEMMA SyncedIsNext == SyncedStep \/ UnsyncedStep => Next
BY DEF SyncedStep, UnsyncedStep, Next

\* A step of the application keeps its sections, and does not take it back to a
\* draft.
LEMMA FilingStays ==
  ASSUME TypeOK, Next
  PROVE  /\ sections \subseteq sections'
         /\ status \notin {"none", "draft"} => status' \notin {"none", "draft"}
<1>1. sections \subseteq sections'
  BY DEF Next, CreateApplication, AccountChanges, RefileSector, SaveSection, AddPersonnel, RemovePersonnel,
         UploadDocument, Submit, Decide, RequestDocument, ReviewDocument, IssueCondition, SubmitEvidence,
         ReviewEvidence, fileVars
<1>2. \A target : Transition(target) => status' \notin {"none", "draft"}
  BY DEF Transition, TRANSITIONS
<1>3. (Submit => Transition("under_review")) /\ \A target, issued : Decide(target, issued) => Transition(target)
  BY DEF Submit, Decide
<1>4. CreateApplication => status = "none"
  BY DEF CreateApplication
<1> QED BY <1>1, <1>2, <1>3, <1>4, StatusStep

\* Only a synced step changes the status of a filed application, or a document.
LEMMA UnsyncedKeeps ==
  ASSUME UnsyncedStep
  PROVE  (status = "none" \/ UNCHANGED status) /\ UNCHANGED documents
BY DEF UnsyncedStep, CreateApplication, AccountChanges, RefileSector, SaveSection, AddPersonnel, RemovePersonnel,
       IssueCondition, SubmitEvidence, ReviewEvidence, fileVars

LEMMA SyncTypes ==
  ASSUME QualityTypeOK, TypeOK', SyncQuality
  PROVE  QualityTypeOK'
<1>1. CASE ~(IsQuality /\ status' # "draft")
  BY <1>1 DEF SyncQuality, mirrorVars, QualityTypeOK
<1>2. CASE IsQuality /\ status' # "draft"
  <2>1. mirror' \in MirrorStatus \cup {"none"}
    BY <1>2 DEF SyncQuality, Mirrored, Decided, MirrorStatus, QualityTypeOK
  <2>2. \A s : Copied(s) \in CopyStatus
    BY DEF Copied, CopyStatus
  <2>3. copies' \in [Docs -> CopyStatus \cup {"absent"}]
    BY <1>2, <2>2 DEF SyncQuality
  <2> QED BY <2>1, <2>3 DEF QualityTypeOK
<1> QED BY <1>1, <1>2

LEMMA QualityStep == QualityIInv /\ [QualityNext]_qualityVars => QualityIInv'
<1> SUFFICES ASSUME QualityIInv, [QualityNext]_qualityVars PROVE QualityIInv'
  OBVIOUS
<1>0. QualityTypeOK /\ TypeOK /\ MirrorSound
  BY DEF QualityIInv, QualityTypeOK
<1>1. CASE SyncedStep /\ SyncQuality
  <2>1. Next /\ TypeOK'
    BY <1>0, <1>1, SyncedIsNext, TypeStep
  <2>2. QualityTypeOK'
    BY <1>0, <1>1, <2>1, SyncTypes
  <2>3. (IsQuality => IsQuality') /\ (status \notin {"none", "draft"} => status' \notin {"none", "draft"})
    BY <1>0, <2>1, FilingStays DEF IsQuality
  <2>4. status' # "none"
    <3>1. SyncedStep => status # "none"
      BY DEF SyncedStep, UploadDocument, EvidenceEditable, LateLogisticsUpload, Submit, Editable, Decide,
             UnderReview, REVIEW_STATES, RequestDocument, ReviewDocument
    <3> QED BY <1>0, <1>1, <2>1, <3>1, FilingMoves
  <2>5. MirrorSound'
    BY <1>0, <1>1, <2>3, <2>4 DEF SyncQuality, MirrorSound, mirrorVars
  <2> QED BY <2>2, <2>5 DEF QualityIInv
<1>2. CASE UnsyncedStep /\ UNCHANGED mirrorVars
  <2>1. Next /\ TypeOK'
    BY <1>0, <1>2, SyncedIsNext, TypeStep
  <2>2. (IsQuality => IsQuality') /\ (status \notin {"none", "draft"} => status' \notin {"none", "draft"})
    BY <1>0, <2>1, FilingStays DEF IsQuality
  <2> QED BY <1>0, <1>2, <2>1, <2>2 DEF QualityIInv, QualityTypeOK, MirrorSound, mirrorVars
<1>3. ASSUME NEW d \in Docs, NEW s \in CopyStatus, DeskDocument(d, s)
      PROVE  QualityIInv'
  <2>1. CarriedStatus(s) \in DocumentStatus
    BY DEF CarriedStatus, CopyStatus, DocumentStatus
  <2>2. TypeOK'
    BY <1>0, <1>3, <2>1 DEF DeskDocument, TypeOK, conditionVars
  <2>3. copies' \in [Docs -> CopyStatus \cup {"absent"}] /\ UNCHANGED <<mirror, status, sections>>
    BY <1>0, <1>3 DEF DeskDocument, QualityTypeOK
  <2> QED BY <1>0, <2>2, <2>3 DEF QualityIInv, QualityTypeOK, MirrorSound, IsQuality
<1>4. ASSUME NEW d \in Docs, DeskUpload(d)
      PROVE  QualityIInv'
  <2>1. copies' \in [Docs -> CopyStatus \cup {"absent"}] /\ UNCHANGED <<mirror, vars>>
    BY <1>0, <1>4 DEF DeskUpload, QualityTypeOK, CopyStatus
  <2> QED BY <1>0, <2>1 DEF QualityIInv, QualityTypeOK, MirrorSound, IsQuality, vars, fileVars, conditionVars,
                            TypeOK
<1>5. ASSUME NEW s \in MirrorStatus, DeskDecide(s)
      PROVE  QualityIInv'
  <2>1. UNCHANGED <<status, organisation>> \/ \E target : Transition(target)
    BY <1>5 DEF DeskDecide, CarryDecisionBack
  <2>2. /\ status' \in ApplicationStatus \cup {"none"} /\ organisation' \in OrganisationStatus
        /\ status \notin {"none", "draft"} => status' \notin {"none", "draft"}
    BY <1>0, <2>1, TransitionType DEF TypeOK, Transition, TRANSITIONS
  <2>3. UNCHANGED <<copies, sector, account, fileVars, conditionVars>> /\ mirror' = s /\ mirror # "none"
    BY <1>5 DEF DeskDecide
  <2> QED BY <1>0, <2>2, <2>3 DEF QualityIInv, QualityTypeOK, MirrorSound, IsQuality, fileVars, conditionVars,
                                  TypeOK
<1>6. CASE Assign \/ UNCHANGED qualityVars
  <2>1. /\ UNCHANGED <<copies, vars>> /\ mirror' \in MirrorStatus \cup {"none"}
        /\ mirror' # "none" => mirror # "none"
    BY <1>0, <1>6 DEF Assign, qualityVars, mirrorVars, QualityTypeOK, MirrorStatus
  <2> QED BY <1>0, <2>1 DEF QualityIInv, QualityTypeOK, MirrorSound, IsQuality, vars, fileVars, conditionVars,
                            TypeOK
<1> QED BY <1>1, <1>2, <1>3, <1>4, <1>5, <1>6 DEF QualityNext

LEMMA QualityInvariant == QualitySpec => []QualityIInv
<1>1. QualityInit => QualityIInv
  <2> SUFFICES ASSUME QualityInit PROVE QualityIInv
    OBVIOUS
  <2>1. TypeOK
    BY DEF QualityInit, Init, TypeOK, DocumentStatus, ConditionStatus, EvidenceStatus
  <2> QED BY <2>1 DEF QualityInit, QualityIInv, QualityTypeOK, MirrorSound
<1> QED BY <1>1, QualityStep, PTL DEF QualitySpec

\* A move by either side reaches the other desk.
LEMMA MovesAreSeen ==
  ASSUME QualityIInv, [QualityNext]_qualityVars, mirror # "none", status' # status
  PROVE  Agree(status', mirror')
<1>0. TypeOK /\ mirror \in MirrorStatus /\ IsQuality /\ status \notin {"none", "draft"}
  BY DEF QualityIInv, QualityTypeOK, MirrorSound
<1>1. CASE SyncedStep /\ SyncQuality
  <2>1. status' \notin {"none", "draft"} /\ status' \in ApplicationStatus
    BY <1>0, <1>1, SyncedIsNext, FilingStays, TypeStep DEF TypeOK
  <2>2. mirror' = Mirrored(status')
    BY <1>0, <1>1, <2>1 DEF SyncQuality
  <2> QED BY <1>0, <2>1, <2>2 DEF Mirrored, Agree, Decided, Closed, MirrorStatus, ApplicationStatus
<1>2. CASE UnsyncedStep
  BY <1>0, <1>2, UnsyncedKeeps
<1>3. ASSUME NEW s \in MirrorStatus, DeskDecide(s)
      PROVE  Agree(status', mirror')
  <2>1. s \in DOMAIN Decision /\ status' = Decision[s] /\ mirror' = s
    BY <1>3 DEF DeskDecide, CarryDecisionBack, Transition
  <2> QED BY <2>1 DEF Agree, Decision, Decided
<1>4. UNCHANGED qualityVars \/ Assign \/ (\E d \in Docs : DeskUpload(d))
        \/ (\E d \in Docs, s \in CopyStatus : DeskDocument(d, s)) => UNCHANGED status
  BY DEF qualityVars, vars, Assign, DeskUpload, DeskDocument
<1> QED BY <1>1, <1>2, <1>3, <1>4 DEF QualityNext

\* So does whatever happens to a document.
LEMMA DocumentsAreSeen ==
  ASSUME QualityIInv, [QualityNext]_qualityVars, NEW d \in Docs, mirror' # "none", d \in files',
         documents'[d] # documents[d]
  PROVE  Shows(copies'[d], documents'[d])
<1>0. QualityTypeOK /\ TypeOK /\ MirrorSound
  BY DEF QualityIInv, QualityTypeOK
<1>1. CASE SyncedStep /\ SyncQuality
  <2>1. IsQuality /\ status' # "draft"
    <3>1. CASE mirror # "none"
      BY <1>0, <1>1, <3>1, SyncedIsNext, FilingStays DEF MirrorSound
    <3>2. CASE mirror = "none"
      BY <1>1, <3>2 DEF SyncQuality, mirrorVars
    <3> QED BY <3>1, <3>2
  <2>2. copies'[d] = Copied(documents'[d])
    BY <1>1, <2>1 DEF SyncQuality
  <2> QED BY <2>2 DEF Copied, Shows
<1>2. UnsyncedStep => UNCHANGED documents
  BY UnsyncedKeeps
<1>3. ASSUME NEW e \in Docs, NEW s \in CopyStatus, DeskDocument(e, s)
      PROVE  Shows(copies'[d], documents'[d])
  <2>1. d = e /\ documents'[d] = CarriedStatus(s) /\ copies'[d] = s
    BY <1>0, <1>3 DEF DeskDocument, TypeOK, QualityTypeOK
  <2> QED BY <2>1 DEF CarriedStatus, Shows, CopyStatus
<1>4. UNCHANGED qualityVars \/ Assign \/ (\E e \in Docs : DeskUpload(e))
        \/ (\E s \in MirrorStatus : DeskDecide(s)) => UNCHANGED documents
  BY DEF qualityVars, vars, fileVars, Assign, DeskUpload, DeskDecide
<1> QED BY <1>1, <1>2, <1>3, <1>4 DEF QualityNext

\* What either desk or the applicant does shows on both desks.
THEOREM DesksAgree == QualitySpec => BothDesksAgree
<1>1. QualityIInv /\ [QualityNext]_qualityVars =>
        [mirror # "none" /\ status' # status => Agree(status', mirror')]_qualityVars
  BY MovesAreSeen
<1>2. QualityIInv /\ [QualityNext]_qualityVars =>
        [\A d \in Docs : mirror' # "none" /\ d \in files' /\ documents'[d] # documents[d] =>
           Shows(copies'[d], documents'[d])]_qualityVars
  BY DocumentsAreSeen
<1> QED BY <1>1, <1>2, QualityInvariant, PTL
        DEF QualitySpec, BothDesksAgree, MovesReachBothDesks, DocumentsReachBothDesks

-----------------------------------------------------------------------------
(* Sessions.  Between the change of the account and its end, tokens are minted *)
(* and revoked by others, but none is handed to another account or restored.   *)

\* The tokens a change has to end are still the account's, and those it has
\* gone through are revoked.
Tracked(job) ==
  job \in Ending =>
    /\ \A t \in job.outstanding :
         /\ token[t] # Unset /\ token[t].owner = job.account
         /\ job.kind = "listed" /\ t \notin job.todo => token[t].revoked
    /\ \A t \in job.todo : token[t] # Unset

SessionsIInv == SessionsTypeOK /\ \A r \in Requests : Tracked(request[r])

\* Tokens do not come undone.
LEMMA TrackedStays ==
  ASSUME NEW job, Tracked(job),
         \A t \in Tokens : token[t] # Unset =>
           /\ token'[t] # Unset /\ token'[t].owner = token[t].owner
           /\ token[t].revoked => token'[t].revoked
  PROVE  Tracked(job)'
BY DEF Tracked, Ending

LEMMA Minted ==
  ASSUME SessionsTypeOK, NEW t \in Tokens, NEW a \in Accounts, NEW handed \in BOOLEAN, Mint(t, a, handed)
  PROVE  /\ token' \in [Tokens -> Token \cup {Unset}]
         /\ \A s \in Tokens : token[s] # Unset =>
              /\ token'[s] # Unset /\ token'[s].owner = token[s].owner
              /\ token[s].revoked => token'[s].revoked
<1>1. [owner |-> a, handed |-> handed, revoked |-> FALSE] \in Token
  BY DEF Token
<1> QED BY <1>1 DEF Mint, SessionsTypeOK

LEMMA Revoked ==
  ASSUME SessionsTypeOK, NEW t \in Tokens, token[t] # Unset,
         token' = [token EXCEPT ![t].revoked = TRUE]
  PROVE  /\ token' \in [Tokens -> Token \cup {Unset}]
         /\ \A s \in Tokens : token[s] # Unset =>
              /\ token'[s] # Unset /\ token'[s].owner = token[s].owner
              /\ token[s].revoked => token'[s].revoked
         /\ token'[t].revoked
<1>1. token[t] \in Token
  BY DEF SessionsTypeOK
<1>2. [token[t] EXCEPT !.revoked = TRUE] \in Token
  BY <1>1 DEF Token
<1>3. /\ [token[t] EXCEPT !.revoked = TRUE].owner = token[t].owner
      /\ [token[t] EXCEPT !.revoked = TRUE].revoked
  BY <1>1 DEF Token
<1> QED BY <1>2, <1>3, SessionsAssumption DEF SessionsTypeOK

\* What is left to show once the request's new job and the tokens are known.
LEMMA JobServed ==
  ASSUME SessionsIInv, NEW r \in Requests, NEW job \in SignIn \cup Ending \cup {Unset}, Serves(r, job),
         portal' \in [Accounts -> Portals \cup {Unset}],
         token' \in [Tokens -> Token \cup {Unset}],
         \A t \in Tokens : token[t] # Unset =>
           /\ token'[t] # Unset /\ token'[t].owner = token[t].owner
           /\ token[t].revoked => token'[t].revoked,
         Tracked(job)'
  PROVE  SessionsIInv'
<1>1. SessionsTypeOK'
  BY DEF SessionsIInv, SessionsTypeOK, Serves
<1>2. \A q \in Requests : Tracked(request[q])'
  BY TrackedStays DEF SessionsIInv, SessionsTypeOK, Serves, Tracked
<1> QED BY <1>1, <1>2 DEF SessionsIInv

LEMMA SessionsStep == SessionsIInv /\ [SessionsNext]_sessionVars => SessionsIInv'
<1> SUFFICES ASSUME SessionsIInv, [SessionsNext]_sessionVars PROVE SessionsIInv'
  OBVIOUS
<1>0. /\ SessionsTypeOK
      /\ portal \in [Accounts -> Portals \cup {Unset}] /\ token \in [Tokens -> Token \cup {Unset}]
      /\ Unset \notin Portals \cup Token \cup SignIn \cup Ending
      /\ \A r \in Requests : request[r] \in SignIn \cup Ending \cup {Unset} /\ Tracked(request[r])
  BY SessionsAssumption DEF SessionsIInv, SessionsTypeOK
<1>1. ASSUME NEW r \in Requests, NEW a \in Accounts, Authenticate(r, a)
      PROVE  SessionsIInv'
  <2>1. PICK job \in SignIn : job = [kind |-> "signin", account |-> a, seen |-> portal[a]] /\ job \notin Ending
    <3>1. [kind |-> "signin", account |-> a, seen |-> portal[a]] \in SignIn
      BY <1>0 DEF SignIn
    <3>2. \A j \in SignIn : j \notin Ending
      BY DEF SignIn, Ending
    <3> QED BY <3>1, <3>2
  <2>2. Serves(r, job) /\ UNCHANGED <<portal, token>>
    BY <1>1, <2>1 DEF Authenticate
  <2> QED BY <1>0, <2>1, <2>2, JobServed DEF Tracked
<1>2. ASSUME NEW r \in Requests, NEW a \in Accounts, NEW reissue \in BOOLEAN, Change(r, a, reissue)
      PROVE  SessionsIInv'
  <2>1. PICK job \in Ending :
          job = [kind |-> "saved", account |-> a, outstanding |-> Of(a), todo |-> {}, reissue |-> reissue]
    BY DEF Ending, Of
  <2>2. Serves(r, job) /\ UNCHANGED <<portal, token>>
    BY <1>2, <2>1 DEF Change
  <2>3. Tracked(job)'
    BY <2>1, <2>2 DEF Tracked, Of
  <2> QED BY <1>0, <2>1, <2>2, <2>3, JobServed
<1>3. ASSUME NEW r \in Requests, NEW p \in Portals, Admit(r, p)
      PROVE  SessionsIInv'
  <2>1. request[r] \in SignIn
    BY <1>0, <1>3 DEF Admit, Busy, SignIn, Ending
  <2>2. PICK t \in Tokens, handed \in BOOLEAN : Mint(t, request[r].account, handed)
    <3>1. PICK t \in Tokens : Mint(t, request[r].account, request[r].seen \in {Unset, p})
      BY <1>3 DEF Admit
    <3>2. CASE request[r].seen \in {Unset, p}
      <4>1. Mint(t, request[r].account, TRUE)
        BY <3>1, <3>2 DEF Mint
      <4> QED BY <4>1
    <3>3. CASE request[r].seen \notin {Unset, p}
      <4>1. Mint(t, request[r].account, FALSE)
        <5>1. (request[r].seen \in {Unset, p}) = FALSE
          BY <3>3
        <5> QED BY <3>1, <5>1, Zenon DEF Mint
      <4> QED BY <4>1
    <3> QED BY <3>2, <3>3
  <2>3. request[r].account \in Accounts
    BY <2>1 DEF SignIn
  <2>4. portal' \in [Accounts -> Portals \cup {Unset}]
    BY <1>0, <1>3, <2>3 DEF Admit
  <2>5. Serves(r, Unset) /\ Tracked(Unset)'
    BY <1>0, <1>3 DEF Admit, Tracked
  <2>6. /\ token' \in [Tokens -> Token \cup {Unset}]
        /\ \A s \in Tokens : token[s] # Unset =>
             /\ token'[s] # Unset /\ token'[s].owner = token[s].owner
             /\ token[s].revoked => token'[s].revoked
    BY <1>0, <2>2, <2>3, Minted
  <2> QED BY <2>4, <2>5, <2>6, JobServed
<1>4. ASSUME NEW r \in Requests, ListTokens(r)
      PROVE  SessionsIInv'
  <2>1. request[r] \in Ending
    BY <1>0, <1>4 DEF ListTokens, Busy, SignIn, Ending
  <2>2. PICK job \in Ending :
          /\ job = [request[r] EXCEPT !.kind = "listed", !.todo = Of(request[r].account)]
          /\ job.outstanding = request[r].outstanding /\ job.account = request[r].account
          /\ job.todo = Of(request[r].account)
    <3> DEFINE new == [request[r] EXCEPT !.kind = "listed", !.todo = Of(request[r].account)]
    <3>1. new \in Ending
      BY <2>1 DEF Ending, Of
    <3>2. /\ new.outstanding = request[r].outstanding /\ new.account = request[r].account
          /\ new.todo = Of(request[r].account)
      BY <2>1 DEF Ending
    <3> QED BY <3>1, <3>2
  <2>3. Serves(r, job) /\ UNCHANGED <<portal, token>>
    BY <1>4, <2>2 DEF ListTokens
  <2>4. Tracked(job)'
    BY <1>0, <2>1, <2>2, <2>3 DEF Tracked, Of, Ending
  <2> QED BY <1>0, <2>2, <2>3, <2>4, JobServed
<1>5. ASSUME NEW r \in Requests, Finish(r)
      PROVE  SessionsIInv'
  <2>1. request[r] \in Ending
    BY <1>0, <1>5 DEF Finish, Busy, SignIn, Ending
  <2>2. request[r].account \in Accounts
    BY <2>1 DEF Ending
  <2>3. Serves(r, Unset) /\ Tracked(Unset)' /\ UNCHANGED portal
    BY <1>0, <1>5 DEF Finish, Tracked
  <2>4. UNCHANGED token \/ \E t \in Tokens : Mint(t, request[r].account, TRUE)
    BY <1>5 DEF Finish
  <2>5. CASE UNCHANGED token
    BY <1>0, <2>3, <2>5, JobServed
  <2>6. CASE \E t \in Tokens : Mint(t, request[r].account, TRUE)
    BY <1>0, <2>2, <2>3, <2>6, Minted, JobServed
  <2> QED BY <2>4, <2>5, <2>6
<1>6. ASSUME NEW r \in Requests, Die(r)
      PROVE  SessionsIInv'
  <2>1. Serves(r, Unset) /\ Tracked(Unset)' /\ UNCHANGED <<portal, token>>
    BY <1>0, <1>6 DEF Die, Tracked
  <2> QED BY <1>0, <2>1, JobServed
<1>7. ASSUME NEW r \in Requests, NEW t \in Tokens, Blacklist(r, t)
      PROVE  SessionsIInv'
  <2>1. request[r] \in Ending /\ request[r].kind = "listed" /\ t \in request[r].todo
    BY <1>0, <1>7 DEF Blacklist, Busy, SignIn, Ending
  <2>2. PICK job \in Ending :
          /\ job = [request[r] EXCEPT !.todo = @ \ {t}]
          /\ job.outstanding = request[r].outstanding /\ job.account = request[r].account
          /\ job.todo = request[r].todo \ {t} /\ job.kind = "listed"
    <3> DEFINE new == [request[r] EXCEPT !.todo = @ \ {t}]
    <3>1. new \in Ending
      BY <2>1 DEF Ending
    <3>2. /\ new.outstanding = request[r].outstanding /\ new.account = request[r].account
          /\ new.todo = request[r].todo \ {t} /\ new.kind = "listed"
      BY <2>1 DEF Ending
    <3> QED BY <3>1, <3>2
  <2>3. Serves(r, job) /\ UNCHANGED portal /\ token' = [token EXCEPT ![t].revoked = TRUE]
    BY <1>7, <2>2 DEF Blacklist
  <2>4. token[t] # Unset
    BY <1>0, <2>1 DEF Tracked
  <2>5. /\ token' \in [Tokens -> Token \cup {Unset}] /\ token'[t].revoked
        /\ \A s \in Tokens : token[s] # Unset =>
             /\ token'[s] # Unset /\ token'[s].owner = token[s].owner
             /\ token[s].revoked => token'[s].revoked
    BY <1>0, <2>3, <2>4, Revoked
  <2>6. Tracked(job)'
    BY <1>0, <2>1, <2>2, <2>5 DEF Tracked, Ending
  <2> QED BY <1>0, <2>2, <2>3, <2>5, <2>6, JobServed
<1>8. ASSUME NEW a \in Accounts, NEW t \in Tokens, Logout(a, t)
      PROVE  SessionsIInv'
  <2>1. token[t] # Unset /\ token' = [token EXCEPT ![t].revoked = TRUE] /\ UNCHANGED <<portal, request>>
    BY <1>8 DEF Logout, Of
  <2>2. SessionsTypeOK'
    BY <1>0, <2>1, Revoked DEF SessionsTypeOK
  <2>3. \A r \in Requests : Tracked(request[r])'
    BY <1>0, <2>1, Revoked, TrackedStays
  <2> QED BY <2>1, <2>2, <2>3 DEF SessionsIInv
<1>9. CASE UNCHANGED sessionVars
  BY <1>0, <1>9, TrackedStays DEF sessionVars, SessionsIInv, SessionsTypeOK, Tracked
<1> QED BY <1>1, <1>2, <1>3, <1>4, <1>5, <1>6, <1>7, <1>8, <1>9 DEF SessionsNext

LEMMA SessionsInvariant == SessionsSpec => []SessionsIInv
<1>1. SessionsInit => SessionsIInv
  BY SessionsAssumption DEF SessionsInit, SessionsIInv, SessionsTypeOK, Tracked
<1> QED BY <1>1, SessionsStep, PTL DEF SessionsSpec

LEMMA TrackedEnds == SessionsIInv => SessionsTypeOK /\ ChangeEndsSessions
BY SessionsAssumption DEF SessionsIInv, SessionsTypeOK, ChangeEndsSessions, Busy, Tracked, SignIn, Ending

\* A change of password or address that ran to its end has ended every session
\* there was, whatever else ran in between.
THEOREM ChangesEndSessions == SessionsSpec => [](SessionsTypeOK /\ ChangeEndsSessions)
BY TrackedEnds, SessionsInvariant, PTL

-----------------------------------------------------------------------------
(* AccountCodes.  An attempt answers the latest code nobody consumed, so one   *)
(* that let somebody through is not answered again; an attempt at an email     *)
(* code holds the account's row from its budget check on.                      *)

WrongIn(s) == {i \in DOMAIN s : s[i].recent}
WrongAnswers(s) == SumFunctionOnSet([i \in WrongIn(s) |-> s[i].failed], WrongIn(s))

CodesIInv == CodesTypeOK /\ CodesBounded

LEMMA FailuresAre == codes \in Seq(Code) => Failures = WrongAnswers(codes)
BY DEF Failures, Recent, WrongAnswers, WrongIn, SumFunction

\* The codes within the window, and what was answered wrong of each, are finite.
LEMMA WrongTypes ==
  ASSUME NEW s \in Seq(Code)
  PROVE  /\ IsFiniteSet(WrongIn(s)) /\ WrongIn(s) \subseteq 1..Len(s) /\ Len(s) \in Nat
         /\ \A i \in WrongIn(s) : s[i].failed \in Nat
         /\ WrongAnswers(s) \in Nat
<1>1. WrongIn(s) \subseteq 1..Len(s) /\ Len(s) \in Nat
  BY DEF WrongIn
<1>2. IsFiniteSet(WrongIn(s))
  <2>1. IsFiniteSet(1..Len(s))
    BY <1>1, FS_Interval
  <2> QED BY <1>1, <2>1, FS_Subset
<1>3. \A i \in WrongIn(s) : s[i].failed \in Nat
  <2>1. \A i \in 1..Len(s) : s[i] \in Code
    OBVIOUS
  <2> QED BY <1>1, <2>1, CodesAssumption DEF Code
<1> QED BY <1>1, <1>2, <1>3, SumNat DEF WrongAnswers

\* What a step leaves as it is, adds afresh, or takes out of the window, adds
\* no wrong answer.
LEMMA NoMoreWrong ==
  ASSUME NEW s \in Seq(Code), NEW t \in Seq(Code),
         \A i \in WrongIn(t) : t[i].failed = 0 \/ (i \in WrongIn(s) /\ t[i].failed = s[i].failed)
  PROVE  WrongAnswers(t) <= WrongAnswers(s)
<1> DEFINE w == [i \in WrongIn(s) |-> s[i].failed]
           u == [i \in WrongIn(t) |-> t[i].failed]
           B == WrongIn(t) \cap WrongIn(s)
           K == {i \in B : t[i].failed = s[i].failed}
<1>1. /\ IsFiniteSet(WrongIn(s)) /\ IsFiniteSet(WrongIn(t))
      /\ \A i \in WrongIn(s) : w[i] \in Nat
      /\ \A i \in WrongIn(t) : u[i] \in Nat
      /\ \A i \in WrongIn(t) \ K : u[i] = 0
      /\ \A i \in K : u[i] = w[i]
      /\ K \subseteq WrongIn(s) /\ K \subseteq WrongIn(t)
  BY WrongTypes
<1>2. WrongAnswers(t) = SumFunctionOnSet(u, WrongIn(t)) /\ WrongAnswers(s) = SumFunctionOnSet(w, WrongIn(s))
  BY DEF WrongAnswers
<1> HIDE DEF w, u, K
<1>3. SumFunctionOnSet(u, K) = SumFunctionOnSet(u, WrongIn(t))
  BY <1>1, SumPart
<1>4. SumFunctionOnSet(u, K) = SumFunctionOnSet(w, K)
  BY <1>1, FS_Subset, SumSame
<1>5. SumFunctionOnSet(w, K) <= SumFunctionOnSet(w, WrongIn(s))
  BY <1>1, SumPart
<1> QED BY <1>2, <1>3, <1>4, <1>5

\* One wrong answer more is one more at most.
LEMMA OneMoreWrong ==
  ASSUME NEW s \in Seq(Code), NEW t \in Seq(Code), NEW k \in DOMAIN s,
         WrongIn(t) = WrongIn(s), \A i \in WrongIn(t) \ {k} : t[i].failed = s[i].failed,
         t[k].failed = s[k].failed + 1
  PROVE  WrongAnswers(t) <= WrongAnswers(s) + 1
<1> DEFINE w == [i \in WrongIn(s) |-> s[i].failed]
           u == [i \in WrongIn(s) |-> t[i].failed]
<1>1. /\ IsFiniteSet(WrongIn(s))
      /\ \A i \in WrongIn(s) : w[i] \in Nat /\ u[i] \in Nat
      /\ \A i \in WrongIn(s) \ {k} : w[i] = u[i]
      /\ k \in WrongIn(s) => u[k] = w[k] + 1
  BY WrongTypes
<1>2. WrongAnswers(t) = SumFunctionOnSet(u, WrongIn(s)) /\ WrongAnswers(s) = SumFunctionOnSet(w, WrongIn(s))
  BY DEF WrongAnswers
<1> HIDE DEF w, u
<1>3. SumFunctionOnSet(u, WrongIn(s)) \in Nat /\ SumFunctionOnSet(w, WrongIn(s)) \in Nat
  BY <1>1, SumNat
<1>4. CASE k \in WrongIn(s)
  <2>1. SumFunctionOnSet(u, WrongIn(s)) + w[k] = SumFunctionOnSet(w, WrongIn(s)) + u[k]
    BY <1>1, <1>4, SumMore
  <2> QED BY <1>1, <1>2, <1>3, <1>4, <2>1
<1>5. CASE k \notin WrongIn(s)
  <2>1. SumFunctionOnSet(u, WrongIn(s)) = SumFunctionOnSet(w, WrongIn(s))
    BY <1>1, <1>5, SumSame
  <2> QED BY <1>2, <1>3, <2>1
<1> QED BY <1>4, <1>5

\* A step that moves no request past its checks and answers nothing.
LEMMA CodesKept ==
  ASSUME CodesIInv, codes' \in Seq(Code), Len(codes') <= MaxCodes,
         step' \in [Clients -> {"idle", "issuing", "creating", "attempting"}],
         UNCHANGED <<purpose, verified>>,
         \A i \in DOMAIN codes' :
           \/ /\ i \in DOMAIN codes
              /\ codes'[i].passed = codes[i].passed /\ codes'[i].failed = codes[i].failed
              /\ codes[i].consumed => codes'[i].consumed
              /\ codes'[i].recent => codes[i].recent
           \/ codes'[i].passed = 0 /\ codes'[i].failed = 0
  PROVE  CodesIInv'
<1>1. CodesTypeOK'
  BY DEF CodesIInv, CodesTypeOK
<1>2. \A i \in DOMAIN codes' :
        /\ codes'[i].passed <= 1 /\ codes'[i].failed <= OTP_MAX_ATTEMPTS
        /\ codes'[i].passed = 1 => codes'[i].consumed
  BY CodesAssumption DEF CodesIInv, CodesBounded
<1>3. WrongAnswers(codes') <= WrongAnswers(codes)
  BY NoMoreWrong DEF CodesIInv, CodesTypeOK, WrongIn
<1>4. purpose' = "email" => Failures' <= OTP_MAX_FAILURES_PER_WINDOW
  <2>1. Failures' = WrongAnswers(codes') /\ Failures = WrongAnswers(codes)
    BY DEF CodesIInv, CodesTypeOK, Failures, Recent, WrongAnswers, WrongIn, SumFunction
  <2>2. WrongAnswers(codes) \in Nat /\ WrongAnswers(codes') \in Nat
    BY WrongTypes DEF CodesIInv, CodesTypeOK
  <2> QED BY <1>3, <2>1, <2>2, CodesAssumption DEF CodesIInv, CodesBounded
<1>5. CodesBounded'
  BY <1>2, <1>4 DEF CodesBounded
<1> QED BY <1>1, <1>5 DEF CodesIInv

\* An answer goes to a code nobody consumed, and within the window's budget.
LEMMA AnswerStep ==
  ASSUME CodesIInv, NEW c \in Clients, NEW right \in BOOLEAN, AttemptSave(c, right)
  PROVE  CodesIInv'
<1> DEFINE i == Max(Unconsumed)
<1>1. codes \in Seq(Code) /\ Len(codes) <= MaxCodes /\ OTP_MAX_ATTEMPTS \in Nat \ {0}
  BY CodesAssumption DEF CodesIInv, CodesTypeOK
<1>2. i \in DOMAIN codes /\ ~codes[i].consumed
  <2>1. Unconsumed \subseteq 1..Len(codes) /\ Unconsumed # {} /\ Len(codes) \in Nat
    BY <1>1 DEF Unconsumed, AttemptSave
  <2>2. IsFiniteSet(Unconsumed)
    <3>1. IsFiniteSet(1..Len(codes))
      BY <2>1, FS_Interval
    <3> QED BY <2>1, <3>1, FS_Subset
  <2>3. Max(Unconsumed) \in Unconsumed
    <3>1. Unconsumed \subseteq Nat
      BY <2>1
    <3> QED BY <2>1, <2>2, <3>1, MaxIsThere
  <2> QED BY <2>3 DEF Unconsumed
<1> HIDE DEF i
<1> DEFINE new == [codes[i] EXCEPT !.passed = IF Usable(i) /\ right THEN @ + 1 ELSE @,
                                   !.failed = IF Usable(i) /\ ~right THEN @ + 1 ELSE @,
                                   !.consumed = ~Usable(i) \/ right \/ codes[i].failed + 1 = OTP_MAX_ATTEMPTS]
<1>3. codes[i] \in Code
  BY <1>1, <1>2
<1>4. new \in Code /\ new.recent = codes[i].recent
  <2> DEFINE passed == IF Usable(i) /\ right THEN codes[i].passed + 1 ELSE codes[i].passed
             failed == IF Usable(i) /\ ~right THEN codes[i].failed + 1 ELSE codes[i].failed
             consumed == ~Usable(i) \/ right \/ codes[i].failed + 1 = OTP_MAX_ATTEMPTS
  <2>1. passed \in Nat /\ failed \in 0..OTP_MAX_ATTEMPTS /\ consumed \in BOOLEAN
    BY <1>1, <1>3 DEF Code, Usable
  <2>2. new = [codes[i] EXCEPT !.passed = passed, !.failed = failed, !.consumed = consumed]
    BY <1>3 DEF Code
  <2> HIDE DEF passed, failed, consumed, new
  <2> QED BY <1>3, <2>1, <2>2 DEF Code
<1>5. /\ new.passed = codes[i].passed \/ (new.passed = codes[i].passed + 1 /\ new.consumed)
      /\ new.failed = codes[i].failed \/ new.failed = codes[i].failed + 1
  <2>1. /\ new.passed = IF Usable(i) /\ right THEN codes[i].passed + 1 ELSE codes[i].passed
        /\ new.failed = IF Usable(i) /\ ~right THEN codes[i].failed + 1 ELSE codes[i].failed
        /\ new.consumed = (~Usable(i) \/ right \/ codes[i].failed + 1 = OTP_MAX_ATTEMPTS)
    BY <1>3 DEF Code
  <2> HIDE DEF new
  <2> QED BY <2>1
<1>6. codes' = [codes EXCEPT ![i] = new]
  BY <1>1, <1>2 DEF AttemptSave, Answer, Spent, i, Usable
<1> HIDE DEF new
<1>7. codes' \in Seq(Code) /\ Len(codes') = Len(codes) /\ DOMAIN codes' = DOMAIN codes
  BY <1>1, <1>2, <1>4, <1>6
<1>8. CodesTypeOK'
  BY <1>1, <1>7 DEF CodesIInv, CodesTypeOK, AttemptSave, Answer, Goes
<1>9. \A j \in DOMAIN codes' :
        /\ codes'[j].passed <= 1 /\ codes'[j].failed <= OTP_MAX_ATTEMPTS
        /\ codes'[j].passed = 1 => codes'[j].consumed
  <2>1. codes[i].passed = 0
    BY <1>2, <1>3 DEF CodesIInv, CodesBounded, Code
  <2>2. new.failed <= OTP_MAX_ATTEMPTS
    BY <1>1, <1>4 DEF Code
  <2> QED BY <1>2, <1>5, <1>6, <1>7, <2>1, <2>2 DEF CodesIInv, CodesBounded
<1>10. WrongIn(codes') = WrongIn(codes) /\ \A j \in WrongIn(codes') \ {i} : codes'[j].failed = codes[j].failed
  BY <1>1, <1>2, <1>4, <1>6, <1>7 DEF WrongIn
<1>11. WrongAnswers(codes') <= WrongAnswers(codes) + 1
  <2>1. CASE new.failed = codes[i].failed
    <3>1. WrongAnswers(codes') <= WrongAnswers(codes)
      BY <1>1, <1>2, <1>6, <1>7, <1>10, <2>1, NoMoreWrong
    <3> QED BY <1>1, <1>7, <3>1, WrongTypes
  <2>2. CASE new.failed = codes[i].failed + 1
    BY <1>1, <1>2, <1>6, <1>7, <1>10, <2>2, OneMoreWrong
  <2> QED BY <1>5, <2>1, <2>2
<1>12. purpose' = "email" => Failures' <= OTP_MAX_FAILURES_PER_WINDOW
  <2>1. Failures' = WrongAnswers(codes') /\ Failures = WrongAnswers(codes)
    BY <1>1, <1>7 DEF Failures, Recent, WrongAnswers, WrongIn, SumFunction
  <2>2. WrongAnswers(codes) \in Nat /\ WrongAnswers(codes') \in Nat
    BY <1>1, <1>7, WrongTypes
  <2>3. purpose' = "email" => Failures < OTP_MAX_FAILURES_PER_WINDOW
    BY <2>1, <2>2, CodesAssumption DEF AttemptSave, Answer, Exhausted
  <2> QED BY <1>11, <2>1, <2>2, <2>3, CodesAssumption
<1>13. CodesBounded'
  BY <1>9, <1>12 DEF CodesBounded
<1> QED BY <1>8, <1>13 DEF CodesIInv

LEMMA CodesStep == CodesIInv /\ [CodesNext]_codeVars => CodesIInv'
<1> SUFFICES ASSUME CodesIInv, [CodesNext]_codeVars PROVE CodesIInv'
  OBVIOUS
<1>1. /\ codes \in Seq(Code) /\ Len(codes) <= MaxCodes /\ Len(codes) \in Nat /\ DOMAIN codes = 1..Len(codes)
      /\ step \in [Clients -> {"idle", "issuing", "creating", "attempting"}]
      /\ \A i \in DOMAIN codes : codes[i] \in Code
  BY DEF CodesIInv, CodesTypeOK
<1>2. ASSUME NEW c \in Clients, IssueBegin(c) \/ AttemptBegin(c) \/ AttemptRefused(c)
      PROVE  CodesIInv'
  BY <1>1, <1>2, CodesKept DEF IssueBegin, AttemptBegin, AttemptRefused, Goes
<1>3. ASSUME NEW c \in Clients, IssueConsume(c)
      PROVE  CodesIInv'
  <2>1. \A i \in DOMAIN codes : [codes[i] EXCEPT !.consumed = TRUE] \in Code
    BY <1>1 DEF Code
  <2>2. codes' \in Seq(Code) /\ Len(codes') = Len(codes)
    <3>1. codes' = [i \in 1..Len(codes) |-> [codes[i] EXCEPT !.consumed = TRUE]]
      BY <1>1, <1>3 DEF IssueConsume
    <3> QED BY <1>1, <2>1, <3>1
  <2>3. \A i \in DOMAIN codes' :
          /\ i \in DOMAIN codes
          /\ codes'[i].passed = codes[i].passed /\ codes'[i].failed = codes[i].failed
          /\ codes'[i].consumed /\ codes'[i].recent = codes[i].recent
    BY <1>1, <1>3 DEF IssueConsume, Code
  <2> QED BY <1>1, <1>3, <2>2, <2>3, CodesKept DEF IssueConsume, Goes
<1>4. ASSUME NEW c \in Clients, IssueCreate(c)
      PROVE  CodesIInv'
  <2> DEFINE new == [failed |-> 0, consumed |-> FALSE, expired |-> FALSE, recent |-> TRUE,
                     passed |-> 0, mail |-> "queued"]
  <2>1. new \in Code /\ new.failed = 0 /\ new.passed = 0
    BY CodesAssumption DEF Code
  <2>2. codes' = Append(codes, new) /\ Len(codes) < MaxCodes
    BY <1>4 DEF IssueCreate
  <2> HIDE DEF new
  <2>3. codes' \in Seq(Code) /\ Len(codes') <= MaxCodes
    BY <1>1, <2>1, <2>2, CodesAssumption
  <2>4. \A i \in DOMAIN codes' : (i \in DOMAIN codes /\ codes'[i] = codes[i]) \/ codes'[i] = new
    BY <1>1, <2>1, <2>2
  <2> QED BY <1>1, <1>4, <2>1, <2>3, <2>4, CodesKept DEF IssueCreate, Goes
<1>5. ASSUME NEW c \in Clients, NEW right \in BOOLEAN, AttemptSave(c, right)
      PROVE  CodesIInv'
  BY <1>5, AnswerStep
<1>6. ASSUME NEW k \in 1..MaxCodes, SendCode(k) \/ Expire(k) \/ LeaveWindow(k)
      PROVE  CodesIInv'
  <2>1. k \in DOMAIN codes /\ UNCHANGED <<purpose, verified, step>>
    BY <1>6 DEF SendCode, Expire, LeaveWindow, Recent
  <2>2. PICK new \in Code :
          /\ codes' = [codes EXCEPT ![k] = new]
          /\ new.passed = codes[k].passed /\ new.failed = codes[k].failed
          /\ new.consumed = codes[k].consumed /\ (new.recent => codes[k].recent)
    <3>1. CASE SendCode(k)
      <4> DEFINE new == [codes[k] EXCEPT !.mail = IF purpose = "email" /\ verified THEN "skipped" ELSE "sent"]
      <4>1. new \in Code
        BY <1>1, <2>1 DEF Code
      <4> QED BY <1>1, <2>1, <3>1, <4>1 DEF SendCode, Code
    <3>2. CASE Expire(k)
      <4> DEFINE new == [codes[k] EXCEPT !.expired = TRUE]
      <4>1. new \in Code
        BY <1>1, <2>1 DEF Code
      <4> QED BY <1>1, <2>1, <3>2, <4>1 DEF Expire, Code
    <3>3. CASE LeaveWindow(k)
      <4> DEFINE new == [codes[k] EXCEPT !.recent = FALSE]
      <4>1. new \in Code
        BY <1>1, <2>1 DEF Code
      <4> QED BY <1>1, <2>1, <3>3, <4>1 DEF LeaveWindow, Code
    <3> QED BY <1>6, <3>1, <3>2, <3>3
  <2>3. codes' \in Seq(Code) /\ Len(codes') = Len(codes)
    BY <1>1, <2>1, <2>2
  <2>4. \A i \in DOMAIN codes' :
          /\ i \in DOMAIN codes
          /\ codes'[i].passed = codes[i].passed /\ codes'[i].failed = codes[i].failed
          /\ codes'[i].consumed = codes[i].consumed /\ (codes'[i].recent => codes[i].recent)
    BY <1>1, <2>1, <2>2
  <2> QED BY <1>1, <2>1, <2>3, <2>4, CodesKept
<1>7. CASE UNCHANGED codeVars
  BY <1>1, <1>7, CodesKept DEF codeVars
<1> QED BY <1>2, <1>3, <1>4, <1>5, <1>6, <1>7 DEF CodesNext

LEMMA CodesInvariant == CodesSpec => []CodesIInv
<1>1. CodesInit => CodesIInv
  <2> SUFFICES ASSUME CodesInit PROVE CodesIInv
    OBVIOUS
  <2>1. CodesTypeOK
    <3>1. codes \in Seq(Code) /\ Len(codes) = 0
      BY DEF CodesInit
    <3>2. Len(codes) <= MaxCodes
      BY <3>1, CodesAssumption
    <3> QED BY <3>1, <3>2 DEF CodesInit, CodesTypeOK
  <2>2. Failures = 0
    <3>1. WrongIn(codes) = {} /\ codes \in Seq(Code)
      BY DEF CodesInit, WrongIn
    <3> QED BY <3>1, FailuresAre, FS_EmptySet, SumTaken DEF WrongAnswers
  <2>3. DOMAIN codes = {}
    BY DEF CodesInit
  <2> QED BY <2>1, <2>2, <2>3, CodesAssumption DEF CodesIInv, CodesBounded
<1> QED BY <1>1, CodesStep, PTL DEF CodesSpec

\* However requests overlap, a code lets one through at most and the wrong
\* answers of a window stay within its budget.
THEOREM CodesStayBounded == CodesSpec => [](CodesTypeOK /\ CodesBounded)
<1>1. CodesIInv => CodesTypeOK /\ CodesBounded
  BY DEF CodesIInv
<1> QED BY <1>1, CodesInvariant, PTL

-----------------------------------------------------------------------------
(* CredentialMonitor.  A restriction is lifted on what is current, which may   *)
(* be newer than what it was raised for: an event's version says which.        *)

MonitorIInv ==
  /\ MonitorTypeOK
  /\ \A k \in Keys : notices[k] = IF k \in events THEN 1 ELSE 0
  /\ \A c \in Credentials, v \in 1..MaxVersions, kind \in {"expiring", "expired"} :
       <<c, v, kind>> \in events => v <= current[c].version
  /\ \A c \in Credentials :
       <<c, current[c].version, "expired">> \in events =>
         /\ current[c].due = "past"
         /\ c \in ScopedPapers => <<c, current[c].version>> \in open

LEMMA MonitorStart == MonitorInit => MonitorIInv
<1> SUFFICES ASSUME MonitorInit PROVE MonitorIInv
  OBVIOUS
<1>1. [version |-> 0, due |-> "far", verified |-> FALSE] \in Current
  BY MonitorAssumption DEF Current, Due
<1> QED BY <1>1 DEF MonitorInit, MonitorIInv, MonitorTypeOK

\* Credentials that are changed without a new version, none of them back from
\* having lapsed.
LEMMA CredentialKept ==
  ASSUME MonitorIInv, NEW c \in Credentials, NEW new \in Current,
         current' = [current EXCEPT ![c] = new], new.version = current[c].version,
         current[c].due = "past" => new.due = "past",
         UNCHANGED <<watched, events, notices, open>>
  PROVE  MonitorIInv'
<1>1. MonitorTypeOK'
  BY DEF MonitorIInv, MonitorTypeOK
<1>2. \A x \in Credentials : /\ current'[x].version = current[x].version
                             /\ current[x].due = "past" => current'[x].due = "past"
  BY DEF MonitorIInv, MonitorTypeOK
<1> QED BY <1>1, <1>2 DEF MonitorIInv

LEMMA DeclareStep ==
  ASSUME MonitorIInv, NEW c \in Credentials, NEW due \in Due, Declare(c, due)
  PROVE  MonitorIInv'
<1> DEFINE new == [version |-> current[c].version + 1, due |-> due, verified |-> FALSE]
<1>1. /\ MonitorTypeOK /\ MaxVersions \in Nat /\ current \in [Credentials -> Current]
      /\ current[c].version \in 0..MaxVersions /\ current[c].version < MaxVersions
  BY MonitorAssumption DEF MonitorIInv, MonitorTypeOK, Declare, Current
<1>2. new \in Current /\ new.version = current[c].version + 1
  BY <1>1 DEF Current
<1>3. current' = [current EXCEPT ![c] = new] /\ UNCHANGED <<watched, events, notices, open>>
  BY DEF Declare
<1> HIDE DEF new
<1>4. MonitorTypeOK'
  BY <1>1, <1>2, <1>3 DEF MonitorTypeOK
<1>5. \A x \in Credentials : \/ x # c /\ current'[x] = current[x]
                             \/ x = c /\ current'[x].version = current[x].version + 1
  BY <1>1, <1>2, <1>3
<1>6. \A x \in Credentials : current[x].version \in 0..MaxVersions
  BY <1>1 DEF Current
<1>7. \A x \in Credentials, v \in 1..MaxVersions, kind \in {"expiring", "expired"} :
        <<x, v, kind>> \in events => v <= current'[x].version
  <2> SUFFICES ASSUME NEW x \in Credentials, NEW v \in 1..MaxVersions, NEW kind \in {"expiring", "expired"},
                      <<x, v, kind>> \in events
               PROVE  v <= current'[x].version
    OBVIOUS
  <2>1. v <= current[x].version
    BY DEF MonitorIInv
  <2>2. current[x].version \in 0..MaxVersions /\ v \in Nat
    BY <1>1, <1>6
  <2>3. current'[x].version = current[x].version \/ current'[x].version = current[x].version + 1
    BY <1>5
  <2> QED BY <1>1, <2>1, <2>2, <2>3
<1>8. <<c, current'[c].version, "expired">> \notin events
  <2>1. current'[c].version \in 1..MaxVersions /\ ~(current'[c].version <= current[c].version)
    BY <1>1, <1>5
  <2> QED BY <2>1 DEF MonitorIInv
<1> QED BY <1>3, <1>4, <1>5, <1>7, <1>8 DEF MonitorIInv

LEMMA MonitorRuns ==
  ASSUME MonitorIInv, MonitorExpiries
  PROVE  MonitorIInv'
<1>1. /\ MonitorTypeOK /\ MaxVersions \in Nat /\ current \in [Credentials -> Current]
      /\ UNCHANGED <<watched, current>> /\ ScopedPapers \subseteq Credentials
      /\ notices \in [Keys -> Nat] /\ events' = events \cup Found
      /\ notices' = [k \in Keys |-> notices[k] + IF k \in Found \ events THEN 1 ELSE 0]
      /\ open' = open \cup {<<c, current[c].version>> : c \in {x \in ScopedPapers : Lapsed(x)}}
  BY MonitorAssumption DEF MonitorIInv, MonitorTypeOK, MonitorExpiries, Credentials
<1>2. \A c \in Credentials : Filed(c) => current[c].version \in 1..MaxVersions
  BY <1>1 DEF Filed, Current
<1>3. Found \subseteq Keys
  BY <1>2 DEF Found, EventKey, Keys
<1>4. MonitorTypeOK'
  <2>1. events' \subseteq Keys /\ notices' \in [Keys -> Nat]
    BY <1>1, <1>3 DEF MonitorTypeOK
  <2>2. open' \subseteq ScopedPapers \X (1..MaxVersions)
    BY <1>1, <1>2 DEF MonitorTypeOK, Lapsed
  <2> QED BY <1>1, <2>1, <2>2 DEF MonitorTypeOK
<1>5. \A k \in Keys : notices'[k] = IF k \in events' THEN 1 ELSE 0
  BY <1>1 DEF MonitorIInv
<1>6. \A c \in Credentials, v \in 1..MaxVersions, kind \in {"expiring", "expired"} :
        <<c, v, kind>> \in Found =>
          v = current[c].version /\ (kind = "expired" => current[c].due = "past" /\ Filed(c))
  BY DEF Found, EventKey
<1>7. \A c \in Credentials, v \in 1..MaxVersions, kind \in {"expiring", "expired"} :
        <<c, v, kind>> \in events' => v <= current'[c].version
  <2> SUFFICES ASSUME NEW c \in Credentials, NEW v \in 1..MaxVersions, NEW kind \in {"expiring", "expired"},
                      <<c, v, kind>> \in events'
               PROVE  v <= current[c].version
    BY <1>1
  <2>1. CASE <<c, v, kind>> \in events
    BY <2>1 DEF MonitorIInv
  <2>2. CASE <<c, v, kind>> \in Found
    <3>1. v = current[c].version
      BY <1>6, <2>2
    <3> QED BY <1>1, <3>1
  <2> QED BY <1>1, <2>1, <2>2
<1>8. ASSUME NEW c \in Credentials, <<c, current[c].version, "expired">> \in events'
      PROVE  current[c].due = "past" /\ (c \in ScopedPapers => <<c, current[c].version>> \in open')
  <2>1. CASE <<c, current[c].version, "expired">> \in events
    BY <1>1, <2>1 DEF MonitorIInv
  <2>2. CASE <<c, current[c].version, "expired">> \in Found
    <3>1. current[c].version \in 1..MaxVersions
      BY <1>3, <2>2 DEF Keys
    <3>2. current[c].due = "past" /\ Filed(c)
      BY <1>6, <2>2, <3>1
    <3> QED BY <1>1, <3>2 DEF Lapsed
  <2> QED BY <1>1, <1>8, <2>1, <2>2
<1> QED BY <1>1, <1>4, <1>5, <1>7, <1>8 DEF MonitorIInv

\* A restriction is lifted once what it covers has a valid replacement: not
\* the one of a version reported as expired that is still current.
LEMMA ResolveStep ==
  ASSUME MonitorIInv, NEW c \in Credentials, NEW v \in 1..MaxVersions, ResolveRestriction(c, v)
  PROVE  MonitorIInv'
<1>1. /\ open' = open \ {<<c, v>>} /\ UNCHANGED <<watched, current, events, notices>> /\ ~Lapsed(c)
  BY DEF ResolveRestriction
<1>2. MonitorTypeOK'
  BY <1>1 DEF MonitorIInv, MonitorTypeOK
<1>3. ASSUME NEW x \in Credentials, <<x, current[x].version, "expired">> \in events, x \in ScopedPapers
      PROVE  <<x, current[x].version>> \in open'
  <2>1. current[x].due = "past" /\ <<x, current[x].version>> \in open
    BY <1>3 DEF MonitorIInv
  <2>2. current[x].version \in 1..MaxVersions
    BY <1>3 DEF MonitorIInv, MonitorTypeOK, Keys
  <2>3. Lapsed(x)
    BY <2>1, <2>2, MonitorAssumption DEF Lapsed, Filed
  <2> QED BY <1>1, <2>1, <2>3
<1> QED BY <1>1, <1>2, <1>3 DEF MonitorIInv

LEMMA MonitorStep == MonitorIInv /\ [MonitorNext]_monitorVars => MonitorIInv'
<1> SUFFICES ASSUME MonitorIInv, [MonitorNext]_monitorVars PROVE MonitorIInv'
  OBVIOUS
<1>0. current \in [Credentials -> Current]
  BY DEF MonitorIInv, MonitorTypeOK
<1>1. CASE MonitorExpiries
  BY <1>1, MonitorRuns
<1>2. CASE Watch
  BY <1>2 DEF Watch, MonitorIInv, MonitorTypeOK
<1>3. ASSUME NEW c \in Credentials, NEW due \in Due, Declare(c, due)
      PROVE  MonitorIInv'
  BY <1>3, DeclareStep
<1>4. ASSUME NEW c \in Credentials, VerifyPaper(c)
      PROVE  MonitorIInv'
  <2> DEFINE new == [current[c] EXCEPT !.verified = TRUE]
  <2>1. new \in Current /\ new.version = current[c].version /\ new.due = current[c].due
    BY <1>0 DEF Current
  <2>2. current' = [current EXCEPT ![c] = new] /\ UNCHANGED <<watched, events, notices, open>>
    BY <1>4 DEF VerifyPaper
  <2>3. \E row \in Current : /\ row.version = current[c].version /\ row.due = current[c].due
                            /\ current' = [current EXCEPT ![c] = row]
    BY <2>1, <2>2
  <2> HIDE DEF new
  <2> QED BY <2>2, <2>3, CredentialKept
<1>5. ASSUME NEW c \in Credentials, TimePasses(c)
      PROVE  MonitorIInv'
  <2> DEFINE new == [current[c] EXCEPT !.due = IF @ = "far" THEN "near" ELSE "past"]
  <2>1. new \in Current /\ new.version = current[c].version /\ current[c].due # "past"
    BY <1>0, <1>5 DEF Current, Due, TimePasses
  <2>2. current' = [current EXCEPT ![c] = new] /\ UNCHANGED <<watched, events, notices, open>>
    BY <1>5 DEF TimePasses
  <2>3. \E row \in Current : row.version = current[c].version /\ current' = [current EXCEPT ![c] = row]
    BY <2>1, <2>2
  <2> HIDE DEF new
  <2> QED BY <2>1, <2>2, <2>3, CredentialKept
<1>6. ASSUME NEW c \in Credentials, NEW v \in 1..MaxVersions, ResolveRestriction(c, v)
      PROVE  MonitorIInv'
  BY <1>6, ResolveStep
<1>7. CASE UNCHANGED monitorVars
  BY <1>7 DEF monitorVars, MonitorIInv, MonitorTypeOK
<1> QED BY <1>1, <1>2, <1>3, <1>4, <1>5, <1>6, <1>7 DEF MonitorNext

LEMMA MonitorInvariant == MonitorInit /\ [][MonitorNext]_monitorVars => []MonitorIInv
BY MonitorStart, MonitorStep, PTL

LEMMA LapsesShow == MonitorIInv => MonitorTypeOK /\ LapseRestricts
BY MonitorAssumption DEF MonitorIInv, LapseRestricts, Credentials

\* An event is notified once, and what was reported as expired restricts its
\* service for as long as it is current.
THEOREM LapsesRestrict == MonitorSpec => [](MonitorTypeOK /\ LapseRestricts)
BY LapsesShow, MonitorInvariant, PTL DEF MonitorSpec

-----------------------------------------------------------------------------
(* LegacyMerge.  A second run inserts nothing, for every old database, every   *)
(* content of v2 and every pool of keys.                                      *)

Maps == [OldRows -> PKs \cup {NoPK}]
Holders(k) == {p \in PKs : rows[p] # Absent /\ rows[p].key = k}

\* Row r ended up where v2 as it is now sends it, given where its parents did.
Followed(map, r) ==
  IF Unresolved(map, r) \/ ~HasKey(r) THEN map[r] = NoPK
  ELSE Holders(KeyOf(map, r)) # {} /\ map[r] = First(Holders(KeyOf(map, r)))

\* A run whose ids are rows of a v2 nobody else has written to.
Trusted ==
  mode # "idle" /\ ~written /\ (mode = "find" => last.mode = "merge" /\ last.refused = {})

\* The inductive invariant: what a run has done so far is what v2 now demands,
\* the index is the table, and after a commit each later run repeats it.
Undone ==
  \A r \in OldRows : /\ at <= r => r \notin refused
                     /\ at <= r \/ r \in refused => idMap[r] = NoPK
IndexIsTable == Trusted /\ loaded # "none" => index = Indexed(Target[loaded])
RunFollows == Trusted => \A r \in OldRows : r < at => r \in refused \/ Followed(idMap, r)
Quiet == /\ last.mode # "none" => ~written
         /\ mode = "idle" => log = {} /\ draft = {}
         /\ mode = "find" => draft = {} /\ refused = {}
\* What a merge found or inserted, a later run finds where it was, beside
\* whatever it inserts itself.
Again(r) == last.refused = {} \/ last.idMap[r] # NoPK
Settled ==
  last.mode = "merge" =>
    /\ \A r \in OldRows : r \in last.refused => last.idMap[r] = NoPK
    /\ \A r \in OldRows : r \in last.refused \/ Followed(last.idMap, r)
    /\ \A r \in OldRows : last.idMap[r] # NoPK => Holders(KeyOf(last.idMap, r)) \cap draft = {}
    /\ Trusted => \A r \in OldRows : r < at /\ Again(r) => idMap[r] = last.idMap[r]
    /\ mode # "find" => \A r \in log : last.idMap[r] = NoPK
    /\ last.refused = {} => log = {} /\ draft = {}
MergeIInv == MergeTypeOK /\ Undone /\ IndexIsTable /\ RunFollows /\ Quiet /\ Settled

-----------------------------------------------------------------------------
LEMMA FirstOf == ASSUME NEW S, S # {} PROVE First(S) \in S
BY DEF First

LEMMA OldType ==
  ASSUME MergeTypeOK, NEW r \in OldRows
  PROVE  /\ old[r] \in OldRow
         /\ old[r].above \in 0..N /\ old[r].above < r
         /\ old[r].user \in 0..N /\ old[r].user < r
         /\ ~Hangs(Target[old[r].mapping]) => old[r].above = 0
         /\ Target[old[r].mapping] \in Tables
<1>1. WellFormed(old)
  BY MergeAssumption DEF MergeTypeOK
<1>2. old[r] \in OldRow /\ old[r].above < r /\ old[r].user < r
        /\ (~Hangs(Target[old[r].mapping]) => old[r].above = 0)
  BY <1>1 DEF WellFormed
<1>3. old[r].mapping \in MAPPINGS
  BY <1>2 DEF OldRow
<1>4. Target[old[r].mapping] \in Tables
  BY <1>3 DEF Target, MAPPINGS, Tables
<1> QED BY <1>2, <1>4 DEF OldRow

\* What becomes of a row rests on where the rows before it ended up.
LEMMA RestsOnParents ==
  ASSUME MergeTypeOK, NEW r \in OldRows, NEW f \in Maps, NEW g \in Maps,
         \A s \in OldRows : s < r => f[s] = g[s]
  PROVE  KeyOf(f, r) = KeyOf(g, r) /\ (Unresolved(f, r) <=> Unresolved(g, r))
<1>1. \A a \in 0..N : a < r => Mapped(f, a) = Mapped(g, a) /\ (Lost(f, a) <=> Lost(g, a))
  <2> TAKE a \in 0..N
  <2>1. a # 0 => a \in OldRows
    BY MergeAssumption DEF OldRows
  <2> QED BY <2>1 DEF Mapped, Lost
<1> QED BY <1>1, OldType DEF KeyOf, Unresolved

LEMMA KeyType ==
  ASSUME MergeTypeOK, NEW r \in OldRows, NEW f \in Maps, HasKey(r)
  PROVE  KeyOf(f, r) \in Key /\ KeyOf(f, r).table = Target[old[r].mapping]
<1>1. old[r].data \in Values
  BY OldType DEF HasKey, OldRow
<1>2. \A a \in 0..N : Mapped(f, a) \in PKs \cup {NoPK}
  BY MergeAssumption DEF Mapped, Maps, OldRows
<1> QED BY <1>1, <1>2, OldType DEF KeyOf, Key

LEMMA MatchesAreHolders ==
  ASSUME MergeTypeOK, NEW t \in Tables, index = Indexed(t), NEW k \in Key, k.table = t
  PROVE  Matches(k) = Holders(k)
BY DEF Matches, Holders, Indexed, Stored

LEMMA Present ==
  ASSUME NEW x \in Row
  PROVE  x # Absent
BY MergeAssumption

-----------------------------------------------------------------------------
LEMMA Blanks ==
  /\ NoMap \in Maps
  /\ Unwritten \in [mode : Runs \cup {"none"}, log : SUBSET OldRows, refused : SUBSET OldRows, idMap : Maps]
  /\ Unwritten.mode = "none"
<1>1. NoMap \in Maps
  BY DEF NoMap, Maps
<1> QED BY <1>1 DEF Unwritten

LEMMA InitOK == MergeInit => MergeIInv
<1> SUFFICES ASSUME MergeInit PROVE MergeIInv
  OBVIOUS
<1>1. /\ rows \in [PKs -> Row \cup {Absent}] /\ at \in 1..(N + 1) /\ writes \in 0..MaxWrites
  BY MergeAssumption DEF MergeInit
<1>2. idMap \in Maps /\ last \in [mode : Runs \cup {"none"}, log : SUBSET OldRows, refused : SUBSET OldRows, idMap : Maps]
  BY Blanks DEF MergeInit
<1>3. MergeTypeOK
  BY <1>1, <1>2 DEF MergeInit, MergeTypeOK, Maps
<1> QED BY <1>3, Blanks DEF MergeIInv, MergeInit, Undone, IndexIsTable, RunFollows, Quiet,
                    Settled, Trusted, NoMap

-----------------------------------------------------------------------------
\* Type correctness, one step per action.
LEMMA MergeTypeStep ==
  ASSUME MergeTypeOK, Quiet, MergeNext PROVE MergeTypeOK'
<1> USE DEF Maps
<1>0. /\ N \in Nat /\ at \in Nat
  BY MergeAssumption DEF MergeTypeOK
<1>1. ASSUME NEW m \in Runs, Begin(m) PROVE MergeTypeOK'
  <2>1. 1 \in 1..(N + 1)
    BY <1>0
  <2> QED BY <1>1, <2>1, Blanks DEF Begin, Ready, MergeTypeOK
<1>2. CASE LoadIndex
  <2>1. at \in OldRows
    BY <1>0, <1>2 DEF LoadIndex, Running, OldRows, MergeTypeOK
  <2>2. old[at].mapping \in MAPPINGS
    BY <2>1, OldType DEF OldRow
  <2>3. Indexed(Target[loaded']) \subseteq Key \X PKs
    BY DEF Indexed, Stored, Row, MergeTypeOK
  <2> QED BY <1>2, <2>2, <2>3 DEF LoadIndex, MergeTypeOK
<1>3. CASE Skip
  BY <1>0, <1>3 DEF Skip, Turn, Running, MergeTypeOK
<1>4. CASE Fail
  BY <1>0, <1>4 DEF Fail, Turn, Running, MergeTypeOK, OldRows
<1>5. CASE Duplicate
  <2>1. First(Matches(KeyOf(idMap, at))) \in PKs
    BY <1>5, FirstOf DEF Duplicate, Matches
  <2> DEFINE p == First(Matches(KeyOf(idMap, at)))
  <2>4. idMap' = [idMap EXCEPT ![at] = p] /\ at' = at + 1 /\ at <= N
    BY <1>5 DEF Duplicate, Turn, Running
  <2>5. p \in PKs
    BY <2>1
  <2> HIDE DEF p
  <2>6. idMap' \in Maps
    BY <2>4, <2>5 DEF MergeTypeOK
  <2>2. idMap' \in Maps /\ at' \in 1..(N + 1)
    BY <1>0, <2>4, <2>6
  <2>3. /\ old' = old /\ rows' = rows /\ draft' = draft /\ mode' = mode /\ loaded' = loaded
        /\ index' = index /\ log' = log /\ refused' = refused /\ last' = last /\ written' = written /\ writes' = writes
    BY <1>5 DEF Duplicate
  <2> QED BY <2>2, <2>3 DEF MergeTypeOK
<1>6. CASE New
  <2>1. at \in OldRows /\ at + 1 \in 1..(N + 1)
    BY <1>0, <1>6 DEF New, Turn, Running, OldRows, MergeTypeOK
  <2>2. First(Fresh) \in PKs
    BY <1>6, FirstOf DEF New, Fresh
  <2>3. KeyOf(idMap, at) \in Key
    BY <1>6, <2>1, KeyType DEF New, Comparable, MergeTypeOK
  <2>4. Mapped(idMap, old[at].user) \in PKs \cup {NoPK}
    BY <2>1, OldType DEF Mapped, OldRows, MergeTypeOK
  <2>5. rows' \in [PKs -> Row \cup {Absent}] /\ draft' \subseteq PKs
    <3> DEFINE row == [key |-> KeyOf(idMap, at),
                       uploader |-> IF KeyOf(idMap, at).table = "document"
                                    THEN Mapped(idMap, old[at].user) ELSE NoPK]
    <3>1. row \in Row
      BY <2>3, <2>4 DEF Row
    <3>2. rows' = rows \/ rows' = [rows EXCEPT ![First(Fresh)] = row]
      BY <1>6 DEF New
    <3>3. draft' = draft \/ draft' = draft \cup {First(Fresh)}
      BY <1>6 DEF New
    <3> HIDE DEF row
    <3> QED BY <2>2, <3>1, <3>2, <3>3 DEF MergeTypeOK
  <2>6. index' \subseteq Key \X PKs
    BY <1>6, <2>2, <2>3 DEF New, Learned, MergeTypeOK
  <2>7. idMap' \in Maps /\ log' \subseteq OldRows /\ at' \in 1..(N + 1)
    BY <1>6, <2>1, <2>2 DEF New, MergeTypeOK
  <2>8. /\ old' = old /\ mode' = mode /\ loaded' = loaded /\ refused' = refused /\ last' = last
        /\ written' = written /\ writes' = writes
    BY <1>6 DEF New
  <2> QED BY <2>5, <2>6, <2>7, <2>8 DEF MergeTypeOK
<1>7. WithoutDraft \in [PKs -> Row \cup {Absent}]
  BY DEF WithoutDraft, MergeTypeOK
<1>8. CASE EndRun
  <2>1. last' \in [mode : Runs \cup {"none"}, log : SUBSET OldRows, refused : SUBSET OldRows, idMap : Maps]
    BY <1>8, Blanks DEF EndRun, MergeTypeOK, Runs
  <2>2. rows' \in [PKs -> Row \cup {Absent}]
    BY <1>7, <1>8 DEF EndRun, MergeTypeOK
  <2>3. 1 \in 1..(N + 1)
    BY <1>0
  <2> QED BY <1>8, <2>1, <2>2, <2>3, Blanks DEF EndRun, Over, Ready, MergeTypeOK
<1>9. CASE Stop
  <2>1. 1 \in 1..(N + 1)
    BY <1>0
  <2> QED BY <1>7, <1>9, <2>1, Blanks DEF Stop, Over, Ready, MergeTypeOK
<1>10. ASSUME NEW k \in NewKeys, Register(k) PROVE MergeTypeOK'
  <2>1. First(Fresh) \in PKs
    BY <1>10, FirstOf DEF Register, Fresh
  <2>2. [key |-> k, uploader |-> NoPK] \in Row
    BY DEF NewKeys, Row
  <2>3. rows' \in [PKs -> Row \cup {Absent}]
    BY <1>10, <2>1, <2>2 DEF Register, MergeTypeOK
  <2> QED BY <1>10, <2>3, Blanks, MergeAssumption DEF Register, Writes, runVars, MergeTypeOK
<1>11. ASSUME NEW p \in PKs, NEW v \in Values, Rename(p, v) PROVE MergeTypeOK'
  <2>1. rows[p] \in Row
    BY <1>11 DEF Rename, Stored, MergeTypeOK
  <2>2. Renamed(rows[p], v) \in Row
    BY <2>1 DEF Renamed, Row, Key
  <2>3. rows' \in [PKs -> Row \cup {Absent}]
    BY <1>11, <2>2 DEF Rename, MergeTypeOK
  <2> QED BY <1>11, <2>3, Blanks, MergeAssumption DEF Rename, Writes, runVars, MergeTypeOK
<1> QED BY <1>1, <1>2, <1>3, <1>4, <1>5, <1>6, <1>8, <1>9, <1>10, <1>11 DEF MergeNext

-----------------------------------------------------------------------------
\* What the steps of a run that takes a row have in common: nothing before the
\* row is touched, so that what was settled for the rows before it stays.
LEMMA BeforeStands ==
  ASSUME MergeIInv, MergeTypeOK', Turn, UNCHANGED old, at' = at + 1,
         \A s \in OldRows : s # at => idMap'[s] = idMap[s],
         refused' \subseteq refused \cup {at}, at \in refused' => idMap'[at] = idMap[at]
  PROVE  /\ at \in OldRows /\ at \in Nat
         /\ \A r \in OldRows : r <= at =>
              KeyOf(idMap', r) = KeyOf(idMap, r) /\ (Unresolved(idMap', r) <=> Unresolved(idMap, r))
         /\ \A r \in OldRows : r < at' => r < at \/ r = at
         /\ Undone'
<1>1. at \in OldRows /\ at \in Nat
  BY MergeAssumption DEF Turn, Running, MergeIInv, MergeTypeOK, OldRows
<1>2. idMap \in Maps /\ idMap' \in Maps
  BY DEF MergeIInv, MergeTypeOK, Maps
<1>3. ASSUME NEW r \in OldRows, r <= at
      PROVE  KeyOf(idMap', r) = KeyOf(idMap, r) /\ (Unresolved(idMap', r) <=> Unresolved(idMap, r))
  <2>1. \A s \in OldRows : s < r => idMap'[s] = idMap[s]
    BY <1>1, <1>3 DEF OldRows
  <2> QED BY <1>2, <2>1, RestsOnParents DEF MergeIInv
<1>4. \A r \in OldRows : r < at' => r < at \/ r = at
  BY <1>1 DEF OldRows
<1>5. ASSUME NEW r \in OldRows
      PROVE  /\ at' <= r => r \notin refused'
             /\ at' <= r \/ r \in refused' => idMap'[r] = NoPK
  <2>1. at' <= r => at <= r /\ r # at
    BY <1>1 DEF OldRows
  <2>2. at <= at
    BY <1>1
  <2> QED BY <1>1, <2>1, <2>2 DEF MergeIInv, Undone
<1>6. Undone'
  BY <1>5 DEF Undone
<1> QED BY <1>1, <1>3, <1>4, <1>6

\* After a commit the row a run has come to ends up where it did before.
LEMMA SameAgain ==
  ASSUME MergeIInv, Turn, Trusted, last.mode = "merge", Again(at)
  PROVE  /\ at \in OldRows
         /\ Unresolved(idMap, at) <=> Unresolved(last.idMap, at)
         /\ ~Unresolved(idMap, at) => KeyOf(idMap, at) = KeyOf(last.idMap, at)
         /\ Followed(last.idMap, at)
<1>1. at \in OldRows
  BY MergeAssumption DEF Turn, Running, MergeIInv, MergeTypeOK, OldRows
<1>2. \A s \in OldRows : s < at /\ Again(s) => idMap[s] = last.idMap[s]
  BY DEF MergeIInv, Settled
<1>3. idMap \in Maps /\ last.idMap \in Maps
  BY DEF MergeIInv, MergeTypeOK, Maps
<1>4. Followed(last.idMap, at)
  BY <1>1 DEF MergeIInv, Settled, Again
<1>5. CASE last.refused = {}
  <2>1. \A s \in OldRows : s < at => idMap[s] = last.idMap[s]
    BY <1>2, <1>5 DEF Again
  <2> QED BY <1>1, <1>3, <1>4, <2>1, RestsOnParents DEF MergeIInv
<1>6. CASE last.idMap[at] # NoPK
  <2>1. ~Unresolved(last.idMap, at)
    BY <1>4, <1>6 DEF Followed
  <2>2. /\ old[at].above \in 0..N /\ old[at].above < at
        /\ old[at].user \in 0..N /\ old[at].user < at
    BY <1>1, OldType DEF MergeIInv
  <2>3. \A a \in 0..N : a < at /\ ~Lost(last.idMap, a) =>
          ~Lost(idMap, a) /\ Mapped(idMap, a) = Mapped(last.idMap, a)
    <3> SUFFICES ASSUME NEW a \in 0..N, a < at, ~Lost(last.idMap, a), a # 0
                 PROVE  idMap[a] = last.idMap[a]
      BY DEF Lost, Mapped
    <3>1. a \in OldRows /\ last.idMap[a] # NoPK
      BY MergeAssumption DEF Lost, OldRows
    <3> QED BY <1>2, <3>1 DEF Again
  <2>4. /\ ~Lost(last.idMap, old[at].above)
        /\ Target[old[at].mapping] = "membership" => ~Lost(last.idMap, old[at].user)
    BY <2>1 DEF Unresolved
  <2>5. /\ ~Lost(idMap, old[at].above)
        /\ Mapped(idMap, old[at].above) = Mapped(last.idMap, old[at].above)
    BY <2>2, <2>3, <2>4
  <2>6. Target[old[at].mapping] = "membership" =>
          ~Lost(idMap, old[at].user) /\ Mapped(idMap, old[at].user) = Mapped(last.idMap, old[at].user)
    BY <2>2, <2>3, <2>4
  <2>7. ~Unresolved(idMap, at)
    BY <2>5, <2>6 DEF Unresolved
  <2>8. KeyOf(idMap, at) = KeyOf(last.idMap, at)
    BY <2>5, <2>6 DEF KeyOf
  <2> QED BY <1>1, <1>4, <2>1, <2>7, <2>8
<1> QED BY <1>5, <1>6 DEF Again

\* A step that touches neither v2 nor the log.
LEMMA SettledStays ==
  ASSUME Settled, UNCHANGED <<old, rows, draft, mode, log, last, written>>,
         last.mode = "merge" /\ Trusted =>
           \A r \in OldRows : r < at' /\ Again(r) => idMap'[r] = last.idMap[r]
  PROVE  Settled'
<1>1. \A f, r : Followed(f, r)' <=> Followed(f, r)
  BY DEF Followed, Holders, Unresolved, HasKey, KeyOf, Mapped, Lost
<1>2. \A f, r : Holders(KeyOf(f, r))' = Holders(KeyOf(f, r))
  BY DEF Holders, KeyOf, Mapped
<1>3. (Trusted' <=> Trusted) /\ \A r : Again(r)' <=> Again(r)
  BY DEF Trusted, Again
<1> QED BY <1>1, <1>2, <1>3 DEF Settled

\* In a trusted run the index finds every row of the key.
LEMMA IndexFinds ==
  ASSUME MergeIInv, Turn, Trusted, Comparable
  PROVE  Matches(KeyOf(idMap, at)) = Holders(KeyOf(idMap, at))
<1>1. at \in OldRows
  BY MergeAssumption DEF Turn, Running, MergeIInv, MergeTypeOK, OldRows
<1>2. KeyOf(idMap, at) \in Key /\ KeyOf(idMap, at).table = Target[old[at].mapping]
  BY <1>1, KeyType DEF Comparable, MergeIInv, MergeTypeOK, Maps
<1>3. loaded # "none" /\ loaded = old[at].mapping /\ Target[loaded] \in Tables
  <2>1. old[at].mapping \in MAPPINGS
    BY <1>1, OldType DEF MergeIInv, OldRow
  <2>2. "none" \notin MAPPINGS
    BY DEF MAPPINGS
  <2> QED BY <1>1, <2>1, <2>2, OldType DEF Turn, MergeIInv
<1>4. index = Indexed(Target[loaded])
  BY <1>3 DEF MergeIInv, IndexIsTable
<1> QED BY <1>2, <1>3, <1>4, MatchesAreHolders DEF MergeIInv

LEMMA SkipStep == ASSUME MergeIInv, MergeTypeOK', Skip PROVE MergeIInv'
<1>1. /\ Turn /\ ~Comparable /\ at' = at + 1
      /\ UNCHANGED <<old, rows, draft, mode, loaded, index, idMap, log, refused, last, written>>
  BY DEF Skip
<1>2. /\ at \in OldRows
      /\ \A r \in OldRows : r < at' => r < at \/ r = at
      /\ Undone'
  BY <1>1, BeforeStands
<1>3. \A f, r : Followed(f, r)' <=> Followed(f, r)
  BY <1>1 DEF Followed, Holders, Unresolved, HasKey, KeyOf, Mapped, Lost
<1>4. idMap[at] = NoPK
  BY <1>2 DEF MergeIInv, Undone, OldRows
<1>5. Trusted => Followed(idMap, at)
  BY <1>1, <1>4 DEF Followed, Comparable
<1>6. RunFollows'
  BY <1>1, <1>2, <1>3, <1>5 DEF RunFollows, Trusted, MergeIInv
<1>7. ASSUME last.mode = "merge", Trusted, Again(at) PROVE idMap[at] = last.idMap[at]
  BY <1>1, <1>4, <1>7, SameAgain DEF Comparable, Followed
<1>8. Settled'
  <2>1. last.mode = "merge" /\ Trusted =>
          \A r \in OldRows : r < at' /\ Again(r) => idMap'[r] = last.idMap[r]
    BY <1>1, <1>2, <1>7 DEF Settled, MergeIInv
  <2> QED BY <1>1, <2>1, SettledStays DEF MergeIInv
<1>9. IndexIsTable' /\ Quiet'
  BY <1>1 DEF IndexIsTable, Quiet, Trusted, Indexed, Stored, MergeIInv
<1> QED BY <1>2, <1>6, <1>8, <1>9 DEF MergeIInv

LEMMA DuplicateStep == ASSUME MergeIInv, MergeTypeOK', Duplicate PROVE MergeIInv'
<1> DEFINE k == KeyOf(idMap, at)
<1>1. /\ Turn /\ Comparable /\ Matches(k) # {} /\ at' = at + 1
      /\ idMap' = [idMap EXCEPT ![at] = First(Matches(k))]
      /\ UNCHANGED <<old, rows, draft, mode, loaded, index, log, refused, last, written>>
  BY DEF Duplicate
<1>2. at \in OldRows
  BY <1>1, MergeAssumption DEF Turn, Running, MergeIInv, MergeTypeOK, OldRows
<1>3. idMap'[at] = First(Matches(k)) /\ \A s \in OldRows : s # at => idMap'[s] = idMap[s]
  BY <1>1, <1>2 DEF MergeIInv, MergeTypeOK
<1>4. /\ \A r \in OldRows : r <= at =>
           KeyOf(idMap', r) = KeyOf(idMap, r) /\ (Unresolved(idMap', r) <=> Unresolved(idMap, r))
      /\ \A r \in OldRows : r < at' => r < at \/ r = at
      /\ Undone' /\ at \in Nat
  <2>1. at <= at
    BY <1>2 DEF OldRows
  <2>2. refused' \subseteq refused \cup {at} /\ at \notin refused'
    BY <1>1, <1>2, <2>1 DEF MergeIInv, Undone
  <2> QED BY <1>1, <1>3, <2>2, BeforeStands
<1>5. \A f, r : Followed(f, r)' <=> Followed(f, r)
  BY <1>1 DEF Followed, Holders, Unresolved, HasKey, KeyOf, Mapped, Lost
<1>6. \A r \in OldRows : r < at /\ Followed(idMap, r) => Followed(idMap', r)
  BY <1>3, <1>4 DEF Followed, OldRows
<1>7. ASSUME Trusted PROVE Followed(idMap', at)
  <2>1. Matches(k) = Holders(k)
    BY <1>1, <1>7, IndexFinds
  <2>2. KeyOf(idMap', at) = k /\ (Unresolved(idMap', at) <=> Unresolved(idMap, at))
    BY <1>2, <1>4
  <2>3. ~Unresolved(idMap, at) /\ HasKey(at)
    BY <1>1 DEF Comparable
  <2> HIDE DEF k
  <2> QED BY <1>1, <1>3, <2>1, <2>2, <2>3 DEF Followed
<1>8. RunFollows'
  <2> SUFFICES ASSUME Trusted', NEW r \in OldRows, r < at', r \notin refused PROVE Followed(idMap', r)
    BY <1>5, <1>1 DEF RunFollows
  <2>1. Trusted
    BY <1>1 DEF Trusted
  <2> QED BY <1>4, <1>6, <1>7, <2>1 DEF RunFollows, MergeIInv
<1>9. ASSUME last.mode = "merge", Trusted, Again(at) PROVE idMap'[at] = last.idMap[at]
  <2>1. Followed(last.idMap, at) /\ k = KeyOf(last.idMap, at) /\ ~Unresolved(last.idMap, at)
    BY <1>1, <1>9, SameAgain DEF Comparable
  <2> QED BY <1>1, <1>3, <1>9, <2>1, IndexFinds DEF Followed, Comparable
<1>10. Settled'
  <2>1. last.mode = "merge" /\ Trusted =>
          \A r \in OldRows : r < at' /\ Again(r) => idMap'[r] = last.idMap[r]
    BY <1>3, <1>4, <1>9 DEF Settled, MergeIInv, OldRows
  <2> QED BY <1>1, <2>1, SettledStays DEF MergeIInv
<1>11. IndexIsTable' /\ Quiet'
  BY <1>1 DEF IndexIsTable, Quiet, Trusted, Indexed, Stored, MergeIInv
<1> QED BY <1>4, <1>8, <1>10, <1>11 DEF MergeIInv

\* A row is inserted: nobody follows a row of its key yet, so the first of
\* every key in use stays the first.
LEMMA NewStep == ASSUME MergeIInv, MergeTypeOK', New PROVE MergeIInv'
<1> DEFINE k == KeyOf(idMap, at)
           p == First(Fresh)
<1>1. /\ Turn /\ Comparable /\ Matches(k) = {} /\ at' = at + 1 /\ Fresh # {}
      /\ idMap' = [idMap EXCEPT ![at] = p]
      /\ index' = index \cup {<<k, p>>}
      /\ UNCHANGED <<old, mode, loaded, refused, last, written>>
  BY DEF New, Learned
<1>2. at \in OldRows /\ p \in PKs /\ rows[p] = Absent
  <2>1. p \in Fresh
    BY <1>1, FirstOf
  <2>2. p \in PKs /\ rows[p] = Absent
    BY <2>1 DEF Fresh
  <2>3. at \in OldRows
    BY <1>1, MergeAssumption DEF Turn, Running, MergeIInv, MergeTypeOK, OldRows
  <2> QED BY <2>2, <2>3
<1>3. idMap'[at] = p /\ \A s \in OldRows : s # at => idMap'[s] = idMap[s]
  BY <1>1, <1>2 DEF MergeIInv, MergeTypeOK
<1>4. /\ \A r \in OldRows : r <= at =>
           KeyOf(idMap', r) = KeyOf(idMap, r) /\ (Unresolved(idMap', r) <=> Unresolved(idMap, r))
      /\ \A r \in OldRows : r < at' => r < at \/ r = at
      /\ Undone' /\ at \in Nat
  <2>1. at <= at
    BY <1>2 DEF OldRows
  <2>2. refused' \subseteq refused \cup {at} /\ at \notin refused'
    BY <1>1, <1>2, <2>1 DEF MergeIInv, Undone
  <2> QED BY <1>1, <1>3, <2>2, BeforeStands
\* After a commit there is only to insert what was not merged then.
<1>5. ASSUME Trusted, last.mode = "merge" PROVE ~Again(at)
  <2> SUFFICES ASSUME Again(at) PROVE FALSE
    OBVIOUS
  <2>1. Matches(k) = Holders(k)
    BY <1>1, <1>5, IndexFinds
  <2>2. Followed(last.idMap, at) /\ k = KeyOf(last.idMap, at) /\ ~Unresolved(last.idMap, at)
    BY <1>1, <1>5, SameAgain DEF Comparable
  <2> QED BY <1>1, <2>1, <2>2 DEF Followed, Comparable
<1>6. Quiet'
  BY <1>1 DEF Quiet, MergeIInv, New, Turn, Running
<1>7. ASSUME Trusted
      PROVE  /\ Matches(k) = Holders(k)
             /\ k \in Key /\ k.table = Target[loaded]
             /\ mode # "find"
             /\ loaded # "none" /\ index = Indexed(Target[loaded])
  <2>1. k \in Key /\ k.table = Target[old[at].mapping]
    BY <1>1, <1>2, KeyType DEF Comparable, MergeIInv, MergeTypeOK, Maps
  <2>2. old[at].mapping \in MAPPINGS /\ "none" \notin MAPPINGS
    BY <1>2, OldType DEF MergeIInv, OldRow, MAPPINGS
  <2> QED BY <1>1, <1>5, <1>7, <2>1, <2>2, IndexFinds DEF Turn, Trusted, Again, MergeIInv, IndexIsTable
<1>8. ASSUME Trusted
      PROVE  /\ \A q \in PKs : q # p => rows'[q] = rows[q]
             /\ rows'[p] \in Row /\ rows'[p].key = k /\ rows'[p] # Absent
  <2> DEFINE row == [key |-> k, uploader |-> IF k.table = "document" THEN Mapped(idMap, old[at].user)
                                                                     ELSE NoPK]
  <2>1. rows' = [rows EXCEPT ![p] = row]
    BY <1>7, <1>8 DEF New
  <2>2. rows'[p] = row /\ \A q \in PKs : q # p => rows'[q] = rows[q]
    BY <1>2, <2>1 DEF MergeIInv, MergeTypeOK
  <2>3. Mapped(idMap, old[at].user) \in PKs \cup {NoPK}
    BY <1>2, OldType DEF Mapped, OldRows, MergeIInv, MergeTypeOK
  <2>4. row \in Row
    BY <1>7, <1>8, <2>3 DEF Row
  <2>5. row.key = k
    OBVIOUS
  <2> QED BY <2>2, <2>4, <2>5, Present
<1>9. ASSUME Trusted, NEW r \in OldRows, r < at, r \notin refused PROVE Followed(idMap, r)'
  <2>0. PICK j : j = KeyOf(idMap, r)
    OBVIOUS
  <2>1. Followed(idMap, r)
    BY <1>9 DEF RunFollows, MergeIInv
  <2>2. KeyOf(idMap', r) = j /\ (Unresolved(idMap', r) <=> Unresolved(idMap, r))
          /\ idMap'[r] = idMap[r]
    BY <1>3, <1>4, <1>9, <2>0 DEF OldRows
  <2>3. KeyOf(idMap, r)' = j /\ (Unresolved(idMap, r)' <=> Unresolved(idMap, r))
          /\ (HasKey(r)' <=> HasKey(r))
    BY <1>1, <2>2 DEF KeyOf, Unresolved, HasKey, Mapped, Lost
  <2>4. CASE Unresolved(idMap, r) \/ ~HasKey(r)
    BY <2>1, <2>2, <2>3, <2>4 DEF Followed
  <2>5. CASE ~Unresolved(idMap, r) /\ HasKey(r)
    <3>1. Holders(j) # {} /\ idMap[r] = First(Holders(j))
      BY <2>0, <2>1, <2>5 DEF Followed
    <3>2. j # k
      BY <1>1, <1>7, <1>9, <3>1
    <3>3. \A q \in PKs : (rows'[q] # Absent /\ rows'[q].key = j) <=> (rows[q] # Absent /\ rows[q].key = j)
      BY <1>2, <1>8, <1>9, <3>2
    <3>5. Holders(KeyOf(idMap, r))' = Holders(j)
      BY <2>3, <3>3 DEF Holders
    <3> QED BY <2>2, <2>3, <2>5, <3>1, <3>5 DEF Followed
  <2> QED BY <2>4, <2>5
<1>10. ASSUME Trusted, NEW r \in OldRows, r = at PROVE Followed(idMap, r)'
  <2>1. KeyOf(idMap', r) = k /\ ~Unresolved(idMap', r) /\ HasKey(r) /\ idMap'[r] = p
    <3>1. r <= at
      BY <1>4, <1>10
    <3>2. KeyOf(idMap', r) = KeyOf(idMap, r) /\ (Unresolved(idMap', r) <=> Unresolved(idMap, r))
      BY <1>4, <3>1
    <3> QED BY <1>1, <1>3, <1>10, <3>2 DEF Comparable
  <2>2. KeyOf(idMap, r)' = k /\ ~Unresolved(idMap, r)' /\ HasKey(r)'
    BY <1>1, <2>1 DEF KeyOf, Unresolved, HasKey, Mapped, Lost
  <2>3. \A q \in PKs : ~(rows[q] # Absent /\ rows[q].key = k)
    BY <1>1, <1>7, <1>10 DEF Holders
  <2>4. Holders(KeyOf(idMap, r))' = {p}
    BY <1>2, <1>8, <1>10, <2>2, <2>3 DEF Holders
  <2>5. First({p}) = p
    BY FirstOf
  <2> QED BY <2>1, <2>2, <2>4, <2>5 DEF Followed
<1>11. RunFollows'
  <2> SUFFICES ASSUME Trusted', NEW r \in OldRows, r < at', r \notin refused PROVE Followed(idMap, r)'
    BY <1>1 DEF RunFollows
  <2>1. Trusted
    BY <1>1 DEF Trusted
  <2> QED BY <1>4, <1>9, <1>10, <2>1
<1>12. IndexIsTable'
  <2> SUFFICES ASSUME Trusted' PROVE index' = Indexed(Target[loaded])'
    BY DEF IndexIsTable
  <2>1. Trusted
    BY <1>1 DEF Trusted
  <2>2. \A q \in PKs : q # p => (q \in Stored' <=> q \in Stored)
    BY <1>8, <2>1 DEF Stored
  <2>3. p \in Stored' /\ p \notin Stored /\ rows'[p].key = k
    BY <1>2, <1>8, <2>1 DEF Stored
  <2>4. \A x : x \in Indexed(Target[loaded])' <=> x \in Indexed(Target[loaded]) \/ x = <<k, p>>
    BY <1>1, <1>2, <1>7, <1>8, <2>1, <2>2, <2>3 DEF Indexed, Stored
  <2> QED BY <1>1, <1>7, <2>1, <2>4
\* What the merge before it left: its rows are not of the new key.
<1>13. ASSUME last.mode = "merge" PROVE Settled'
  <2>1. last' = last /\ mode # "idle" /\ ~written /\ (Trusted' <=> Trusted)
    BY <1>1, <1>13 DEF Trusted, Turn, Running, Quiet, MergeIInv
  <2>2. \A r : (Again(r)' <=> Again(r))
    BY <2>1 DEF Again
  <2>3. CASE mode = "find"
    <3>1. last.refused # {} /\ ~Trusted
      BY <1>5, <1>13, <2>1, <2>3 DEF Trusted, Again
    <3>2. UNCHANGED <<old, rows, draft, mode>>
      BY <1>1, <2>3 DEF New
    <3>3. \A f, r : Followed(f, r)' <=> Followed(f, r)
      BY <3>2 DEF Followed, Holders, Unresolved, HasKey, KeyOf, Mapped, Lost
    <3>4. \A f, r : Holders(KeyOf(f, r))' = Holders(KeyOf(f, r))
      BY <3>2 DEF Holders, KeyOf, Mapped
    <3> QED BY <2>1, <2>3, <3>1, <3>2, <3>3, <3>4 DEF Settled, MergeIInv
  <2>4. CASE mode # "find"
    <3>1. Trusted
      BY <2>1, <2>4 DEF Trusted
    <3>2. /\ last.refused # {} /\ last.idMap[at] = NoPK
          /\ draft' = draft \cup {p} /\ log' = log \cup {at}
      BY <1>5, <1>13, <2>4, <3>1 DEF Again, New
    <3>3. ASSUME NEW r \in OldRows, Holders(KeyOf(last.idMap, r)) # {}
          PROVE  Holders(KeyOf(last.idMap, r))' = Holders(KeyOf(last.idMap, r))
      <4>0. PICK j : j = KeyOf(last.idMap, r)
        OBVIOUS
      <4>1. j # k
        BY <1>1, <1>7, <3>1, <3>3, <4>0
      <4>2. KeyOf(last.idMap, r)' = j
        BY <1>1, <4>0 DEF KeyOf, Mapped
      <4>3. \A q \in PKs : (rows'[q] # Absent /\ rows'[q].key = j) <=> (rows[q] # Absent /\ rows[q].key = j)
        BY <1>2, <1>8, <3>1, <4>1
      <4> QED BY <4>0, <4>2, <4>3 DEF Holders
    <3>4. ASSUME NEW r \in OldRows
          PROVE  /\ KeyOf(last.idMap, r)' = KeyOf(last.idMap, r)
                 /\ Unresolved(last.idMap, r)' <=> Unresolved(last.idMap, r)
                 /\ HasKey(r)' <=> HasKey(r)
      <4>1. old' = old /\ last'.idMap = last.idMap
        BY <1>1
      <4> QED BY <4>1 DEF KeyOf, Unresolved, HasKey, Mapped, Lost
    <3>5. ASSUME NEW r \in OldRows, Followed(last.idMap, r) PROVE Followed(last.idMap, r)'
      <4>1. CASE Unresolved(last.idMap, r) \/ ~HasKey(r)
        BY <2>1, <3>4, <3>5, <4>1 DEF Followed
      <4>2. CASE ~Unresolved(last.idMap, r) /\ HasKey(r)
        <5>1. /\ Holders(KeyOf(last.idMap, r)) # {}
              /\ last.idMap[r] = First(Holders(KeyOf(last.idMap, r)))
          BY <3>5, <4>2 DEF Followed
        <5>2. Holders(KeyOf(last.idMap, r))' = Holders(KeyOf(last.idMap, r))
          BY <3>3, <5>1
        <5> QED BY <2>1, <3>4, <4>2, <5>1, <5>2 DEF Followed
      <4> QED BY <4>1, <4>2
    <3>6. ASSUME NEW r \in OldRows, last.idMap[r] # NoPK
          PROVE  Holders(KeyOf(last.idMap, r))' \cap draft' = {}
      <4>1. Followed(last.idMap, r) /\ Holders(KeyOf(last.idMap, r)) \cap draft = {}
        BY <1>13, <3>6 DEF Settled, MergeIInv
      <4>2. Holders(KeyOf(last.idMap, r)) # {}
        BY <3>6, <4>1 DEF Followed
      <4>3. p \notin Holders(KeyOf(last.idMap, r))
        BY <1>2 DEF Holders
      <4> QED BY <3>2, <3>3, <4>1, <4>2, <4>3
    <3>7. \A r \in OldRows : r < at' /\ Again(r) => idMap'[r] = last.idMap[r]
      BY <1>3, <1>4, <1>5, <1>13, <3>1 DEF Settled, MergeIInv
    <3>8. \A r \in log' : last.idMap[r] = NoPK
      BY <1>13, <2>4, <3>2 DEF Settled, MergeIInv
    <3>9. /\ \A r \in OldRows : r \in last.refused => last.idMap[r] = NoPK
          /\ \A r \in OldRows : r \in last.refused \/ Followed(last.idMap, r)
      BY <1>13 DEF Settled, MergeIInv
    <3>10. \A r \in OldRows : r \in last.refused \/ Followed(last.idMap, r)'
      BY <3>5, <3>9
    <3> QED BY <2>1, <2>2, <3>2, <3>6, <3>7, <3>8, <3>9, <3>10 DEF Settled
  <2> QED BY <2>3, <2>4
<1>14. Settled'
  BY <1>1, <1>13 DEF Settled
<1> QED BY <1>4, <1>6, <1>11, <1>12, <1>14 DEF MergeIInv

LEMMA LoadStep == ASSUME MergeIInv, MergeTypeOK', LoadIndex PROVE MergeIInv'
<1>1. UNCHANGED <<old, rows, draft, mode, at, idMap, log, refused, last, written>>
        /\ index' = Indexed(Target[loaded'])
  BY DEF LoadIndex
<1>2. \A f, r : Followed(f, r)' <=> Followed(f, r)
  BY <1>1 DEF Followed, Holders, Unresolved, HasKey, KeyOf, Mapped, Lost
<1>3. IndexIsTable'
  BY <1>1 DEF IndexIsTable, Indexed, Stored
<1>4. Settled'
  <2>1. last.mode = "merge" /\ Trusted =>
          \A r \in OldRows : r < at' /\ Again(r) => idMap'[r] = last.idMap[r]
    BY <1>1 DEF Settled, MergeIInv
  <2> QED BY <1>1, <2>1, SettledStays DEF MergeIInv
<1> QED BY <1>1, <1>2, <1>3, <1>4 DEF MergeIInv, Undone, RunFollows, Quiet, Trusted

\* Refused: not a row the merge before it found or inserted.
LEMMA FailStep == ASSUME MergeIInv, MergeTypeOK', Fail PROVE MergeIInv'
<1>1. /\ Turn /\ Comparable /\ Matches(KeyOf(idMap, at)) = {}
      /\ mode # "find" /\ at' = at + 1 /\ refused' = refused \cup {at}
      /\ UNCHANGED <<old, rows, draft, mode, loaded, index, idMap, log, last, written>>
  BY DEF Fail
<1>2. /\ Undone'
      /\ \A r \in OldRows : r < at' => r < at \/ r = at
  BY <1>1, BeforeStands
<1>3. ASSUME last.mode = "merge", Trusted, Again(at) PROVE FALSE
  <2>1. /\ Followed(last.idMap, at) /\ KeyOf(idMap, at) = KeyOf(last.idMap, at)
        /\ ~Unresolved(last.idMap, at)
    BY <1>1, <1>3, SameAgain DEF Comparable
  <2> QED BY <1>1, <1>3, <2>1, IndexFinds DEF Followed, Comparable
<1>4. Settled'
  <2>1. last.mode = "merge" /\ Trusted =>
          \A r \in OldRows : r < at' /\ Again(r) => idMap'[r] = last.idMap[r]
    BY <1>1, <1>2, <1>3 DEF Settled, MergeIInv
  <2> QED BY <1>1, <2>1, SettledStays DEF MergeIInv
<1>5. \A f, r : Followed(f, r)' <=> Followed(f, r)
  BY <1>1 DEF Followed, Holders, Unresolved, HasKey, KeyOf, Mapped, Lost
<1>6. RunFollows'
  BY <1>1, <1>2, <1>5 DEF RunFollows, Trusted, MergeIInv
<1>7. IndexIsTable' /\ Quiet'
  BY <1>1 DEF IndexIsTable, Quiet, Trusted, Indexed, Stored, MergeIInv
<1> QED BY <1>2, <1>4, <1>6, <1>7 DEF MergeIInv

LEMMA BeginStep ==
  ASSUME MergeIInv, MergeTypeOK', NEW m \in Runs, Begin(m) PROVE MergeIInv'
<1>1. /\ mode = "idle" /\ mode' = m /\ at' = 1 /\ loaded' = "none" /\ idMap' = NoMap
      /\ log' = {} /\ refused' = {} /\ draft' = {} /\ written' = FALSE /\ UNCHANGED <<old, rows, last>>
  BY DEF Begin, Ready
<1>2. \A f, r : Followed(f, r)' <=> Followed(f, r)
  BY <1>1 DEF Followed, Holders, Unresolved, HasKey, KeyOf, Mapped, Lost
<1>3. \A r \in OldRows : ~(r < 1)
  BY DEF OldRows
<1>4. Settled'
  BY <1>1, <1>2, <1>3 DEF Settled, MergeIInv
<1> QED BY <1>1, <1>2, <1>3, <1>4 DEF MergeIInv, Undone, NoMap, IndexIsTable, RunFollows, Quiet

LEMMA EndStep == ASSUME MergeIInv, MergeTypeOK', EndRun \/ Stop PROVE MergeIInv'
<1>1. /\ mode # "idle" /\ mode' = "idle" /\ at' = 1 /\ idMap' = NoMap
      /\ log' = {} /\ refused' = {} /\ draft' = {} /\ written' = FALSE /\ UNCHANGED old
  BY DEF EndRun, Stop, Over, Ready
<1>2. Undone' /\ IndexIsTable' /\ RunFollows' /\ Quiet'
  BY <1>1 DEF Undone, NoMap, IndexIsTable, RunFollows, Quiet, Trusted
<1>3. ~Trusted'
  BY <1>1 DEF Trusted
\* The rows a stopped run inserted are of no key of the merge before it.
<1>4. CASE Stop
  <2>1. last' = last /\ rows' = WithoutDraft
    BY <1>4 DEF Stop
  <2>2. ASSUME last.mode = "merge" PROVE Settled'
    <3>1. ASSUME NEW r \in OldRows
          PROVE  /\ KeyOf(last.idMap, r)' = KeyOf(last.idMap, r)
                 /\ Unresolved(last.idMap, r)' <=> Unresolved(last.idMap, r)
                 /\ HasKey(r)' <=> HasKey(r)
      <4>1. old' = old /\ last'.idMap = last.idMap
        BY <1>1, <2>1
      <4> QED BY <4>1 DEF KeyOf, Unresolved, HasKey, Mapped, Lost
    <3>2. ASSUME NEW r \in OldRows, last.idMap[r] # NoPK
          PROVE  Holders(KeyOf(last.idMap, r))' = Holders(KeyOf(last.idMap, r))
      <4>1. Holders(KeyOf(last.idMap, r)) \cap draft = {}
        BY <2>2, <3>2 DEF Settled, MergeIInv
      <4>2. \A q \in PKs : rows'[q] = IF q \in draft THEN Absent ELSE rows[q]
        BY <2>1 DEF WithoutDraft
      <4>3. PICK j : j = KeyOf(last.idMap, r)
        OBVIOUS
      <4>4. KeyOf(last.idMap, r)' = j
        BY <3>1, <4>3
      <4>5. \A q \in PKs : (rows'[q] # Absent /\ rows'[q].key = j) <=> (rows[q] # Absent /\ rows[q].key = j)
        BY <4>1, <4>2, <4>3 DEF Holders
      <4> QED BY <4>3, <4>4, <4>5 DEF Holders
    <3>3. ASSUME NEW r \in OldRows, Followed(last.idMap, r) PROVE Followed(last.idMap, r)'
      <4>1. CASE last.idMap[r] # NoPK
        <5>1. /\ Holders(KeyOf(last.idMap, r)) # {} /\ ~Unresolved(last.idMap, r) /\ HasKey(r)
              /\ last.idMap[r] = First(Holders(KeyOf(last.idMap, r)))
          BY <3>3, <4>1 DEF Followed
        <5>2. Holders(KeyOf(last.idMap, r))' = Holders(KeyOf(last.idMap, r))
          BY <3>2, <4>1
        <5>3. ~Unresolved(last.idMap, r)' /\ HasKey(r)' /\ last' = last
          BY <2>1, <3>1, <5>1
        <5> QED BY <5>1, <5>2, <5>3 DEF Followed
      <4>2. CASE last.idMap[r] = NoPK
        <5>1. Holders(KeyOf(last.idMap, r)) # {} =>
                First(Holders(KeyOf(last.idMap, r))) \in Holders(KeyOf(last.idMap, r))
          BY FirstOf
        <5>2. NoPK \notin Holders(KeyOf(last.idMap, r))
          BY MergeAssumption DEF Holders
        <5>3. Unresolved(last.idMap, r) \/ ~HasKey(r)
          BY <3>3, <4>2, <5>1, <5>2 DEF Followed
        <5>4. Unresolved(last.idMap, r)' \/ ~HasKey(r)'
          BY <3>1, <5>3
        <5>5. last'.idMap[r] = NoPK
          BY <2>1, <4>2
        <5> QED BY <5>4, <5>5 DEF Followed
      <4> QED BY <4>1, <4>2
    <3>4. /\ \A r \in OldRows : r \in last.refused => last.idMap[r] = NoPK
          /\ \A r \in OldRows : r \in last.refused \/ Followed(last.idMap, r)
      BY <2>2 DEF Settled, MergeIInv
    <3>5. \A r \in OldRows : r \in last.refused \/ Followed(last.idMap, r)'
      BY <3>3, <3>4
    <3> QED BY <1>1, <1>3, <2>1, <3>4, <3>5 DEF Settled
  <2> QED BY <1>2, <2>1, <2>2 DEF MergeIInv, Settled
<1>5. CASE EndRun
  <2>1. at = N + 1 /\ (mode = "merge" => rows' = rows)
          /\ last' = IF written THEN Unwritten
                      ELSE [mode |-> mode, log |-> log, refused |-> refused, idMap |-> idMap]
    BY <1>5 DEF EndRun
  <2>2. CASE written \/ mode # "merge"
    <3>1. last'.mode # "merge"
      BY <2>1, <2>2, Blanks
    <3> QED BY <1>2, <3>1 DEF MergeIInv, Settled
  <2>3. CASE ~written /\ mode = "merge"
    <3>1. Trusted /\ last'.idMap = idMap /\ last'.refused = refused
      BY <2>1, <2>3 DEF Trusted
    <3>2. \A r \in OldRows : r < at
      BY <2>1, MergeAssumption DEF OldRows
    <3>3. \A r \in OldRows : r \in refused \/ Followed(last'.idMap, r)
      BY <3>1, <3>2 DEF RunFollows, MergeIInv
    <3>4. ASSUME NEW r \in OldRows, r \notin refused PROVE Followed(last.idMap, r)'
      <4>1. rows' = rows /\ old' = old
        BY <1>1, <2>1, <2>3
      <4>2. /\ KeyOf(last.idMap, r)' = KeyOf(idMap, r)
            /\ Unresolved(last.idMap, r)' <=> Unresolved(idMap, r)
            /\ HasKey(r)' <=> HasKey(r)
        BY <3>1, <4>1 DEF KeyOf, Unresolved, HasKey, Mapped, Lost
      <4>3. Holders(KeyOf(last.idMap, r))' = Holders(KeyOf(idMap, r))
        BY <4>1, <4>2 DEF Holders
      <4>4. Followed(idMap, r)
        BY <3>1, <3>3, <3>4
      <4> QED BY <3>1, <4>2, <4>3, <4>4 DEF Followed
    <3>5. \A r \in OldRows : r \in last'.refused => last'.idMap[r] = NoPK
      BY <3>1 DEF Undone, MergeIInv
    <3>6. Settled'
      BY <1>1, <1>3, <3>1, <3>4, <3>5 DEF Settled
    <3> QED BY <1>2, <3>6 DEF MergeIInv
  <2> QED BY <2>2, <2>3 DEF MergeIInv, MergeTypeOK
<1> QED BY <1>4, <1>5

LEMMA WriteStep ==
  ASSUME MergeIInv, MergeTypeOK', Writes PROVE MergeIInv'
<1>1. /\ written' = TRUE /\ last'.mode = "none"
      /\ UNCHANGED <<draft, mode, at, idMap, log, refused>>
  BY Blanks DEF Writes, runVars
<1>2. ~Trusted' /\ last'.mode # "merge"
  BY <1>1 DEF Trusted
<1>3. Undone' /\ Quiet'
  BY <1>1 DEF MergeIInv, Undone, Quiet
<1> QED BY <1>2, <1>3 DEF MergeIInv, IndexIsTable, RunFollows, Settled

LEMMA MergeStays == MergeIInv /\ [MergeNext]_mergeVars => MergeIInv'
<1> SUFFICES ASSUME MergeIInv, [MergeNext]_mergeVars PROVE MergeIInv'
  OBVIOUS
<1>1. CASE UNCHANGED mergeVars
  <2>1. UNCHANGED <<old, rows, draft, mode, at, loaded, index, idMap, log, refused, last, written, writes>>
    BY <1>1 DEF mergeVars
  <2>2. \A f, r : Followed(f, r)' <=> Followed(f, r)
    BY <2>1 DEF Followed, Holders, Unresolved, HasKey, KeyOf, Mapped, Lost
  <2>3. MergeTypeOK'
    BY <2>1 DEF MergeIInv, MergeTypeOK
  <2>4. Undone' /\ IndexIsTable' /\ Quiet'
    BY <2>1 DEF MergeIInv, Undone, IndexIsTable, Indexed, Stored, Quiet, Trusted
  <2>5. RunFollows'
    BY <2>1, <2>2 DEF MergeIInv, RunFollows, Trusted
  <2>6. Settled'
    <3>1. last.mode = "merge" /\ Trusted =>
            \A r \in OldRows : r < at' /\ Again(r) => idMap'[r] = last.idMap[r]
      BY <2>1 DEF Settled, MergeIInv
    <3> QED BY <2>1, <3>1, SettledStays DEF MergeIInv
  <2> QED BY <2>3, <2>4, <2>5, <2>6 DEF MergeIInv
<1>2. CASE MergeNext
  <2>1. MergeTypeOK'
    BY <1>2, MergeTypeStep DEF MergeIInv
  <2> QED BY <1>2, <2>1, BeginStep, LoadStep, SkipStep, DuplicateStep, NewStep, FailStep, EndStep,
             WriteStep DEF MergeNext, Register, Rename
<1> QED BY <1>1, <1>2

THEOREM Repeatable == MergeSpec => []MergeIInv
BY InitOK, MergeStays, PTL DEF MergeSpec

\* Every column of a run and of v2 holds an allowed value.
THEOREM MergeTypes == MergeSpec => []MergeTypeOK
BY Repeatable, PTL DEF MergeIInv

\* Running merge.py again after a commit inserts nothing, whatever the old
\* database and v2 hold and wherever runs were stopped before, if v2 refused no
\* row of the merge; if it refused some, nothing the merge found or inserted.
THEOREM NothingTwice == MergeSpec => []SecondRunInsertsNothing
<1>1. MergeIInv => SecondRunInsertsNothing
  BY DEF MergeIInv, Settled, SecondRunInsertsNothing
<1> QED BY <1>1, Repeatable, PTL

\* A row and its children stay together: each follows the v2 row of its own key.
THEOREM Alike == MergeSpec => []MappedAlike
<1>1. MergeIInv => MappedAlike
  <2> SUFFICES ASSUME MergeIInv, mode \in {"dry", "merge"}, ~written,
                      NEW r \in OldRows, idMap[r] # NoPK
               PROVE  rows[idMap[r]] # Absent /\ rows[idMap[r]].key = KeyOf(idMap, r)
    BY DEF MappedAlike
  <2>1. Trusted
    BY DEF Trusted
  <2>2. r < at
    BY MergeAssumption DEF MergeIInv, Undone, MergeTypeOK, OldRows
  <2>3. Followed(idMap, r)
    BY <2>1, <2>2 DEF MergeIInv, RunFollows, Undone
  <2>4. idMap[r] \in Holders(KeyOf(idMap, r))
    BY <2>3, FirstOf DEF Followed
  <2> QED BY <2>4 DEF Holders
<1> QED BY <1>1, Repeatable, PTL

-----------------------------------------------------------------------------
(* What a rehearsal or a search foretold.  A run is recorded against the v2   *)
(* it began with: which of its rows v2 held already, which were new, and      *)
(* which followed an earlier old row of the same key.                         *)

Compared(map, r) == ~Unresolved(map, r) /\ HasKey(r)
HeldIn(b, k) == {p \in PKs : b[p] # Absent /\ b[p].key = k}

Recorded(b, map, lg, r) ==
  /\ ~Compared(map, r) => map[r] = NoPK /\ r \notin lg
  /\ Compared(map, r) =>
       /\ map[r] \in PKs
       /\ HeldIn(b, KeyOf(map, r)) # {} =>
            map[r] = First(HeldIn(b, KeyOf(map, r))) /\ r \notin lg
       /\ r \in lg => b[map[r]] = Absent /\ \A s \in OldRows : s < r => map[s] # map[r]
       /\ r \notin lg /\ HeldIn(b, KeyOf(map, r)) = {} =>
            \E s \in OldRows : /\ s < r /\ Compared(map, s)
                               /\ KeyOf(map, s) = KeyOf(map, r) /\ map[s] = map[r]

\* A run that inserts gives every key one row.
Single(map, lg, r) ==
  Compared(map, r) =>
    \A s \in OldRows : s < r /\ Compared(map, s) /\ KeyOf(map, s) = KeyOf(map, r) =>
      map[s] = map[r] /\ r \notin lg

\* The two runs treat row r alike: the same row of v2 or the same new one, and
\* what the later one logs the earlier one did.
Same(b, f, lf, m, lm, r) ==
  /\ Compared(f, r) <=> Compared(m, r)
  /\ f[r] # NoPK /\ b[f[r]] # Absent => m[r] = f[r]
  /\ \A s \in OldRows : s < r /\ f[s] = f[r] => m[s] = m[r]
  /\ r \in lm => r \in lf

LEMMA LeastRow ==
  ASSUME NEW B, B \subseteq OldRows, B # {}
  PROVE  \E r \in B : \A s \in B : r <= s
<1> DEFINE F == {0..r : r \in B}
<1>1. F \subseteq FiniteSubsetsOf(Nat) /\ F # {}
  <2> SUFFICES ASSUME NEW r \in B PROVE 0..r \in FiniteSubsetsOf(Nat)
    OBVIOUS
  <2>1. r \in Nat
    BY DEF OldRows
  <2>2. IsFiniteSet(0..r)
    BY <2>1, FS_Interval
  <2> QED BY <2>1, <2>2 DEF FiniteSubsetsOf
<1>2. PICK S \in F : \A T \in F : ~(T \subseteq S /\ T # S)
  <2> HIDE DEF F
  <2> QED BY <1>1, SmallestMember
<1>3. PICK r \in B : S = 0..r
  BY <1>2
<1>4. ASSUME NEW s \in B, s < r PROVE FALSE
  <2>1. r \in Nat /\ s \in Nat
    BY DEF OldRows
  <2>2. 0..s \subseteq 0..r
    BY <1>4, <2>1
  <2>3. r \in 0..r /\ r \notin 0..s
    BY <1>4, <2>1
  <2> QED BY <1>2, <1>3, <2>2, <2>3
<1> QED BY <1>4 DEF OldRows

LEMMA NothingIsNotCompared ==
  ASSUME NEW b, NEW map, NEW lg, NEW r, Recorded(b, map, lg, r)
  PROVE  map[r] = NoPK <=> ~Compared(map, r)
BY MergeAssumption DEF Recorded

LEMMA SameStep ==
  ASSUME MergeTypeOK, NEW b, Related(b),
         NEW C \in SUBSET OldRows, \A r \in C, s \in OldRows : s < r => s \in C,
         NEW f \in Maps, NEW lf, NEW m \in Maps, NEW lm,
         \A r \in C : Recorded(b, f, lf, r) /\ Recorded(b, m, lm, r) /\ Single(m, lm, r),
         NEW r \in C,
         \A s \in OldRows : s < r => Same(b, f, lf, m, lm, s)
  PROVE  Same(b, f, lf, m, lm, r)
<1> DEFINE kf == KeyOf(f, r)
           km == KeyOf(m, r)
<1>1. /\ old[r].above \in 0..N /\ old[r].above < r
      /\ old[r].user \in 0..N /\ old[r].user < r
  BY OldType
<1>2. \A s \in OldRows : s < r =>
        /\ s \in C
        /\ f[s] = NoPK <=> ~Compared(f, s)
        /\ m[s] = NoPK <=> ~Compared(m, s)
  BY NothingIsNotCompared DEF OldRows
<1>3. \A s \in OldRows : s < r => (f[s] = NoPK <=> m[s] = NoPK)
  BY <1>2 DEF Same
<1>4. \A a \in 0..N : a < r => (Lost(f, a) <=> Lost(m, a))
  BY <1>3, MergeAssumption DEF Lost, OldRows
<1>5. Compared(f, r) <=> Compared(m, r)
  BY <1>1, <1>4 DEF Compared, Unresolved
<1>6. Recorded(b, f, lf, r) /\ Recorded(b, m, lm, r) /\ Single(m, lm, r)
  OBVIOUS
<1>7. CASE ~Compared(f, r)
  <2>1. f[r] = NoPK /\ m[r] = NoPK /\ r \notin lm
    BY <1>5, <1>6, <1>7 DEF Recorded
  <2> QED BY <1>3, <1>5, <2>1 DEF Same
<1>8. CASE Compared(f, r) /\ HeldIn(b, kf) # {}
  <2>1. f[r] = First(HeldIn(b, kf)) /\ f[r] \in PKs
    BY <1>6, <1>8 DEF Recorded
  <2>2. f[r] \in HeldIn(b, kf)
    BY <1>8, <2>1, FirstOf
  <2>3. b[f[r]] # Absent /\ b[f[r]].key = kf
    BY <2>2 DEF HeldIn
  <2>4. \A q \in {kf.above, kf.user} : q # NoPK => b[q] # Absent
    BY <2>1, <2>3 DEF Related
  <2>5. \A a \in 0..N : a < r /\ Mapped(f, a) \in {kf.above, kf.user} => Mapped(m, a) = Mapped(f, a)
    <3> SUFFICES ASSUME NEW a \in 0..N, a < r, Mapped(f, a) \in {kf.above, kf.user}, a # 0
                 PROVE  m[a] = f[a]
      BY DEF Mapped
    <3>1. a \in OldRows /\ f[a] \in {kf.above, kf.user}
      BY MergeAssumption DEF Mapped, OldRows
    <3>2. CASE f[a] = NoPK
      BY <1>3, <3>1, <3>2
    <3>3. CASE f[a] # NoPK
      <4>1. b[f[a]] # Absent
        BY <2>4, <3>1, <3>3
      <4> QED BY <3>1, <3>3, <4>1 DEF Same
    <3> QED BY <3>2, <3>3
  <2>6. kf.above = Mapped(f, old[r].above)
          /\ (Target[old[r].mapping] = "membership" => kf.user = Mapped(f, old[r].user))
    BY DEF KeyOf
  <2>7. km = kf
    <3>1. Mapped(m, old[r].above) = Mapped(f, old[r].above)
      BY <1>1, <2>5, <2>6
    <3>2. Target[old[r].mapping] = "membership" => Mapped(m, old[r].user) = Mapped(f, old[r].user)
      BY <1>1, <2>5, <2>6
    <3> QED BY <3>1, <3>2 DEF KeyOf
  <2>8. m[r] = f[r] /\ r \notin lm
    <3> HIDE DEF kf, km
    <3>1. Recorded(b, m, lm, r) /\ Compared(m, r) /\ HeldIn(b, km) # {}
      BY <1>5, <1>6, <1>8, <2>7
    <3>2. m[r] = First(HeldIn(b, km)) /\ r \notin lm
      BY <3>1 DEF Recorded, km
    <3> QED BY <2>1, <2>7, <3>2
  <2>9. \A s \in OldRows : s < r /\ f[s] = f[r] => m[s] = m[r]
    <3> SUFFICES ASSUME NEW s \in OldRows, s < r, f[s] = f[r] PROVE m[s] = m[r]
      OBVIOUS
    <3>1. f[s] # NoPK /\ b[f[s]] # Absent
      BY <2>1, <2>3, MergeAssumption
    <3> QED BY <2>8, <3>1 DEF Same
  <2> QED BY <1>5, <2>8, <2>9 DEF Same
<1>9. CASE Compared(f, r) /\ HeldIn(b, kf) = {} /\ r \in lf
  <2>1. b[f[r]] = Absent /\ \A s \in OldRows : s < r => f[s] # f[r]
    BY <1>6, <1>9 DEF Recorded
  <2> QED BY <1>5, <1>9, <2>1 DEF Same
<1>10. CASE Compared(f, r) /\ HeldIn(b, kf) = {} /\ r \notin lf
  <2>1. PICK s \in OldRows : s < r /\ Compared(f, s) /\ KeyOf(f, s) = kf /\ f[s] = f[r]
    BY <1>6, <1>10 DEF Recorded
  <2>2. /\ old[s].above \in 0..N /\ old[s].above < r
        /\ old[s].user \in 0..N /\ old[s].user < r
    BY <2>1, OldType DEF OldRows
\* Parents that follow one row in the earlier run do in the later one.
  <2>3. ASSUME NEW a \in 0..N, NEW c \in 0..N, a < r, c < r, ~Lost(f, a), ~Lost(f, c),
               Mapped(f, a) = Mapped(f, c)
        PROVE  Mapped(m, a) = Mapped(m, c)
    <3>1. (a # 0 => a \in OldRows /\ f[a] # NoPK) /\ (c # 0 => c \in OldRows /\ f[c] # NoPK)
      BY <2>3, MergeAssumption DEF Lost, OldRows
    <3>2. CASE a = 0 \/ c = 0
      BY <2>3, <3>1, <3>2 DEF Mapped
    <3>3. CASE a # 0 /\ c # 0
      <4>1. f[a] = f[c]
        BY <2>3, <3>3 DEF Mapped
      <4>2. a < c \/ c < a \/ a = c
        OBVIOUS
      <4>3. m[a] = m[c]
        BY <2>3, <3>1, <3>3, <4>1, <4>2 DEF Same
      <4> QED BY <3>3, <4>3 DEF Mapped
    <3> QED BY <3>2, <3>3
  <2>4. /\ ~Lost(f, old[s].above) /\ ~Lost(f, old[r].above)
        /\ Target[old[s].mapping] = "membership" => ~Lost(f, old[s].user)
        /\ Target[old[r].mapping] = "membership" => ~Lost(f, old[r].user)
    BY <1>10, <2>1 DEF Compared, Unresolved
  <2>5. /\ Target[old[s].mapping] = Target[old[r].mapping]
        /\ old[s].data = old[r].data
        /\ Mapped(f, old[s].above) = Mapped(f, old[r].above)
        /\ Target[old[r].mapping] = "membership" => Mapped(f, old[s].user) = Mapped(f, old[r].user)
    BY <2>1 DEF KeyOf
  <2>6. KeyOf(m, s) = km
    <3>1. Mapped(m, old[s].above) = Mapped(m, old[r].above)
      BY <1>1, <2>2, <2>3, <2>4, <2>5
    <3>2. Target[old[r].mapping] = "membership" => Mapped(m, old[s].user) = Mapped(m, old[r].user)
      BY <1>1, <2>2, <2>3, <2>4, <2>5
    <3> QED BY <2>5, <3>1, <3>2 DEF KeyOf
  <2>7. Compared(m, s) /\ Compared(m, r)
    BY <1>5, <1>10, <2>1 DEF Same
  <2>8. m[s] = m[r] /\ r \notin lm
    BY <1>6, <2>1, <2>6, <2>7 DEF Single
  <2>9. f[r] # NoPK /\ b[f[r]] # Absent => m[r] = f[r]
    BY <2>1, <2>8 DEF Same
  <2>10. ASSUME NEW t \in OldRows, t < r, f[t] = f[r] PROVE m[t] = m[r]
    <3>1. s \in Nat /\ t \in Nat
      BY DEF OldRows
    <3>2. t < s \/ s < t \/ s = t
      BY <3>1
    <3> QED BY <2>1, <2>8, <2>10, <3>2 DEF Same
  <2> QED BY <1>5, <2>8, <2>9, <2>10 DEF Same
<1> QED BY <1>7, <1>8, <1>9, <1>10

\* Two runs from one v2 treat every row alike, by the first row they differ on.
LEMMA Foretold ==
  ASSUME MergeTypeOK, NEW b, Related(b),
         NEW C \in SUBSET OldRows, \A r \in C, s \in OldRows : s < r => s \in C,
         NEW f \in Maps, NEW lf, NEW m \in Maps, NEW lm,
         \A r \in C : Recorded(b, f, lf, r) /\ Recorded(b, m, lm, r) /\ Single(m, lm, r)
  PROVE  \A r \in C : r \in lm => r \in lf
<1> DEFINE B == {r \in C : ~Same(b, f, lf, m, lm, r)}
<1>1. B = {}
  <2> SUFFICES ASSUME B # {} PROVE FALSE
    OBVIOUS
  <2>1. PICK r \in B : \A s \in B : r <= s
    BY LeastRow
  <2>2. r \in C /\ ~Same(b, f, lf, m, lm, r)
    BY <2>1
  <2>3. \A s \in OldRows : s < r => Same(b, f, lf, m, lm, s)
    BY <2>1, <2>2 DEF OldRows
  <2> QED BY <2>2, <2>3, SameStep
<1> QED BY <1>1 DEF Same

-----------------------------------------------------------------------------
\* The inductive invariant behind it.  v2's foreign keys hold with and without
\* the rows of the transaction, and a run only follows rows that are there.
StoreSound ==
  /\ Related(rows) /\ Related(WithoutDraft) /\ draft \subseteq Stored
  /\ mode \in {"dry", "merge"} =>
       /\ \A r \in OldRows : idMap[r] # NoPK => idMap[r] \in Stored
       /\ \A x \in index : x[2] \in Stored

\* A run alone with v2 is recorded so far: the keys of its new rows are new to
\* v2, and the index of a search is v2's table and the rows found missing.
RunSound ==
  /\ \A r \in log : r < at
  /\ mode # "idle" /\ ~written => \A r \in OldRows : r < at /\ Before(r, refused) =>
       Recorded(WithoutDraft, idMap, log, r) /\ (mode # "find" => Single(idMap, log, r))
  /\ mode \in {"dry", "merge"} /\ ~written => \A p \in draft :
       /\ HeldIn(WithoutDraft, rows[p].key) = {}
       /\ \E s \in log : idMap[s] = p /\ Compared(idMap, s) /\ KeyOf(idMap, s) = rows[p].key
  /\ mode = "find" /\ ~written /\ loaded # "none" =>
       /\ Indexed(Target[loaded]) \subseteq index
       /\ \A x \in index : \/ x \in Indexed(Target[loaded])
                           \/ \E s \in log : x = <<KeyOf(idMap, s), idMap[s]>>

\* So is the search or rehearsal before it.
LastSound ==
  last.mode \in {"find", "dry"} => \A r \in OldRows : Before(r, last.refused) =>
    /\ Recorded(WithoutDraft, last.idMap, last.log, r)
    /\ last.mode = "dry" => Single(last.idMap, last.log, r)

ForetoldIInv == MergeIInv /\ StoreSound /\ RunSound /\ LastSound

LEMMA RecordStands ==
  ASSUME MergeTypeOK, UNCHANGED old
  PROVE  \A b, f, l, r : /\ Recorded(b, f, l, r)' <=> Recorded(b, f, l, r)
                         /\ Single(f, l, r)' <=> Single(f, l, r)
                         /\ Compared(f, r)' <=> Compared(f, r)
                         /\ KeyOf(f, r)' = KeyOf(f, r)
BY DEF Recorded, Single, Compared, Unresolved, HasKey, KeyOf, Mapped, Lost, HeldIn

\* What is recorded of a row rests on it and the rows before it.
LEMMA RecordKept ==
  ASSUME MergeTypeOK, NEW b, NEW f \in Maps, NEW l, NEW g \in Maps, NEW k, NEW r \in OldRows,
         \A s \in OldRows : s <= r => f[s] = g[s], r \in l <=> r \in k
  PROVE  /\ Recorded(b, f, l, r) => Recorded(b, g, k, r)
         /\ Single(f, l, r) => Single(g, k, r)
<1>1. \A s \in OldRows : s <= r =>
        /\ f[s] = g[s] /\ KeyOf(f, s) = KeyOf(g, s)
        /\ Compared(f, s) <=> Compared(g, s)
  <2> SUFFICES ASSUME NEW s \in OldRows, s <= r
               PROVE  /\ f[s] = g[s] /\ KeyOf(f, s) = KeyOf(g, s)
                      /\ Compared(f, s) <=> Compared(g, s)
    OBVIOUS
  <2>1. \A t \in OldRows : t < s => f[t] = g[t]
    BY DEF OldRows
  <2> QED BY <2>1, RestsOnParents DEF Compared
<1>2. r <= r /\ \A s \in OldRows : s < r => s <= r
  BY DEF OldRows
<1>3. f[r] = g[r] /\ KeyOf(f, r) = KeyOf(g, r) /\ (Compared(f, r) <=> Compared(g, r))
  BY <1>1, <1>2
<1>4. \A s \in OldRows : s < r =>
        /\ f[s] = g[s] /\ KeyOf(f, s) = KeyOf(g, s)
        /\ Compared(f, s) <=> Compared(g, s)
  BY <1>1, <1>2
<1>5. ASSUME Recorded(b, f, l, r) PROVE Recorded(b, g, k, r)
  BY <1>3, <1>4, <1>5 DEF Recorded
<1>6. ASSUME Single(f, l, r) PROVE Single(g, k, r)
  BY <1>3, <1>4, <1>6 DEF Single
<1> QED BY <1>5, <1>6

LEMMA RelatedWith ==
  ASSUME NEW b \in [PKs -> Row \cup {Absent}], Related(b), NEW p \in PKs, NEW row \in Row,
         \A q \in {row.key.above, row.key.user} : q # NoPK => b[q] # Absent
  PROVE  Related([b EXCEPT ![p] = row])
<1> DEFINE c == [b EXCEPT ![p] = row]
<1>1. c[p] = row /\ row # Absent /\ \A q \in PKs : q # p => c[q] = b[q]
  BY Present
<1>2. \A q \in PKs : b[q] # Absent => c[q] # Absent
  BY <1>1
<1>3. ASSUME NEW s \in PKs, c[s] # Absent, NEW q \in {c[s].key.above, c[s].key.user}, q # NoPK
      PROVE  c[q] # Absent
  <2>1. c[s] \in Row
    BY <1>1, <1>3
  <2>2. q \in PKs
    BY <1>3, <2>1 DEF Row, Key
  <2>3. CASE s = p
    BY <1>1, <1>2, <1>3, <2>2, <2>3
  <2>4. CASE s # p
    <3>1. b[s] # Absent /\ q \in {b[s].key.above, b[s].key.user}
      BY <1>1, <1>3, <2>4
    <3> QED BY <1>2, <1>3, <2>2, <3>1 DEF Related
  <2> QED BY <2>3, <2>4
<1> HIDE DEF c
<1>4. Related(c)
  BY <1>3 DEF Related
<1> QED BY <1>4 DEF c

\* The type invariant's parts these proofs use.
LEMMA MergeParts ==
  ASSUME MergeIInv
  PROVE  /\ MergeTypeOK /\ Quiet /\ Undone /\ RunFollows
         /\ idMap \in Maps /\ last.idMap \in Maps /\ at \in Nat /\ N \in Nat
         /\ log \subseteq OldRows /\ draft \subseteq PKs
         /\ rows \in [PKs -> Row \cup {Absent}] /\ WithoutDraft \in [PKs -> Row \cup {Absent}]
BY MergeAssumption DEF MergeIInv, MergeTypeOK, Maps, WithoutDraft

LEMMA SoundFromTheStart == MergeInit => StoreSound /\ RunSound /\ LastSound
<1> SUFFICES ASSUME MergeInit PROVE StoreSound /\ RunSound /\ LastSound
  OBVIOUS
<1>1. rows \in [PKs -> Row \cup {Absent}] /\ Related(rows)
  BY MergeAssumption DEF MergeInit
<1>2. WithoutDraft = rows
  BY <1>1 DEF MergeInit, WithoutDraft
<1> QED BY <1>1, <1>2, Blanks DEF MergeInit, StoreSound, RunSound, LastSound

\* What was recorded of the rows before the one a run takes stays.
LEMMA TakenStep ==
  ASSUME ForetoldIInv, MergeTypeOK', Turn, UNCHANGED <<old, mode, last, written>>, at' = at + 1,
         WithoutDraft' = WithoutDraft, \A s \in OldRows : s # at => idMap'[s] = idMap[s],
         log \subseteq log', log' \subseteq log \cup {at}, refused \subseteq refused',
         ~written /\ Before(at, refused') =>
           /\ Recorded(WithoutDraft, idMap', log', at)
           /\ mode # "find" => Single(idMap', log', at)
  PROVE  /\ \A r \in log' : r < at'
         /\ mode' # "idle" /\ ~written' => \A r \in OldRows : r < at' /\ Before(r, refused') =>
              Recorded(WithoutDraft, idMap, log, r)' /\ (mode' # "find" => Single(idMap, log, r)')
         /\ LastSound'
<1>1. /\ MergeTypeOK /\ idMap \in Maps /\ idMap' \in Maps /\ at \in OldRows /\ at \in Nat
      /\ log \subseteq OldRows
  BY MergeParts, MergeAssumption DEF ForetoldIInv, MergeTypeOK, Turn, Running, OldRows, Maps
<1>2. \A r \in log' : r < at'
  <2>1. \A r \in log : r < at /\ r \in Nat
    BY <1>1 DEF ForetoldIInv, RunSound, OldRows
  <2> QED BY <1>1, <2>1
<1>3. \A b, f, l, r : /\ Recorded(b, f, l, r)' <=> Recorded(b, f, l, r)
                      /\ Single(f, l, r)' <=> Single(f, l, r)
  BY <1>1, RecordStands
<1>4. ASSUME mode # "idle", ~written, NEW r \in OldRows, r < at', Before(r, refused')
      PROVE  /\ Recorded(WithoutDraft, idMap', log', r)
             /\ mode # "find" => Single(idMap', log', r)
  <2>1. CASE r = at
    BY <1>4, <2>1
  <2>2. CASE r # at
    <3>1. r < at /\ \A s \in OldRows : s <= r => idMap[s] = idMap'[s]
      BY <1>1, <1>4, <2>2 DEF OldRows
    <3>2. r \in log <=> r \in log'
      BY <2>2
    <3>3. /\ Recorded(WithoutDraft, idMap, log, r)
          /\ mode # "find" => Single(idMap, log, r)
      BY <1>4, <3>1 DEF ForetoldIInv, RunSound, Before
    <3>4. PICK f \in Maps : f = idMap'
      BY <1>1
    <3>5. PICK l : l = log'
      OBVIOUS
    <3> QED BY <1>1, <3>1, <3>2, <3>3, <3>4, <3>5, RecordKept
  <2> QED BY <2>1, <2>2
<1>5. ASSUME mode' # "idle", ~written', NEW r \in OldRows, r < at', Before(r, refused')
      PROVE  Recorded(WithoutDraft, idMap, log, r)' /\ (mode' # "find" => Single(idMap, log, r)')
  <2>1. /\ Recorded(WithoutDraft', idMap', log', r)
        /\ mode # "find" => Single(idMap', log', r)
    BY <1>4, <1>5
  <2> QED BY <1>3, <2>1
<1>6. LastSound'
  BY <1>3 DEF ForetoldIInv, LastSound
<1> QED BY <1>2, <1>5, <1>6

LEMMA SoundSkip == ASSUME ForetoldIInv, MergeTypeOK', Skip PROVE StoreSound' /\ RunSound' /\ LastSound'
<1>1. /\ Turn /\ ~Comparable /\ at' = at + 1
      /\ UNCHANGED <<old, rows, draft, mode, loaded, index, idMap, log, refused, last, written>>
  BY DEF Skip
<1>2. /\ MergeTypeOK /\ idMap \in Maps /\ at \in OldRows
  BY <1>1, MergeParts, MergeAssumption DEF ForetoldIInv, MergeTypeOK, Turn, Running, OldRows
<1>3. WithoutDraft' = WithoutDraft
  BY <1>1 DEF WithoutDraft
<1>4. idMap[at] = NoPK /\ at \notin log /\ ~Compared(idMap, at)
  BY <1>1, <1>2, MergeParts DEF ForetoldIInv, RunSound, Undone, Comparable, Compared, OldRows
<1>5. Recorded(WithoutDraft, idMap, log, at) /\ Single(idMap, log, at)
  BY <1>4 DEF Recorded, Single
<1>6. StoreSound'
  BY <1>1, <1>3 DEF ForetoldIInv, StoreSound, Related, Stored
<1>7. \A f, r : (Compared(f, r)' <=> Compared(f, r)) /\ KeyOf(f, r)' = KeyOf(f, r)
  BY <1>1, <1>2, RecordStands
<1>8. RunSound' /\ LastSound'
  <2>1. /\ \A r \in log' : r < at'
        /\ mode' # "idle" /\ ~written' => \A r \in OldRows : r < at' /\ Before(r, refused') =>
             Recorded(WithoutDraft, idMap, log, r)' /\ (mode' # "find" => Single(idMap, log, r)')
        /\ LastSound'
    BY <1>1, <1>3, <1>5, TakenStep
  <2>2. mode' \in {"dry", "merge"} /\ ~written' => \A p \in draft' :
       /\ HeldIn(WithoutDraft, rows[p].key)' = {}
       /\ \E s \in log' : idMap'[s] = p /\ Compared(idMap, s)' /\ KeyOf(idMap, s)' = rows'[p].key
    BY <1>1, <1>3, <1>7 DEF ForetoldIInv, RunSound, HeldIn
  <2>3. mode' = "find" /\ ~written' /\ loaded' # "none" =>
       /\ Indexed(Target[loaded])' \subseteq index'
       /\ \A x \in index' : \/ x \in Indexed(Target[loaded])'
                            \/ \E s \in log' : x = <<KeyOf(idMap, s)', idMap'[s]>>
    BY <1>1, <1>7 DEF ForetoldIInv, RunSound, Indexed, Stored
  <2> QED BY <2>1, <2>2, <2>3 DEF RunSound
<1> QED BY <1>6, <1>8

LEMMA SoundFail == ASSUME ForetoldIInv, MergeTypeOK', Fail PROVE StoreSound' /\ RunSound' /\ LastSound'
<1>1. /\ Turn /\ at' = at + 1 /\ refused' = refused \cup {at} /\ mode # "find"
      /\ UNCHANGED <<old, rows, draft, mode, loaded, index, idMap, log, last, written>>
  BY DEF Fail
<1>2. MergeTypeOK /\ at \in OldRows
  BY <1>1, MergeParts, MergeAssumption DEF ForetoldIInv, MergeTypeOK, Turn, Running, OldRows
<1>3. WithoutDraft' = WithoutDraft
  BY <1>1 DEF WithoutDraft
<1>4. StoreSound'
  BY <1>1, <1>3 DEF ForetoldIInv, StoreSound, Related, Stored
<1>5. ~Before(at, refused')
  BY <1>1, <1>2 DEF Before, OldRows
<1>6. /\ \A r \in log' : r < at'
      /\ mode' # "idle" /\ ~written' => \A r \in OldRows : r < at' /\ Before(r, refused') =>
           Recorded(WithoutDraft, idMap, log, r)' /\ (mode' # "find" => Single(idMap, log, r)')
      /\ LastSound'
  BY <1>1, <1>3, <1>5, TakenStep
<1>7. \A f, r : (Compared(f, r)' <=> Compared(f, r)) /\ KeyOf(f, r)' = KeyOf(f, r)
  BY <1>1, <1>2, RecordStands
<1>8. mode' \in {"dry", "merge"} /\ ~written' => \A p \in draft' :
       /\ HeldIn(WithoutDraft, rows[p].key)' = {}
       /\ \E s \in log' : idMap'[s] = p /\ Compared(idMap, s)' /\ KeyOf(idMap, s)' = rows'[p].key
  BY <1>1, <1>3, <1>7 DEF ForetoldIInv, RunSound, HeldIn
<1>9. RunSound'
  BY <1>1, <1>6, <1>8 DEF RunSound
<1> QED BY <1>4, <1>6, <1>9

\* The rows of one key: v2 had them, or the transaction inserted them all.
LEMMA OldOrNew ==
  ASSUME ForetoldIInv, mode \in {"dry", "merge"}, ~written, NEW k
  PROVE  /\ HeldIn(WithoutDraft, k) \subseteq Holders(k)
         /\ HeldIn(WithoutDraft, k) # {} => Holders(k) = HeldIn(WithoutDraft, k)
         /\ HeldIn(WithoutDraft, k) = {} => Holders(k) \subseteq draft
<1>1. \A p \in PKs : /\ p \notin draft => WithoutDraft[p] = rows[p]
                     /\ p \in draft => WithoutDraft[p] = Absent
  BY DEF WithoutDraft
<1>2. \A p \in draft : HeldIn(WithoutDraft, rows[p].key) = {}
  BY DEF ForetoldIInv, RunSound
<1>3. HeldIn(WithoutDraft, k) \subseteq Holders(k)
  BY <1>1 DEF HeldIn, Holders
<1>4. \A p \in Holders(k) : p \in draft \/ p \in HeldIn(WithoutDraft, k)
  BY <1>1 DEF HeldIn, Holders
<1>5. ASSUME NEW p \in Holders(k), p \in draft PROVE HeldIn(WithoutDraft, k) = {}
  BY <1>2, <1>5 DEF Holders
<1> QED BY <1>3, <1>4, <1>5

LEMMA FindIndex ==
  ASSUME ForetoldIInv, Turn, Comparable, mode = "find", ~written
  PROVE  /\ rows = WithoutDraft
         /\ HeldIn(rows, KeyOf(idMap, at)) \subseteq Matches(KeyOf(idMap, at))
         /\ \A p \in Matches(KeyOf(idMap, at)) :
              \/ p \in HeldIn(rows, KeyOf(idMap, at))
              \/ \E s \in log : KeyOf(idMap, s) = KeyOf(idMap, at) /\ idMap[s] = p
<1>0. PICK k : k = KeyOf(idMap, at)
  OBVIOUS
<1>1. at \in OldRows /\ MergeTypeOK /\ idMap \in Maps /\ rows \in [PKs -> Row \cup {Absent}]
  BY MergeParts, MergeAssumption DEF ForetoldIInv, MergeTypeOK, Turn, Running, OldRows
<1>2. k.table = Target[old[at].mapping]
  BY <1>0, <1>1, KeyType DEF Comparable
<1>3. loaded # "none" /\ loaded = old[at].mapping
  <2>1. old[at].mapping \in MAPPINGS /\ "none" \notin MAPPINGS
    BY <1>1, OldType DEF OldRow, MAPPINGS
  <2> QED BY <2>1 DEF Turn
<1>4. rows = WithoutDraft
  BY <1>1 DEF ForetoldIInv, MergeIInv, Quiet, WithoutDraft
<1>5. /\ Indexed(Target[loaded]) \subseteq index
      /\ \A x \in index : \/ x \in Indexed(Target[loaded])
                          \/ \E s \in log : x = <<KeyOf(idMap, s), idMap[s]>>
  BY <1>3 DEF ForetoldIInv, RunSound
<1>6. \A p \in HeldIn(rows, k) : <<k, p>> \in Indexed(Target[loaded])
  BY <1>2, <1>3 DEF HeldIn, Indexed, Stored
<1>7. HeldIn(rows, k) \subseteq Matches(k)
  BY <1>5, <1>6 DEF Matches, HeldIn
<1>8. ASSUME NEW p \in Matches(k)
      PROVE  p \in HeldIn(rows, k) \/ \E s \in log : KeyOf(idMap, s) = k /\ idMap[s] = p
  <2>1. <<k, p>> \in index
    BY <1>8 DEF Matches
  <2>2. CASE <<k, p>> \in Indexed(Target[loaded])
    BY <2>2 DEF Indexed, Stored, HeldIn
  <2>3. CASE \E s \in log : <<k, p>> = <<KeyOf(idMap, s), idMap[s]>>
    BY <2>3
  <2> QED BY <1>5, <2>1, <2>2, <2>3
<1> QED BY <1>0, <1>4, <1>7, <1>8

LEMMA SoundDuplicate ==
  ASSUME ForetoldIInv, MergeTypeOK', Duplicate PROVE StoreSound' /\ RunSound' /\ LastSound'
<1>0. PICK k : k = KeyOf(idMap, at)
  OBVIOUS
<1>1. /\ Turn /\ Comparable /\ Matches(k) # {} /\ at' = at + 1
      /\ idMap' = [idMap EXCEPT ![at] = First(Matches(k))]
      /\ UNCHANGED <<old, rows, draft, mode, loaded, index, log, refused, last, written>>
  BY <1>0 DEF Duplicate
<1>2. /\ MergeTypeOK /\ idMap \in Maps /\ idMap' \in Maps /\ at \in OldRows /\ log \subseteq OldRows
      /\ MergeIInv
  BY <1>1, MergeParts, MergeAssumption DEF ForetoldIInv, MergeTypeOK, Turn, Running, OldRows, Maps
<1>3. idMap'[at] = First(Matches(k)) /\ \A s \in OldRows : s # at => idMap'[s] = idMap[s]
  BY <1>1, <1>2 DEF MergeTypeOK
<1>4. WithoutDraft' = WithoutDraft
  BY <1>1 DEF WithoutDraft
<1>5. /\ \A r \in OldRows : r <= at =>
           KeyOf(idMap', r) = KeyOf(idMap, r) /\ (Unresolved(idMap', r) <=> Unresolved(idMap, r))
      /\ at \in Nat /\ at <= at
  <2>1. at \in Nat /\ at <= at
    BY <1>2 DEF OldRows
  <2>2. refused' \subseteq refused \cup {at} /\ at \notin refused'
    BY <1>1, <1>2, <2>1 DEF MergeIInv, Undone
  <2> QED BY <1>1, <1>2, <1>3, <2>1, <2>2, BeforeStands
<1>6. \A s \in log : s < at /\ s <= at /\ s # at /\ s \in OldRows
  BY <1>2, <1>5 DEF ForetoldIInv, RunSound, OldRows
<1>7. First(Matches(k)) \in Matches(k) /\ First(Matches(k)) \in PKs
  BY <1>1, FirstOf DEF Matches
<1>8. Compared(idMap', at) /\ KeyOf(idMap', at) = k
  BY <1>0, <1>1, <1>2, <1>5 DEF Compared, Comparable
<1>9. ASSUME ~written, Before(at, refused')
      PROVE  /\ Recorded(WithoutDraft, idMap', log', at)
             /\ mode # "find" => Single(idMap', log', at)
  <2>0. \A s \in OldRows : s < at => Before(s, refused) /\ s \notin refused
    BY <1>1, <1>2, <1>5, <1>9 DEF Before, OldRows, MergeTypeOK
  <2>1. at \notin log' /\ log' = log
    BY <1>1, <1>6
  <2>2. \A s \in log : Compared(idMap, s)
    <3> SUFFICES ASSUME NEW s \in log PROVE Compared(idMap, s)
      OBVIOUS
    <3>1. Recorded(WithoutDraft, idMap, log, s)
      BY <1>1, <1>6, <1>9, <2>0 DEF ForetoldIInv, RunSound, Turn, Running
    <3> QED BY <3>1 DEF Recorded
  <2>3. ASSUME NEW s \in log, KeyOf(idMap, s) = k, idMap[s] = First(Matches(k))
        PROVE  /\ s \in OldRows /\ s < at /\ Compared(idMap', s)
               /\ KeyOf(idMap', s) = KeyOf(idMap', at) /\ idMap'[s] = idMap'[at]
    <3>1. s \in OldRows /\ s < at /\ s <= at /\ s # at
      BY <1>6
    <3>2. KeyOf(idMap', s) = KeyOf(idMap, s) /\ (Unresolved(idMap', s) <=> Unresolved(idMap, s))
      BY <1>5, <3>1
    <3>3. Compared(idMap', s)
      BY <2>2, <3>2 DEF Compared
    <3> QED BY <1>3, <1>8, <2>3, <3>1, <3>2, <3>3
  <2>4. CASE mode \in {"dry", "merge"}
    <3>1. Trusted
      BY <1>9, <2>4 DEF Trusted
    <3>2. Matches(k) = Holders(k)
      BY <1>0, <1>1, <1>2, <3>1, IndexFinds
    <3>3. /\ HeldIn(WithoutDraft, k) # {} => Holders(k) = HeldIn(WithoutDraft, k)
          /\ HeldIn(WithoutDraft, k) = {} => Holders(k) \subseteq draft
      BY <1>9, <2>4, OldOrNew
    <3>4. HeldIn(WithoutDraft, k) # {} => idMap'[at] = First(HeldIn(WithoutDraft, k))
      BY <1>3, <3>2, <3>3
    <3>5. HeldIn(WithoutDraft, k) = {} => \E s \in log : KeyOf(idMap, s) = k /\ idMap[s] = First(Matches(k))
      <4> SUFFICES ASSUME HeldIn(WithoutDraft, k) = {}
                   PROVE  \E s \in log : KeyOf(idMap, s) = k /\ idMap[s] = First(Matches(k))
        OBVIOUS
      <4>1. PICK p \in Holders(k) : p = First(Matches(k)) /\ p \in draft
        BY <1>7, <3>2, <3>3
      <4>2. rows[p].key = k
        BY DEF Holders
      <4> QED BY <1>9, <2>4, <4>1, <4>2 DEF ForetoldIInv, RunSound
    <3>6. Recorded(WithoutDraft, idMap', log', at)
      BY <1>3, <1>7, <1>8, <2>1, <2>3, <3>4, <3>5 DEF Recorded
    <3>7. Single(idMap', log', at)
      <4> SUFFICES ASSUME NEW s \in OldRows, s < at, Compared(idMap', s), KeyOf(idMap', s) = k
                   PROVE  idMap'[s] = idMap'[at]
        BY <1>8, <2>1 DEF Single
      <4>1. s <= at /\ s # at
        BY <1>5 DEF OldRows
      <4>2. KeyOf(idMap, s) = k /\ ~Unresolved(idMap, s) /\ HasKey(s)
        BY <1>5, <4>1 DEF Compared
      <4>3. Followed(idMap, s)
        BY <1>2, <2>0, <3>1 DEF MergeIInv, RunFollows
      <4>4. idMap[s] = First(Holders(k))
        BY <4>2, <4>3 DEF Followed
      <4> QED BY <1>3, <3>2, <4>1, <4>4
    <3> QED BY <3>6, <3>7
  <2>5. CASE mode = "find"
    <3>1. /\ rows = WithoutDraft
          /\ HeldIn(WithoutDraft, k) \subseteq Matches(k)
          /\ \A p \in Matches(k) :
               \/ p \in HeldIn(WithoutDraft, k)
               \/ \E s \in log : KeyOf(idMap, s) = k /\ idMap[s] = p
      BY <1>0, <1>1, <1>9, <2>5, FindIndex
    <3>2. ASSUME HeldIn(WithoutDraft, k) # {} PROVE Matches(k) = HeldIn(WithoutDraft, k)
      <4> SUFFICES ASSUME NEW s \in log, KeyOf(idMap, s) = k PROVE FALSE
        BY <3>1
      <4>1. Recorded(WithoutDraft, idMap, log, s)
        BY <1>1, <1>6, <1>9, <2>0 DEF ForetoldIInv, RunSound, Turn, Running
      <4> QED BY <2>2, <3>2, <4>1 DEF Recorded
    <3>3. HeldIn(WithoutDraft, k) # {} => idMap'[at] = First(HeldIn(WithoutDraft, k))
      BY <1>3, <3>2
    <3>4. HeldIn(WithoutDraft, k) = {} => \E s \in log : KeyOf(idMap, s) = k /\ idMap[s] = First(Matches(k))
      BY <1>7, <3>1
    <3>5. Recorded(WithoutDraft, idMap', log', at)
      BY <1>3, <1>7, <1>8, <2>1, <2>3, <3>3, <3>4 DEF Recorded
    <3> QED BY <2>5, <3>5
  <2> QED BY <1>1, <1>2, <2>4, <2>5 DEF Turn, Running, MergeTypeOK, Runs
<1>10. /\ \A r \in log' : r < at'
       /\ mode' # "idle" /\ ~written' => \A r \in OldRows : r < at' /\ Before(r, refused') =>
            Recorded(WithoutDraft, idMap, log, r)' /\ (mode' # "find" => Single(idMap, log, r)')
       /\ LastSound'
  BY <1>1, <1>3, <1>4, <1>9, TakenStep
<1>11. \A f, r : (Compared(f, r)' <=> Compared(f, r)) /\ KeyOf(f, r)' = KeyOf(f, r)
  BY <1>1, <1>2, RecordStands
<1>12. \A s \in log : /\ idMap'[s] = idMap[s]
                      /\ KeyOf(idMap, s)' = KeyOf(idMap, s)
                      /\ Compared(idMap, s)' <=> Compared(idMap, s)
  <2> SUFFICES ASSUME NEW s \in log
               PROVE  /\ idMap'[s] = idMap[s]
                      /\ KeyOf(idMap, s)' = KeyOf(idMap, s)
                      /\ Compared(idMap, s)' <=> Compared(idMap, s)
    OBVIOUS
  <2>1. KeyOf(idMap', s) = KeyOf(idMap, s) /\ (Unresolved(idMap', s) <=> Unresolved(idMap, s))
    BY <1>5, <1>6
  <2> QED BY <1>3, <1>6, <1>11, <2>1 DEF Compared
<1>13. RunSound'
  <2>1. mode' \in {"dry", "merge"} /\ ~written' => \A p \in draft' :
       /\ HeldIn(WithoutDraft, rows[p].key)' = {}
       /\ \E s \in log' : idMap'[s] = p /\ Compared(idMap, s)' /\ KeyOf(idMap, s)' = rows'[p].key
    <3> SUFFICES ASSUME mode \in {"dry", "merge"}, ~written, NEW p \in draft
                 PROVE  /\ HeldIn(WithoutDraft, rows[p].key)' = {}
                        /\ \E s \in log' : /\ idMap'[s] = p /\ Compared(idMap, s)'
                                          /\ KeyOf(idMap, s)' = rows'[p].key
      BY <1>1
    <3>1. HeldIn(WithoutDraft, rows[p].key) = {}
      BY DEF ForetoldIInv, RunSound
    <3>2. HeldIn(WithoutDraft, rows[p].key)' = {}
      BY <1>1, <1>4, <3>1 DEF HeldIn
    <3>3. \E s \in log : idMap[s] = p /\ Compared(idMap, s) /\ KeyOf(idMap, s) = rows[p].key
      BY DEF ForetoldIInv, RunSound
    <3> QED BY <1>1, <1>12, <3>2, <3>3
  <2>2. mode' = "find" /\ ~written' /\ loaded' # "none" =>
       /\ Indexed(Target[loaded])' \subseteq index'
       /\ \A x \in index' : \/ x \in Indexed(Target[loaded])'
                            \/ \E s \in log' : x = <<KeyOf(idMap, s)', idMap'[s]>>
    <3>1. Indexed(Target[loaded])' = Indexed(Target[loaded])
      BY <1>1 DEF Indexed, Stored
    <3>2. \A s \in log : <<KeyOf(idMap, s)', idMap'[s]>> = <<KeyOf(idMap, s), idMap[s]>>
      BY <1>12
    <3>3. ASSUME mode = "find", ~written, loaded # "none"
          PROVE  /\ Indexed(Target[loaded]) \subseteq index
                 /\ \A x \in index : \/ x \in Indexed(Target[loaded])
                                     \/ \E s \in log : x = <<KeyOf(idMap, s), idMap[s]>>
      BY <3>3 DEF ForetoldIInv, RunSound
    <3>4. ASSUME mode' = "find", ~written', loaded' # "none", NEW x \in index'
          PROVE  \/ x \in Indexed(Target[loaded])'
                 \/ \E s \in log' : x = <<KeyOf(idMap, s)', idMap'[s]>>
      <4>1. mode = "find" /\ ~written /\ loaded # "none" /\ x \in index
        BY <1>1, <3>4
      <4>2. CASE x \in Indexed(Target[loaded])
        BY <3>1, <4>2
      <4>3. CASE \E s \in log : x = <<KeyOf(idMap, s), idMap[s]>>
        <5>1. PICK s \in log : x = <<KeyOf(idMap, s), idMap[s]>>
          BY <4>3
        <5>2. x = <<KeyOf(idMap, s)', idMap'[s]>> /\ s \in log'
          BY <1>1, <3>2, <5>1
        <5> QED BY <5>2
      <4> QED BY <3>3, <4>1, <4>2, <4>3
    <3> QED BY <1>1, <3>1, <3>3, <3>4
  <2> QED BY <1>10, <2>1, <2>2 DEF RunSound
<1>14. StoreSound'
  <2>1. mode \in {"dry", "merge"} => First(Matches(k)) \in Stored
    BY <1>7 DEF ForetoldIInv, StoreSound, Matches
  <2>2. Stored' = Stored
    BY <1>1 DEF Stored
  <2>3. ASSUME mode \in {"dry", "merge"}, NEW r \in OldRows, idMap'[r] # NoPK
        PROVE  idMap'[r] \in Stored
    BY <1>3, <2>1, <2>3 DEF ForetoldIInv, StoreSound
  <2>4. Related(rows)' /\ Related(WithoutDraft)'
    BY <1>1, <1>4 DEF ForetoldIInv, StoreSound, Related
  <2> QED BY <1>1, <2>2, <2>3, <2>4 DEF ForetoldIInv, StoreSound
<1> QED BY <1>10, <1>13, <1>14

\* A new row: nothing recorded before it is of its key, nor follows its id.
LEMMA SoundNew == ASSUME ForetoldIInv, MergeTypeOK', New PROVE StoreSound' /\ RunSound' /\ LastSound'
<1>0. PICK k, p : k = KeyOf(idMap, at) /\ p = First(Fresh)
  OBVIOUS
<1>1. /\ Turn /\ Comparable /\ Matches(k) = {} /\ at' = at + 1 /\ p \in Fresh
      /\ idMap' = [idMap EXCEPT ![at] = p]
      /\ index' = index \cup {<<k, p>>} /\ log' = log \cup {at}
      /\ UNCHANGED <<old, mode, loaded, refused, last, written>>
      /\ mode = "find" => UNCHANGED <<rows, draft>>
  BY <1>0, FirstOf DEF New, Learned
<1>2. /\ MergeTypeOK /\ idMap \in Maps /\ idMap' \in Maps /\ at \in OldRows /\ log \subseteq OldRows
      /\ MergeIInv /\ rows \in [PKs -> Row \cup {Absent}] /\ draft \subseteq PKs
      /\ WithoutDraft \in [PKs -> Row \cup {Absent}]
  BY <1>1, MergeParts, MergeAssumption DEF ForetoldIInv, MergeTypeOK, Turn, Running, OldRows, Maps
<1>3. /\ idMap'[at] = p /\ \A s \in OldRows : s # at => idMap'[s] = idMap[s]
      /\ p \in PKs /\ rows[p] = Absent /\ \A r \in OldRows : idMap[r] # p
  BY <1>1, <1>2 DEF MergeTypeOK, Fresh
<1>4. p # NoPK /\ k \in Key /\ k.table = Target[old[at].mapping]
  BY <1>0, <1>1, <1>2, <1>3, KeyType, MergeAssumption DEF Comparable
<1>5. ASSUME mode # "find"
      PROVE  \E row \in Row : /\ rows' = [rows EXCEPT ![p] = row] /\ draft' = draft \cup {p}
                              /\ row.key = k
  <2> DEFINE row == [key |-> k, uploader |-> IF k.table = "document" THEN Mapped(idMap, old[at].user)
                                                                     ELSE NoPK]
  <2>1. Mapped(idMap, old[at].user) \in PKs \cup {NoPK}
    BY <1>2, OldType DEF Mapped, OldRows, MergeTypeOK
  <2>2. row \in Row
    BY <1>4, <2>1 DEF Row
  <2>3. rows' = [rows EXCEPT ![p] = row] /\ draft' = draft \cup {p} /\ row.key = k
    BY <1>0, <1>5 DEF New
  <2> HIDE DEF row
  <2> QED BY <2>2, <2>3
<1>6. WithoutDraft' = WithoutDraft
  <2>1. CASE mode = "find"
    BY <1>1, <2>1 DEF WithoutDraft
  <2>2. CASE mode # "find"
    <3>1. PICK row \in Row : rows' = [rows EXCEPT ![p] = row] /\ draft' = draft \cup {p}
      BY <1>5, <2>2
    <3>2. rows'[p] = row /\ \A q \in PKs : q # p => rows'[q] = rows[q]
      BY <1>2, <1>3, <3>1
    <3>3. \A q \in PKs : (IF q \in draft' THEN Absent ELSE rows'[q])
                           = (IF q \in draft THEN Absent ELSE rows[q])
      BY <1>3, <3>1, <3>2
    <3> QED BY <3>3 DEF WithoutDraft
  <2> QED BY <2>1, <2>2
<1>7. /\ \A r \in OldRows : r <= at =>
           KeyOf(idMap', r) = KeyOf(idMap, r) /\ (Unresolved(idMap', r) <=> Unresolved(idMap, r))
      /\ at \in Nat /\ at <= at
  <2>1. at \in Nat /\ at <= at
    BY <1>2 DEF OldRows
  <2>2. refused' \subseteq refused \cup {at} /\ at \notin refused'
    BY <1>1, <1>2, <2>1 DEF MergeIInv, Undone
  <2> QED BY <1>1, <1>2, <1>3, <2>1, <2>2, BeforeStands
<1>8. \A s \in log : s < at /\ s <= at /\ s # at /\ s \in OldRows
  BY <1>2, <1>7 DEF ForetoldIInv, RunSound, OldRows
<1>9. Compared(idMap', at) /\ KeyOf(idMap', at) = k
  BY <1>0, <1>1, <1>2, <1>7 DEF Compared, Comparable
<1>10. WithoutDraft[p] = Absent
  BY <1>3 DEF WithoutDraft
<1>11. ASSUME ~written PROVE HeldIn(WithoutDraft, k) = {}
  <2>1. CASE mode \in {"dry", "merge"}
    <3>1. Trusted
      BY <1>11, <2>1 DEF Trusted
    <3>2. Matches(k) = Holders(k)
      BY <1>0, <1>1, <1>2, <3>1, IndexFinds
    <3> QED BY <1>1, <1>11, <2>1, <3>2, OldOrNew
  <2>2. CASE mode = "find"
    BY <1>0, <1>1, <1>11, <2>2, FindIndex
  <2> QED BY <1>1, <1>2, <2>1, <2>2 DEF Turn, Running, MergeTypeOK, Runs
<1>12. ASSUME ~written, Before(at, refused')
       PROVE  /\ Recorded(WithoutDraft, idMap', log', at)
              /\ mode # "find" => Single(idMap', log', at)
  <2>0. \A s \in OldRows : s < at => s \notin refused
    BY <1>1, <1>2, <1>7, <1>12 DEF Before, OldRows, MergeTypeOK
  <2>1. at \in log' /\ \A s \in OldRows : s < at => idMap'[s] # idMap'[at]
    BY <1>1, <1>2, <1>3, <1>7
  <2>2. Recorded(WithoutDraft, idMap', log', at)
    BY <1>3, <1>9, <1>10, <1>11, <1>12, <2>1 DEF Recorded
  <2>3. ASSUME mode # "find" PROVE Single(idMap', log', at)
    <3> SUFFICES ASSUME NEW s \in OldRows, s < at, Compared(idMap', s), KeyOf(idMap', s) = k
                 PROVE  FALSE
      BY <1>9 DEF Single
    <3>1. Trusted
      BY <1>1, <1>12, <2>3 DEF Trusted, Turn, Running
    <3>2. Matches(k) = Holders(k)
      BY <1>0, <1>1, <1>2, <3>1, IndexFinds
    <3>3. s <= at
      BY <1>7 DEF OldRows
    <3>4. KeyOf(idMap, s) = k /\ ~Unresolved(idMap, s) /\ HasKey(s)
      BY <1>7, <3>3 DEF Compared
    <3>5. Followed(idMap, s)
      BY <1>2, <2>0, <3>1 DEF MergeIInv, RunFollows
    <3>6. Holders(k) # {}
      BY <3>4, <3>5 DEF Followed
    <3> QED BY <1>1, <3>2, <3>6
  <2> QED BY <2>2, <2>3
<1>13. /\ \A r \in log' : r < at'
       /\ mode' # "idle" /\ ~written' => \A r \in OldRows : r < at' /\ Before(r, refused') =>
            Recorded(WithoutDraft, idMap, log, r)' /\ (mode' # "find" => Single(idMap, log, r)')
       /\ LastSound'
  BY <1>1, <1>3, <1>6, <1>12, TakenStep
<1>14. \A f, r : (Compared(f, r)' <=> Compared(f, r)) /\ KeyOf(f, r)' = KeyOf(f, r)
  BY <1>1, <1>2, RecordStands
<1>15. \A s \in log : /\ idMap'[s] = idMap[s]
                      /\ KeyOf(idMap, s)' = KeyOf(idMap, s)
                      /\ Compared(idMap, s)' <=> Compared(idMap, s)
  <2> SUFFICES ASSUME NEW s \in log
               PROVE  /\ idMap'[s] = idMap[s]
                      /\ KeyOf(idMap, s)' = KeyOf(idMap, s)
                      /\ Compared(idMap, s)' <=> Compared(idMap, s)
    OBVIOUS
  <2>1. KeyOf(idMap', s) = KeyOf(idMap, s) /\ (Unresolved(idMap', s) <=> Unresolved(idMap, s))
    BY <1>7, <1>8
  <2> QED BY <1>3, <1>8, <1>14, <2>1 DEF Compared
<1>16. PICK a \in OldRows : a = at
  BY <1>2
<1>17. a \in log' /\ idMap'[a] = p /\ KeyOf(idMap, a)' = k /\ (Compared(idMap, a)' <=> TRUE)
  BY <1>1, <1>3, <1>9, <1>14, <1>16
<1>18. ASSUME mode # "find"
       PROVE  /\ Related(rows') /\ draft' = draft \cup {p}
              /\ rows'[p] # Absent /\ rows'[p].key = k /\ rows'[p] \in Row
              /\ \A q \in PKs : q # p => rows'[q] = rows[q]
  <2>1. PICK row \in Row : rows' = [rows EXCEPT ![p] = row] /\ draft' = draft \cup {p} /\ row.key = k
    BY <1>5, <1>18
  <2>2. rows'[p] = row /\ row # Absent /\ \A q \in PKs : q # p => rows'[q] = rows[q]
    BY <1>2, <1>3, <2>1, Present
  <2>3. mode \in {"dry", "merge"}
    BY <1>1, <1>2, <1>18 DEF Turn, Running, MergeTypeOK, Runs
  <2>4. \A c \in 0..N : Mapped(idMap, c) # NoPK => rows[Mapped(idMap, c)] # Absent
    <3> SUFFICES ASSUME NEW c \in 0..N, Mapped(idMap, c) # NoPK
                 PROVE  rows[Mapped(idMap, c)] # Absent
      OBVIOUS
    <3>1. c \in OldRows /\ Mapped(idMap, c) = idMap[c]
      BY MergeAssumption DEF Mapped, OldRows
    <3> QED BY <2>3, <3>1 DEF ForetoldIInv, StoreSound, Stored
  <2>5. /\ k.above = Mapped(idMap, old[at].above)
        /\ k.user = NoPK \/ k.user = Mapped(idMap, old[at].user)
    BY <1>0 DEF KeyOf
  <2>6. old[at].above \in 0..N /\ old[at].user \in 0..N
    BY <1>2, OldType
  <2>7. \A q \in {row.key.above, row.key.user} : q # NoPK => rows[q] # Absent
    BY <2>1, <2>4, <2>5, <2>6
  <2>8. Related([rows EXCEPT ![p] = row])
    BY <1>2, <1>3, <2>7, RelatedWith DEF ForetoldIInv, StoreSound
  <2> QED BY <2>1, <2>2, <2>8
<1>19. StoreSound'
  <2>1. CASE mode = "find"
    <3>1. rows' = rows /\ draft' = draft /\ mode' = "find"
      BY <1>1, <2>1
    <3> QED BY <1>6, <3>1 DEF ForetoldIInv, StoreSound, Related, Stored
  <2>2. CASE mode # "find"
    <3>1. Stored \subseteq Stored' /\ p \in Stored'
      BY <1>3, <1>18, <2>2 DEF Stored
    <3>2. Related(rows)' /\ Related(WithoutDraft)'
      BY <1>6, <1>18, <2>2 DEF ForetoldIInv, StoreSound, Related
    <3>3. draft' \subseteq Stored'
      BY <1>18, <2>2, <3>1 DEF ForetoldIInv, StoreSound
    <3>4. mode \in {"dry", "merge"}
      BY <1>1, <1>2, <2>2 DEF Turn, Running, MergeTypeOK, Runs
    <3>5. \A r \in OldRows : idMap'[r] # NoPK => idMap'[r] \in Stored'
      BY <1>3, <3>1, <3>4 DEF ForetoldIInv, StoreSound
    <3>6. \A x \in index' : x[2] \in Stored'
      BY <1>1, <3>1, <3>4 DEF ForetoldIInv, StoreSound
    <3> QED BY <3>2, <3>3, <3>5, <3>6 DEF StoreSound
  <2> QED BY <2>1, <2>2
<1>20. RunSound'
  <2>1. ASSUME mode \in {"dry", "merge"}, ~written, NEW q \in draft'
        PROVE  /\ HeldIn(WithoutDraft, rows'[q].key) = {}
               /\ \E s \in log' : /\ idMap'[s] = q /\ Compared(idMap, s)'
                                 /\ KeyOf(idMap, s)' = rows'[q].key
    <3>1. CASE q = p
      <4>1. rows'[q].key = k
        BY <1>18, <2>1, <3>1
      <4>2. HeldIn(WithoutDraft, rows'[q].key) = {}
        BY <1>11, <2>1, <4>1
      <4> QED BY <1>17, <3>1, <4>1, <4>2
    <3>2. CASE q # p
      <4>1. q \in draft /\ rows'[q] = rows[q]
        BY <1>2, <1>18, <2>1, <3>2
      <4>2. HeldIn(WithoutDraft, rows[q].key) = {}
        BY <2>1, <4>1 DEF ForetoldIInv, RunSound
      <4>3. PICK s \in log : idMap[s] = q /\ Compared(idMap, s) /\ KeyOf(idMap, s) = rows[q].key
        BY <2>1, <4>1 DEF ForetoldIInv, RunSound
      <4>4. s \in log' /\ idMap'[s] = q /\ Compared(idMap, s)' /\ KeyOf(idMap, s)' = rows'[q].key
        BY <1>1, <1>15, <4>1, <4>3
      <4> QED BY <4>1, <4>2, <4>4
    <3> QED BY <3>1, <3>2
  <2>2. mode' \in {"dry", "merge"} /\ ~written' => \A q \in draft' :
       /\ HeldIn(WithoutDraft, rows[q].key)' = {}
       /\ \E s \in log' : idMap'[s] = q /\ Compared(idMap, s)' /\ KeyOf(idMap, s)' = rows'[q].key
    <3> SUFFICES ASSUME mode \in {"dry", "merge"}, ~written, NEW q \in draft'
                 PROVE  HeldIn(WithoutDraft, rows[q].key)' = {}
      BY <1>1, <2>1
    <3>1. HeldIn(WithoutDraft, rows'[q].key) = {}
      BY <2>1
    <3> QED BY <1>6, <3>1 DEF HeldIn
  <2>3. ASSUME mode = "find", ~written, loaded # "none"
        PROVE  /\ Indexed(Target[loaded]) \subseteq index
               /\ \A x \in index : \/ x \in Indexed(Target[loaded])
                                   \/ \E s \in log : x = <<KeyOf(idMap, s), idMap[s]>>
    BY <2>3 DEF ForetoldIInv, RunSound
  <2>4. ASSUME mode = "find", ~written, loaded # "none", NEW x \in index'
        PROVE  \/ x \in Indexed(Target[loaded])'
               \/ \E s \in log' : x = <<KeyOf(idMap, s)', idMap'[s]>>
    <3>1. Indexed(Target[loaded])' = Indexed(Target[loaded])
      BY <1>1, <2>4 DEF Indexed, Stored
    <3>2. CASE x = <<k, p>>
      <4>1. a \in log' /\ x = <<KeyOf(idMap, a)', idMap'[a]>>
        BY <1>17, <3>2
      <4> QED BY <4>1
    <3>3. CASE x \in index /\ x \in Indexed(Target[loaded])
      BY <3>1, <3>3
    <3>4. CASE x \in index /\ \E s \in log : x = <<KeyOf(idMap, s), idMap[s]>>
      <4>1. PICK s \in log : x = <<KeyOf(idMap, s), idMap[s]>>
        BY <3>4
      <4>2. s \in log' /\ x = <<KeyOf(idMap, s)', idMap'[s]>>
        BY <1>1, <1>15, <4>1
      <4> QED BY <4>2
    <3> QED BY <1>1, <2>3, <2>4, <3>2, <3>3, <3>4
  <2>5. ASSUME mode = "find", ~written, loaded # "none"
        PROVE  Indexed(Target[loaded])' \subseteq index'
    BY <1>1, <2>3, <2>5 DEF Indexed, Stored
  <2> QED BY <1>1, <1>13, <2>2, <2>4, <2>5 DEF RunSound
<1> QED BY <1>13, <1>19, <1>20


LEMMA SoundLoad ==
  ASSUME ForetoldIInv, MergeTypeOK', LoadIndex PROVE StoreSound' /\ RunSound' /\ LastSound'
<1>1. /\ UNCHANGED <<old, rows, draft, mode, at, idMap, log, refused, last, written>>
      /\ index' = Indexed(Target[loaded'])
  BY DEF LoadIndex
<1>2. WithoutDraft' = WithoutDraft
  BY <1>1 DEF WithoutDraft
<1>3. \A b, f, l, r : /\ Recorded(b, f, l, r)' <=> Recorded(b, f, l, r)
                      /\ Single(f, l, r)' <=> Single(f, l, r)
                      /\ Compared(f, r)' <=> Compared(f, r)
                      /\ KeyOf(f, r)' = KeyOf(f, r)
  BY <1>1, MergeParts, RecordStands DEF ForetoldIInv
<1>4. \A x \in index' : x[2] \in Stored
  BY <1>1 DEF Indexed, Stored
<1>5. StoreSound'
  BY <1>1, <1>2, <1>4 DEF ForetoldIInv, StoreSound, Related, Stored
<1>6. LastSound'
  BY <1>1, <1>2, <1>3 DEF ForetoldIInv, LastSound
<1>7. Indexed(Target[loaded])' = index'
  BY <1>1 DEF Indexed, Stored
<1>8. ASSUME mode' # "idle", ~written', NEW r \in OldRows, r < at', Before(r, refused')
      PROVE  Recorded(WithoutDraft, idMap, log, r)' /\ (mode' # "find" => Single(idMap, log, r)')
  <2>1. Recorded(WithoutDraft', idMap', log', r) /\ (mode' # "find" => Single(idMap', log', r))
    BY <1>1, <1>2, <1>8 DEF ForetoldIInv, RunSound
  <2> QED BY <1>3, <2>1
<1>9. ASSUME mode' \in {"dry", "merge"}, ~written', NEW q \in draft'
      PROVE  /\ HeldIn(WithoutDraft, rows[q].key)' = {}
             /\ \E s \in log' : idMap'[s] = q /\ Compared(idMap, s)' /\ KeyOf(idMap, s)' = rows'[q].key
  <2>1. HeldIn(WithoutDraft, rows[q].key) = {}
    BY <1>1, <1>9 DEF ForetoldIInv, RunSound
  <2>2. HeldIn(WithoutDraft, rows[q].key)' = {}
    BY <1>1, <1>2, <2>1 DEF HeldIn
  <2>3. \E s \in log : idMap[s] = q /\ Compared(idMap, s) /\ KeyOf(idMap, s) = rows[q].key
    BY <1>1, <1>9 DEF ForetoldIInv, RunSound
  <2> QED BY <1>1, <1>3, <2>2, <2>3
<1>10. \A r \in log' : r < at'
  BY <1>1 DEF ForetoldIInv, RunSound
<1>11. RunSound'
  BY <1>7, <1>8, <1>9, <1>10 DEF RunSound
<1> QED BY <1>5, <1>6, <1>11

LEMMA SoundBegin ==
  ASSUME ForetoldIInv, MergeTypeOK', NEW r0 \in Runs, Begin(r0)
  PROVE  StoreSound' /\ RunSound' /\ LastSound'
<1>1. /\ mode = "idle" /\ mode' = r0 /\ at' = 1 /\ loaded' = "none" /\ index' = {}
      /\ idMap' = NoMap /\ log' = {} /\ draft' = {} /\ UNCHANGED <<old, rows, last>>
  BY DEF Begin, Ready
<1>2. draft = {}
  BY <1>1, MergeParts DEF ForetoldIInv, Quiet
<1>3. WithoutDraft' = WithoutDraft
  BY <1>1, <1>2 DEF WithoutDraft
<1>4. \A b, f, l, r : /\ Recorded(b, f, l, r)' <=> Recorded(b, f, l, r)
                      /\ Single(f, l, r)' <=> Single(f, l, r)
  BY <1>1, MergeParts, RecordStands DEF ForetoldIInv
<1>5. StoreSound'
  BY <1>1, <1>3 DEF ForetoldIInv, StoreSound, Related, Stored, NoMap
<1>6. LastSound'
  BY <1>1, <1>3, <1>4 DEF ForetoldIInv, LastSound
<1>7. \A r \in OldRows : ~(r < 1)
  BY DEF OldRows
<1>8. RunSound'
  BY <1>1, <1>7 DEF RunSound
<1> QED BY <1>5, <1>6, <1>8

LEMMA SoundEnd ==
  ASSUME ForetoldIInv, MergeTypeOK', EndRun \/ Stop PROVE StoreSound' /\ RunSound' /\ LastSound'
<1>1. /\ mode # "idle" /\ mode' = "idle" /\ log' = {} /\ draft' = {} /\ UNCHANGED old
      /\ rows' = rows \/ rows' = WithoutDraft
  BY DEF EndRun, Stop, Over, Ready
<1>2. /\ rows \in [PKs -> Row \cup {Absent}] /\ WithoutDraft \in [PKs -> Row \cup {Absent}]
      /\ MergeTypeOK /\ N \in Nat
  BY MergeParts DEF ForetoldIInv
<1>3. WithoutDraft' = rows'
  BY <1>1, <1>2 DEF WithoutDraft
<1>4. Related(rows)'
  BY <1>1 DEF ForetoldIInv, StoreSound, Related
<1>5. StoreSound'
  BY <1>1, <1>3, <1>4 DEF StoreSound, Related
<1>6. RunSound'
  BY <1>1 DEF RunSound
<1>7. \A b, f, l, r : /\ Recorded(b, f, l, r)' <=> Recorded(b, f, l, r)
                      /\ Single(f, l, r)' <=> Single(f, l, r)
  BY <1>1, <1>2, RecordStands
<1>8. CASE Stop
  <2>1. last' = last /\ WithoutDraft' = WithoutDraft
    BY <1>3, <1>8 DEF Stop
  <2>2. LastSound'
    BY <1>7, <2>1 DEF ForetoldIInv, LastSound
  <2> QED BY <1>5, <1>6, <2>2
<1>9. CASE EndRun
  <2>1. /\ at = N + 1 /\ rows' = IF mode = "merge" THEN rows ELSE WithoutDraft
        /\ last' = IF written THEN Unwritten 
                      ELSE [mode |-> mode, log |-> log, refused |-> refused, idMap |-> idMap]
    BY <1>9 DEF EndRun
  <2>2. CASE written \/ mode = "merge"
    <3>1. last'.mode \notin {"find", "dry"}
      BY <2>1, <2>2, Blanks
    <3> QED BY <1>5, <1>6, <3>1 DEF LastSound
  <2>3. CASE ~written /\ mode # "merge"
    <3>1. /\ last'.mode = mode /\ last'.log = log /\ last'.refused = refused /\ last'.idMap = idMap
          /\ WithoutDraft' = WithoutDraft
      BY <1>3, <2>1, <2>3
    <3>2. \A r \in OldRows : r < at
      BY <1>2, <2>1 DEF OldRows
    <3>3. \A r \in OldRows : Before(r, refused) =>
            Recorded(WithoutDraft, idMap, log, r) /\ (mode # "find" => Single(idMap, log, r))
      BY <1>1, <2>3, <3>2 DEF ForetoldIInv, RunSound
    <3>4. \A r \in OldRows : Before(r, last'.refused) =>
            Recorded(WithoutDraft', last'.idMap, last'.log, r)
              /\ (mode # "find" => Single(last'.idMap, last'.log, r))
      BY <3>1, <3>3
    <3>5. LastSound'
      BY <1>7, <3>1, <3>4 DEF LastSound
    <3> QED BY <1>5, <1>6, <3>5
  <2> QED BY <2>2, <2>3 DEF MergeTypeOK
<1> QED BY <1>8, <1>9

\* The application writes rows of its own, and keeps its foreign keys.
LEMMA SoundWrite ==
  ASSUME ForetoldIInv, MergeTypeOK', Writes, Related(rows'), Related(WithoutDraft)',
         \A p \in PKs : rows[p] # Absent => rows'[p] # Absent
  PROVE  StoreSound' /\ RunSound' /\ LastSound'
<1>1. /\ written' = TRUE /\ last'.mode = "none"
      /\ UNCHANGED <<old, draft, mode, at, loaded, index, idMap, log, refused>>
  BY Blanks DEF Writes, runVars
<1>2. Stored \subseteq Stored'
  BY DEF Stored
<1>3. Related(rows)'
  BY DEF Related
<1>4. StoreSound'
  BY <1>1, <1>2, <1>3 DEF ForetoldIInv, StoreSound
<1>5. RunSound' /\ LastSound'
  BY <1>1 DEF ForetoldIInv, RunSound, LastSound
<1> QED BY <1>4, <1>5

LEMMA SoundRegister ==
  ASSUME ForetoldIInv, MergeTypeOK', NEW k \in NewKeys, Register(k)
  PROVE  StoreSound' /\ RunSound' /\ LastSound'
<1>1. PICK p : p = First(Fresh)
  OBVIOUS
<1>2. PICK row \in Row : row = [key |-> k, uploader |-> NoPK]
  BY DEF NewKeys, Row
<1>3. /\ p \in PKs /\ rows[p] = Absent /\ rows' = [rows EXCEPT ![p] = row] /\ Writes
      /\ Hangs(k.table) => k.above \in Stored \ draft
      /\ k \in Key /\ k.user = NoPK /\ (k.above = NoPK <=> k.table # "site")
      /\ k.table \in {"user", "organisation", "site"}
  BY <1>1, <1>2, FirstOf DEF Register, Fresh, NewKeys
<1>4. /\ rows \in [PKs -> Row \cup {Absent}] /\ WithoutDraft \in [PKs -> Row \cup {Absent}]
      /\ draft' = draft
  BY <1>3, MergeParts DEF ForetoldIInv, Writes, runVars
<1>5. p \notin draft
  BY <1>3 DEF ForetoldIInv, StoreSound, Stored
<1>6. rows'[p] = row /\ \A q \in PKs : q # p => rows'[q] = rows[q]
  BY <1>3, <1>4
<1>7. \A q \in {row.key.above, row.key.user} : q # NoPK => q \in Stored \ draft
  BY <1>2, <1>3 DEF Hangs
<1>8. \A q \in {row.key.above, row.key.user} : q # NoPK => rows[q] # Absent /\ WithoutDraft[q] # Absent
  BY <1>7 DEF Stored, WithoutDraft
<1>9. Related([rows EXCEPT ![p] = row]) /\ Related([WithoutDraft EXCEPT ![p] = row])
  BY <1>3, <1>4, <1>8, RelatedWith DEF ForetoldIInv, StoreSound
<1>10. WithoutDraft' = [WithoutDraft EXCEPT ![p] = row]
  <2>1. \A q \in PKs : (IF q \in draft THEN Absent ELSE rows'[q]) = [WithoutDraft EXCEPT ![p] = row][q]
    <3> TAKE q \in PKs
    <3>1. CASE q = p
      BY <1>4, <1>5, <1>6, <3>1
    <3>2. CASE q # p
      BY <1>4, <1>6, <3>2 DEF WithoutDraft
    <3> QED BY <3>1, <3>2
  <2> QED BY <1>4, <2>1 DEF WithoutDraft
<1>11. Related(rows') /\ Related(WithoutDraft')
  BY <1>3, <1>9, <1>10
<1>12. Related(WithoutDraft)'
  BY <1>11 DEF Related
<1> QED BY <1>3, <1>6, <1>11, <1>12, SoundWrite

LEMMA SoundRename ==
  ASSUME ForetoldIInv, MergeTypeOK', NEW p \in PKs, NEW v \in Values, Rename(p, v)
  PROVE  StoreSound' /\ RunSound' /\ LastSound'
<1>1. /\ rows \in [PKs -> Row \cup {Absent}] /\ WithoutDraft \in [PKs -> Row \cup {Absent}]
      /\ rows[p] \in Row /\ p \notin draft /\ Writes /\ draft' = draft
      /\ rows' = [rows EXCEPT ![p] = Renamed(rows[p], v)]
  BY MergeParts DEF ForetoldIInv, Rename, Stored, Writes, runVars
<1>2. PICK row \in Row : /\ row = Renamed(rows[p], v)
                         /\ row.key.above = rows[p].key.above /\ row.key.user = rows[p].key.user
  BY <1>1 DEF Renamed, Row, Key
<1>3. rows'[p] = row /\ row # Absent /\ \A q \in PKs : q # p => rows'[q] = rows[q]
  BY <1>1, <1>2, Present
<1>4. WithoutDraft[p] = rows[p] /\ rows[p] # Absent
  BY <1>1, Present DEF WithoutDraft
<1>5. \A q \in {row.key.above, row.key.user} : q # NoPK => rows[q] # Absent /\ WithoutDraft[q] # Absent
  BY <1>2, <1>4 DEF ForetoldIInv, StoreSound, Related
<1>6. Related([rows EXCEPT ![p] = row]) /\ Related([WithoutDraft EXCEPT ![p] = row])
  BY <1>1, <1>5, RelatedWith DEF ForetoldIInv, StoreSound
<1>7. WithoutDraft' = [WithoutDraft EXCEPT ![p] = row]
  <2>1. \A q \in PKs : (IF q \in draft THEN Absent ELSE rows'[q]) = [WithoutDraft EXCEPT ![p] = row][q]
    <3> TAKE q \in PKs
    <3>1. CASE q = p
      BY <1>1, <1>3, <3>1
    <3>2. CASE q # p
      BY <1>1, <1>3, <3>2 DEF WithoutDraft
    <3> QED BY <3>1, <3>2
  <2> QED BY <1>1, <2>1 DEF WithoutDraft
<1>8. Related(rows') /\ Related(WithoutDraft')
  BY <1>1, <1>2, <1>6, <1>7
<1>9. Related(WithoutDraft)'
  BY <1>8 DEF Related
<1> QED BY <1>1, <1>3, <1>8, <1>9, SoundWrite

LEMMA ForetoldStays == ForetoldIInv /\ [MergeNext]_mergeVars => ForetoldIInv'
<1> SUFFICES ASSUME ForetoldIInv, [MergeNext]_mergeVars PROVE ForetoldIInv'
  OBVIOUS
<1>1. MergeIInv'
  BY MergeStays DEF ForetoldIInv
<1>2. MergeTypeOK'
  BY <1>1 DEF MergeIInv
<1>3. CASE UNCHANGED mergeVars
  <2>1. UNCHANGED <<old, rows, draft, mode, at, loaded, index, idMap, log, refused, last, written>>
    BY <1>3 DEF mergeVars
  <2>2. WithoutDraft' = WithoutDraft
    BY <2>1 DEF WithoutDraft
  <2>3. StoreSound'
    BY <2>1, <2>2 DEF ForetoldIInv, StoreSound, Related, Stored
  <2>4. \A b, f, l, r : /\ Recorded(b, f, l, r)' <=> Recorded(b, f, l, r)
                        /\ Single(f, l, r)' <=> Single(f, l, r)
                        /\ Compared(f, r)' <=> Compared(f, r)
                        /\ KeyOf(f, r)' = KeyOf(f, r)
    BY <2>1, MergeParts, RecordStands DEF ForetoldIInv
  <2>5. LastSound'
    BY <2>1, <2>2, <2>4 DEF ForetoldIInv, LastSound
  <2>6. ASSUME mode' # "idle", ~written', NEW r \in OldRows, r < at', Before(r, refused')
        PROVE  Recorded(WithoutDraft, idMap, log, r)' /\ (mode' # "find" => Single(idMap, log, r)')
    <3>1. Recorded(WithoutDraft', idMap', log', r) /\ (mode' # "find" => Single(idMap', log', r))
      BY <2>1, <2>2, <2>6 DEF ForetoldIInv, RunSound
    <3> QED BY <2>4, <3>1
  <2>7. ASSUME mode' \in {"dry", "merge"}, ~written', NEW q \in draft'
        PROVE  /\ HeldIn(WithoutDraft, rows[q].key)' = {}
               /\ \E s \in log' : idMap'[s] = q /\ Compared(idMap, s)' /\ KeyOf(idMap, s)' = rows'[q].key
    <3>1. HeldIn(WithoutDraft, rows[q].key) = {}
      BY <2>1, <2>7 DEF ForetoldIInv, RunSound
    <3>2. HeldIn(WithoutDraft, rows[q].key)' = {}
      BY <2>1, <2>2, <3>1 DEF HeldIn
    <3>3. \E s \in log : idMap[s] = q /\ Compared(idMap, s) /\ KeyOf(idMap, s) = rows[q].key
      BY <2>1, <2>7 DEF ForetoldIInv, RunSound
    <3> QED BY <2>1, <2>4, <3>2, <3>3
  <2>8. mode' = "find" /\ ~written' /\ loaded' # "none" =>
          /\ Indexed(Target[loaded])' \subseteq index'
          /\ \A x \in index' : \/ x \in Indexed(Target[loaded])'
                               \/ \E s \in log' : x = <<KeyOf(idMap, s)', idMap'[s]>>
    BY <2>1 DEF ForetoldIInv, RunSound, Indexed, Stored, KeyOf, Mapped
  <2>9. \A r \in log' : r < at'
    BY <2>1 DEF ForetoldIInv, RunSound
  <2>10. RunSound'
    BY <2>6, <2>7, <2>8, <2>9 DEF RunSound
  <2> QED BY <1>1, <2>3, <2>5, <2>10 DEF ForetoldIInv
<1>4. CASE MergeNext
  BY <1>1, <1>2, <1>4, SoundBegin, SoundLoad, SoundSkip, SoundDuplicate, SoundNew, SoundFail, SoundEnd,
     SoundRegister, SoundRename DEF MergeNext, ForetoldIInv
<1> QED BY <1>3, <1>4

\* What the run before this one foretold is what this one logs.
LEMMA RehearsalTells == ForetoldIInv => RehearsalHolds
<1> DEFINE C == {r \in OldRows : r < at /\ Before(r, refused \cup last.refused)}
<1> SUFFICES ASSUME ForetoldIInv, mode \in {"dry", "merge"}
             PROVE  \A r \in C : /\ last.mode = "dry" => (r \in log <=> r \in last.log)
                                 /\ last.mode = "find" => (r \in log => r \in last.log)
  BY DEF RehearsalHolds
<1>1. /\ MergeTypeOK /\ idMap \in Maps /\ last.idMap \in Maps /\ at \in Nat
      /\ refused \subseteq OldRows /\ last.refused \subseteq OldRows
  BY MergeParts DEF ForetoldIInv, MergeTypeOK
<1>2. PICK b : b = WithoutDraft
  OBVIOUS
<1>3. Related(b)
  BY <1>2 DEF ForetoldIInv, StoreSound
<1>4. /\ C \in SUBSET OldRows /\ \A r \in C, s \in OldRows : s < r => s \in C
      /\ \A r \in C : r < at /\ Before(r, refused) /\ Before(r, last.refused)
  BY <1>1 DEF Before, OldRows
<1> HIDE DEF C
<1>5. ASSUME last.mode \in {"find", "dry"} PROVE \A r \in C : r \in log => r \in last.log
  <2>1. ~written
    BY <1>5, MergeParts DEF ForetoldIInv, Quiet
  <2>2. \A r \in C :
          Recorded(b, last.idMap, last.log, r) /\ Recorded(b, idMap, log, r) /\ Single(idMap, log, r)
    BY <1>2, <1>4, <1>5, <2>1 DEF ForetoldIInv, RunSound, LastSound
  <2> QED BY <1>1, <1>3, <1>4, <2>2, Foretold
<1>6. ASSUME last.mode = "dry" PROVE \A r \in C : r \in last.log => r \in log
  <2>1. ~written
    BY <1>6, MergeParts DEF ForetoldIInv, Quiet
  <2>2. \A r \in C :
          Recorded(b, idMap, log, r) /\ Recorded(b, last.idMap, last.log, r)
            /\ Single(last.idMap, last.log, r)
    BY <1>2, <1>4, <1>6, <2>1 DEF ForetoldIInv, RunSound, LastSound
  <2> QED BY <1>1, <1>3, <1>4, <2>2, Foretold
<1> QED BY <1>5, <1>6

THEOREM MergeForetold == MergeSpec => []ForetoldIInv
<1>1. MergeInit => ForetoldIInv
  BY InitOK, SoundFromTheStart DEF ForetoldIInv
<1> QED BY <1>1, ForetoldStays, PTL DEF MergeSpec

\* A rehearsal tells what the merge will insert, and a search misses nothing of
\* it, up to the first row v2 refuses, for every old database, every v2 whose
\* foreign keys hold, and wherever the application wrote or runs were stopped in
\* between.
THEOREM RehearsalTellsAll == MergeSpec => []RehearsalHolds
BY MergeForetold, RehearsalTells, PTL

-----------------------------------------------------------------------------
(* MCOnboarding.  A part that shares no state takes its own steps or none; the *)
(* organisation's and the Q&C desk's share the application, and one behaviour *)
(* is of one of them.                                                         *)

Parts == {"organisation", "quality", "sessions", "codes", "monitor", "merge"}
ShareIInv ==
  /\ part \in Parts
  /\ part = "organisation" => OrgIInv /\ QualityTypeOK /\ mirror = "none"
  /\ part = "quality" => QualityIInv

LEMMA EveryOnboardingPart ==
  OnboardingSpec =>
    SessionsSpec /\ CodesSpec /\ MonitorInit /\ [][MonitorNext]_monitorVars /\ MergeSpec
<1>1. OnboardingInit => SessionsInit /\ CodesInit /\ MonitorInit /\ MergeInit
  BY DEF OnboardingInit
<1>2. [OnboardingNext]_onboardingVars =>
        /\ [SessionsNext]_sessionVars /\ [CodesNext]_codeVars
        /\ [MonitorNext]_monitorVars /\ [MergeNext]_mergeVars
  BY DEF OnboardingNext, onboardingVars
<1> QED BY <1>1, <1>2, PTL DEF OnboardingSpec, SessionsSpec, CodesSpec, MergeSpec

LEMMA SharedStart == OnboardingInit => ShareIInv
<1> SUFFICES ASSUME OnboardingInit PROVE ShareIInv
  OBVIOUS
<1>1. TypeOK /\ Init
  BY DEF OnboardingInit, QualityInit, Init, TypeOK, DocumentStatus, ConditionStatus, EvidenceStatus
<1>2. QualityTypeOK /\ MirrorSound /\ mirror = "none"
  BY <1>1 DEF OnboardingInit, QualityInit, QualityTypeOK, MirrorSound
<1>3. OrgIInv
  BY <1>1 DEF OnboardingInit, OrgIInv, Init, OnFile, WithStatus
<1> QED BY <1>1, <1>2, <1>3 DEF OnboardingInit, ShareIInv, Parts, QualityIInv

\* The steps of the two parts, from what the other leaves alone.
LEMMA SharedSteps ==
  ASSUME ShareIInv, [OnboardingNext]_onboardingVars
  PROVE  /\ part' = part
         /\ part = "organisation" => [OrgNext]_orgVars /\ UNCHANGED mirrorVars
         /\ part = "quality" => [QualityNext]_qualityVars /\ UNCHANGED handlerVars
         /\ part \notin {"organisation", "quality"} => UNCHANGED <<orgVars, mirrorVars>>
BY DEF OnboardingNext, onboardingVars, orgVars, qualityVars

LEMMA SharedStays == ShareIInv /\ [OnboardingNext]_onboardingVars => ShareIInv'
<1> SUFFICES ASSUME ShareIInv, [OnboardingNext]_onboardingVars PROVE ShareIInv'
  OBVIOUS
<1>1. CASE part = "organisation"
  <2>1. OrgIInv' /\ UNCHANGED <<mirrorVars, part>>
    BY <1>1, SharedSteps, OrgStep DEF ShareIInv
  <2>2. QualityTypeOK' /\ mirror' = "none"
    BY <1>1, <2>1 DEF ShareIInv, OrgIInv, QualityTypeOK, mirrorVars
  <2> QED BY <1>1, <2>1, <2>2 DEF ShareIInv
<1>2. CASE part = "quality"
  <2>1. QualityIInv' /\ part' = part
    BY <1>2, SharedSteps, QualityStep DEF ShareIInv
  <2> QED BY <1>2, <2>1 DEF ShareIInv
<1>3. CASE part \notin {"organisation", "quality"}
  BY <1>3, SharedSteps DEF ShareIInv
<1> QED BY <1>1, <1>2, <1>3

LEMMA SharedInvariant == OnboardingSpec => []ShareIInv
BY SharedStart, SharedStays, PTL DEF OnboardingSpec

\* Every part's state stays of its type.
THEOREM OnboardingTypesHold == OnboardingSpec => []OnboardingTypeOK
<1>1. ShareIInv /\ SessionsIInv /\ CodesIInv /\ MonitorIInv /\ ForetoldIInv => OnboardingTypeOK
  BY DEF ShareIInv, Parts, QualityIInv, SessionsIInv, CodesIInv, MonitorIInv, ForetoldIInv, MergeIInv,
         OnboardingTypeOK
<1> QED BY <1>1, EveryOnboardingPart, SharedInvariant, SessionsInvariant, CodesInvariant, MonitorInvariant,
           MergeForetold, PTL

\* Whatever requests overlap, a change of credentials ends the sessions before
\* it, and a code is answered and sent no more often than its limits allow.
THEOREM AccountsAreSafe == OnboardingSpec => []AccountsHold
<1>1. SessionsIInv /\ CodesIInv => AccountsHold
  BY TrackedEnds DEF CodesIInv, AccountsHold
<1> QED BY <1>1, EveryOnboardingPart, SessionsInvariant, CodesInvariant, PTL

\* A company with a lapsed credential stays restricted until it is renewed.
THEOREM RestrictionsHold == OnboardingSpec => []LapseRestricts
<1>1. MonitorIInv => LapseRestricts
  BY LapsesShow
<1> QED BY <1>1, EveryOnboardingPart, MonitorInvariant, PTL

\* The applicant's timeline tells what the handlers wrote.
THEOREM TimelineTellsAll == OnboardingSpec => []TimelineHolds
<1>1. ShareIInv => TimelineHolds
  BY TimelineFollows DEF ShareIInv, TimelineHolds
<1> QED BY <1>1, SharedInvariant, PTL

\* A second merge inserts nothing the first one has, nothing at all if v2 refused
\* no row, and a rehearsal tells what the merge does up to a row v2 refuses.
THEOREM MergesRepeat == OnboardingSpec => [](SecondRunInsertsNothing /\ RehearsalHolds)
<1>1. ForetoldIInv => SecondRunInsertsNothing /\ RehearsalHolds
  BY RehearsalTells DEF ForetoldIInv, MergeIInv, Settled, SecondRunInsertsNothing
<1> QED BY <1>1, EveryOnboardingPart, MergeForetold, PTL

\* Whichever desk acts, an organisation with a filed application becomes
\* verified only together with it.
THEOREM VerificationIsJoint == OnboardingSpec => VerifiedThroughApplication
<1>1. ASSUME ShareIInv, [OnboardingNext]_onboardingVars, HasApplication, checked \subseteq late,
             organisation # "verified", organisation' = "verified"
      PROVE  status' = "verified" \/ UNCHANGED orgVars
  <2>1. CASE part = "organisation"
    BY <1>1, <2>1, SharedSteps, JointStep DEF ShareIInv
  <2>2. CASE part = "quality"
    <3>1. TypeOK /\ [QualityNext]_qualityVars
      BY <1>1, <2>2, SharedSteps DEF ShareIInv, QualityIInv, QualityTypeOK
    <3>2. CASE SyncedStep \/ UnsyncedStep
      BY <1>1, <3>1, <3>2, SyncedIsNext, FilingMoves DEF Standing
    <3>3. CASE \E s \in MirrorStatus : DeskDecide(s)
      BY <1>1, <3>3 DEF DeskDecide, CarryDecisionBack, Transition, Standing
    <3>4. CASE UNCHANGED qualityVars \/ Assign \/ (\E d \in Docs : DeskUpload(d))
                 \/ \E d \in Docs, s \in CopyStatus : DeskDocument(d, s)
      BY <1>1, <3>4 DEF qualityVars, vars, Assign, DeskUpload, DeskDocument
    <3> QED BY <3>1, <3>2, <3>3, <3>4 DEF QualityNext
  <2>3. CASE part \notin {"organisation", "quality"}
    BY <1>1, <2>3, SharedSteps
  <2> QED BY <2>1, <2>2, <2>3
<1> QED BY <1>1, SharedInvariant, PTL DEF OnboardingSpec, VerifiedThroughApplication

\* What either desk does to an application or a document shows on both.
THEOREM DesksStayAgreed == OnboardingSpec => BothDesksAgree
<1>1. ASSUME ShareIInv, [OnboardingNext]_onboardingVars, mirror # "none", status' # status
      PROVE  Agree(status', mirror')
  <2>1. part = "organisation" => FALSE
    BY <1>1 DEF ShareIInv
  <2>2. part \notin {"organisation", "quality"} => FALSE
    BY <1>1, SharedSteps DEF orgVars, vars
  <2>3. part = "quality" => Agree(status', mirror')
    BY <1>1, SharedSteps, MovesAreSeen DEF ShareIInv
  <2> QED BY <2>1, <2>2, <2>3
<1>2. ASSUME ShareIInv, [OnboardingNext]_onboardingVars, NEW d \in Docs, mirror' # "none", d \in files',
             documents'[d] # documents[d]
      PROVE  Shows(copies'[d], documents'[d])
  <2>1. part = "organisation" => FALSE
    BY <1>2, SharedSteps DEF ShareIInv, mirrorVars
  <2>2. part \notin {"organisation", "quality"} => FALSE
    BY <1>2, SharedSteps DEF orgVars, vars, fileVars
  <2>3. part = "quality" => Shows(copies'[d], documents'[d])
    BY <1>2, SharedSteps, DocumentsAreSeen DEF ShareIInv
  <2> QED BY <2>1, <2>2, <2>3
<1>3. ShareIInv /\ [OnboardingNext]_onboardingVars =>
        [mirror # "none" /\ status' # status => Agree(status', mirror')]_qualityVars
  BY <1>1
<1>4. ShareIInv /\ [OnboardingNext]_onboardingVars =>
        [\A d \in Docs : mirror' # "none" /\ d \in files' /\ documents'[d] # documents[d] =>
           Shows(copies'[d], documents'[d])]_qualityVars
  BY <1>2
<1> QED BY <1>3, <1>4, SharedInvariant, PTL
        DEF OnboardingSpec, BothDesksAgree, MovesReachBothDesks, DocumentsReachBothDesks
=============================================================================
