----------------------------- MODULE MCOnboarding -----------------------------
(* Around an organisation: its verification and the timeline its people read, *)
(* its Q&C onboarding, the sessions and one-time codes of its accounts, the   *)
(* credential monitor of a logistics company, and the merge that brought the  *)
(* old platform's organisations over.  One document on every checklist and    *)
(* one section of each form; two overlapping requests.  The parts share no    *)
(* state but the application of the first two: a behaviour is one of the      *)
(* chosen part.                                                               *)
EXTENDS ReviewTimeline, QualityOnboarding, Sessions, AccountCodes,
        CredentialMonitor, LegacyMerge

VARIABLE part

\* Old databases: an account, two companies of one name or two, the first's
\* owner, a site of each company under one name, and the first site's document,
\* held twice; and one with empty keys and an uploader without an account.
Was(m, d, a, u) == [mapping |-> m, data |-> d, above |-> a, user |-> u]
Holding(email, name) ==
  << Was("users", email, 0, 0), Was("mining orgs", "a", 0, 0), Was("mining orgs", name, 0, 0),
     Was("mining owners", "a", 2, 1), Was("sites", "a", 2, 0), Was("sites", "a", 3, 0),
     Was("miner documents", "a", 5, 1), Was("profile documents", "a", 6, 1) >>
MCDatabases == {Holding("a", "a"), Holding("a", "b"), Holding(Blank, Blank)}

\* v2: empty; with one of the companies; with two of one name, a site under
\* the second; with the account and a company and its other site.
Is(t, d, a) == [key |-> [table |-> t, data |-> d, above |-> a, user |-> NoPK], uploader |-> NoPK]
MCContents ==
  {[p \in PKs |-> IF p \in DOMAIN c THEN c[p] ELSE Absent] :
     c \in {<<>>,
            <<Is("organisation", "a", NoPK)>>,
            <<Is("organisation", "a", NoPK), Is("organisation", "a", NoPK), Is("site", "a", 2)>>,
            <<Is("user", "a", NoPK), Is("organisation", "a", NoPK), Is("site", "b", 2)>>}}

onboardingVars ==
  <<part, orgVars, mirrorVars, sessionVars, codeVars, monitorVars, mergeVars>>

OnboardingInit ==
  /\ part \in {"organisation", "quality", "sessions", "codes", "monitor", "merge"}
  /\ QualityInit /\ checked = {} /\ late = {} /\ SessionsInit /\ CodesInit /\ MonitorInit
  /\ MergeInit
  /\ part # "quality" => organisation = "draft"
  /\ part \notin {"organisation", "quality"} => sector = "other" /\ account = TRUE
  /\ part # "sessions" => portal = [a \in Accounts |-> Unset]
  /\ part # "codes" => purpose = "email"
  /\ part # "merge" => /\ old = Holding("a", "a")
                       /\ rows = [p \in PKs |-> Absent]

MonitorRun ==
  /\ part = "monitor" /\ MonitorExpiries
  /\ UNCHANGED <<part, orgVars, mirrorVars, sessionVars, codeVars, mergeVars>>

OnboardingNext ==
  \/ part = "organisation" /\ OrgNext
     /\ UNCHANGED <<part, mirrorVars, sessionVars, codeVars, monitorVars, mergeVars>>
  \/ part = "quality" /\ QualityNext
     /\ UNCHANGED <<part, handlerVars, sessionVars, codeVars, monitorVars, mergeVars>>
  \/ part = "sessions" /\ SessionsNext
     /\ UNCHANGED <<part, orgVars, mirrorVars, codeVars, monitorVars, mergeVars>>
  \/ part = "codes" /\ CodesNext
     /\ UNCHANGED <<part, orgVars, mirrorVars, sessionVars, monitorVars, mergeVars>>
  \/ part = "monitor" /\ MonitorNext
     /\ UNCHANGED <<part, orgVars, mirrorVars, sessionVars, codeVars, mergeVars>>
  \/ part = "merge" /\ MergeNext
     /\ UNCHANGED <<part, orgVars, mirrorVars, sessionVars, codeVars, monitorVars>>

\* Celery beat starts a run of the monitor every hour.
OnboardingSpec ==
  OnboardingInit /\ [][OnboardingNext]_onboardingVars /\ WF_onboardingVars(MonitorRun)

\* Bounds of the merge's part: where the application writes there is one run
\* more, and the two companies of the old database share a name.  (What runs make
\* of a v2 the application changed between them is what they make of other
\* Contents.)
WritesAlone == writes > 0 => last.mode = "none" /\ old # Holding("a", "b")

\* Every part's state is of its type.
OnboardingTypeOK ==
  CASE part \in {"organisation", "quality"} -> QualityTypeOK
    [] part = "sessions" -> SessionsTypeOK [] part = "codes" -> CodesTypeOK
    [] part = "monitor" -> MonitorTypeOK [] part = "merge" -> MergeTypeOK

\* Whatever the requests of accounts and codes overlap with, a change of
\* credentials ends the sessions before it and a code stays within its limits
\* (Sessions.ChangeEndsSessions, AccountCodes.CodesBounded).
AccountsHold ==
  /\ part = "sessions" => ChangeEndsSessions
  /\ part = "codes" => CodesBounded

\* What the applicant reads of the review follows from what the handlers wrote,
\* at every step of overlapping ones (ReviewTimeline.TimelineTells).
TimelineHolds == part = "organisation" => TimelineTells
=============================================================================
