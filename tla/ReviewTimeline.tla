--------------------------- MODULE ReviewTimeline ---------------------------
(***************************************************************************)
(* The review timeline an applicant reads (organisations/timeline.py):     *)
(* four stages derived from the application, the organisation and the      *)
(* mine sites, and stored nowhere.  The mining side has components of its  *)
(* own: here it is any states its papers may have, and any of its sites    *)
(* operational or not.                                                     *)
(***************************************************************************)
EXTENDS OrganisationVerification, Naturals

Paper == {"verified", "awaiting", "rejected"}
Sites == {"none", "some", "all"}   \* how many of them are operational
Stages == {"submitted", "document_review", "site_verification", "decision"}
StageStates == {"upcoming", "current", "attention", "complete", "failed"}

\* The application speaks where there is one, the organisation otherwise.
Shown == IF HasApplication THEN status ELSE organisation
DecisionMade == Shown \in {"verified", "rejected", "conditionally_approved"}
NeedsInfo == Shown = "action_required"
ShownVerified == organisation = "verified" \/ Shown = "verified"

\* Fault: only the application says that something was submitted.
SubmittedThroughApplication == status \notin {"none", "draft"}
\* A submission leaves its time on the application and on the organisation,
\* and no handler leaves an organisation it has written a draft.
WasSubmitted == status \notin {"none", "draft"} \/ organisation # "draft"

DocumentState(d) == IF documents[d] = "submitted" THEN "awaiting" ELSE documents[d]
DocumentStates(papers) == {DocumentState(d) : d \in OnFile} \cup papers
Wanting(papers) == DocumentStates(papers) \cap {"requested", "rejected"} # {}

DocumentsDone(papers) ==
  ShownVerified \/ DecisionMade \/ DocumentStates(papers) = {"verified"}
SitesDone(sites) == ShownVerified \/ DecisionMade \/ sites = "all"

OpenState(done, attention) ==
  CASE done -> "complete"
    [] ~done /\ ~WasSubmitted -> "upcoming"
    [] OTHER -> IF attention THEN "attention" ELSE "current"

DecisionStage(papers, sites) ==
  CASE ShownVerified \/ DecisionMade -> IF Shown = "rejected" THEN "failed" ELSE "complete"
    [] ~ShownVerified /\ NeedsInfo -> "attention"
    [] OTHER -> IF WasSubmitted /\ DocumentsDone(papers) /\ SitesDone(sites)
                THEN "current" ELSE "upcoming"

\* build_timeline
Timeline(papers, sites) ==
  [submitted |-> IF WasSubmitted \/ ShownVerified THEN "complete" ELSE "current",
   document_review |-> OpenState(DocumentsDone(papers), Wanting(papers) \/ NeedsInfo),
   site_verification |-> OpenState(SitesDone(sites), FALSE),
   decision |-> DecisionStage(papers, sites)]

-----------------------------------------------------------------------------
\* Whatever wrote the organisation's status, a decision is never shown with a
\* stage before it open.
DecisionIsLast(t) ==
  t.decision \in {"complete", "failed"} =>
    \A s \in Stages \ {"decision"} : t[s] = "complete"

\* The applicant is asked to act exactly when there is something to do: a file
\* back with the applicant says so, and papers of the application that are
\* asked for call for attention only while they may still be uploaded.
ActionIsAsked(t, papers) ==
  /\ status = "action_required" /\ organisation # "verified" => t.decision = "attention"
  /\ t.decision = "attention" => Editable
  /\ papers = {} /\ t.document_review = "attention" => EvidenceEditable

\* What the applicant is shown follows from what the desks did, for any papers
\* and sites: no decision ahead of its stages, no request that goes unsaid or
\* cannot be met.
TimelineTells ==
  \A papers \in SUBSET Paper, sites \in Sites :
    LET t == Timeline(papers, sites) IN
    /\ t \in [Stages -> StageStates]
    /\ DecisionIsLast(t)
    /\ ActionIsAsked(t, papers)
=============================================================================
