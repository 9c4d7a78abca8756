---------------------------- MODULE MiningDesk ----------------------------
(***************************************************************************)
(* The mining compliance desk: admission applications that one reviewer    *)
(* claims, the organisation verified inside a claimed application, the     *)
(* mine site's evidence sections and what a verdict on them does to the    *)
(* site, its review queue and its applications.                            *)
(*                                                                         *)
(* Every handler runs in one transaction.  Claiming, releasing, deciding   *)
(* and the site's handlers lock the row they write and are one action.     *)
(* PATCH of an application is the exception: it reads the row unlocked and *)
(* later saves every column of it, so it is two actions with others in     *)
(* between.  Papers have a module of their own, MiningPapers; here they    *)
(* are what the gates read of them.  Scores are in MiningScore.            *)
(***************************************************************************)
EXTENDS Naturals, FiniteSets

CONSTANTS
  Reviewers,     \* desk users who may decide (can_decide)
  Applications,  \* applications of one organisation about one site
  Sections,      \* keys of the evidence sections
  SiteVerdicts,  \* the section verdicts an instance explores
  OwnerStatuses, \* the site statuses its owner sets by PATCH
  Nobody         \* the claim nobody holds, the edit nobody has open

VARIABLES
  application,   \* [Applications -> row, or "none" as its status]
  edit,          \* [Applications -> the row a PATCH has read, or Nobody]
  organisation,  \* verification_status of the mining organisation
  gate,          \* what its papers say: organisation papers, site papers
  siteSection,   \* [Sections -> review state]
  site,          \* status of the mine site
  queue          \* its queued review: "none", "queued" or "completed"

miningVars == <<application, edit, organisation, gate, siteSection, site, queue>>

AppStatus == {"pending", "under_review", "info_requested", "approved", "rejected"}
Row == [status : AppStatus \cup {"none"}, holder : Reviewers \cup {Nobody}, linked : BOOLEAN]
ReviewState == {"pending", "under_review", "verified", "rejected",
                "info_requested", "inspection_requested", "flagged"}
SiteStatus == {"operational", "under_review", "suspended", "care_maintenance"}
Decided == {"approved", "rejected"}
Gate == [org : BOOLEAN, site : BOOLEAN]

ASSUME MiningAssumption ==
  /\ SiteVerdicts \subseteq ReviewState /\ "verified" \in SiteVerdicts
  /\ OwnerStatuses \subseteq SiteStatus
  /\ Nobody \notin Reviewers /\ Nobody \notin Row

MiningTypeOK ==
  /\ application \in [Applications -> Row]
  /\ edit \in [Applications -> Row \cup {Nobody}]
  /\ organisation \in {"unverified", "verified", "rejected"}
  /\ gate \in Gate
  /\ siteSection \in [Sections -> ReviewState]
  /\ site \in SiteStatus
  /\ queue \in {"none", "queued", "completed"}

-----------------------------------------------------------------------------
Open(a) == application[a].status \in AppStatus \ Decided
AnyReviewer(r, a) == Open(a)
ClaimedForDecision(r, a) == Open(a) /\ application[a].holder = r
Cleared == IF queue = "none" THEN "none" ELSE "completed"

\* The miner (or the desk) files an application, linked to the site or not yet.
File(a) ==
  /\ application[a].status = "none"
  /\ \E l \in BOOLEAN :
       application' = [application EXCEPT ![a] = [status |-> "pending", holder |-> Nobody, linked |-> l]]
  /\ UNCHANGED <<edit, organisation, gate, siteSection, site, queue>>

\* PATCH: the row as read ...
EditBegin(a) ==
  /\ application[a].status # "none" /\ edit[a] = Nobody
  /\ edit' = [edit EXCEPT ![a] = application[a]]
  /\ UNCHANGED <<application, organisation, gate, siteSection, site, queue>>

\* ... and saved whole, with the columns the serializer lets a client write.
EditSave(a) ==
  /\ edit[a] # Nobody
  /\ \E l \in BOOLEAN :
       application' = [application EXCEPT ![a] = [status |-> edit[a].status, holder |-> edit[a].holder, linked |-> l]]
  /\ edit' = [edit EXCEPT ![a] = Nobody]
  /\ UNCHANGED <<organisation, gate, siteSection, site, queue>>

Claim(r, a) ==
  /\ application[a].status # "none"
  /\ application[a].holder = Nobody
  /\ application' = [application EXCEPT ![a].holder = r]
  /\ UNCHANGED <<edit, organisation, gate, siteSection, site, queue>>

\* By the holder or by platform staff, before or after the decision.
Release(a) ==
  /\ application[a].holder # Nobody
  /\ application' = [application EXCEPT ![a].holder = Nobody]
  /\ UNCHANGED <<edit, organisation, gate, siteSection, site, queue>>

VerifyOrganisation(r, a) ==
  /\ ClaimedForDecision(r, a)
  /\ organisation # "verified" /\ gate.org
  /\ organisation' = "verified"
  /\ application' = IF application[a].status = "pending"
                    THEN [application EXCEPT ![a].status = "under_review"] ELSE application
  /\ UNCHANGED <<edit, gate, siteSection, site, queue>>

RejectOrganisation(r, a) ==
  /\ ClaimedForDecision(r, a)
  /\ organisation' = "rejected"
  /\ application' = [application EXCEPT ![a].status = "rejected"]
  /\ UNCHANGED <<edit, gate, siteSection, site, queue>>

NoBlockers == organisation = "verified" /\ gate.site

ApproveApplication(r, a) ==
  /\ ClaimedForDecision(r, a) /\ NoBlockers
  /\ application' = [application EXCEPT ![a].status = "approved", ![a].linked = TRUE]
  /\ site' = "operational" /\ queue' = Cleared
  /\ UNCHANGED <<edit, organisation, gate, siteSection>>

\* The register of mining companies decides one for whoever holds a claim on
\* an application of it, decided or not, and leaves the application alone.
DecideCompany(r) ==
  /\ \E a \in Applications : application[a].holder = r
  /\ organisation' \in {"rejected"} \cup (IF gate.org THEN {"verified"} ELSE {})
  /\ UNCHANGED <<application, edit, gate, siteSection, site, queue>>

RejectApplication(r, a) ==
  /\ ClaimedForDecision(r, a)
  /\ application' = [application EXCEPT ![a].status = "rejected"]
  /\ UNCHANGED <<edit, organisation, gate, siteSection, site, queue>>

-----------------------------------------------------------------------------
AllVerified(s) == \A k \in Sections : s[k] = "verified"

\* What a full set of verdicts does to the applications linked to the site.
Outcome == [a \in Applications |->
              IF application[a].linked /\ Open(a) THEN [application[a] EXCEPT !.status = "approved"]
              ELSE application[a]]

\* The verdict and apply_review_outcome, in one transaction.
ReviewSiteSection(k, v) ==
  /\ siteSection' = [siteSection EXCEPT ![k] = v]
  /\ IF AllVerified(siteSection')
     THEN site' = "operational" /\ queue' = Cleared /\ application' = Outcome
     ELSE /\ site' = IF site = "operational" THEN "under_review" ELSE site
          /\ UNCHANGED <<queue, application>>
  /\ UNCHANGED <<edit, organisation, gate>>

\* The owner saves a section: its verdict goes, the site's status stays.
SaveSiteSection(k) ==
  /\ siteSection' = [siteSection EXCEPT ![k] = "pending"]
  /\ UNCHANGED <<application, edit, organisation, gate, site, queue>>

\* A reply to an information request hands a held section back to the desk.
ReplyToSection(k) ==
  /\ siteSection[k] = "info_requested"
  /\ siteSection' = [siteSection EXCEPT ![k] = "under_review"]
  /\ UNCHANGED <<application, edit, organisation, gate, site, queue>>

AmendSite(s) ==
  /\ site' = s
  /\ UNCHANGED <<application, edit, organisation, gate, siteSection, queue>>

QueueReview ==
  /\ queue' \in {"queued", "completed"}
  /\ UNCHANGED <<application, edit, organisation, gate, siteSection, site>>

\* Papers are filed, replaced and judged (MiningPapers).
PapersMove ==
  /\ gate' \in Gate
  /\ UNCHANGED <<application, edit, organisation, siteSection, site, queue>>

-----------------------------------------------------------------------------
MiningInit ==
  /\ application = [a \in Applications |-> [status |-> "none", holder |-> Nobody, linked |-> FALSE]]
  /\ edit = [a \in Applications |-> Nobody]
  /\ organisation = "unverified"
  /\ gate = [org |-> FALSE, site |-> FALSE]
  /\ siteSection = [k \in Sections |-> "pending"]
  /\ site = "under_review" /\ queue = "none"

Decide(r, a) ==
  VerifyOrganisation(r, a) \/ RejectOrganisation(r, a) \/ ApproveApplication(r, a) \/ RejectApplication(r, a)

MiningNext ==
  \/ \E a \in Applications :
       \/ File(a) \/ EditBegin(a) \/ EditSave(a) \/ Release(a)
       \/ \E r \in Reviewers : Claim(r, a) \/ Decide(r, a)
  \/ \E k \in Sections :
       \/ SaveSiteSection(k) \/ ReplyToSection(k)
       \/ \E v \in SiteVerdicts : ReviewSiteSection(k, v)
  \/ \E s \in OwnerStatuses : AmendSite(s)
  \/ \E r \in Reviewers : DecideCompany(r)
  \/ QueueReview \/ PapersMove

MiningSpec == MiningInit /\ [][MiningNext]_miningVars

-----------------------------------------------------------------------------
Taken(a) == application[a].holder # Nobody
Judged(k) == siteSection'[k] # siteSection[k] /\ siteSection'[k] \in {"rejected", "flagged", "info_requested"}

\* A claim passes from one reviewer to another only through a release:
\* whatever two reviewers do, neither takes the other's application.  The
\* save of a stale PATCH is the one exception (ClaimedByClaiming).
ClaimExclusive ==
  [][\A a \in Applications :
       Taken(a) => application'[a].holder \in {application[a].holder, Nobody} \/ EditSave(a)]_miningVars

\* An application is decided once: approval and rejection, by its reviewer or
\* through the verdicts on the site's sections, never undo each other.
DecisionStands ==
  [][\A a \in Applications :
       application[a].status \in Decided =>
         application'[a].status = application[a].status \/ EditSave(a)]_miningVars

\* A rejection is the claimant's, and so is an approval unless every section
\* of the site is verified: no other route decides an application.
DecidedUnderClaim ==
  [][\A a \in Applications :
       Open(a) /\ application'[a].status \in Decided =>
         \/ Taken(a)
         \/ application'[a].status = "approved" /\ AllVerified(siteSection')
         \/ EditSave(a)]_miningVars

\* A claim is exclusive, and a decision its holder's.
ClaimsHold == ClaimExclusive /\ DecidedUnderClaim

\* A verdict against a section takes the site out of operation in the same
\* step, also when an approval or its owner had put it there.
FlagReopensSite ==
  [][(\E k \in Sections : Judged(k)) => site' # "operational"]_miningVars

\* What the serializer's comment says: claiming and reassigning happens only
\* through claim (and release), never through a PATCH.
ClaimedByClaiming ==
  [][\A a \in Applications :
       Taken(a) => application'[a].holder \in {application[a].holder, Nobody}]_miningVars
=============================================================================
