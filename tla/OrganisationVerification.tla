---------------------- MODULE OrganisationVerification ----------------------
(***************************************************************************)
(* The onboarding application together with every other handler that       *)
(* writes an organisation's verification_status: submit and decide of      *)
(* organisations/views.py, and the mining desk's verify and reject         *)
(* (mining/views.py, on an application and on the organisation itself).    *)
(*                                                                         *)
(* These handlers lock no organisation row: what they check and what they  *)
(* write are two steps, and any other handler may run between them.        *)
(***************************************************************************)
EXTENDS ComplianceApplication

VARIABLES
  checked,  \* handlers that have passed their checks and not yet written
  late      \* history: those of them that made their checks after the filing

handlerVars == <<checked, late>>
orgVars == <<vars, handlerVars>>

applicationVars == <<status, sector, account, fileVars, conditionVars>>

OrganisationHandlers == {"submit", "decide", "mining_verify"}

HasApplication == status # "none"

\* organisations.submit: any administrator of the organisation.
SubmitChecks == organisation \in {"draft", "rejected"}

\* Fault: organisations.decide does not look for an application.
DecideChecksStatusOnly == organisation = "under_review"

\* organisations.decide refuses an organisation with an application.
DecideChecks == ~HasApplication /\ organisation = "under_review"

\* The mining desk's readiness: its document checks are left open, so any
\* organisation without an application may be ready.
MiningChecks == ~HasApplication /\ organisation # "verified"

Passes(h) ==
  \/ h = "submit" /\ SubmitChecks
  \/ h = "decide" /\ DecideChecks
  \/ h = "mining_verify" /\ MiningChecks

Outcomes(h) ==
  CASE h = "submit" -> {"under_review"}
    [] h = "decide" -> {"verified", "rejected"}
    [] h = "mining_verify" -> {"verified"}

Check(h) ==
  /\ h \notin checked
  /\ Passes(h)
  /\ checked' = checked \cup {h}
  /\ late' = IF HasApplication THEN late \cup {h} ELSE late
  /\ UNCHANGED vars

Write(h) ==
  /\ h \in checked
  /\ organisation' \in Outcomes(h)
  /\ checked' = checked \ {h}
  /\ late' = late \ {h}
  /\ UNCHANGED applicationVars

\* The mining desk rejects an organisation without looking at its status or at
\* its application.
MiningReject ==
  /\ organisation' = "rejected"
  /\ UNCHANGED <<applicationVars, handlerVars>>

OrgInit == Init /\ organisation = "draft" /\ checked = {} /\ late = {}

OrgNext ==
  \/ Next /\ UNCHANGED handlerVars
  \/ \E h \in OrganisationHandlers : Check(h) \/ Write(h)
  \/ MiningReject

OrgSpec == OrgInit /\ [][OrgNext]_orgVars

-----------------------------------------------------------------------------
(* Correctness *)

\* Once an application is filed and every handler still in flight made its
\* checks after the filing, the organisation becomes verified only together
\* with its application (organisations.decide and readiness refuse it).
VerifiedThroughApplication ==
  [][ /\ HasApplication /\ checked \subseteq late
      /\ organisation # "verified" /\ organisation' = "verified"
      => status' = "verified"]_orgVars

\* "The older organisation decision endpoint cannot bypass compliance checks"
\* (README): it writes no organisation whose application is under review.
NoBypassUnderReview == [][UnderReview => ~Write("decide")]_orgVars

\* "This organisation is decided through its compliance application"
\* (mining/verification.py): a verified application's organisation is verified.
VerifiedApplicationVerifiesOrganisation ==
  status = "verified" => organisation = "verified"

=============================================================================
