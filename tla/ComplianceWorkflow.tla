------------------------- MODULE ComplianceWorkflow -------------------------
(***************************************************************************)
(* The state rules shared by submission and staff review                   *)
(* (compliance/workflow.py): constant operators only.                      *)
(***************************************************************************)

ApplicationStatus == {"draft", "under_review", "action_required",
                      "conditionally_approved", "verified", "rejected"}

\* An organisation's verification_status; the "suspended" choice is set by no
\* code of the repository and is left out.
OrganisationStatus == {"draft", "under_review", "verified", "rejected"}

\* The states in which the desk may act.
REVIEW_STATES == {"under_review", "action_required", "conditionally_approved"}

TRANSITIONS(s) ==
  CASE s = "draft" -> {"under_review"}
    [] s = "under_review" ->
         {"action_required", "conditionally_approved", "verified", "rejected"}
    [] s = "action_required" ->
         {"under_review", "conditionally_approved", "verified", "rejected"}
    [] s = "conditionally_approved" ->
         {"action_required", "verified", "rejected"}
    [] s = "rejected" -> {"under_review"}
    [] OTHER -> {}

\* The verification status a move to target gives the organisation.
Standing(target) ==
  IF target \in {"verified", "rejected"} THEN target ELSE "under_review"

=============================================================================
