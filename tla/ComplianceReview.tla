-------------------------- MODULE ComplianceReview --------------------------
(***************************************************************************)
(* What the onboarding of an organisation promises, without documents,     *)
(* conditions or sections: an application moves along TRANSITIONS, the     *)
(* organisation's verification status follows it, nothing incomplete is    *)
(* approved, nothing owing is verified, and a verified application stays   *)
(* complete and free of debts.                                             *)
(* ComplianceApplication implements this specification.                    *)
(***************************************************************************)
EXTENDS ComplianceWorkflow

VARIABLES
  status,        \* of the application, "none" before it is filed
  organisation,  \* the organisation's verification_status
  complete,      \* form, personnel and documents carry an approval
  owing          \* some approval condition is not cleared

vars == <<status, organisation, complete, owing>>

Init ==
  /\ status = "none"
  /\ organisation \in OrganisationStatus
  /\ complete \in BOOLEAN
  /\ owing = FALSE

\* The organisation files its only application.
File ==
  /\ status = "none"
  /\ status' = "draft"
  /\ UNCHANGED <<organisation, complete, owing>>

\* Applicant and desk work on the file; nothing of this reaches a verified one.
Work ==
  /\ status \notin {"none", "verified"}
  /\ complete' \in BOOLEAN
  /\ owing' \in BOOLEAN
  /\ UNCHANGED <<status, organisation>>

Move(target) ==
  /\ target \in TRANSITIONS(status)
  /\ target = "conditionally_approved" => complete /\ owing'
  /\ target = "verified" => complete /\ ~owing /\ UNCHANGED <<complete, owing>>
  /\ status' = target
  /\ organisation' = Standing(target)
  /\ complete' \in BOOLEAN
  /\ owing' \in BOOLEAN

Next ==
  \/ File
  \/ Work
  \/ \E target \in ApplicationStatus : Move(target)

Spec == Init /\ [][Next]_vars

=============================================================================
