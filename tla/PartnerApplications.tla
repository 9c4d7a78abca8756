-------------------------- MODULE PartnerApplications --------------------------
(***************************************************************************)
(* The careers hub's partner application: opened by anyone, filled by one  *)
(* upload at a time under a signed token, submitted, then moved on by      *)
(* staff in the admin site, to any status: also a draft nobody submitted,  *)
(* and a submitted one back to a draft that takes uploads again.  An       *)
(* upload or a submission locks the row and runs in one transaction, but   *)
(* the file of the document it replaces is deleted from storage at once: a *)
(* transaction that then fails brings back a row without its file.  Staff  *)
(* may also delete an application in the admin site, which is not modelled.*)
(***************************************************************************)
EXTENDS Naturals, FiniteSets

CONSTANTS
  RequiredKeys, OptionalKeys,  \* document keys of the applicant's sector
  Foreign,             \* keys of other sectors
  MaxUploads           \* bound: files received

VARIABLES
  partner,    \* the application's status
  token,      \* the upload token is younger than six hours
  files,      \* [RequiredKeys \cup OptionalKeys \cup Foreign -> [upload, stored]]
  uploads,    \* files received so far
  mail,       \* the last submission's message to staff: "none", "queued", "dropped" or "sent"
  earlier,    \* an earlier submission's message still waits
  listed,     \* the uploads the last message sent lists
  reopened    \* history: staff made the application a draft since it was submitted

told == <<mail, earlier, listed, reopened>>
partnerVars == <<partner, token, files, uploads, told>>

-----------------------------------------------------------------------------
PartnerKeys == RequiredKeys \cup OptionalKeys \cup Foreign
PartnerStatus == {"none", "draft", "submitted", "under_review", "info_requested", "approved", "dashboard_active"}
StoredFile == [upload : 0..MaxUploads, stored : BOOLEAN]   \* upload 0: no document
Uploaded == [k \in PartnerKeys |-> files[k].upload]

ASSUME PartnerAssumption == MaxUploads \in Nat /\ Foreign \cap (RequiredKeys \cup OptionalKeys) = {}

OpenApplication ==
  /\ partner = "none" /\ partner' = "draft" /\ token' = TRUE
  /\ UNCHANGED <<files, uploads, told>>

TokenExpires == token /\ token' = FALSE /\ UNCHANGED <<partner, files, uploads, told>>

\* get_draft: the token, then the status of the locked row.
TokenOnly == token /\ partner # "none"
TokenDraft == token /\ partner = "draft"

UploadFile(k) ==
  /\ TokenDraft /\ k \in RequiredKeys \cup OptionalKeys /\ uploads < MaxUploads
  /\ files' = [files EXCEPT ![k] = [upload |-> uploads + 1, stored |-> TRUE]]
  /\ uploads' = uploads + 1 /\ UNCHANGED <<partner, token, told>>

UploadFails(k) ==
  /\ TokenDraft /\ files[k].upload > 0 /\ files[k].stored
  /\ files' = [files EXCEPT ![k].stored = FALSE]
  /\ UNCHANGED <<partner, token, uploads, told>>

\* The message is queued after the commit, or dropped if that fails.
SubmitPartner ==
  /\ TokenDraft /\ \A k \in RequiredKeys : files[k].upload > 0
  /\ partner' = "submitted" /\ reopened' = FALSE
  /\ mail' \in {"queued", "dropped"} /\ earlier' = (earlier \/ mail = "queued")
  /\ UNCHANGED <<token, files, uploads, listed>>

\* The worker reads the application when it gets to a message.
SendNotification ==
  /\ \/ mail = "queued" /\ mail' = "sent" /\ UNCHANGED earlier
     \/ earlier /\ earlier' \in BOOLEAN /\ UNCHANGED mail
  /\ listed' = Uploaded
  /\ UNCHANGED <<partner, token, files, uploads, reopened>>

\* The status is the one column staff edit, to any of its choices.
StaffMove(s) ==
  /\ partner # "none" /\ s \in PartnerStatus \ {"none"}
  /\ partner' = s /\ reopened' = (reopened \/ s = "draft")
  /\ UNCHANGED <<token, files, uploads, mail, earlier, listed>>

PartnerInit ==
  /\ partner = "none" /\ token = FALSE /\ uploads = 0 /\ mail = "none"
  /\ files = [k \in PartnerKeys |-> [upload |-> 0, stored |-> FALSE]]
  /\ listed = [k \in PartnerKeys |-> 0] /\ earlier = FALSE /\ reopened = FALSE

PartnerNext ==
  \/ OpenApplication \/ TokenExpires \/ SubmitPartner \/ SendNotification
  \/ \E k \in PartnerKeys : UploadFile(k) \/ UploadFails(k)
  \/ \E s \in PartnerStatus : StaffMove(s)

PartnerSpec == PartnerInit /\ [][PartnerNext]_partnerVars

-----------------------------------------------------------------------------
PartnerTypeOK ==
  /\ partner \in PartnerStatus /\ token \in BOOLEAN /\ uploads \in 0..MaxUploads
  /\ files \in [PartnerKeys -> StoredFile]
  /\ mail \in {"none", "queued", "dropped", "sent"} /\ listed \in [PartnerKeys -> 0..MaxUploads]
  /\ earlier \in BOOLEAN /\ reopened \in BOOLEAN

\* An application that was ever submitted has every required document and none
\* of another sector, whatever staff make of its status; and until staff make
\* it a draft again, they find the very uploads its message lists, however
\* late the applicant's retries or an earlier message arrive.
SubmittedIsFrozen ==
  mail # "none" =>
    /\ \A k \in PartnerKeys : /\ k \in RequiredKeys => files[k].upload > 0
                              /\ k \in Foreign => files[k].upload = 0
    /\ mail = "sent" /\ ~reopened => listed = Uploaded
=============================================================================
