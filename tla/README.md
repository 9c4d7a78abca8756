# Beldium backend: TLA+ models, checks and proofs

Specifications of the Beldium compliance backend (a Django REST service over
PostgreSQL, with Celery and Redis for email and the hourly monitor), the TLC
configurations that check them on small instances, and theorems about them
checked by TLAPS. Paths are relative to the repository root.

## 1. Inventory

| Component | State | Operations | Interacts with | What is hard | What makes it correct |
|---|---|---|---|---|---|
| `compliance` | application status, form sections, personnel, document rows and files, approval conditions, their evidence | create, save section, personnel, upload, submit; staff: decide, request and review documents, conditions, evidence | writes `organisations`; read by sign-in gating; synced to `quality` | long legal sequences, checklist that depends on form and sector, late uploads, work by applicant and desk on the same file | a verification rests on a complete, verified file; refused evidence holds the file back; verified evidence is frozen |
| `organisations` | verification status, memberships, invitations, join requests, join code | submit, decide, invite, accept, revoke, join, suspend, update, remove, timeline | written by `compliance`, `mining` | checks and writes without a lock; several desks write one column; stale rows saved whole | one verdict per organisation; nobody enters uninvited; the timeline says what happened |
| `quality` | mirror of a Q&C onboarding application, samples, results, certificates, non-conformities, professional applications | desk: decide, mark documents, assign; samples: custody, test, review, certify | two-way bridge with `compliance` | two desks on one file, opposite lock orders, unlocked reads | both desks see one verdict; one certificate per sample, over a review that did not fail it |
| `accounts` | one-time codes, attempt counters, tokens, verified flags, portal | issue, verify, reset, change email/phone, sign in, sign out | background email threads, Celery | concurrent requests around budgets, failure between commit and blacklisting | a code passes one request; a change of credentials ends every session before it |
| start of the process, `migration` | accounts; the rows of two databases | import, delete, promote on every boot; search, rehearse and merge the old platform | the process still serving | runs that stop half-way and are repeated beside writes | accounts stay as their holders left them; a second merge inserts nothing the first one has |
| `vault` | append-only documents, versions, approvals | upload, add version, approve | `quality` roles, organisation status | concurrent replacement and upload | a family is a single line of versions; approved by a second person |
| `mining` | applications and their claims, sites, sections, documents, information requests, findings, registers | claim, release, verify organisation, approve, review and replace documents, mark sections | writes `organisations` | claims, unlocked PATCHes and document reviews, scores computed from weights | only the claimant decides; a paper is never lost; a score is an average of its marks |
| `processing` | processor applications, sections, documents, stage, findings, registers | submit, review section, decide, findings | own register | stages and sections move together; stale saves | approval rests on verified sections and is final; the register says what was decided |
| `logistics` | applications, evidence versions, requests, restrictions, monitoring events; requests, movements, deliveries | desk handlers, assign, status, expiry monitor (Celery beat) | `monitor_expiries` beside the desk | availability check over other rows, monitor beside renewals, return from awaiting information | a file always comes back; a lapse is reported and restricts; one movement per request |
| `warehousing`, `export` | applications, evidence versions, conditions, requests; zones, lots and releases; shipments | the same desk | own register | item and application locked in both orders | approval rests on current verified evidence; a lot is in its own warehouse |
| `marketplace` | sellers, listings, orders, payment events, disputes | review, fulfil, webhook, dispute | payment provider | repeated and reordered events, unlocked orders | what is sold was reviewed, what is shipped was paid |
| `careers` | partner application drafts | draft, upload, submit; staff: set the status | staff email, storage | submission while uploading, files removed before the commit, an application set back to a draft | a submitted application is complete and its mail lists what it holds |
| stored files | the objects behind rows, and the names they are stored under | `pre_save`, `post_delete`, `on_commit` handlers of `compliance`, `mining`, `processing` | object storage | names given out again, removal after commit, rows saved by requests that overlap | a row that names a file finds it |
| `finance`, `ecosystem`, `common`, `core`, `deploy` | records, settings, scripts | create, read, update | | | no rule over time |

The service runs without a surrounding transaction per request
(`ATOMIC_REQUESTS` is off) at PostgreSQL's READ COMMITTED. The desks of
`compliance`, `quality`, `logistics`, `warehousing`, `export`, `mining` and
`processing` wrap each request in a transaction and most lock the row they act
on (`get_object` with `select_for_update`); `organisations`, much of `accounts`
and many mining and processing handlers do not. A handler that locks the one row
it depends on is an atomic action of a model; a handler that reads or checks
without a lock is two actions, its read and its write, and what it wrote back
whole (`serializer.save()` saves every column) or by name (`update_fields`) is
kept apart.

## 2. Modules

| Module | Models | State and actions |
|---|---|---|
| `ComplianceWorkflow` | `compliance/workflow.py` | constant operators: statuses, `REVIEW_STATES`, `TRANSITIONS`, the organisation's standing |
| `ComplianceApplication` | `compliance/views.py` with `application_progress` | one application: `status`, `sections`, `documents`, `files`, ... are its rows; one action per handler, guards from its assertions in order |
| `ComplianceReview` | what the review promises | four variables: status, organisation, whether the file carries an approval, whether conditions are owed |
| `OrganisationVerification` | the onboarding application beside `organisations.submit` / `decide` and the mining desk's verify and reject | `checked` holds handlers between their checks and their write |
| `ReviewTimeline` | `organisations/timeline.py` | operators over the state of `OrganisationVerification`: the four stages as they are read |
| `QualityOnboarding` | the application beside the Q&C desk's mirror (`quality/bridge.py`, `quality/views.py`) | `mirror` and `copies`; handlers that sync are the core actions conjoined with `SyncQuality` |
| `QualitySamples` | samples, certificates, non-conformities and professionals of `quality/views.py` | one of each, with its handlers |
| `Sessions` | sign-in, refresh and the changes that end sessions (`accounts`) | `token` is the outstanding and blacklisted rows, `request` what a request has read |
| `AccountCodes` | the three kinds of one-time code (`accounts/services.py`, `tasks.py`) | `codes` in the order of issue, `step` of each overlapping request |
| `AccountUpkeep` | a start of the web process (`Procfile`, the management commands) and `reactivate_users.py` | `boot` is where the start stands, `person` the accounts, which the process before goes on changing |
| `Membership` | members, invitations, join requests (`organisations/views.py`) | `edit` is the row an administrator's PATCH has read |
| `Vault`, `VaultHistory` | `vault/services.py` with the constraints of `vault/models.py`; what the vault promises | `documents` and `approvals` are the stored rows; `creating[w]` and `approving[w]` what worker `w` has checked and not yet inserted |
| `MiningDesk` | claims, decisions, site sections (`mining/views.py`) | `edit` is the row a PATCH has read; `gate` what the papers say |
| `MiningScore` | marks, score, risk and findings of a site | `amending`, `acting`: what a handler has read of a finding |
| `MiningPapers` | a miner's papers and the requests about them | `judging`, `replacing`, `answering`: checks not yet written; `patching` the request a PATCH has read |
| `ProcessingDesk` | the processing desk (`processing/views.py`) | `reading`, `entry`, `amending`, `supplying`: rows read and not saved; `named`: the application names the register's entry |
| `Registers` | the operating registers of the four verticals | one row of one register, and what each overlapping editor has read |
| `Dashboards` | the dashboards of `mining` and `processing` | operators over the registers, evaluated at every reading |
| `EvidenceDesk` | the warehousing review desk (`warehousing/views.py`, `services.py`) | `status`, `section`, `document` (the current version of a type), `request`, `condition`; `ready` is what `progress()` reads of other records |
| `WarehouseFloor` | zones, lots and releases | `writing` is the lot validated and not saved |
| `ExportDesk` | the export desk and the exporter's shipments | `EvidenceDesk` instantiated with the readiness computed from `account`, `profile` and `shipment`; its handlers are the desk's, the shipment handlers its own |
| `LogisticsDesk` | the logistics review desk and its restrictions (`logistics/views.py`, `services.py`) | as `EvidenceDesk`, with `answer` (what each answer rests on), `restricted` (sources of unresolved restrictions), `mineral`, `profile`, `account` |
| `CredentialMonitor` | `monitor_expiries` over versions of papers and dates | `events` and `notices` are what was reported, `open` the restrictions |
| `FleetOperations` | transport requests, movements, deliveries | `assigning` is the truck a handler has checked; `own` marks rows no free PATCH has touched |
| `Marketplace` | listing, orders, payment events | `cart` and `delivery` are what a request has read |
| `PartnerApplications` | the careers hub's partner application | `files` with whether each is still on storage, `mail` and what it lists, `earlier` messages still waiting; `reopened` is a history variable |
| `StoredFiles` | `signals.py` of `compliance`, `mining` and `processing` | `named`, `object`: rows and storage; `handler` what a request has read, stored and will remove |
| `LegacyMerge` | `migration/merge_engine.py`, `mapping.py` and the two scripts | `rows` and `draft` are v2, `idMap`, `index`, `log`, `refused` the run's, `last` the run before |
| `ComplianceApplicationProofs`, `VaultProofs`, `ExportDeskProofs` | theorems on the module they are named after, the last as `MCReviews` joins it | |
| `OperationsProofs`, `OnboardingProofs`, `PlatformProofs`, `MiningProofs` | theorems on the components that `MCDesks`, `MCOnboarding`, `MCPlatform` and `MCMining` join, and on each of these joined specifications | |
| `SumProofs` | lemmas on sums over finite sets | |
| `MC*` | instances for TLC | |

How the application's model corresponds to its code:

* `dispatch` opens a transaction and `get_object` locks the application row, so
  every handler is one action. `Transition` is `workflow.transition`, called
  inside the handlers as in the code.
* A document type has one row; `documents[d]` is its status, `"none"` before the
  row exists, and `d \in files` says that the row holds a file. A desk request
  (`update_or_create`) keeps the file.
* `Kind` is the branch `application_progress` and `documents` take: the Q&C
  form, the logistics sector, or the standard checklist. `Titles` and
  `RequiredTypes` are constants, so nothing depends on the actual lists.
* `sections` holds the sections saved with content. A saved section never
  empties, the serializers refuse empty content.
* `requirements` is the legacy free text that blocks verification without
  structured conditions. `account` is the applicant's verified email and active
  flag, which may change at any time.
* `answered` is a history variable, read by properties only.
* Definitions preceded by a comment `Fault:` are variants of the definition
  below them with a plausible mistake; nothing of the model uses them. Each
  property is shown to fail under one of them.

How the vault's model corresponds to its code:

* A handler is two actions of one transaction. The first is the reads and
  checks: after `select_for_update` in `AddVersion` and `Approve`, whose guard
  `~Locked(d)` is the wait for the row, and without a lock in `Upload`. The
  second is the insert and commit (`CreateDocument`, `CreateApproval`).
  `RollBack` may end the transaction in between.
* Rows are inserted and never changed (`AppendOnlyModel`), so a document's id is
  its position in `documents`, and a family is named by its first version (the
  code draws a uuid).
* The one-to-one fields are the guards `OneSuccessor` and `OneApproval` of the
  inserts: the database would refuse the row. `ChecksStillHold` says that it
  never has to.
* `found` is what `access.standing` answers. Memberships, staff flags and
  verification change outside the vault, so it is any standing at each request.

How the three evidence desks correspond to their code:

* `AtomicViewSet` runs a request in one transaction and rolls it back on an
  error; the handlers of an application lock its row, so each is one action.
  Reviews of documents, requests and conditions lock their own row first and
  the application next, uploads the other way round: the database may abort one
  of the two, which leaves no trace.
* `document[t]` is the current version of a type (`unique_current_...`), older
  versions are never read again. A date is whether it has passed, and `Expire`
  lets it pass at any time.
* A later version keeps the domain, condition and scope of the one it replaces.
  `EvidenceDesk` keeps them in the record; in `LogisticsDesk` they are constants
  of the type.
* `EvidenceDesk.ready` may change at any step, because deactivating accounts and
  retiring facilities take no lock on the application. `ExportDesk` replaces it
  by the records it stands for.
* `LogisticsDesk.Resume` is `resume_review`, conjoined to the handlers that call
  it; `signed` is a history variable for one property. `RestrictionViewSet`
  locks the restriction and reads the rest: `Resolve` removes a source, and two
  restrictions of one source are one element, of which a step may leave the
  second (a stutter).

How the handlers without locks are modelled (`MiningDesk`, `MiningScore`,
`MiningPapers`, `ProcessingDesk`, `Registers`, `Membership`, `Sessions`,
`AccountCodes`, `FleetOperations`, `WarehouseFloor`, `Marketplace`):

* A handler's first action records what it has read; the second writes. A
  `serializer.save()` or `instance.save()` writes the row as read with the
  columns sent; a save with `update_fields` writes those columns only.
* What a PATCH may set is drawn from the serializer's writable fields. In
  `FleetOperations` a PATCH may send any status and is checked against nothing,
  so what the status handlers promise is stated of rows no PATCH has touched
  (`own`).
* Dates are what they are compared with: passed or not, near or far, a month; in
  `Registers` and `Dashboards` small numbers.

How the rest corresponds:

* `CredentialMonitor` keeps one event per credential version and kind, which is
  the `event_key` of `get_or_create`; a run is one transaction that locks the
  application, hence one action.
* `StoredFiles` has one step per database or storage effect: read, store, commit,
  remove. Names come from a finite set per folder and are free again once the
  object is gone, which is when `FileSystemStorage` gives them out again.
* `LegacyMerge` takes the old rows in the order the engine takes them. `New` is
  `_insert` in a savepoint. `Fail` is its refusal, by the constraint on the key or
  for any other reason (`psycopg.Error`: a drawn code that is taken, a value too
  long), which no other state of the model tells. The application writes beside
  the run (`Register`, `Rename`).
* In `PartnerApplications` staff set any status of any application, as the admin
  site lets them: a draft nobody submitted may be called accepted, and a submitted
  application made a draft takes uploads and a submission again. So what the
  properties call submitted is `mail`, which only a submission sets.
* `Registers.AmendVisit` may move a visit to another place, and `AmendPlace` sets or
  clears the date of the place, a writable column of its own PATCH.
* `AccountUpkeep` follows the three commands in `Procfile`'s order. The insert
  that fails inside `transaction.atomic()` is caught, so the import ends with
  nothing committed and the start goes on.

Left out of these modules: messages and their read marks, notes, timestamps and
reviewers where no rule reads them, due dates that are never enforced, audit
events, edits made in the Django admin (but for the status of partner applications), and
the vault's folders, activity log and objects on storage.

## 3. Runs

A run whose module joins several components that share no state explores them
side by side: `part`, chosen in the initial state, is the one that moves, the
others stay as they were. Such a run is the sum of its parts' state spaces, never
their product, and a component that does share state with another is composed
with it (`OrganisationVerification` and `QualityOnboarding` with
`ComplianceApplication`, `ReviewTimeline` with `OrganisationVerification`,
`ExportDesk` with `EvidenceDesk`). `compliance_documents` joins two parts in this
way, the application and the exporter's file.

| Run | Question | Bound |
|---|---|---|
| `compliance_documents` | everything a verification rests on, conditions and their evidence, and the refinement of `ComplianceReview`; the export desk implements `EvidenceDesk`, and the exporter's records stand still under review | one document per checklist, one section per form, two conditions with two uploads, sent again for one of them (`OneReuploaded`); of the exporter one section, type, request, condition and shipment, a request and a condition not on one file (`RequestsOrConditions`) |
| `onboarding` | no other handler verifies an organisation with an application; the timeline follows; both desks agree; sessions end with a change of credentials, codes pass once; every lapse is reported once and restricts; a rehearsal of the merge reports what a run would do and a second merge inserts nothing twice | one document, one section of each form, one condition; two overlapping requests, two tokens or three codes (`MaxCodes`); one paper and one date of two versions (`MaxVersions`); eight old rows, four contents of v2, one write of the application (`MaxWrites`) or one row refused for another reason than its key (`MaxRefusals`) |
| `desks` | what sign-offs, clearances, requests and approvals of the warehousing desk rest on, and that approval is final; lots, movements and deliveries agree; papers are never lost; locked rows keep their files | two sections, three document types, one request, one condition; two warehouses with a zone and two lots; two movements of one order, one PATCH (`MaxPatches`); three copies of papers (`MaxCopies`), one PATCH of a request beside one other handler (`PatchBesideOne`); two rows, three names, two requests, two uploads beside the first (`MaxUploads` = 3) |
| `mining_desk` | one claimant at a time and a decision the claimant's; a score is an average and a finding ends on acceptance; sold as reviewed, shipped as paid; a logistics file always returns from awaiting information, and what its approval rests on stays | one application and site with two reviewers and two sections; two marks, one finding; one listing of two revisions (`MaxRevisions`), one order, two events; two sections, two types, one request, one scoped condition |
| `platform` | single lines and second approvals in the vault; certificates and corrective actions; complete partner applications; who belongs to an organisation; processing decisions; registers under overlapping amendments; dashboards from month to month; accounts through a start | three documents (`MaxDocuments`), two workers; two certificates; four uploads (`MaxUploads`); three memberships (`MaxEntries`); two files (`MaxFiles`), one score set by hand (`DeskScores`); amounts 0 and 1 (`Limit`), three editors; nine days of four months; four ids, three emails |
| `documented_transitions` | refuted: "Application review now enforces these transitions" | one document, one condition |
| `organisation_bypass_race` | refuted: the older endpoint "cannot bypass compliance checks" | one document, one condition |
| `organisation_rejected_after_verification` | refuted: an organisation "is decided through its compliance application" | as above |
| `quality_desk_verdict_earned` | refuted: "Approval ... requires everything" | as above |
| `desk_replacement` | refuted: "Replace rejected or expired evidence before submission" | one section, two types |
| `logistics_mineral_signoff` | refuted: "Complete the required domain sign-offs" | as in `mining_desk` |
| `stored_files` | refuted: "Keep stored files in step with the rows that point at them" | a document of a desk that locks and one of a desk that does not |

The properties of a joined run that are conjunctions (`OperationsHold`,
`AccountsHold`, `PeopleHold`, `SiteReviewsHold`, `ReadingsAgree`, ...) name the
components' own properties in their definitions.

Why the bounds are enough: no handler compares two documents, two sections or two
persons except through "all", "any" and the checklist, so one document on each
checklist and one beside them reaches each case, and re-filing under another
sector or form makes the same document required, optional or foreign. Two
conditions with two uploads reach a condition cleared while another is refused,
and a second upload after a refusal. On the desks a handler reads one
section with its documents, or all of them through "all" and "any": two sections
tell the reset of one from that of the other, three types are a required document,
a second in its section and evidence for a condition. `RequestsOrConditions` keeps
the export part small: `ExportDesk` adds no step that reads both, and `desks`
explores them together, with more types. `OneReuploaded` leaves a second upload to
one condition at a time, since no rule compares two conditions' uploads. Three documents are a line of three
versions, a line beside an uploaded file, or three lines; two workers are every
pair of requests on one row. Races of the code are between a read and a write of
one row, so two overlapping requests reach them; `Registers` has three editors
because desk and owner may each amend while the other saves. Four months with one
of a single day reach a month that `timedelta` arithmetic could skip. The old
databases hold each kind of row, duplicates of each and empty keys, and v2 starts
with none, one or two of their parents.

Constraints of `platform`, `mining_desk`, `desks` and `onboarding`. Two cut
behaviour: `PatchBesideOne` lets a PATCH of an information request overlap a
review, a replacement or an answer, never two of them at once; `WritesAlone` has
one run of the merge after a write of the application, on old databases whose two
companies do not share a name, because what further runs make of a changed v2 they
make of the other `Contents`. The rest lose no behaviour of one component: `OneKind` explores samples, findings and professionals of
`QualitySamples` one at a time, since no handler reads two of them; `OneRecord`
has one kind of record of `ProcessingDesk` worked on, the documents, a finding or
the register's entry by hand, since their handlers write nothing in common; `FirstUpload` names the first
uploader and file, users and files of the vault being interchangeable,
and `FirstEvent` the first payment event on its way, for the same reason.

Fairness is assumed once: weak fairness of a run of the credential monitor
(`MonitorSpec`, `OnboardingSpec`), because Celery beat starts one every hour
(`core/settings.py`, `CELERY_BEAT_SCHEDULE`) and a run is one transaction that
is enabled whenever the application is watched. Under it `LapseIsReported` holds:
a credential that has lapsed is in the end reported, unless it is replaced or the
application leaves the desk first. Nothing else is scheduled: a person may always
leave an application where it is, so no other liveness is claimed. The return of
a logistics file from awaiting information is stated as the safety property
`NotStranded`: there is always a request, a refused or an unreviewed document
whose handling calls `resume_review`. Deadlock is checked in
`compliance_documents` and the six violations that are not `stored_files`. Elsewhere a part does come to an end: all codes issued, all
copies filed, all uploads made, a site decided.

## 4. Theorems

`ComplianceApplicationProofs` proves, for every set of documents, sections,
people, conditions and evidence and every checklist:

| Theorem | States |
|---|---|
| `TypeCorrect` | `Spec => []TypeOK` |
| `Earned` | `Spec => []VerifiedIsEarned` |
| `RefusedHolds` | `Spec => []RefusedDocumentHoldsFile` |
| `CountsOnNewFile` | `Spec => []CountsOnlyOnNewFile` |
| `EvidenceAgrees` | `Spec => []ConditionMatchesEvidence` |
| `OrganisationAgrees` | `Spec => []OrganisationFollows` |
| `FileFrozen` | `Spec => VerifiedFileIsFrozen` |
| `Implements` | `Spec => ImplementsReview`, the application implements `ComplianceReview` |

Assumed of the constants: a checklist's required types are on it
(`ChecklistAssumption`), and no section belongs to both forms
(`SectionAssumption`).

The argument: `VerifiedIsEarned` is not about the moment of the decision alone,
since later steps could undo it. `Decide` establishes the file from
`ProgressComplete` and verified documents. Afterwards the only writers left are
late logistics uploads, re-filing and account changes. So what is invariant is
not the progress computed with the present kind but `FileProven`: some
checklist was verified in full, and every document on file that a late logistics
upload cannot have added is verified. `FileFrozen` is the step from that
invariant: `Editable`, `EvidenceEditable` and `UnderReview` are all false of a
verified application. The refinement uses the same facts: a handler that changes
the file is a `Work` step, a `Transition` is a `Move` with the approval it
needs, and everything else stutters.

`VaultProofs` proves, for every set of users, organisations, files and workers
and every number of documents:

| Theorem | States |
|---|---|
| `VaultTypeCorrect` | `Spec => []VaultTypeOK` |
| `LinesAreSingle` | `Spec => []SingleLine` |
| `SecondPerson` | `Spec => []ApprovedOnceByAnother` |
| `ChecksHold` | `Spec => []ChecksStillHold` |
| `VaultImplements` | `Spec => ImplementsHistory`, the vault implements `VaultHistory` |

Assumed of the constants: organisations are told from Beldium and its desk, and
an idle worker from one with a request (`VaultAssumption`).

The argument: `SingleLine` alone is not kept by an insert, which relies on what a
request checked some steps before. The inductive invariant `Inv` adds it:
`DraftsSound` and `ApprovalsSound` say that the checks of every request in
progress are true now, and `Exclusive`, the row locks, why no other insert has
made them false. `LastOfLine` is the lemma on lines: a version without a
successor has the highest number of its family, since a row with the next number
would replace a version of the same number and family, which is this one.
`FamilyBefore` keeps a new family apart from the old ones. The same facts make an
insert a `Start`, an `Extend` or a `Confirm` of `VaultHistory`.

Of the three evidence desks `OperationsProofs` (warehousing), `ExportDeskProofs` and
`MiningProofs` (logistics) prove, for every set of sections, document types, requests, conditions and shipments:

| Theorem | States |
|---|---|
| `DeskTypeCorrect`, `LogisticsTypeCorrect` | `Spec => []DeskTypeOK`, `Spec => []LogisticsTypeOK` |
| `SignOffsStand` | `Spec => []SignedOffOnEvidence` |
| `ClearancesStand` | `Spec => []ClearedOnEvidence` |
| `RequestsHold` | `Spec => []RequestsHoldTheFile` |
| `ApprovalsStand`, `ApprovalStands` | `Spec => []ApprovedOnEvidence`, `Spec => []ApprovedStands` |
| `ApprovalIsFinal` | `Spec => ApprovedFileOnlyAges` |
| `ExportImplementsDesk` | `ReviewsSpec => ImplementsDesk`, the export desk implements `EvidenceDesk` |
| `RecordsHold`, `ClearancesRecorded` | `ReviewsSpec => ReviewedRecordsHold`, `ReviewsSpec => Export!ClearanceRecorded` |
| `NeverStranded` | `Spec => []NotStranded` |
| `WaitingHolds` | `Spec => []WaitingHoldsTheFile` |
| `ConditionsStand` | `Spec => []ConditionsHold`: open conditions restrict, cleared ones keep their evidence |

Assumed: `None` is neither a condition nor a document (`NoneAssumption`), and in
`LogisticsDesk` that required types are on the checklist, that types and
conditions are told apart and that the section services decide on is one of them
(`LogisticsAssumption`).

The argument: the properties of a desk are inductive together. A verdict is kept
by an upload because an upload resets the section of its document, and keeps out
of the evidence of a cleared condition since it must name an outstanding one
(`UploadStep`, `NewVersionStep`). A verdict on a document is given to pending
ones only, which no sign-off or clearance rests on. In `LogisticsDesk` a request
that is closed either leaves another reason to wait or `Resume` moves the file,
which is `NotStranded`; that `Resume` applies at all is `WaitingHoldsTheFile`, an
unaccepted request being found in no other state. An addition to the checklist
may reach an approved file because `ApprovedStands` has every required type on
file, so the addition is none of them (`AddToChecklistStep`). The export theorem
maps every handler to the desk's or to a change of `ready`.

`OperationsProofs` proves, for `MCDesks`, of any number of lots, zones, trucks,
papers, rows and requests:

| Theorem | States |
|---|---|
| `FloorStaysTogether` | `FloorSpec => [](FloorTypeOK /\ FloorInOneWarehouse)` |
| `FleetTellsOneStory` | `FleetSpec => [](FleetTypeOK /\ FleetAgrees)` |
| `PapersStand` | `PapersSpec => PapersHold` |
| `LockedStay` | `FilesSpec => []LockedInStep` |
| `OperationsAgree` | `DesksSpec => []OperationsHold` |

The arguments. On the floor, zones and lots never change hands, so a lot that was
validated and not yet saved (`WritingSound`) is as good as a stored one. In the
fleet, no two own movements are of one order (`OneOwnEach`), an assignment in
progress is to a movement that exists, and one that has arrived has been received
(`ArrivedIsReceived`). Of the papers, each name that was filed has a live copy
(`PaperNeverLost`), and what a request half done refers to is on file
(`PointsAtFiled`). `FilesIInv` follows a stored file: a row finds in its own
folder the object it names, which no other row names (`InFolder`, `RowsStored`);
one request at a time holds a locked row and has read what the row still names
(`OneHolder`, `HasRead`); what is uploaded and not committed is stored under a
name nobody has (`UploadStored`); and what is due for removal is named by no row
and due once (`DueOnce`). It is stated of the locked rows alone: the rows that are not locked
violate it, which is finding 6, and the theorem says that they do no harm to the
others, whose folders they have no names in (`FilesAssumption`).

`PlatformProofs` proves, for `MCPlatform` and `Marketplace`:

| Theorem | States |
|---|---|
| `MembersWereLetIn` | `MembershipSpec => [](MembershipTypeOK /\ MembershipHolds)` |
| `SoldAsReviewedAndPaid` | `MarketSpec => []MarketHolds` |
| `WhatWasSubmittedStays` | `PartnerSpec => [](PartnerTypeOK /\ SubmittedIsFrozen)` |
| `CertifiedOnce` | `SamplesSpec => [](SamplesTypeOK /\ RecordsHold)` |
| `ProcessingTypeCorrect`, `DecisionsStand` | `ProcessingSpec => []ProcessingTypeOK`, `ProcessingSpec => DecisionHolds`: a decision is final, and the entry the application names follows it |
| `RowsStaySound` | `RegistersSpec => [](RegistersTypeOK /\ RegistersAgree)` |
| `ReadingsAreRight`, `ApprovalsKeepTheirMonth` | `DashSpec => [](TrendIsComplete /\ RegionsAddUp)`, `DashSpec => ApprovalsStand` |
| `StartsLeaveAccounts` | `UpkeepSpec => [](UpkeepTypeOK /\ LeftUntouched)` |
| `PlatformTypeCorrect`, `PeopleAreSafe`, `RecordsAreSafe`, `DecisionsAreSafe`, `ReadingsStand` | the same of `PlatformSpec`, the components side by side |

The arguments. A save of a row read earlier can put back what has changed since,
so each invariant speaks of the rows read as well as of those stored: `Earned` of
the member an edit holds, `Sound` of the row each editor of a register holds. The
market's invariant ties each paid order to an event that was recorded
(`Bought`), and says that a checkout in progress has a revision that was on sale.
A partner's application has no foreign document at any time, and once submitted it
keeps every required one, whatever staff make of its status. Until they make it a
draft again nothing is uploaded, so its mail, or one of an earlier submission that
arrives late, lists its very uploads. A start of the process keeps `Left`: what the
account was, the owner's own changes included, unless it is a test user or the
administrator, whatever point the start was left at.

`ReadingsAreRight` is about figures. That every approval of the last months falls
in one bucket needs that the months `_recent_months` steps through are those of the
calendar. Its recursive function is shown equal to an explicit one, the first
days of the last months (`RecentFirsts`, by the least number the two differ at),
because the day before a first of month is a day of the month before
(`FirstDayOfMonth`), every month up to today's having a day (`MonthReached`, by
the least day that fails). Buckets and regions count each row
once (`CountByKey`). A region's rounded average cannot be above the whole's in
every region, nor below it in every one: `SumAbove` and `SumBelow` for the sums,
`MeanNear`, `MeansAbove` and `MeansBelow` for the rounding, which is half to even.

`OnboardingProofs` proves, for `MCOnboarding`:

| Theorem | States |
|---|---|
| `OnlyThroughApplication`, `TimelineStaysTrue` | `OrgSpec => VerifiedThroughApplication`, `OrgSpec => []TimelineTells` |
| `DesksAgree` | `QualitySpec => BothDesksAgree` |
| `ChangesEndSessions` | `SessionsSpec => [](SessionsTypeOK /\ ChangeEndsSessions)` |
| `CodesStayBounded` | `CodesSpec => [](CodesTypeOK /\ CodesBounded)` |
| `LapsesRestrict` | `MonitorSpec => [](MonitorTypeOK /\ LapseRestricts)` |
| `MergeTypes`, `NothingTwice`, `Alike` | `MergeSpec => []MergeTypeOK`, `MergeSpec => []SecondRunInsertsNothing`, `MergeSpec => []MappedAlike`: an old row follows the v2 row of its own key |
| `MergeForetold`, `RehearsalTellsAll` | `MergeSpec => []ForetoldIInv`, `MergeSpec => []RehearsalHolds` |
| `OnboardingTypesHold`, `AccountsAreSafe`, `RestrictionsHold`, `TimelineTellsAll`, `MergesRepeat`, `VerificationIsJoint`, `DesksStayAgreed` | the same of `OnboardingSpec`, the parts side by side |

The arguments. No handler of `organisations` locks, so what its checks saw may be
gone when it writes: `OrgIInv` says that a check which began after an application
was filed can only be a submission, which verifies nothing. The Q&C desk's mirror
shows what the application shows at every step (`MirrorSound`), whichever side
wrote. `Tracked` follows a change of credentials through the
tokens it has listed: each is the account's own, and revoked already or still to
be. The failures of a window are a sum over its codes, which grows by one where a
request has found room for it under the account's lock (`CodesBounded`).

That a second merge inserts nothing is a fact about two runs, and holds if v2
refused no row of the first: a row may be refused for a reason that is gone by the
second (a site code drawn at random, `merge_engine.py:309-314`), which then inserts
it and what hangs on it. What holds in any case is that the second run inserts no
row the first one found or inserted. A run rests on
where the rows before sent their parents. `MergeIInv` says of a run what v2 now
demands of it (`RunFollows`: each row done so far is mapped to the first holder of
its remapped key, or to nothing when it cannot be compared), that the index is
the table (`IndexIsTable`), and of the run before that v2 still demands what it
did (`Settled`). `BeforeStands` keeps the mappings of earlier rows under an
insert, `SameAgain` makes a second run take the first's decisions, and any write
of the application ends the comparison (`written`), which is the condition under
which the claim is made. A rehearsal is compared with a search that stopped at
other rows. `ForetoldIInv` records for both what v2 without the transaction's own
rows made of each old row (`Recorded`, `RunSound`, `LastSound`), and `Foretold`
takes the first old row on which they differ: the rows before it sent its parents
to the same places, so its key is the same and so is its holder. Either run may
lose a row to a refusal that is not repeated, so the claim ends at the first row
refused in one of them (`Before`).

In the compositions two parts share the application, so `ShareIInv` carries the
invariant of the one that moves; the others follow from a lemma that a behaviour
of the whole is one of each part (`EachPart`, `EveryPart`, `EveryOnboardingPart`,
`EveryMiningPart`).

`MiningProofs` proves, besides the theorems on the logistics desk above:

| Theorem | States |
|---|---|
| `ClaimsAreSafe` | `MiningSpec => []MiningTypeOK /\ ClaimsHold` |
| `ScoresAreSafe` | `ScoreSpec => []ScoreTypeOK /\ ScoringHolds` |
| `MiningTypesHold`, `SiteReviewsAreSafe`, `LogisticsFileHolds` | the same of `ExtractionSpec`, the parts side by side |

A weighted mean lies between the least and the greatest mark it weighs because
its sum does, weight by weight (`SumAtMost`, `SumAtLeast`), and rounding to the
nearest integer cannot pass an integer (`RoundBounds`).

`SumProofs` holds what the others need about sums over finite sets: that
`SumFunctionOnSet` does not depend on the order it takes the elements in
(`TotalsAgree`, `SumTaken`), that it grows with its terms and its set, that sums
by key make up the whole, and how it lies between bounds on its terms. The
library's induction theorems take an operator as a parameter, so each is proved
by a smallest counterexample instead: a family of finite sets has a member none
of whose proper subsets is in it (`SmallestMember`).

The assumptions on the constants are those of the modules, checked by TLC in the
runs: that the markers for "nothing" are not values, that bounds are numbers,
and further that

* finitely many sections are marked and weights are natural numbers
  (`ScoreAssumption`), and the old backend had finitely many users with ids of
  their own (`UpkeepAssumption`);
* the calendar is one: days are numbered, months follow each other and each has a
  day (`DashboardAssumption`); a register has finitely many records;
* v2's foreign keys hold and old rows refer to rows taken before them, as the
  order of `MAPPINGS` makes them (`MergeAssumption`);
* rows that are locked and rows that are not have no storage name in common,
  since a folder belongs to one model (`FilesAssumption`).

Of the properties the passing runs check, one is left to TLC alone:
`LapseIsReported`, which is liveness under fairness and out of the prover's reach
together with `ENABLED`. So is the absence of deadlock. The properties of section
5 are false, with the traces that show it.

## 5. Disagreements between code and documentation

Each of these is an expected violation of one property, with its run:

1. The older organisation decision races with filing an application
   (`organisation_bypass_race`).
2. The mining desk rejects an organisation whose application is verified, and no
   handler can verify it again (`organisation_rejected_after_verification`).
3. The Q&C desk's approval verifies an incomplete application
   (`quality_desk_verdict_earned`).
4. Evidence of a cleared condition cannot be replaced once it expires, and holds
   the file back for good (`desk_replacement`).
5. A verdict on the mineral section given while it did not apply counts as its
   sign-off after the services make it apply (`logistics_mineral_signoff`).
6. A processing verdict saved after a re-upload it has not read removes the new
   file from storage (`stored_files`).
7. The compliance desk verifies an application, or approves it conditionally,
   straight from `action_required`. `TRANSITIONS` has it so on purpose
   (`compliance/workflow.py:12-17`), the README's table of the transitions it says
   are enforced (`README.md:454-463`) does not list it (`documented_transitions`).
   `ComplianceReview.Move` follows the code.

The models show more, stated as properties that do not hold, or do not hold of the
parts named, and are in no run of these. Each is reached by overlapping requests
unless noted:

| Property | What the code does |
|---|---|
| `AccountCodes.OneLiveCode` | two issues leave two live codes; the budgets of issues, and of phone and recovery guesses, are exceeded in the same way |
| `Sessions.PortalStays` | two first sign-ins from two portals: the second moves the account |
| `ComplianceApplication.VerifiedFileIsFrozen`, of the application beside the Q&C desk (`QualityOnboarding`) | the Q&C desk's mark sets a verified document of a verified application back to submitted (`quality/bridge.py:178`, one request), though "reviews are available only while review is open" (`README.md:465`). `VerifiedFileIsFrozen`, `RefusedDocumentHoldsFile` and `CountsOnlyOnNewFile` are checked and proved of the compliance desk's own handlers |
| `QualitySamples.OneProfessional` | two applications of one professional |
| `Registers.ResolvedStands` | a stale save reopens a resolved alert |
| `Registers.VisitDatesItsPlace` | a completed visit is moved to another place, or its place's date is taken back (one request) |
| `LegacyMerge.SecondRunInsertsNothing` without its condition on `refused` | a second merge inserts a row the first one was refused, though it "must insert nothing" (`migration/README.md:110`); a rehearsal differs from the merge in the same way |
| `FleetOperations.TruckOnOneRoad` | one truck on two active movements; also, a completed delivery is set back to arrived when its movement's status is recorded again (one request) |
| `WarehouseFloor.LotInItsZone` | a lot is left in a zone moved to another facility (one request); two releases of one lot are both authorised (one request each) |
| `ProcessingDesk.VerdictOnItsFile` | a verdict lands on a file nobody looked at |
| `MiningPapers.ReplacedCountsForNothing` | a superseded copy is verified |
| `MiningDesk.ClaimedByClaiming`, `DecisionStands` | a stale PATCH writes over a claim or a decision |
| `Dashboards.MiningApprovalsStand` | the mining trend moves an approval to the month of its last save (one request) |
| `AccountUpkeep.EveryoneImported` | one refused insert undoes the whole import, which reports success |

Also kept by the models without a property of their own: a suspension undone, or a
removed member put back, by an administrator's stale edit; the founder's role
taken by an invitation to the founder's own address (one request); an invitation
both accepted and revoked; a shipped order moved back to paid by a late event; a
disputed order shipped; a sample set to reviewed or certified without a review or
a certificate (one request); a partner upload whose file is gone because the
transaction failed after removing it; a partner application staff call submitted or
accepted that nobody submitted, and one they made a draft again whose mail no longer
lists its uploads (one request each).

## 6. Not modelled, and what is left

* `finance`, `ecosystem`, search, `common`, `core` and `deploy`: independent
  records and plumbing, no rule relates two of them over time.
* `organisations/dedupe.py` deletes what a plan made earlier lists; an
  organisation renamed or verified in between is deleted with it. It is an
  operator's tool, run by hand.
* Stored files that several rows share, which only rows merged from the old
  platform do (`migration/FINDINGS.md`), and the scripts that copy files
  (`copy_legacy_files.py`, `pull_render_files.py`).
* The order in which the two desks of a Q&C onboarding lock its rows, and the
  columns `carry_decision_back` saves back unlocked: it takes every column of the
  application in the state of `QualityOnboarding`.
* Deadlocks that the database resolves by aborting a request
  (`warehousing/views.py`, `quality/views.py`): an aborted request leaves no
  trace, so the models' rules do not see it.
* The contents of forms, scores entered by hand, generated reports and exports,
  listings and filters, and permissions that do not change over time.

Worth doing next: the order of locks and the unlocked save of
`carry_decision_back`, as two actions; and, for each property of the second table of section 5, the
condition on the requests under which it does hold, as a theorem.
