------------------------------- MODULE Vault -------------------------------
(***************************************************************************)
(* The document vault (vault/services.py): uploads, new versions and       *)
(* second approvals served at the same time by several workers.            *)
(*                                                                         *)
(* A handler is two steps of one transaction: its reads and checks, and    *)
(* its insert with the commit.  What it holds between them is in creating  *)
(* or approving.  add_version and approve lock the document's row first,   *)
(* upload locks nothing.                                                   *)
(***************************************************************************)
EXTENDS Naturals, Sequences

CONSTANTS
  Users,
  Organisations,  \* partner organisations
  Files,          \* file contents, told apart by their SHA-256
  Workers,        \* requests served at the same time
  Idle,           \* a worker without a request
  MaxDocuments    \* bound on the documents stored

Owners == Organisations \cup {"beldium"}

\* A caller's standing: on the desk, or a member of a verified organisation.
Standings == Organisations \cup {"desk"}

\* What a request is about to insert: a document, with 0 for no predecessor,
\* or an approval.
Draft == [owner : Owners, file : Files, by : Users, supersedes : Nat]
Approval == [document : Nat, by : Users]

ASSUME VaultAssumption ==
  /\ {"beldium", "desk"} \cap Organisations = {}
  /\ Idle \notin Draft \cup Approval
  /\ MaxDocuments \in Nat

VARIABLES
  documents,  \* the rows in the order of their inserts; an id is a position
  approvals,  \* the rows of VaultApproval
  creating,   \* creating[w]: the document worker w has checked and will insert
  approving   \* approving[w]: the approval it has checked and will insert

vars == <<documents, approvals, creating, approving>>

Document == [owner : Owners, file : Files, by : Users, supersedes : Nat,
             family : Nat \ {0}, version : Nat \ {0}]

-----------------------------------------------------------------------------

Superseded(d) == \E e \in DOMAIN documents : documents[e].supersedes = d
Approved(d) == \E a \in approvals : a.document = d
BackedUp(owner, file) ==
  \E d \in DOMAIN documents : documents[d].owner = owner /\ documents[d].file = file

\* Fault: add_version compares the file with the first version's.
IdenticalToFirst(d, file) == documents[documents[d].family].file = file
\* The file is identical to the current version.
Identical(d, file) == documents[d].file = file

MayFile(found, owner) == found \in {"desk", owner}

CanApprove(found, u, d) == found = "desk" /\ documents[d].by # u

Free(w) == creating[w] = Idle /\ approving[w] = Idle

\* Fault: add_version reads the current version without select_for_update.
LockedByApprove(d) ==
  \E w \in Workers : approving[w] # Idle /\ approving[w].document = d
\* Another transaction holds the document's row.
Locked(d) ==
  \E w \in Workers :
    \/ creating[w] # Idle /\ creating[w].supersedes = d
    \/ approving[w] # Idle /\ approving[w].document = d

\* The constraints of the one-to-one fields.
OneSuccessor(c) == c.supersedes = 0 \/ ~Superseded(c.supersedes)
OneApproval(a) == ~Approved(a.document)

\* The row a draft becomes.  Its predecessor cannot have changed since it was
\* read; a document without one gets a family id of its own.
Filed(c) ==
  [owner |-> c.owner, file |-> c.file, by |-> c.by, supersedes |-> c.supersedes,
   family |-> IF c.supersedes = 0 THEN Len(documents) + 1
                                  ELSE documents[c.supersedes].family,
   version |-> IF c.supersedes = 0 THEN 1
                                   ELSE documents[c.supersedes].version + 1]

-----------------------------------------------------------------------------

Upload(w, u, found, owner, file) ==
  /\ Free(w)
  /\ MayFile(found, owner)
  /\ ~BackedUp(owner, file)
  /\ creating' = [creating EXCEPT ![w] =
       [owner |-> owner, file |-> file, by |-> u, supersedes |-> 0]]
  /\ UNCHANGED <<documents, approvals, approving>>

AddVersion(w, u, found, d, file) ==
  /\ Free(w)
  /\ ~Locked(d)
  /\ MayFile(found, documents[d].owner)
  /\ ~Superseded(d)
  /\ ~Identical(d, file)
  /\ creating' = [creating EXCEPT ![w] =
       [owner |-> documents[d].owner, file |-> file, by |-> u, supersedes |-> d]]
  /\ UNCHANGED <<documents, approvals, approving>>

Approve(w, u, found, d) ==
  /\ Free(w)
  /\ ~Locked(d)
  /\ CanApprove(found, u, d)
  /\ ~Approved(d)
  /\ approving' = [approving EXCEPT ![w] = [document |-> d, by |-> u]]
  /\ UNCHANGED <<documents, approvals, creating>>

\* The insert and the commit of upload and add_version.
CreateDocument(w) ==
  /\ creating[w] # Idle
  /\ Len(documents) < MaxDocuments
  /\ OneSuccessor(creating[w])
  /\ documents' = Append(documents, Filed(creating[w]))
  /\ creating' = [creating EXCEPT ![w] = Idle]
  /\ UNCHANGED <<approvals, approving>>

\* The insert and the commit of approve.
CreateApproval(w) ==
  /\ approving[w] # Idle
  /\ OneApproval(approving[w])
  /\ approvals' = approvals \cup {approving[w]}
  /\ approving' = [approving EXCEPT ![w] = Idle]
  /\ UNCHANGED <<documents, creating>>

\* The transaction is rolled back: a storage error, a lost connection, a
\* worker that is stopped.
RollBack(w) ==
  /\ ~Free(w)
  /\ creating' = [creating EXCEPT ![w] = Idle]
  /\ approving' = [approving EXCEPT ![w] = Idle]
  /\ UNCHANGED <<documents, approvals>>

Init ==
  /\ documents = <<>>
  /\ approvals = {}
  /\ creating = [w \in Workers |-> Idle]
  /\ approving = [w \in Workers |-> Idle]

Request(w, u, found) ==
  \/ \E owner \in Owners, file \in Files : Upload(w, u, found, owner, file)
  \/ \E d \in DOMAIN documents :
       \/ \E file \in Files : AddVersion(w, u, found, d, file)
       \/ Approve(w, u, found, d)

\* Memberships change outside the vault: a caller's standing may be anything
\* at each request.
Next ==
  \E w \in Workers :
    \/ \E u \in Users, found \in Standings : Request(w, u, found)
    \/ CreateDocument(w)
    \/ CreateApproval(w)
    \/ RollBack(w)

Spec == Init /\ [][Next]_vars

-----------------------------------------------------------------------------
(* Correctness *)

VaultTypeOK ==
  /\ documents \in Seq(Document)
  /\ approvals \subseteq Approval
  /\ creating \in [Workers -> Draft \cup {Idle}]
  /\ approving \in [Workers -> Approval \cup {Idle}]

\* Every family is a single line: its versions are numbered 1, 2, 3, ... for
\* one owner, each but the first replaces the one before it, and no two replace
\* the same (VaultDocument.supersedes, "keeps the history a single line").
Replaces(d, e) ==
  /\ e < d
  /\ documents[d].family = documents[e].family
  /\ documents[d].owner = documents[e].owner
  /\ documents[d].version = documents[e].version + 1

SingleLine ==
  \A d \in DOMAIN documents :
    /\ IF documents[d].supersedes = 0
         THEN documents[d].version = 1 /\ documents[d].family = d
         ELSE \E e \in DOMAIN documents :
                documents[d].supersedes = e /\ Replaces(d, e)
    /\ \A e \in DOMAIN documents :
         documents[d].family = documents[e].family
           /\ documents[d].version = documents[e].version => d = e

\* An approval is another person's than the uploader's, and a document has at
\* most one, however many approve it at once (access.can_approve, approve).
ApprovedOnceByAnother ==
  \A a \in approvals :
    /\ a.document \in DOMAIN documents
    /\ a.by # documents[a.document].by
    /\ \A b \in approvals : a.document = b.document => a = b

\* What add_version and approve checked still holds when they insert: the
\* second of two requests is told of a conflict by the check, never by an
\* integrity error of the database (select_for_update in both).
ChecksStillHold ==
  \A w \in Workers :
    /\ creating[w] # Idle => OneSuccessor(creating[w])
    /\ approving[w] # Idle => OneApproval(approving[w])

\* The vault implements VaultHistory.
VersionOf(d) ==
  [line |-> documents[d].family, number |-> documents[d].version,
   owner |-> documents[d].owner, file |-> documents[d].file, by |-> documents[d].by]
ConfirmationOf(a) ==
  [line |-> documents[a.document].family,
   number |-> documents[a.document].version, by |-> a.by]

History == INSTANCE VaultHistory WITH
  Lines <- 1..MaxDocuments,
  versions <- {VersionOf(d) : d \in DOMAIN documents},
  confirmed <- {ConfirmationOf(a) : a \in approvals}
ImplementsHistory == History!Spec

=============================================================================
