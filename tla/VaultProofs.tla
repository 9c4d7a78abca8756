---------------------------- MODULE VaultProofs ----------------------------
(***************************************************************************)
(* What TLAPS proves of Vault, for every set of users, organisations,      *)
(* files and workers, and however many documents are stored.               *)
(***************************************************************************)
EXTENDS Vault, TLAPS

\* A family's id is the position of its first version, so it is never later
\* than any of its versions.
FamilyBefore == \A d \in DOMAIN documents : documents[d].family <= d

\* What a checked request relies on: the version it replaces exists, has its
\* owner, another file and no successor; the document it approves exists, is
\* another person's and has no approval.
DraftsSound ==
  \A w \in Workers : creating[w] # Idle /\ creating[w].supersedes # 0 =>
    LET d == creating[w].supersedes
    IN  /\ d \in DOMAIN documents
        /\ documents[d].owner = creating[w].owner
        /\ documents[d].file # creating[w].file
        /\ ~Superseded(d)

ApprovalsSound ==
  \A w \in Workers : approving[w] # Idle =>
    /\ approving[w].document \in DOMAIN documents
    /\ documents[approving[w].document].by # approving[w].by
    /\ ~Approved(approving[w].document)

\* The row lock: no two requests replace one version, no two approve one
\* document.
Exclusive ==
  \A v, w \in Workers :
    /\ creating[v] # Idle /\ creating[w] # Idle /\ creating[v].supersedes # 0
         /\ creating[v].supersedes = creating[w].supersedes => v = w
    /\ approving[v] # Idle /\ approving[w] # Idle
         /\ approving[v].document = approving[w].document => v = w

Inv ==
  /\ VaultTypeOK
  /\ SingleLine
  /\ FamilyBefore
  /\ DraftsSound
  /\ ApprovalsSound
  /\ Exclusive
  /\ ApprovedOnceByAnother

-----------------------------------------------------------------------------
(* Type correctness *)

\* A stored row is a document, and its id a position.
LEMMA RowType ==
  ASSUME VaultTypeOK, NEW d \in DOMAIN documents
  PROVE  documents[d] \in Document /\ d \in Nat \ {0}
<1>1. documents \in Seq(Document)
  BY DEF VaultTypeOK
<1> QED
  BY <1>1

\* A row built from a draft of known predecessor is a document.
LEMMA FiledType ==
  ASSUME VaultTypeOK, NEW c \in Draft,
         c.supersedes = 0 \/ c.supersedes \in DOMAIN documents
  PROVE  Filed(c) \in Document
<1>1. \A d \in DOMAIN documents : documents[d] \in Document
  BY RowType
<1>2. Len(documents) \in Nat
  BY DEF VaultTypeOK
<1> QED
  BY <1>1, <1>2 DEF Filed, Draft, Document

\* The ids in use after an insert, and the rows, of which none has changed.
LEMMA Inserted ==
  ASSUME VaultTypeOK, NEW w \in Workers, CreateDocument(w)
  PROVE  /\ Len(documents) \in Nat
         /\ DOMAIN documents = 1..Len(documents)
         /\ DOMAIN documents' = 1..(Len(documents) + 1)
         /\ \A d \in DOMAIN documents : documents'[d] = documents[d]
         /\ documents'[Len(documents) + 1] = Filed(creating[w])
BY DEF VaultTypeOK, CreateDocument

\* Every step of a worker keeps the types.
LEMMA TypeStep == Inv /\ [Next]_vars => VaultTypeOK'
<1> SUFFICES ASSUME Inv, [Next]_vars
             PROVE  VaultTypeOK'
    OBVIOUS
<1> USE DEF VaultTypeOK
<1>1. ASSUME NEW w \in Workers, NEW u \in Users, NEW found \in Standings,
             NEW owner \in Owners, NEW file \in Files,
             Upload(w, u, found, owner, file)
      PROVE  VaultTypeOK'
  BY <1>1 DEF Inv, Upload, Draft
<1>2. ASSUME NEW w \in Workers, NEW u \in Users, NEW found \in Standings,
             NEW d \in DOMAIN documents, NEW file \in Files,
             AddVersion(w, u, found, d, file)
      PROVE  VaultTypeOK'
  <2>1. documents[d].owner \in Owners /\ d \in Nat
    BY RowType DEF Inv, Document
  <2> QED
    BY <1>2, <2>1 DEF Inv, AddVersion, Draft
<1>3. ASSUME NEW w \in Workers, NEW u \in Users, NEW found \in Standings,
             NEW d \in DOMAIN documents, Approve(w, u, found, d)
      PROVE  VaultTypeOK'
  BY <1>3 DEF Inv, Approve, Approval
<1>4. ASSUME NEW w \in Workers, CreateDocument(w)
      PROVE  VaultTypeOK'
  <2>1. creating[w] \in Draft
    BY <1>4 DEF Inv, CreateDocument
  <2>2. Filed(creating[w]) \in Document
    BY <1>4, <2>1, FiledType DEF Inv, DraftsSound, CreateDocument
  <2> QED
    BY <1>4, <2>2 DEF Inv, CreateDocument
<1>5. ASSUME NEW w \in Workers, CreateApproval(w)
      PROVE  VaultTypeOK'
  BY <1>5 DEF Inv, CreateApproval
<1>6. ASSUME NEW w \in Workers, RollBack(w)
      PROVE  VaultTypeOK'
  BY <1>6 DEF Inv, RollBack
<1>7. CASE UNCHANGED vars
  BY <1>7 DEF Inv, vars
<1> QED
  BY <1>1, <1>2, <1>3, <1>4, <1>5, <1>6, <1>7 DEF Next, Request

-----------------------------------------------------------------------------
(* The single line of versions *)

\* A version that is not superseded is the last of its family: no row has the
\* number after its own.
LEMMA LastOfLine ==
  ASSUME VaultTypeOK, SingleLine,
         NEW e \in DOMAIN documents, ~Superseded(e),
         NEW d \in DOMAIN documents,
         documents[d].family = documents[e].family
  PROVE  documents[d].version # documents[e].version + 1
<1> SUFFICES ASSUME documents[d].version = documents[e].version + 1
             PROVE  FALSE
    OBVIOUS
<1>1. documents[e].version \in Nat \ {0}
  BY RowType DEF Document
<1>2. documents[d].supersedes # 0
  BY <1>1 DEF SingleLine
<1>3. PICK p \in DOMAIN documents : documents[d].supersedes = p /\ Replaces(d, p)
  BY <1>2 DEF SingleLine
<1>4. documents[p].version \in Nat
  BY RowType DEF Document
<1>5. p = e
  <2>1. documents[p].family = documents[e].family
    BY <1>3 DEF Replaces
  <2>2. documents[p].version = documents[e].version
    BY <1>1, <1>3, <1>4 DEF Replaces
  <2> QED
    BY <2>1, <2>2 DEF SingleLine
<1> QED
  BY <1>3, <1>5 DEF Superseded

\* An insert leaves every family a single line.
LEMMA LineStep ==
  ASSUME Inv, NEW w \in Workers, CreateDocument(w)
  PROVE  SingleLine' /\ FamilyBefore'
<1> DEFINE n == Len(documents) + 1
           c == creating[w]
           x == Filed(c)
<1>1. /\ Len(documents) \in Nat
      /\ DOMAIN documents = 1..Len(documents)
      /\ DOMAIN documents' = 1..n
      /\ \A d \in DOMAIN documents : documents'[d] = documents[d]
      /\ documents'[n] = x
  BY Inserted DEF Inv
<1>2. \A d \in DOMAIN documents : documents[d] \in Document
  BY RowType DEF Inv
<1>3. c \in Draft /\ c # Idle
  BY DEF Inv, VaultTypeOK, CreateDocument
<1>4. c.supersedes # 0 =>
        /\ c.supersedes \in DOMAIN documents
        /\ documents[c.supersedes].owner = c.owner
        /\ ~Superseded(c.supersedes)
  BY <1>3 DEF Inv, DraftsSound
<1>5. IF x.supersedes = 0 THEN x.version = 1 /\ x.family = n
      ELSE LET e == x.supersedes
           IN  /\ e \in DOMAIN documents
               /\ x.family = documents[e].family
               /\ x.owner = documents[e].owner
               /\ x.version = documents[e].version + 1
               /\ ~Superseded(e)
  BY <1>3, <1>4 DEF Filed
<1>6. \A d \in DOMAIN documents :
        ~(documents[d].family = x.family /\ documents[d].version = x.version)
  <2>1. CASE x.supersedes = 0
    BY <1>1, <1>2, <1>5, <2>1 DEF Inv, FamilyBefore, Document
  <2>2. CASE x.supersedes # 0
    BY <1>5, <2>2, LastOfLine DEF Inv
  <2> QED
    BY <2>1, <2>2
<1>7. SingleLine'
  <2> SUFFICES ASSUME NEW d \in 1..n
               PROVE  /\ IF documents'[d].supersedes = 0
                           THEN documents'[d].version = 1 /\ documents'[d].family = d
                           ELSE \E e \in 1..n :
                                  documents'[d].supersedes = e /\ Replaces(d, e)'
                      /\ \A e \in 1..n :
                           documents'[d].family = documents'[e].family
                             /\ documents'[d].version = documents'[e].version => d = e
    BY <1>1 DEF SingleLine
  <2>1. CASE d \in DOMAIN documents
    <3>1. IF documents[d].supersedes = 0
            THEN documents[d].version = 1 /\ documents[d].family = d
            ELSE \E e \in DOMAIN documents :
                   documents[d].supersedes = e /\ Replaces(d, e)
      BY <2>1 DEF Inv, SingleLine
    <3>2. \A e \in DOMAIN documents :
            documents[d].family = documents[e].family
              /\ documents[d].version = documents[e].version => d = e
      BY <2>1 DEF Inv, SingleLine
    <3> QED
      BY <1>1, <1>6, <2>1, <3>1, <3>2 DEF Replaces
  <2>2. CASE d = n
    BY <1>1, <1>5, <1>6, <2>2 DEF Replaces
  <2> QED
    BY <1>1, <2>1, <2>2
<1>8. FamilyBefore'
  BY <1>1, <1>2, <1>5 DEF Inv, FamilyBefore, Document
<1> QED
  BY <1>7, <1>8

\* A step that stores no document leaves the lines alone.
LEMMA LineKept ==
  ASSUME Inv, UNCHANGED documents
  PROVE  SingleLine' /\ FamilyBefore'
BY DEF Inv, SingleLine, FamilyBefore, Replaces

-----------------------------------------------------------------------------
(* What a request relies on *)

\* What upload and add_version have checked holds until they insert.
LEMMA DraftsStep == Inv /\ [Next]_vars => DraftsSound'
<1> SUFFICES ASSUME Inv, [Next]_vars
             PROVE  DraftsSound'
    OBVIOUS
<1> USE DEF DraftsSound
<1>1. ASSUME NEW w \in Workers, NEW u \in Users, NEW found \in Standings,
             NEW owner \in Owners, NEW file \in Files,
             Upload(w, u, found, owner, file)
      PROVE  DraftsSound'
  BY <1>1 DEF Inv, VaultTypeOK, Upload, Superseded
<1>2. ASSUME NEW w \in Workers, NEW u \in Users, NEW found \in Standings,
             NEW d \in DOMAIN documents, NEW file \in Files,
             AddVersion(w, u, found, d, file)
      PROVE  DraftsSound'
  BY <1>2 DEF Inv, VaultTypeOK, AddVersion, Superseded, Identical
<1>3. ASSUME NEW w \in Workers, CreateDocument(w)
      PROVE  DraftsSound'
  <2> SUFFICES ASSUME NEW v \in Workers, NEW d, creating'[v] # Idle,
                      creating'[v].supersedes = d, d # 0
               PROVE  /\ d \in DOMAIN documents'
                      /\ documents'[d].owner = creating'[v].owner
                      /\ documents'[d].file # creating'[v].file
                      /\ ~Superseded(d)'
    OBVIOUS
  <2> DEFINE n == Len(documents) + 1
  <2>1. v # w /\ creating'[v] = creating[v] /\ creating[v].supersedes = d
    BY <1>3 DEF Inv, VaultTypeOK, CreateDocument
  <2>2. /\ d \in DOMAIN documents
        /\ documents[d].owner = creating[v].owner
        /\ documents[d].file # creating[v].file
        /\ ~Superseded(d)
    BY <2>1 DEF Inv
  <2>3. creating[w].supersedes # d
    BY <1>3, <2>1 DEF Inv, Exclusive, CreateDocument
  <2>4. /\ Len(documents) \in Nat
        /\ DOMAIN documents = 1..Len(documents)
        /\ DOMAIN documents' = 1..n
        /\ \A e \in DOMAIN documents : documents'[e] = documents[e]
        /\ documents'[n] = Filed(creating[w])
    BY <1>3, Inserted DEF Inv
  <2>5. documents'[n].supersedes = creating[w].supersedes
    BY <2>4 DEF Filed
  <2>6. ~Superseded(d)'
    BY <2>2, <2>3, <2>4, <2>5 DEF Superseded
  <2> QED
    BY <2>1, <2>2, <2>4, <2>6
<1>4. ASSUME NEW w \in Workers, RollBack(w)
      PROVE  DraftsSound'
  BY <1>4 DEF Inv, VaultTypeOK, RollBack, Superseded
<1>5. CASE UNCHANGED <<documents, creating>>
  BY <1>5 DEF Inv, Superseded
<1> QED
  BY <1>1, <1>2, <1>3, <1>4, <1>5
     DEF Next, Request, vars, Approve, CreateApproval

\* What approve has checked holds until it inserts.
LEMMA ApprovalsStep == Inv /\ [Next]_vars => ApprovalsSound'
<1> SUFFICES ASSUME Inv, [Next]_vars
             PROVE  ApprovalsSound'
    OBVIOUS
<1> USE DEF ApprovalsSound
<1>1. ASSUME NEW w \in Workers, NEW u \in Users, NEW found \in Standings,
             NEW d \in DOMAIN documents, Approve(w, u, found, d)
      PROVE  ApprovalsSound'
  BY <1>1 DEF Inv, VaultTypeOK, Approve, Approved, CanApprove
<1>2. ASSUME NEW w \in Workers, CreateDocument(w)
      PROVE  ApprovalsSound'
  <2>1. approving' = approving /\ approvals' = approvals
    BY <1>2 DEF CreateDocument
  <2>2. /\ DOMAIN documents \subseteq DOMAIN documents'
        /\ \A d \in DOMAIN documents : documents'[d] = documents[d]
    BY <1>2, Inserted DEF Inv
  <2> QED
    BY <2>1, <2>2 DEF Inv, Approved
<1>3. ASSUME NEW w \in Workers, CreateApproval(w)
      PROVE  ApprovalsSound'
  <2> SUFFICES ASSUME NEW v \in Workers, NEW d, approving'[v] # Idle,
                      approving'[v].document = d
               PROVE  /\ d \in DOMAIN documents'
                      /\ documents'[d].by # approving'[v].by
                      /\ ~Approved(d)'
    OBVIOUS
  <2>1. /\ v # w /\ approving'[v] = approving[v] /\ documents' = documents
        /\ approving[v].document = d
    BY <1>3 DEF Inv, VaultTypeOK, CreateApproval
  <2>2. approving[w].document # d
    BY <1>3, <2>1 DEF Inv, Exclusive, CreateApproval
  <2> QED
    BY <1>3, <2>1, <2>2 DEF Inv, Approved, CreateApproval
<1>4. ASSUME NEW w \in Workers, RollBack(w)
      PROVE  ApprovalsSound'
  BY <1>4 DEF Inv, VaultTypeOK, RollBack, Approved
<1>5. CASE UNCHANGED <<documents, approvals, approving>>
  BY <1>5 DEF Inv, Approved
<1> QED
  BY <1>1, <1>2, <1>3, <1>4, <1>5 DEF Next, Request, vars, Upload, AddVersion

\* A row has one lock: requests on it come one after the other.
LEMMA ExclusiveStep == Inv /\ [Next]_vars => Exclusive'
<1> SUFFICES ASSUME Inv, [Next]_vars
             PROVE  Exclusive'
    OBVIOUS
<1> USE DEF Inv, VaultTypeOK, Exclusive
<1>1. ASSUME NEW w \in Workers, NEW u \in Users, NEW found \in Standings,
             NEW owner \in Owners, NEW file \in Files,
             Upload(w, u, found, owner, file)
      PROVE  Exclusive'
  BY <1>1 DEF Upload
<1>2. ASSUME NEW w \in Workers, NEW u \in Users, NEW found \in Standings,
             NEW d \in DOMAIN documents, NEW file \in Files,
             AddVersion(w, u, found, d, file)
      PROVE  Exclusive'
  BY <1>2 DEF AddVersion, Locked
<1>3. ASSUME NEW w \in Workers, NEW u \in Users, NEW found \in Standings,
             NEW d \in DOMAIN documents, Approve(w, u, found, d)
      PROVE  Exclusive'
  BY <1>3 DEF Approve, Locked
<1>4. ASSUME NEW w \in Workers, CreateDocument(w) \/ CreateApproval(w) \/ RollBack(w)
      PROVE  Exclusive'
  BY <1>4 DEF CreateDocument, CreateApproval, RollBack
<1>5. CASE UNCHANGED vars
  BY <1>5 DEF vars
<1> QED
  BY <1>1, <1>2, <1>3, <1>4, <1>5 DEF Next, Request

\* An approval is inserted for a document that has none.
LEMMA ApprovedStep == Inv /\ [Next]_vars => ApprovedOnceByAnother'
<1> SUFFICES ASSUME Inv, [Next]_vars
             PROVE  ApprovedOnceByAnother'
    OBVIOUS
<1> USE DEF ApprovedOnceByAnother
<1>1. ASSUME NEW w \in Workers, CreateApproval(w)
      PROVE  ApprovedOnceByAnother'
  BY <1>1 DEF Inv, CreateApproval, ApprovalsSound, Approved
<1>2. ASSUME NEW w \in Workers, CreateDocument(w)
      PROVE  ApprovedOnceByAnother'
  <2>1. approvals' = approvals
    BY <1>2 DEF CreateDocument
  <2>2. /\ DOMAIN documents \subseteq DOMAIN documents'
        /\ \A d \in DOMAIN documents : documents'[d] = documents[d]
    BY <1>2, Inserted DEF Inv
  <2> QED
    BY <2>1, <2>2 DEF Inv
<1>3. CASE UNCHANGED <<documents, approvals>>
  BY <1>3 DEF Inv
<1> QED
  BY <1>1, <1>2, <1>3
     DEF Next, Request, vars, Upload, AddVersion, Approve, RollBack

-----------------------------------------------------------------------------
(* The invariant and what follows from it *)

\* Inv holds initially and is kept by every step.
LEMMA Invariance == Spec => []Inv
<1>1. Init => Inv
  <2> SUFFICES ASSUME Init
               PROVE  Inv
    OBVIOUS
  <2> QED
    BY DEF Init, Inv, VaultTypeOK, SingleLine, FamilyBefore, DraftsSound,
           ApprovalsSound, Exclusive, ApprovedOnceByAnother
<1>2. Inv /\ [Next]_vars => Inv'
  <2> SUFFICES ASSUME Inv, [Next]_vars
               PROVE  Inv'
    OBVIOUS
  <2>1. SingleLine' /\ FamilyBefore'
    <3>1. ASSUME NEW w \in Workers, CreateDocument(w)
          PROVE  SingleLine' /\ FamilyBefore'
      BY <3>1, LineStep
    <3>2. CASE UNCHANGED documents
      BY <3>2, LineKept
    <3> QED
      BY <3>1, <3>2
         DEF Next, Request, vars, Upload, AddVersion, Approve, CreateApproval, RollBack
  <2> QED
    BY <2>1, TypeStep, DraftsStep, ApprovalsStep, ExclusiveStep, ApprovedStep DEF Inv
<1> QED
  BY <1>1, <1>2, PTL DEF Spec

\* VaultTypeOK holds in every reachable state of the vault.
THEOREM VaultTypeCorrect == Spec => []VaultTypeOK
<1>1. Inv => VaultTypeOK
  BY DEF Inv
<1> QED
  BY <1>1, Invariance, PTL

\* Every family of documents is a single line of versions, whatever requests
\* run at once.
THEOREM LinesAreSingle == Spec => []SingleLine
<1>1. Inv => SingleLine
  BY DEF Inv
<1> QED
  BY <1>1, Invariance, PTL

\* A document is approved at most once and by another person.
THEOREM SecondPerson == Spec => []ApprovedOnceByAnother
<1>1. Inv => ApprovedOnceByAnother
  BY DEF Inv
<1> QED
  BY <1>1, Invariance, PTL

\* Neither add_version nor approve inserts on a check that has gone stale.
THEOREM ChecksHold == Spec => []ChecksStillHold
<1>1. Inv => ChecksStillHold
  BY DEF Inv, ChecksStillHold, DraftsSound, ApprovalsSound, OneSuccessor, OneApproval
<1> QED
  BY <1>1, Invariance, PTL

-----------------------------------------------------------------------------
(* The refinement *)

\* The rows and what they map to after an insert: one version more.
LEMMA InsertedVersion ==
  ASSUME Inv, NEW w \in Workers, CreateDocument(w)
  PROVE  /\ Len(documents) + 1 \in 1..MaxDocuments
         /\ documents'[Len(documents) + 1] = Filed(creating[w])
         /\ {VersionOf(d) : d \in DOMAIN documents}' =
              {VersionOf(d) : d \in DOMAIN documents} \cup
              {[line |-> Filed(creating[w]).family,
                number |-> Filed(creating[w]).version,
                owner |-> creating[w].owner, file |-> creating[w].file,
                by |-> creating[w].by]}
         /\ {ConfirmationOf(a) : a \in approvals}' =
              {ConfirmationOf(a) : a \in approvals}
<1> DEFINE x == Filed(creating[w])
<1> PICK n : n = Len(documents) + 1
  OBVIOUS
<1>1. /\ Len(documents) \in Nat
      /\ DOMAIN documents = 1..Len(documents)
      /\ DOMAIN documents' = 1..n
      /\ \A d \in DOMAIN documents : documents'[d] = documents[d]
      /\ documents'[n] = x
  BY Inserted DEF Inv
<1>2. n \in 1..MaxDocuments
  BY <1>1, VaultAssumption DEF CreateDocument
<1>3. \A d \in DOMAIN documents : VersionOf(d)' = VersionOf(d)
  BY <1>1 DEF VersionOf
<1>4. VersionOf(n)' = [line |-> x.family, number |-> x.version,
                       owner |-> creating[w].owner, file |-> creating[w].file,
                       by |-> creating[w].by]
  <2>1. /\ x.owner = creating[w].owner
        /\ x.file = creating[w].file
        /\ x.by = creating[w].by
    BY DEF Filed
  <2> QED
    BY <1>1, <2>1 DEF VersionOf
<1>5. DOMAIN documents' = DOMAIN documents \cup {n}
  BY <1>1
<1>6. approvals' = approvals /\ \A a \in approvals : a.document \in DOMAIN documents
  BY DEF Inv, ApprovedOnceByAnother, CreateDocument
<1>7. \A a \in approvals : ConfirmationOf(a)' = ConfirmationOf(a)
  BY <1>1, <1>6 DEF ConfirmationOf
<1> QED
  BY <1>1, <1>2, <1>3, <1>4, <1>5, <1>6, <1>7

\* A first version starts a line, any other extends the line of the version it
\* replaces.
LEMMA CreateMaps ==
  ASSUME Inv, NEW w \in Workers, CreateDocument(w)
  PROVE  History!Next
<1> DEFINE c == creating[w]
           x == Filed(c)
           n == Len(documents) + 1
           new == [line |-> x.family, number |-> x.version,
                   owner |-> c.owner, file |-> c.file, by |-> c.by]
<1>1. c \in Draft
  BY DEF Inv, VaultTypeOK, CreateDocument
<1>2. c.owner \in Owners /\ c.file \in Files /\ c.by \in Users
  BY <1>1 DEF Draft
<1>3. new \in {VersionOf(d) : d \in DOMAIN documents}' /\ History!Store(new)
  BY InsertedVersion DEF History!Store
<1>4. CASE c.supersedes = 0
  <2>1. x.family = n /\ x.version = 1
    BY <1>4 DEF Filed
  <2>2. \A d \in DOMAIN documents : documents[d].family # n
    BY RowType, Inserted DEF Inv, FamilyBefore, Document
  <2>3. ~ \E v \in {VersionOf(d) : d \in DOMAIN documents} : v.line = new.line
    BY <2>1, <2>2 DEF VersionOf
  <2>4. History!Start(new)
    BY <1>3, <2>1, <2>3 DEF History!Start
  <2>5. new \in History!Version
    BY <1>2, <2>1, InsertedVersion DEF History!Version
  <2> QED
    BY <1>3, <2>4, <2>5 DEF History!Next
<1>5. CASE c.supersedes # 0
  <2> DEFINE e == c.supersedes
             v == VersionOf(e)
  <2>1. /\ e \in DOMAIN documents
        /\ documents[e].owner = c.owner
        /\ documents[e].file # c.file
        /\ ~Superseded(e)
    BY <1>5, <1>1 DEF Inv, DraftsSound, CreateDocument
  <2>2. x.family = documents[e].family /\ x.version = documents[e].version + 1
    BY <1>5 DEF Filed
  <2>3. \A d \in DOMAIN documents :
          ~(VersionOf(d).line = v.line /\ VersionOf(d).number = v.number + 1)
    BY <2>1, LastOfLine DEF Inv, VersionOf
  <2>4. /\ v.line = new.line /\ v.number + 1 = new.number
        /\ v.owner = new.owner /\ v.file # new.file
    BY <2>1, <2>2 DEF VersionOf
  <2>5. v \in {VersionOf(d) : d \in DOMAIN documents}
    BY <2>1
  <2>6. ~ \E u \in {VersionOf(d) : d \in DOMAIN documents} :
             u.line = new.line /\ u.number = new.number
    BY <2>3, <2>4
  <2>7. History!Extend(new)
    BY <1>3, <2>4, <2>5, <2>6 DEF History!Extend
  <2>8. /\ documents[e].family \in 1..MaxDocuments
        /\ documents[e].version \in Nat
    <3>1. /\ documents[e].family \in Nat \ {0} /\ documents[e].family <= e
          /\ documents[e].version \in Nat
      BY <2>1, RowType DEF Inv, Document, FamilyBefore
    <3>2. e <= Len(documents) /\ Len(documents) \in Nat /\ e \in Nat
      BY <2>1, Inserted DEF Inv
    <3> QED
      BY <3>1, <3>2, InsertedVersion, VaultAssumption
  <2>9. new \in History!Version
    BY <1>2, <2>2, <2>8 DEF History!Version
  <2> QED
    BY <1>3, <2>7, <2>9 DEF History!Next
<1> QED
  BY <1>4, <1>5

\* An approval confirms the version it names.
LEMMA ApproveMaps ==
  ASSUME Inv, NEW w \in Workers, CreateApproval(w)
  PROVE  History!Next
<1> DEFINE a == approving[w]
           v == VersionOf(a.document)
           new == [line |-> v.line, number |-> v.number, by |-> a.by]
<1>1. a \in Approval
  BY DEF Inv, VaultTypeOK, CreateApproval
<1>2. /\ a.document \in DOMAIN documents
      /\ documents[a.document].by # a.by
      /\ ~Approved(a.document)
  BY DEF Inv, ApprovalsSound, CreateApproval
<1>3. ~ \E c \in {ConfirmationOf(b) : b \in approvals} :
           c.line = v.line /\ c.number = v.number
  BY <1>2 DEF Inv, ApprovedOnceByAnother, SingleLine, ConfirmationOf, VersionOf, Approved
<1>4. documents' = documents /\ approvals' = approvals \cup {a}
  BY DEF CreateApproval
<1>5. {ConfirmationOf(b) : b \in approvals}' =
        {ConfirmationOf(b) : b \in approvals} \cup {new}
  BY <1>4 DEF ConfirmationOf, VersionOf
<1>6. {VersionOf(d) : d \in DOMAIN documents}' = {VersionOf(d) : d \in DOMAIN documents}
  BY <1>4 DEF VersionOf
<1>7. v \in {VersionOf(d) : d \in DOMAIN documents} /\ v.by # a.by
  BY <1>2 DEF VersionOf
<1>8. History!Confirm(new)
  BY <1>1, <1>3, <1>5, <1>6, <1>7 DEF History!Confirm, Approval
<1> QED
  BY <1>5, <1>8 DEF History!Next

\* The vault keeps the promise of VaultHistory: what is stored only grows, as
\* lines of versions confirmed by a second person.
THEOREM VaultImplements == Spec => ImplementsHistory
<1>1. Init => History!Init
  BY DEF Init, History!Init
<1>2. Inv /\ [Next]_vars => [History!Next]_(History!vars)
  <2> SUFFICES ASSUME Inv, [Next]_vars
               PROVE  [History!Next]_(History!vars)
    OBVIOUS
  <2>1. ASSUME NEW w \in Workers, CreateDocument(w) \/ CreateApproval(w)
        PROVE  History!Next
    BY <2>1, CreateMaps, ApproveMaps
  <2>2. CASE UNCHANGED <<documents, approvals>>
    BY <2>2 DEF History!vars, VersionOf, ConfirmationOf
  <2> QED
    BY <2>1, <2>2 DEF Next, Request, vars, Upload, AddVersion, Approve, RollBack
<1> QED
  BY <1>1, <1>2, Invariance, PTL DEF Spec, ImplementsHistory, History!Spec

=============================================================================
