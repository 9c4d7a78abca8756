---------------------------- MODULE AccountUpkeep ----------------------------
(***************************************************************************)
(* What every start of the web process does to the accounts (Procfile):    *)
(* it imports the old backend's users, deletes the test users on a list    *)
(* and creates or promotes the administrator; and reactivate_users.py,     *)
(* which an operator runs.  The process started before goes on serving     *)
(* meanwhile, so registrations and changes of credentials fall between     *)
(* any two steps of a start.                                               *)
(*                                                                         *)
(* The import reads the e-mails in use first and inserts in a transaction  *)
(* of its own.  It catches an insert that fails, but the transaction is    *)
(* broken by then: nothing of it is committed, and the start goes on.      *)
(***************************************************************************)
EXTENDS Naturals, FiniteSets

CONSTANTS
  Ids, Emails,
  OldUsers,      \* the old backend's rows: sets of [id, email, active]
  NoEmail,       \* an old row without an e-mail
  TestEmails,    \* DELETE_TEST_USER_EMAILS
  AdminEmail,    \* ADMIN_EMAIL
  Gone           \* an id without an account

VARIABLES
  person,      \* [Ids -> the account, or Gone]
  filed,       \* accounts with records that PROTECT them
  boot,        \* where the start stands, "serving" when it is over
  known,       \* the e-mails the import has read
  admin,       \* the account bootstrap_admin got, or Gone
  candidates,  \* what reactivate_users listed
  expected     \* (history) what the start found, with what the import, the
               \* holders, the staff and the operator made of it since

upkeepVars == <<person, filed, boot, known, admin, candidates, expected>>

Boots == {"serving", "import", "insert", "delete", "get", "promote"}
Person == [email : Emails, password : {"old", "own", "secret"},
           active : BOOLEAN, fresh : BOOLEAN]  \* fresh: never signed in or verified

ASSUME UpkeepAssumption ==
  /\ IsFiniteSet(OldUsers)
  /\ OldUsers \subseteq [id : Ids, email : Emails \cup {NoEmail}, active : BOOLEAN]
  /\ \A o, p \in OldUsers : o.id = p.id => o = p
  /\ AdminEmail \in Emails /\ TestEmails \subseteq Emails /\ NoEmail \notin Emails
  /\ Gone \notin Ids \cup Person

UpkeepTypeOK ==
  /\ person \in [Ids -> Person \cup {Gone}] /\ expected \in [Ids -> Person \cup {Gone}]
  /\ filed \subseteq Ids /\ boot \in Boots /\ known \subseteq Emails
  /\ admin \in Ids \cup {Gone} /\ candidates \subseteq Ids

-----------------------------------------------------------------------------
Held == {i \in Ids : person[i] # Gone}
Taken == {person[i].email : i \in Held}
Unheld == Ids \ (Held \cup {o.id : o \in OldUsers})

Boot ==
  /\ boot = "serving" /\ boot' = "import"
  /\ expected' = person /\ admin' = Gone
  /\ UNCHANGED <<person, filed, known, candidates>>

ReadEmails ==
  /\ boot = "import" /\ boot' = "insert"
  /\ known' = Taken
  /\ UNCHANGED <<person, filed, admin, candidates, expected>>

\* The rows it will insert: of those with one new e-mail, the first it meets.
Unknown == {o \in OldUsers : o.email \notin known \cup {NoEmail}}
Importing(new) ==
  /\ new \subseteq Unknown
  /\ \A o \in Unknown : Cardinality({n \in new : n.email = o.email}) = 1

With(persons, new) ==
  [i \in Ids |-> IF \E o \in new : o.id = i
                 THEN LET o == CHOOSE o \in new : o.id = i IN
                      [email |-> o.email, password |-> "old", active |-> o.active, fresh |-> TRUE]
                 ELSE persons[i]]

\* An id or an e-mail that is taken by now breaks the transaction.
Insert(new) ==
  IF \E o \in new : person[o.id] # Gone \/ o.email \in Taken
  THEN UNCHANGED <<person, expected>>
  ELSE person' = With(person, new) /\ expected' = With(expected, new)

ImportUsers ==
  /\ boot = "insert" /\ boot' = "delete"
  /\ \E new \in SUBSET OldUsers : Importing(new) /\ Insert(new)
  /\ known' = {}
  /\ UNCHANGED <<filed, admin, candidates>>

\* All of the list that are found, or none of them if one is protected.
Listed == {i \in Held : person[i].email \in TestEmails}
DeleteTestUsers ==
  /\ boot = "delete" /\ boot' = "get"
  /\ person' = IF Listed \cap filed # {} THEN person
               ELSE [i \in Ids |-> IF i \in Listed THEN Gone ELSE person[i]]
  /\ UNCHANGED <<filed, known, admin, candidates, expected>>

\* get_or_create; a concurrent registration under the address is one to get.
GetAdmin ==
  /\ boot = "get" /\ boot' = "promote"
  /\ \E i \in Ids :
       /\ admin' = i
       /\ person' = IF AdminEmail \in Taken THEN person
                    ELSE [person EXCEPT ![i] =
                            [email |-> AdminEmail, password |-> "own", active |-> TRUE, fresh |-> TRUE]]
       /\ IF AdminEmail \in Taken THEN i \in Held /\ person[i].email = AdminEmail ELSE i \in Unheld
  /\ UNCHANGED <<filed, known, candidates, expected>>

\* save(update_fields=...), whatever the account has become; then the new
\* process serves.
PromoteAdmin ==
  /\ boot = "promote" /\ boot' = "serving"
  /\ person' = [person EXCEPT ![admin] = [@ EXCEPT !.password = "secret", !.active = TRUE]]
  /\ UNCHANGED <<filed, known, admin, candidates, expected>>

-----------------------------------------------------------------------------
\* reactivate_users: those inactive in both databases that were never verified
\* or signed in, as they were when it listed them.
ListInactive ==
  /\ candidates = {}
  /\ candidates' = {i \in Held : person[i].fresh /\ ~person[i].active
                      /\ \E o \in OldUsers : o.email = person[i].email /\ ~o.active}
  /\ UNCHANGED <<person, filed, boot, known, admin, expected>>

Activated(persons) ==
  [i \in Ids |-> IF i \in candidates /\ persons[i] # Gone
                 THEN [persons[i] EXCEPT !.active = TRUE] ELSE persons[i]]
\* --expect refuses any other number.
Reactivate(number) ==
  /\ candidates # {} /\ candidates' = {}
  /\ IF number # Cardinality(candidates) THEN UNCHANGED <<person, expected>>
     ELSE person' = Activated(person) /\ expected' = Activated(expected)
  /\ UNCHANGED <<filed, boot, known, admin>>

\* What the serving process does for the holder of an account, or the staff.
Serve(i, new) ==
  /\ person' = [person EXCEPT ![i] = new]
  /\ expected' = [expected EXCEPT ![i] = new]
  /\ UNCHANGED <<filed, boot, known, admin, candidates>>
Active(i) == i \in Held /\ person[i].active

Register(i, e) ==
  /\ i \in Unheld /\ e \notin Taken
  /\ Serve(i, [email |-> e, password |-> "own", active |-> TRUE, fresh |-> TRUE])
SignIn(i) == Active(i) /\ Serve(i, [person[i] EXCEPT !.fresh = FALSE])
ChangeEmail(i, e) ==
  /\ Active(i) /\ ~person[i].fresh /\ e \notin Taken
  /\ Serve(i, [person[i] EXCEPT !.email = e])
ChangePassword(i) ==
  /\ Active(i) /\ ~person[i].fresh
  /\ Serve(i, [person[i] EXCEPT !.password = "own"])
StaffDeactivate(i) == Active(i) /\ Serve(i, [person[i] EXCEPT !.active = FALSE])
\* A record whose author may not be deleted: a document, an application.
FileRecord(i) ==
  /\ Active(i) /\ ~person[i].fresh /\ filed' = filed \cup {i}
  /\ UNCHANGED <<person, boot, known, admin, candidates, expected>>

UpkeepInit ==
  /\ person = [i \in Ids |-> Gone] /\ expected = person
  /\ filed = {} /\ candidates = {} /\ known = {}
  /\ boot = "serving" /\ admin = Gone

UpkeepNext ==
  \/ Boot \/ ReadEmails \/ ImportUsers \/ DeleteTestUsers \/ GetAdmin \/ PromoteAdmin
  \/ ListInactive \/ \E n \in 0..Cardinality(Ids) : Reactivate(n)
  \/ \E i \in Ids : SignIn(i) \/ ChangePassword(i) \/ StaffDeactivate(i) \/ FileRecord(i)
  \/ \E i \in Ids, e \in Emails : Register(i, e) \/ ChangeEmail(i, e)

UpkeepSpec == UpkeepInit /\ [][UpkeepNext]_upkeepVars

-----------------------------------------------------------------------------
\* "Any email that already exists in this database is left untouched, so this
\* is safe to run on every boot": through a whole start, and whatever is
\* registered and changed between its steps, no account is other than its
\* holder, the staff or the operator left it, but for the administrator's and
\* for test users deleted; none with records is deleted, and no two accounts
\* have one e-mail.
LeftUntouched ==
  /\ \A i \in Ids \ {admin} :
       person[i] # expected[i] => person[i] = Gone /\ expected[i].email \in TestEmails
  /\ filed \subseteq Held
  /\ \A i, j \in Held : person[i].email = person[j].email => i = j

\* "Existing users can log in unchanged here": after the import every old user
\* whose e-mail nobody had has an account.  It is not so: one user who changed
\* his e-mail, or a registration between the steps, undoes the whole import.
EveryoneImported ==
  boot = "delete" =>
    \A o \in OldUsers : o.email = NoEmail \/ o.email \in Taken \/ person[o.id] # Gone
=============================================================================
