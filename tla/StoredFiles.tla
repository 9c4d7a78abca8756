----------------------------- MODULE StoredFiles -----------------------------
(***************************************************************************)
(* The files behind the rows that name them (compliance, mining and        *)
(* processing signals.py).  Saving a row stores a new upload under a free  *)
(* name before the row is written, and removes the file the row named      *)
(* before only after the commit (on_commit).  So between two requests a    *)
(* file may be stored that no row names yet, a removal may be due for a    *)
(* name no row has, and the name of a removed file is free again: names    *)
(* vary by folder and month only.                                          *)
(*                                                                         *)
(* A request is four steps: it reads the row, runs pre_save and stores,    *)
(* commits, and removes.  It may fail or its process may end in between;   *)
(* a file stored for it then stays behind, named by no row.                *)
(***************************************************************************)
EXTENDS Naturals, FiniteSets

CONSTANTS
  Rows,
  LockedRows,     \* every handler locks their application (compliance)
  ReviewedRows,   \* an upload locks it, a verdict does not (processing)
                  \* no handler of the others locks (licences)
  StoredNames, NamesOf, \* stored names, and those of a row's folder
  NoFile,         \* the name of a row that has no file
  Handlers,       \* requests under way at once
  MaxUploads

VARIABLES
  named,    \* [Rows -> its stored name, and (history) the upload it was given]
  object,   \* [StoredNames -> the upload stored there, 0 when there is none]
  handler,  \* [Handlers -> what it does, has read, stored and will remove]
  uploads   \* uploads so far

filesVars == <<named, object, handler, uploads>>

UploadNumber == 0..MaxUploads
File == [name : StoredNames \cup {NoFile}, upload : UploadNumber]
Empty == [name |-> NoFile, upload |-> 0]
Kinds == {"upload", "edit", "verdict", "remove"}
Handler == [phase : {"idle", "read", "saved", "committed"}, row : Rows, kind : Kinds,
            file : File, dropped : SUBSET StoredNames]

ASSUME FilesAssumption ==
  /\ LockedRows \cup ReviewedRows \subseteq Rows
  /\ Rows # {} /\ MaxUploads \in Nat \ {0} /\ NoFile \notin StoredNames
  /\ NamesOf \in [Rows -> SUBSET StoredNames]
  /\ \A r \in LockedRows, o \in Rows \ LockedRows : NamesOf[r] \cap NamesOf[o] = {}

FilesTypeOK ==
  /\ named \in [Rows -> File] /\ object \in [StoredNames -> UploadNumber]
  /\ handler \in [Handlers -> Handler] /\ uploads \in UploadNumber

-----------------------------------------------------------------------------
\* What the handlers do to a row: re-upload it, save it with all its columns,
\* save a verdict's columns, delete it.
KindsOf(r) ==
  CASE r \in LockedRows -> Kinds
    [] r \in ReviewedRows -> {"upload", "verdict"}
    [] OTHER -> {"upload", "edit"}

\* Fault: as in processing, only an upload locks the application.
LocksUpload(r, k) == r \in LockedRows \cup ReviewedRows /\ k = "upload"
\* The handlers that lock the application before they read the row.
Locks(r, k) == r \in LockedRows \/ (r \in ReviewedRows /\ k = "upload")

Busy(q) == handler[q].phase \in {"read", "saved"}
LockedBy(q, r) == Busy(q) /\ handler[q].row = r /\ Locks(r, handler[q].kind)

Begin(q, r, k) ==
  /\ handler[q].phase = "idle" /\ k \in KindsOf(r)
  /\ k # "upload" => named[r].name # NoFile
  /\ Locks(r, k) => \A p \in Handlers : ~LockedBy(p, r)
  /\ handler' = [handler EXCEPT ![q] =
       [phase |-> "read", row |-> r, kind |-> k, file |-> named[r], dropped |-> {}]]
  /\ UNCHANGED <<named, object, uploads>>

\* _delete_replaced: the name in the database, unless it is the one being saved.
Replaced(r, new) == {named[r].name} \ {new.name, NoFile}
Saved(q, new, dropped) ==
  [handler EXCEPT ![q].phase = "saved", ![q].file = new, ![q].dropped = dropped]

\* FileField stores the upload under a name nothing is stored under.
SaveUpload(q, n) ==
  /\ handler[q].phase = "read" /\ handler[q].kind = "upload"
  /\ n \in NamesOf[handler[q].row] /\ object[n] = 0
  /\ uploads < MaxUploads
  /\ uploads' = uploads + 1
  /\ object' = [object EXCEPT ![n] = uploads + 1]
  /\ LET new == [name |-> n, upload |-> uploads + 1] IN
       handler' = Saved(q, new, Replaced(handler[q].row, new))
  /\ UNCHANGED named

\* A save without a file runs pre_save on what the handler has read, whether or
\* not update_fields names the file.
SaveRead(q) ==
  /\ handler[q].phase = "read" /\ handler[q].kind \in {"edit", "verdict"}
  /\ handler' = Saved(q, handler[q].file, Replaced(handler[q].row, handler[q].file))
  /\ UNCHANGED <<named, object, uploads>>

\* post_delete.
SaveRemove(q) ==
  /\ handler[q].phase = "read" /\ handler[q].kind = "remove"
  /\ handler' = Saved(q, Empty, {handler[q].file.name})
  /\ UNCHANGED <<named, object, uploads>>

Commit(q) ==
  /\ handler[q].phase = "saved"
  /\ named' = IF handler[q].kind = "verdict" THEN named
            ELSE [named EXCEPT ![handler[q].row] = handler[q].file]
  /\ handler' = [handler EXCEPT ![q].phase = "committed"]
  /\ UNCHANGED <<object, uploads>>

Done(q) == [handler EXCEPT ![q] = [@ EXCEPT !.phase = "idle", !.file = Empty, !.dropped = {}]]

\* on_commit: storage.delete of each name that is due, if it is still there.
Sweep(q) ==
  /\ handler[q].phase = "committed"
  /\ object' = [n \in StoredNames |-> IF n \in handler[q].dropped THEN 0 ELSE object[n]]
  /\ handler' = Done(q)
  /\ UNCHANGED <<named, uploads>>

\* A response of 400 or more rolls the row back; a process may also end.
Fail(q) ==
  /\ handler[q].phase # "idle"
  /\ handler' = Done(q)
  /\ UNCHANGED <<named, object, uploads>>

\* Rows with a file each, and rows whose file has not been uploaded.
FilesInit ==
  /\ named \in [Rows -> {Empty} \cup [name : StoredNames, upload : {1}]]
  /\ \A r, o \in Rows : named[r].name # NoFile =>
       named[r].name \in NamesOf[r] /\ (r # o => named[o].name # named[r].name)
  /\ object = [n \in StoredNames |-> IF \E r \in Rows : named[r].name = n THEN 1 ELSE 0]
  /\ handler = [q \in Handlers |-> [phase |-> "idle", row |-> CHOOSE r \in Rows : TRUE,
                                    kind |-> "upload", file |-> Empty, dropped |-> {}]]
  /\ uploads = 1

HandlerStep(q) ==
  \/ \E r \in Rows, k \in Kinds : Begin(q, r, k)
  \/ \E n \in StoredNames : SaveUpload(q, n)
  \/ SaveRead(q) \/ SaveRemove(q) \/ Commit(q) \/ Sweep(q) \/ Fail(q)
FilesNext == \E q \in Handlers : HandlerStep(q)

FilesSpec == FilesInit /\ [][FilesNext]_filesVars

-----------------------------------------------------------------------------
InStep(r) == named[r].name # NoFile => object[named[r].name] = named[r].upload

\* Where every handler locks the application first, a row that names a file
\* finds that file there, whatever overlaps, fails or is due for removal, and
\* although names are given out again.
LockedInStep == \A r \in LockedRows : InStep(r)

\* mining/signals.py: "Keep stored files in step with the rows that point at
\* them." Every row that names a file finds it there.
FilesInStep == \A r \in Rows : InStep(r)
=============================================================================
