----------------------------- MODULE LegacyMerge -----------------------------
(* migration/: find_missing.py and merge.py over merge_engine.Merger and the  *)
(* MAPPINGS of mapping.py.  The rows of the old database are matched to rows  *)
(* of v2 on natural keys, never on primary keys, and the missing ones are     *)
(* inserted in one transaction, each under the v2 parents its old parents     *)
(* ended up with.  A run may be a search that writes nothing ("find"), a      *)
(* rehearsal that is rolled back ("dry") or the merge itself; it may stop     *)
(* anywhere, and be started again.  The application may be writing to v2.     *)
(*                                                                            *)
(* Every mapping has one natural key, so no row is "ambiguous".  A row's Data *)
(* stands for its key columns that are no foreign keys, normalised.           *)
EXTENDS Naturals, FiniteSets

CONSTANTS
  N,            \* the old rows are 1..N, in the order a run takes them
  Databases,    \* what the old database may hold
  Contents,     \* what v2 may hold
  Values,       \* normalised key values
  Blank,        \* no value
  PKs, NoPK,    \* primary keys of v2
  Absent,       \* no such row
  MaxWrites,    \* bound on what the application writes
  MaxRefusals   \* bound on the rows of a run v2 refuses for another reason than their key

OldRows == 1..N

\* The mappings in their order, the v2 table each feeds, and its foreign keys:
\* those of the natural key, and the one that is nulled when its parent was
\* skipped (ForeignKey.on_missing).
Tables == {"user", "organisation", "membership", "site", "licence", "document"}
MAPPINGS == {"users", "mining orgs", "mining owners", "sites", "licences", "miner documents",
             "profile documents", "compliance orgs", "compliance owners"}
Target == [m \in MAPPINGS |->
  CASE m = "users" -> "user"
    [] m \in {"mining orgs", "compliance orgs"} -> "organisation"
    [] m \in {"mining owners", "compliance owners"} -> "membership"
    [] m = "sites" -> "site"
    [] m = "licences" -> "licence"
    [] m \in {"miner documents", "profile documents"} -> "document"]

\* A row of the old database.  "above" is the row its first key column names
\* (a membership's or site's organisation, a licence's or document's site), and
\* "user" the account of a membership or the uploader of a document.
OldRow == [mapping : MAPPINGS, data : Values \cup {Blank}, above : 0..N, user : 0..N]
\* A row of v2: its natural key and the uploader of a document.
Key == [table : Tables, data : Values, above : PKs \cup {NoPK}, user : PKs \cup {NoPK}]
Row == [key : Key, uploader : PKs \cup {NoPK}]

Hangs(table) == table \notin {"user", "organisation"}
\* Columns v2 itself keeps unique.
Unique(table) == table \in {"user", "membership", "site"}

\* Parents come before the rows that refer to them, and MAPPINGS in its order.
WellFormed(db) ==
  /\ db \in [OldRows -> OldRow]
  /\ \A r \in OldRows :
       /\ db[r].above < r /\ db[r].user < r
       /\ ~Hangs(Target[db[r].mapping]) => db[r].above = 0

\* v2's foreign keys hold.
Related(v2) ==
  \A p \in PKs : v2[p] # Absent =>
    \A q \in {v2[p].key.above, v2[p].key.user} : q # NoPK => v2[q] # Absent

ASSUME MergeAssumption ==
  /\ N \in Nat /\ MaxWrites \in Nat /\ MaxRefusals \in Nat /\ NoPK \notin PKs /\ Blank \notin Values
  /\ \A db \in Databases : WellFormed(db)
  /\ Absent \notin Row
  /\ Contents \subseteq [PKs -> Row \cup {Absent}] /\ \A v2 \in Contents : Related(v2)

VARIABLES
  old,      \* the old database, only read
  rows,     \* v2: [PKs -> Row or Absent], the rows of the transaction too
  draft,    \* the keys inserted by the transaction of the run
  mode,     \* "idle", "find", "dry" or "merge"
  at,       \* the next old row
  loaded,   \* the mapping whose index is loaded
  index,    \* <<natural key, primary key>> pairs
  idMap,    \* [OldRows -> PKs or NoPK]: Merger.id_maps
  log,      \* the old rows logged as inserted (or missing)
  refused,   \* those logged as skipped_insert_failed
  last,     \* the last run that ended, while v2 has not been written to since
  written,  \* the application wrote since the run began
  writes    \* how often it has written

mergeVars ==
  <<old, rows, draft, mode, at, loaded, index, idMap, log, refused, last, written, writes>>
runVars == <<draft, mode, at, loaded, index, idMap, log, refused>>

NoMap == [r \in OldRows |-> NoPK]
Unwritten == [mode |-> "none", log |-> {}, refused |-> {}, idMap |-> NoMap]
Runs == {"find", "dry", "merge"}

MergeTypeOK ==
  /\ old \in Databases
  /\ rows \in [PKs -> Row \cup {Absent}]
  /\ draft \subseteq PKs /\ mode \in Runs \cup {"idle"}
  /\ at \in 1..(N + 1) /\ loaded \in MAPPINGS \cup {"none"}
  /\ index \subseteq Key \X PKs
  /\ idMap \in [OldRows -> PKs \cup {NoPK}] /\ log \subseteq OldRows
  /\ refused \subseteq OldRows
  /\ last \in [mode : Runs \cup {"none"}, log : SUBSET OldRows, refused : SUBSET OldRows,
               idMap : [OldRows -> PKs \cup {NoPK}]]
  /\ written \in BOOLEAN /\ writes \in 0..MaxWrites

-----------------------------------------------------------------------------
\* What a remapped foreign key holds: the v2 row its old parent ended up with.
Mapped(map, parent) == IF parent = 0 THEN NoPK ELSE map[parent]

\* A parent that was not merged skips the row, unless it is only nulled.
Lost(map, parent) == parent # 0 /\ map[parent] = NoPK
Unresolved(map, r) ==
  \/ Lost(map, old[r].above)
  \/ Target[old[r].mapping] = "membership" /\ Lost(map, old[r].user)

KeyOf(map, r) ==
  LET table == Target[old[r].mapping] IN
  [table |-> table, data |-> old[r].data, above |-> Mapped(map, old[r].above),
   user |-> IF table = "membership" THEN Mapped(map, old[r].user) ELSE NoPK]

\* A key with an empty column cannot be compared.
HasKey(r) ==
  LET table == Target[old[r].mapping] IN
  /\ old[r].data # Blank
  /\ Hangs(table) => old[r].above # 0
  /\ table = "membership" => old[r].user # 0

Stored == {p \in PKs : rows[p] # Absent}
\* Fault: the key of a row of v2 leaves its foreign keys out.
IndexedAlone(table) ==
  {<<[rows[p].key EXCEPT !.above = NoPK, !.user = NoPK], p>> :
     p \in {q \in Stored : rows[q].key.table = table}}
Indexed(table) == {<<rows[p].key, p>> : p \in {q \in Stored : rows[q].key.table = table}}
Matches(k) == {p \in PKs : <<k, p>> \in index}
\* One of them: the first in the order of the scan; any, of new random keys.
First(S) == CHOOSE p \in S : TRUE
Fresh == {p \in PKs : rows[p] = Absent /\ \A r \in OldRows : idMap[r] # p}
Refused(k) == Unique(k.table) /\ \E p \in Stored : rows[p].key = k

-----------------------------------------------------------------------------
\* The variables of a run that is not there, and of one about to start.
Ready(m) ==
  /\ mode' = m /\ at' = 1 /\ loaded' = "none" /\ index' = {}
  /\ idMap' = NoMap /\ log' = {} /\ refused' = {} /\ draft' = {}
Over == Ready("idle") /\ written' = FALSE /\ UNCHANGED <<old, writes>>

\* merge.py (also with --dry-run) or find_missing.py is started.
Begin(m) ==
  /\ mode = "idle"
  /\ Ready(m) /\ written' = FALSE
  /\ UNCHANGED <<old, rows, last, writes>>

Running == mode # "idle" /\ at <= N
LoadIndex ==
  /\ Running /\ loaded # old[at].mapping
  /\ loaded' = old[at].mapping
  /\ index' = Indexed(Target[loaded'])
  /\ UNCHANGED <<old, rows, draft, mode, at, idMap, log, refused, last, written, writes>>

Turn == Running /\ loaded = old[at].mapping
Comparable == ~Unresolved(idMap, at) /\ HasKey(at)

\* skipped_unresolved_fk, skipped_no_natural_key.
Skip ==
  /\ Turn /\ ~Comparable
  /\ at' = at + 1
  /\ UNCHANGED <<old, rows, draft, mode, loaded, index, idMap, log, refused, last, written, writes>>

\* skipped_duplicate: the children of the row follow the v2 row.
Duplicate ==
  /\ Turn /\ Comparable /\ Matches(KeyOf(idMap, at)) # {}
  /\ idMap' = [idMap EXCEPT ![at] = First(Matches(KeyOf(idMap, at)))]
  /\ at' = at + 1
  /\ UNCHANGED <<old, rows, draft, mode, loaded, index, log, refused, last, written, writes>>

\* The new row joins the index, so that its duplicates in the old database
\* follow it.
Learned(k, p) == index \cup {<<k, p>>}

\* inserted, or only missing when nothing is executed.
New ==
  LET k == KeyOf(idMap, at)
      p == First(Fresh) IN
  /\ Turn /\ Comparable /\ Matches(k) = {}
  /\ Fresh # {}
  /\ IF mode = "find" THEN UNCHANGED <<rows, draft>>
     ELSE /\ ~Refused(k)
          /\ rows' = [rows EXCEPT ![p] =
               [key |-> k, uploader |-> IF k.table = "document" THEN Mapped(idMap, old[at].user)
                                                                ELSE NoPK]]
          /\ draft' = draft \cup {p}
  /\ idMap' = [idMap EXCEPT ![at] = p]
  /\ index' = Learned(k, p)
  /\ log' = log \cup {at}
  /\ at' = at + 1
  /\ UNCHANGED <<old, mode, loaded, refused, last, written, writes>>

\* skipped_insert_failed: v2 refuses the row, as it holds the key already or for
\* any other reason (a code drawn for it is taken, a value does not fit its
\* column); the savepoint of the one row is rolled back.
Fail ==
  LET k == KeyOf(idMap, at) IN
  /\ Turn /\ Comparable /\ mode # "find"
  /\ Matches(k) = {}
  /\ Refused(k) \/ Cardinality(refused) < MaxRefusals
  /\ refused' = refused \cup {at}
  /\ at' = at + 1
  /\ UNCHANGED <<old, rows, draft, mode, loaded, index, idMap, log, last, written, writes>>

\* The run is over: a merge is committed, a rehearsal rolled back.
\* Fault: the rows of a rehearsal are kept.
WithDraft == rows
WithoutDraft == [p \in PKs |-> IF p \in draft THEN Absent ELSE rows[p]]
EndRun ==
  /\ mode # "idle" /\ at = N + 1
  /\ rows' = IF mode = "merge" THEN rows ELSE WithoutDraft
  /\ last' = IF written THEN Unwritten ELSE [mode |-> mode, log |-> log, refused |-> refused, idMap |-> idMap]
  /\ Over

\* The run dies, or any error ends it: everything is rolled back.
Stop ==
  /\ mode # "idle"
  /\ rows' = WithoutDraft
  /\ Over
  /\ UNCHANGED last

\* The application registers or renames something while v2 is in use.
Writes ==
  /\ writes < MaxWrites /\ writes' = writes + 1
  /\ written' = TRUE /\ last' = Unwritten
  /\ UNCHANGED <<old, runVars>>
Register(k) ==
  /\ Fresh # {} /\ ~Refused(k)
  /\ Hangs(k.table) => /\ k.above \in Stored \ draft
                       /\ rows[k.above].key.table = "organisation"
  /\ rows' = [rows EXCEPT ![First(Fresh)] = [key |-> k, uploader |-> NoPK]]
  /\ Writes
\* What it registers: an account, an organisation, a site of one.
NewKeys == {k \in Key : /\ k.table \in {"user", "organisation", "site"} /\ k.user = NoPK
                        /\ k.above = NoPK <=> k.table # "site"}
Renamed(row, v) ==
  [key |-> [table |-> row.key.table, data |-> v, above |-> row.key.above, user |-> row.key.user],
   uploader |-> row.uploader]
Rename(p, v) ==
  /\ p \in Stored \ draft
  /\ ~Refused(Renamed(rows[p], v).key)
  /\ rows' = [rows EXCEPT ![p] = Renamed(rows[p], v)]
  /\ Writes

-----------------------------------------------------------------------------
MergeInit ==
  /\ old \in Databases
  /\ rows \in Contents
  /\ draft = {} /\ mode = "idle" /\ at = 1 /\ loaded = "none" /\ index = {}
  /\ idMap = NoMap /\ log = {} /\ refused = {}
  /\ last = Unwritten /\ written = FALSE /\ writes = 0

MergeNext ==
  \/ \E m \in Runs : Begin(m)
  \/ LoadIndex \/ Skip \/ Duplicate \/ New \/ Fail \/ EndRun \/ Stop
  \/ \E k \in NewKeys : Register(k)
  \/ \E p \in PKs, v \in Values : Rename(p, v)

MergeSpec == MergeInit /\ [][MergeNext]_mergeVars

-----------------------------------------------------------------------------
\* While the application writes nothing, every old row follows the v2 row of
\* its very key, under the rows its own parents follow.
MappedAlike ==
  mode \in {"dry", "merge"} /\ ~written =>
    \A r \in OldRows : idMap[r] # NoPK => /\ rows[idMap[r]] # Absent
                                          /\ rows[idMap[r]].key = KeyOf(idMap, r)

\* "Running merge.py a second time must insert nothing" (migration/README.md),
\* nor find anything missing or rehearse an insert, however often it was
\* stopped half-way before, duplicates in either database included: if v2
\* refused no row of the merge.  If it refused some, a second run inserts no row
\* the first one found or inserted.
SecondRunInsertsNothing ==
  last.mode = "merge" =>
    /\ last.refused = {} => log = {} /\ draft = {}
    /\ mode # "find" => \A r \in log : last.idMap[r] = NoPK

\* The row comes before those a run lost.
Before(r, lost) == \A s \in lost : r < s

\* As long as v2 refuses no row of either run, what a rehearsal logs as inserted
\* is what the merge inserts, and all of it was reported missing by a search
\* before ("exactly the same rules as merge.py", find_missing.py).
RehearsalHolds ==
  mode \in {"dry", "merge"} =>
    \A r \in OldRows : r < at /\ Before(r, refused \cup last.refused) =>
      /\ last.mode = "dry" => (r \in log <=> r \in last.log)
      /\ last.mode = "find" => (r \in log => r \in last.log)
=============================================================================
