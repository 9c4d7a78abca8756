------------------------------ MODULE Registers ------------------------------
(***************************************************************************)
(* The operating registers of the verticals: inspections, environmental    *)
(* alerts, traceability runs, production periods, warehouse certificates,  *)
(* the logistics ledger, and the records that are only filed, amended and  *)
(* removed.                                                                *)
(*                                                                         *)
(* A PATCH reads the whole row, checks the columns it was sent against the *)
(* rest of what it read, and saves every column; an alert's status handler *)
(* saves the columns it names.  Both are two actions of an editor.  In the *)
(* mining and processing registers editors overlap; the logistics and      *)
(* warehousing ones lock the row they read until they have saved it.       *)
(* Dates and masses are small numbers; one row of one register is followed.*)
(***************************************************************************)
EXTENDS Naturals

CONSTANTS
  Editors,   \* requests that can overlap
  Standing,  \* [Editors -> "desk", "owner" or "overseer" (the regulator)]
  Limit,     \* bound: dates and masses
  Nothing    \* no row

VARIABLES
  register,  \* the register followed
  row,       \* its row, or Nothing
  held,      \* [Editors -> the row the editor has read, or Nothing]
  dated      \* last_inspection_on of the site or processor the visit names is set

registerVars == <<register, row, held, dated>>

-----------------------------------------------------------------------------
Amount == 0..Limit
Run == [input : Amount, output : Amount, from : Amount, to : Amount]
Period == [from : Amount, to : Amount]
Alert == [status : {"open", "acknowledged", "resolved"}, acknowledged : BOOLEAN, resolved : BOOLEAN]
Visit == [status : {"requested", "scheduled", "completed"}, stamped : BOOLEAN, placed : BOOLEAN]
Item == {"reported", "amended"}
Ledger == {"open", "settled"}
Case == {"open", "settled"}
Validity == [from : Amount, to : Amount]
Rows == [run |-> Run, period |-> Period, alert |-> Alert, visit |-> Visit,
         certificate |-> Validity, ledger |-> Ledger, case |-> Case,
         item |-> Item, incident |-> Item, sample |-> Item, reading |-> Item, licence |-> Item,
         review |-> Item, profile |-> Item, report |-> Item, facility |-> Item]
Names == DOMAIN Rows
LockedNames == {"certificate", "ledger", "case"}

Anyone == {"desk", "owner", "overseer"}
Owning == {"desk", "owner"}
Desk == {"desk"}
Nobody == {}
Rule(c, a, d) == [create |-> c, amend |-> a, remove |-> d]

\* Who may file, amend and remove.  The desk counts as an owner wherever
\* ownership is asked about; removing asks for nothing but seeing the row.
VisitRule    == Rule(Desk, Desk, Nobody)
SampleRule   == Rule(Owning, Desk, Nobody)
ReadingRule  == Rule(Anyone, Anyone, Nobody)
IncidentRule == Rule(Owning, Desk, Nobody)
ItemRule     == Rule(Owning, Owning, Anyone)
PeriodRule   == Rule(Owning, Owning, Anyone)
ReviewRule   == Rule(Desk, Desk, Nobody)
LicenceRule  == Rule(Owning, Owning, Nobody)
ProfileRule  == Rule(Owning, Anyone, Nobody)
AlertRule    == Rule(Desk, Desk, Nobody)
RunRule      == Rule(Owning, Anyone, Nobody)
ReportRule   == Rule({"desk", "overseer"}, Nobody, Nobody)
FacilityRule == Rule(Desk, Nobody, Nobody)
CertificateRule == Rule(Owning, Owning, Nobody)
CaseRule == Rule(Owning, Owning, Nobody)
LedgerRule == Rule(Owning, Owning, Nobody)
Rules == [visit |-> VisitRule, sample |-> SampleRule, reading |-> ReadingRule,
          incident |-> IncidentRule, item |-> ItemRule, period |-> PeriodRule,
          review |-> ReviewRule, licence |-> LicenceRule, profile |-> ProfileRule,
          alert |-> AlertRule, run |-> RunRule, report |-> ReportRule, facility |-> FacilityRule,
          certificate |-> CertificateRule, ledger |-> LedgerRule, case |-> CaseRule]

ASSUME RegistersAssumption ==
  /\ Standing \in [Editors -> Anyone]
  /\ Limit \in Nat
  /\ \A n \in Names : Nothing \notin Rows[n]

May(e, what) == Standing[e] \in Rules[register][what]
Valid(r) ==
  CASE register = "run" -> r.output <= r.input /\ r.from <= r.to
    [] register \in {"period", "certificate"} -> r.from <= r.to
    [] OTHER -> TRUE

\* Whether the place a visit names is dated: there may be none.
Dates(v) == {d \in BOOLEAN : d => v.placed}

\* A visit may be filed as completed, which stamps nothing.
FiledRows ==
  CASE register = "alert" -> {[status |-> "open", acknowledged |-> FALSE, resolved |-> FALSE]}
    [] register = "visit" -> {v \in Visit : ~v.stamped}
    [] register \in {"run", "period", "certificate"} -> {r \in Rows[register] : Valid(r)}
    [] register \in {"ledger", "case"} -> Rows[register]
    [] OTHER -> {"reported"}

File(e) ==
  /\ row = Nothing /\ May(e, "create")
  /\ row' \in FiledRows
  /\ dated' \in IF register = "visit" THEN Dates(row') ELSE {dated}
  /\ UNCHANGED <<register, held>>

Begin(e) ==
  /\ row # Nothing /\ held[e] = Nothing
  /\ May(e, "amend")
  /\ register \in LockedNames => \A other \in Editors : held[other] = Nothing
  /\ held' = [held EXCEPT ![e] = row]
  /\ UNCHANGED <<register, row, dated>>

Done(e) == held' = [held EXCEPT ![e] = Nothing]

\* The columns an editor may send: an owner leaves the masses of a run alone.
Sendable(e) == IF register = "run" /\ Standing[e] # "desk" THEN {"from", "to"} ELSE DOMAIN held[e]

\* The sent columns over the row as read, validated together and saved whole.
Amend(e) ==
  /\ held[e] # Nothing /\ register \in {"run", "period", "certificate"}
  /\ row' \in {r \in Rows[register] : \A c \in DOMAIN r \ Sendable(e) : r[c] = held[e][c]}
  /\ Valid(row')
  /\ Done(e) /\ UNCHANGED <<register, dated>>

\* An alert's status and stamps are not columns a PATCH may send.
AmendAlert(e) ==
  /\ register = "alert" /\ held[e] # Nothing
  /\ row' = held[e]
  /\ Done(e) /\ UNCHANGED <<register, dated>>

AcknowledgeOnly(e) ==
  /\ register = "alert" /\ held[e] # Nothing /\ held[e].status # "resolved"
  /\ row' = [row EXCEPT !.status = "acknowledged", !.acknowledged = TRUE]
  /\ Done(e) /\ UNCHANGED <<register, dated>>
Acknowledge(e) ==
  /\ register = "alert" /\ held[e] # Nothing /\ held[e].status # "resolved"
  /\ row' = [held[e] EXCEPT !.status = "acknowledged", !.acknowledged = TRUE]
  /\ Done(e) /\ UNCHANGED <<register, dated>>

ResolveAlert(e) ==
  /\ register = "alert" /\ held[e] # Nothing /\ held[e].status # "resolved"
  /\ row' = [held[e] EXCEPT !.status = "resolved", !.resolved = TRUE]
  /\ Done(e) /\ UNCHANGED <<register, dated>>

\* A completed visit without a completion time gets one and dates the place it
\* names.  Any other PATCH may move it to a place that is dated or not.
AmendVisit(e) ==
  /\ register = "visit" /\ held[e] # Nothing
  /\ \E s \in {"requested", "scheduled", "completed"}, placed \in BOOLEAN :
       row' = [status |-> s, stamped |-> held[e].stamped \/ s = "completed", placed |-> placed]
  /\ dated' \in IF row'.stamped /\ ~held[e].stamped THEN {row'.placed} ELSE Dates(row')
  /\ Done(e) /\ UNCHANGED register

\* The date is a column of the place's own PATCH, too.
AmendPlace(e) ==
  /\ register = "visit" /\ row # Nothing /\ row.placed /\ Standing[e] \in Owning
  /\ dated' \in BOOLEAN
  /\ UNCHANGED <<register, row, held>>

\* Saving a row that is gone files it again.
AmendItem(e) ==
  /\ register \notin LockedNames \cup {"run", "period", "alert", "visit"} /\ held[e] # Nothing
  /\ row' = "amended"
  /\ Done(e) /\ UNCHANGED <<register, dated>>

\* A ledger or case row is settled by its handler, and a PATCH may open it again.
SettleRow(e) ==
  /\ register \in {"ledger", "case"} /\ held[e] # Nothing
  /\ row' \in Rows[register]
  /\ Done(e) /\ UNCHANGED <<register, dated>>

Remove(e) ==
  /\ row # Nothing /\ May(e, "remove")
  /\ row' = Nothing
  /\ UNCHANGED <<register, held, dated>>

-----------------------------------------------------------------------------
RegistersInit ==
  /\ register \in Names
  /\ row = Nothing /\ held = [e \in Editors |-> Nothing] /\ dated = FALSE

RegistersNext == \E e \in Editors :
  \/ File(e) \/ Begin(e) \/ Amend(e) \/ AmendAlert(e) \/ Acknowledge(e) \/ ResolveAlert(e)
  \/ AmendVisit(e) \/ AmendPlace(e) \/ AmendItem(e) \/ SettleRow(e) \/ Remove(e)

RegistersSpec == RegistersInit /\ [][RegistersNext]_registerVars

-----------------------------------------------------------------------------
RegistersTypeOK ==
  /\ register \in Names
  /\ row \in Rows[register] \cup {Nothing}
  /\ held \in [Editors -> Rows[register] \cup {Nothing}]
  /\ dated \in BOOLEAN

\* A run never yields more than went in nor ends before it starts, and a
\* production period never ends before it starts, also when two amendments
\* overlap and each sends one of the two columns.
RowsAddUp == row # Nothing => Valid(row)

\* An alert is resolved exactly when it carries a resolution time, whichever of
\* two overlapping requests saves last.
StampsAgree ==
  row # Nothing /\ register = "alert" => (row.status = "resolved" <=> row.resolved)

\* A register stays consistent however two requests on a row overlap.
RegistersAgree == RowsAddUp /\ StampsAgree

\* What the status handler tells a second caller, "This alert is already
\* resolved": a resolved alert stays resolved.
ResolvedStands ==
  [][row # Nothing /\ register = "alert" /\ row.status = "resolved" =>
       row'.status = "resolved"]_registerVars

\* What completing a visit writes: the place it names is dated.
VisitDatesItsPlace ==
  row # Nothing /\ register = "visit" /\ row.stamped /\ row.placed => dated
=============================================================================
