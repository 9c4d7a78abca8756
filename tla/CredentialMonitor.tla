--------------------------- MODULE CredentialMonitor ---------------------------
(***************************************************************************)
(* The hourly monitor of a logistics company's credentials: its documents, *)
(* and the dates declared for its vehicles and drivers.  A run locks the   *)
(* application and reports, once each, what is due within thirty days and  *)
(* what has lapsed; a lapsed document that covers a service restricts that *)
(* service until a reviewer sees a valid replacement.                      *)
(*                                                                         *)
(* A date is abstracted to how far it is; versions tell apart the files of *)
(* a document type and the dates declared for one field.                   *)
(***************************************************************************)
EXTENDS Naturals

CONSTANTS
  Papers,        \* document types
  ScopedPapers,  \* those that name a service
  Dates,         \* declared dates of vehicles and drivers
  MaxVersions    \* bound: files of a type, dates of a field

VARIABLES
  watched,     \* the application is neither a draft nor rejected
  current,     \* [Papers \cup Dates -> the current version, due date and review]
  events,      \* keys of the monitoring events
  notices,     \* notices sent of each event
  open         \* <<paper, version>> of the unresolved restrictions

monitorVars == <<watched, current, events, notices, open>>

-----------------------------------------------------------------------------
Credentials == Papers \cup Dates
Due == {"far", "near", "past"}
Keys == Credentials \X (1..MaxVersions) \X {"expiring", "expired"}
Current == [version : 0..MaxVersions, due : Due, verified : BOOLEAN]

ASSUME MonitorAssumption == ScopedPapers \subseteq Papers /\ Papers \cap Dates = {} /\ MaxVersions \in Nat

\* Version 0 is a type nothing was filed for, or a date left blank.
Filed(c) == current[c].version > 0
Lapsed(c) == Filed(c) /\ current[c].due = "past"

Declare(c, due) ==
  /\ current[c].version < MaxVersions
  /\ current' = [current EXCEPT ![c] = [version |-> @.version + 1, due |-> due, verified |-> FALSE]]
  /\ UNCHANGED <<watched, events, notices, open>>

\* A reviewer verifies no document that has lapsed.
VerifyPaper(c) ==
  /\ c \in Papers /\ Filed(c) /\ ~Lapsed(c) /\ ~current[c].verified
  /\ current' = [current EXCEPT ![c].verified = TRUE]
  /\ UNCHANGED <<watched, events, notices, open>>

TimePasses(c) ==
  /\ Filed(c) /\ current[c].due # "past"
  /\ current' = [current EXCEPT ![c].due = IF @ = "far" THEN "near" ELSE "past"]
  /\ UNCHANGED <<watched, events, notices, open>>

\* Rejection and resubmission of the application.
Watch == watched' = ~watched /\ UNCHANGED <<current, events, notices, open>>

-----------------------------------------------------------------------------
EventKeyWithoutKind(c) ==
  <<c, current[c].version, IF \E k \in {"expiring", "expired"} : <<c, current[c].version, k>> \in events
                           THEN CHOOSE k \in {"expiring", "expired"} : <<c, current[c].version, k>> \in events
                           ELSE IF current[c].due = "past" THEN "expired" ELSE "expiring">>
EventKey(c) == <<c, current[c].version, IF current[c].due = "past" THEN "expired" ELSE "expiring">>

Found == {EventKey(c) : c \in {x \in Credentials : Filed(x) /\ current[x].due # "far"}}

\* get_or_create: only an event that was not there is notified.
MonitorExpiries ==
  /\ watched
  /\ events' = events \cup Found
  /\ notices' = [k \in Keys |-> notices[k] + IF k \in Found \ events THEN 1 ELSE 0]
  /\ open' = open \cup {<<c, current[c].version>> : c \in {x \in ScopedPapers : Lapsed(x)}}
  /\ UNCHANGED <<watched, current>>

\* "A current verified replacement credential is required."
ResolveVerified(c, v) ==
  /\ <<c, v>> \in open /\ current[c].verified
  /\ open' = open \ {<<c, v>>} /\ UNCHANGED <<watched, current, events, notices>>
ResolveRestriction(c, v) ==
  /\ <<c, v>> \in open /\ current[c].verified /\ ~Lapsed(c)
  /\ open' = open \ {<<c, v>>} /\ UNCHANGED <<watched, current, events, notices>>

-----------------------------------------------------------------------------
MonitorInit ==
  /\ watched = TRUE
  /\ current = [c \in Credentials |-> [version |-> 0, due |-> "far", verified |-> FALSE]]
  /\ events = {} /\ notices = [k \in Keys |-> 0] /\ open = {}

MonitorNext ==
  \/ MonitorExpiries \/ Watch
  \/ \E c \in Credentials :
       \/ \E due \in Due : Declare(c, due)
       \/ VerifyPaper(c) \/ TimePasses(c)
       \/ \E v \in 1..MaxVersions : ResolveRestriction(c, v)

\* Celery beat starts a run every hour.
MonitorSpec == MonitorInit /\ [][MonitorNext]_monitorVars /\ WF_monitorVars(MonitorExpiries)

-----------------------------------------------------------------------------
MonitorTypeOK ==
  /\ watched \in BOOLEAN /\ current \in [Credentials -> Current]
  /\ events \subseteq Keys /\ notices \in [Keys -> Nat]
  /\ open \subseteq ScopedPapers \X (1..MaxVersions)

\* Whatever was reported, replaced, verified and resolved before, each event
\* is notified once, and a document reported as expired keeps the service it
\* covers restricted for as long as it is the current one.
LapseRestricts ==
  /\ \A k \in Keys : notices[k] <= 1
  /\ \A c \in ScopedPapers :
       <<c, current[c].version, "expired">> \in events => <<c, current[c].version>> \in open

\* A credential that has lapsed is in the end reported as expired, also when
\* it was reported as expiring before, unless it is replaced first or the
\* application leaves the desk's care.
LapseIsReported ==
  \A c \in Credentials, v \in 1..MaxVersions :
    (watched /\ Lapsed(c) /\ current[c].version = v) ~>
    (~watched \/ current[c].version # v \/ <<c, v, "expired">> \in events)
=============================================================================
