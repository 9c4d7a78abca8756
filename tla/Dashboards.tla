------------------------------ MODULE Dashboards ------------------------------
(***************************************************************************)
(* What the mining and the processing dashboards compute at every reading  *)
(* from the registers: the totals, the regions, and the trend of the last  *)
(* months.  The registers are the applications that were approved, the     *)
(* findings, the inspections and the sites (mining) or processors          *)
(* (processing); a day is a number, and Month says which month it is in.   *)
(***************************************************************************)
EXTENDS Naturals, FiniteSets, FiniteSetsExt, Functions

CONSTANTS
  Days, Month,    \* the days 0..Days, and the month of each
  FirstDay,       \* the day a behaviour starts on
  KPI_TREND_MONTHS,
  Approvals, Raised, Visits, Entries,  \* applications, findings, inspections, sites
  CompanyOf,      \* the organisation each of them is of
  EntryRows,      \* the rows an instance gives a site
  DueDays, VisitDays,  \* the deadlines and the dates an instance gives
  WholeRegister,  \* a viewer who sees every company
  NoDay

VARIABLES
  today,
  decidedOn,  \* [Approvals -> the day of the approval, or NoDay]
  updatedOn,  \* [Approvals -> the day the row was last saved, or NoDay]
  raisedOn,   \* [Raised -> [on, due, open] or NoDay]
  visitOn,    \* [Visits -> the day an inspection is scheduled for, or NoDay]
  places      \* [Entries -> line]

dashVars == <<today, decidedOn, updatedOn, raisedOn, visitOn, places>>

Day == 0..Days
EntryStatus == {"operational", "under_review", "suspended", "other"}
EntryRow == [region : STRING, status : EntryStatus, score : 0..100]
RaisedRow == [on : Day, due : Day, open : BOOLEAN]
Records == Approvals \cup Raised \cup Visits \cup Entries

ASSUME DashboardAssumption ==
  /\ Days \in Nat /\ FirstDay \in Day /\ KPI_TREND_MONTHS \in Nat \ {0}
  /\ Month \in [Day -> Nat] /\ Month[0] = 0 /\ Month[FirstDay] + 1 >= KPI_TREND_MONTHS
  /\ \A d \in Day \ {0} : Month[d] \in {Month[d - 1], Month[d - 1] + 1}
  /\ DueDays \subseteq Day /\ VisitDays \subseteq Day /\ EntryRows \subseteq EntryRow
  /\ NoDay \notin Day \cup RaisedRow
  /\ IsFiniteSet(Records) /\ WholeRegister \notin {CompanyOf[x] : x \in Records}

-----------------------------------------------------------------------------
\* The queries each figure starts from: the whole register, or one's own.
SeenBy(v, S) == {x \in S : v = WholeRegister \/ CompanyOf[x] = v}
Viewers == {WholeRegister} \cup {CompanyOf[x] : x \in Records}

Total(S, f(_)) == SumFunction([x \in S |-> f(x)])
\* Python's round of a mean: halves to the even number.
Mean(total, n) ==
  LET q == total \div n  r == 2 * (total % n) IN
    IF r > n \/ (r = n /\ q % 2 = 1) THEN q + 1 ELSE q
AverageScore(S) ==
  LET score(e) == places[e].score IN IF S = {} THEN 0 ELSE Mean(Total(S, score), Cardinality(S))
HavingStatus(S, s) == {e \in S : places[e].status = s}

OpenFindings(v) == {f \in SeenBy(v, Raised) : raisedOn[f] # NoDay /\ raisedOn[f].open}
Totals(v) ==
  LET E == SeenBy(v, Entries) IN
  [entries |-> Cardinality(E),
   operational |-> Cardinality(HavingStatus(E, "operational")),
   suspended |-> Cardinality(HavingStatus(E, "suspended")),
   open |-> Cardinality(OpenFindings(v)),
   overdue |-> Cardinality({f \in OpenFindings(v) : raisedOn[f].due < today}),
   average |-> AverageScore(E)]

Region(e) == IF places[e].region = "" THEN "Unassigned" ELSE places[e].region
Regional(v) ==
  LET E == SeenBy(v, Entries) IN
  [r \in {Region(e) : e \in E} |->
     LET own == {e \in E : Region(e) = r} IN
     [entries |-> Cardinality(own),
      operational |-> Cardinality(HavingStatus(own, "operational")),
      under_review |-> Cardinality(HavingStatus(own, "under_review")),
      suspended |-> Cardinality(HavingStatus(own, "suspended")),
      average |-> AverageScore(own)]]

\* date.replace(day=1), of every day.
FirstOfMonth == [d \in Day |-> Min({e \in Day : Month[e] = Month[d]})]
\* _recent_months: from the first of a month, one day back and to the first.
DayBefore(first) == first - 1
RecentMonths ==
  LET first[n \in 0..(KPI_TREND_MONTHS - 1)] ==
        FirstOfMonth[IF n = 0 THEN today ELSE DayBefore(first[n - 1])]
  IN {first[n] : n \in DOMAIN first}

In(day, m) == day # NoDay /\ Month[day] = m
\* Fault: what the mining dashboard does, whose applications keep no day of
\* their approval.
DayOfLastSave(a) == updatedOn[a]
DayOfApproval(a) == decidedOn[a]
\* _kpi_trend: a bucket for each month, and each record in that of its key.
KpiTrend(v, approvedOn(_)) ==
  [m \in {Month[d] : d \in RecentMonths} |->
     [approvals |-> Cardinality({a \in SeenBy(v, Approvals) : In(approvedOn(a), m)}),
      nonconformities |->
        Cardinality({f \in SeenBy(v, Raised) : raisedOn[f] # NoDay /\ In(raisedOn[f].on, m)}),
      inspections |-> Cardinality({i \in SeenBy(v, Visits) : In(visitOn[i], m)})]]
MiningTrend(v) == KpiTrend(v, DayOfLastSave)
ProcessingTrend(v) == KpiTrend(v, DayOfApproval)

-----------------------------------------------------------------------------
DayPasses ==
  /\ today < Days /\ today' = today + 1
  /\ UNCHANGED <<decidedOn, updatedOn, raisedOn, visitOn, places>>
\* decide: decided once, with the day (ProcessingDesk.DecidedForGood).
ApproveToday(a) ==
  /\ decidedOn[a] = NoDay
  /\ decidedOn' = [decidedOn EXCEPT ![a] = today]
  /\ updatedOn' = [updatedOn EXCEPT ![a] = today]
  /\ UNCHANGED <<today, raisedOn, visitOn, places>>
\* Any later save of an approved application.
SaveApproved(a) ==
  /\ decidedOn[a] # NoDay
  /\ updatedOn' = [updatedOn EXCEPT ![a] = today]
  /\ UNCHANGED <<today, decidedOn, raisedOn, visitOn, places>>
RaiseToday(f, due) ==
  /\ raisedOn[f] = NoDay
  /\ raisedOn' = [raisedOn EXCEPT ![f] = [on |-> today, due |-> due, open |-> TRUE]]
  /\ UNCHANGED <<today, decidedOn, updatedOn, visitOn, places>>
CloseRaised(f) ==
  /\ raisedOn[f] # NoDay
  /\ raisedOn' = [raisedOn EXCEPT ![f].open = FALSE]
  /\ UNCHANGED <<today, decidedOn, updatedOn, visitOn, places>>
ScheduleVisit(i, d) ==
  /\ visitOn' = [visitOn EXCEPT ![i] = d]
  /\ UNCHANGED <<today, decidedOn, updatedOn, raisedOn, places>>
SaveEntry(e, line) ==
  /\ places' = [places EXCEPT ![e] = line]
  /\ UNCHANGED <<today, decidedOn, updatedOn, raisedOn, visitOn>>

DashInit ==
  /\ today = FirstDay
  /\ decidedOn = [a \in Approvals |-> NoDay] /\ updatedOn = [a \in Approvals |-> NoDay]
  /\ raisedOn = [f \in Raised |-> NoDay] /\ visitOn = [i \in Visits |-> NoDay]
  /\ places \in [Entries -> EntryRows]

DashNext ==
  \/ DayPasses
  \/ \E a \in Approvals : ApproveToday(a) \/ SaveApproved(a)
  \/ \E f \in Raised : CloseRaised(f) \/ \E due \in DueDays : RaiseToday(f, due)
  \/ \E i \in Visits, d \in VisitDays : ScheduleVisit(i, d)
  \/ \E e \in Entries, line \in EntryRows : SaveEntry(e, line)

DashSpec == DashInit /\ [][DashNext]_dashVars

-----------------------------------------------------------------------------
DashTypeOK ==
  /\ today \in Day
  /\ decidedOn \in [Approvals -> Day \cup {NoDay}] /\ updatedOn \in [Approvals -> Day \cup {NoDay}]
  /\ raisedOn \in [Raised -> RaisedRow \cup {NoDay}]
  /\ visitOn \in [Visits -> Day \cup {NoDay}]
  /\ places \in [Entries -> EntryRow]

\* The months shown are the last ones, none skipped, and every approval and
\* every finding since the first day of the oldest is counted in exactly one of
\* them, for every viewer and whatever the lengths of the months.
TrendIsComplete ==
  \A v \in Viewers :
    LET t == ProcessingTrend(v)
        approvals(m) == t[m].approvals
        findings(m) == MiningTrend(v)[m].nonconformities
        oldest == Min(RecentMonths) IN
    /\ DOMAIN t = (Month[today] + 1 - KPI_TREND_MONTHS)..Month[today]
    /\ Total(DOMAIN t, approvals) =
         Cardinality({a \in SeenBy(v, Approvals) : decidedOn[a] # NoDay /\ decidedOn[a] >= oldest})
    /\ Total(DOMAIN t, findings) =
         Cardinality({f \in SeenBy(v, Raised) : raisedOn[f] # NoDay /\ raisedOn[f].on >= oldest})

\* The regions and the totals are counted apart and agree: for every viewer
\* each site is in one region, and the register's are all the companies'.
RegionsAddUp ==
  \A v \in Viewers :
    LET r == Regional(v)
        own == Totals(v)
        entries(x) == r[x].entries
        operational(x) == r[x].operational
        all(c) == Totals(c).entries IN
    /\ Total(DOMAIN r, entries) = own.entries
    /\ Total(DOMAIN r, operational) = own.operational
    /\ Total(Viewers \ {WholeRegister}, all) = Totals(WholeRegister).entries
    /\ own.entries # 0 =>
         \E x, y \in DOMAIN r : r[x].average <= own.average /\ own.average <= r[y].average

\* "Six months of approvals": what a month past has approved, it keeps, while
\* rows are saved again and days go by.
PastMonthsStand(trend(_)) ==
  \A v \in Viewers :
    LET before == trend(v)  after == trend(v)' IN
      \A m \in DOMAIN before \cap DOMAIN after :
        m < Month[today] => after[m].approvals = before[m].approvals
ApprovalsStand == [][PastMonthsStand(ProcessingTrend)]_dashVars

\* The same of the mining dashboard, which files an approval under the day its
\* row was last saved.
MiningApprovalsStand == [][PastMonthsStand(MiningTrend)]_dashVars
=============================================================================
