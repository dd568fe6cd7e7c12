------------------------------ MODULE Analytics ------------------------------
(***************************************************************************)
(* The reports of app/services/analytics_service.py and                    *)
(* app/repositories/analytics_repository.py, which are read from the       *)
(* tables of HiringTables at any moment; here every row also has its       *)
(* created_at.                                                             *)
(*                                                                         *)
(* Time is counted in parts of a day, in UTC, from a day that is a Monday  *)
(* and the first of a month and of a year.  A report is one operator: its  *)
(* queries are taken to see one state.                                     *)
(***************************************************************************)
EXTENDS HiringTables, Naturals, FiniteSets

CONSTANTS
    Parts,                     \* of a day
    Moment,                    \* bound: when something happens
    MonthStarts, YearStarts,   \* the days on which months and years begin
    Asked,                     \* bound: the date ranges that are asked for, [from, to]
    NoDay,                     \* a date that is not given
    Session,                   \* database sessions, [dialect, shift]; see LocalDay
    RoleOf,                    \* of a user
    Skill, SkillsOf            \* job_skills: job -> its skills

Day == Nat
ASSUME Calendar ==
    /\ Parts \in Nat \ {0} /\ Moment \subseteq Nat /\ Moment # {}
    /\ 0 \in YearStarts /\ YearStarts \subseteq MonthStarts /\ MonthStarts \subseteq Day
ASSUME DateRanges ==
    /\ NoDay \notin Day
    /\ \A q \in Asked : q.from \in Day \cup {NoDay} /\ q.to \in Day \cup {NoDay}
ASSUME Sessions ==
    \A s \in Session : s.dialect \in {"postgresql", "sqlite"} /\ s.shift \in Nat
ASSUME Users == RoleOf \in [User -> {"CLIENT", "FREELANCER"}] /\ SkillsOf \in [Job -> SUBSET Skill]
ASSUME IdsApart == Job \cap Proposal = {} /\ Contract \cap (Job \cup Proposal) = {}
\* The tables have finitely many rows: an id is one of 2^122 uuid4 values, and NULL is none.
ASSUME IdsAreFinite == IsFiniteSet(Job) /\ IsFiniteSet(Proposal) /\ IsFiniteSet(Contract)

NoRow == "NULL"
ASSUME NullIsNoId == NoRow \notin Job \cup Proposal \cup Contract

VARIABLES
    now,
    createdAt     \* row -> its created_at, or when the model began

reportVars == <<jobs, proposals, contracts, now, createdAt>>

RowId == Job \cup Proposal \cup Contract
StatusOf(x) ==
    IF x \in Job THEN jobs[x] ELSE IF x \in Proposal THEN proposals[x] ELSE contracts[x].status

ReportsInit ==
    /\ TablesInit
    /\ now \in Moment
    /\ createdAt = [x \in RowId |-> now]

\* A mutant: the rows are stamped with the clock of a server in another time zone.
TransactionLocal ==
    /\ TablesNext
    /\ createdAt' = [x \in RowId |-> IF StatusOf(x) = "NONE" THEN now + 1 ELSE createdAt[x]]
    /\ UNCHANGED now
\* created_at is a server default: now() at the INSERT.
Transaction ==
    /\ TablesNext
    /\ createdAt' = [x \in RowId |-> IF StatusOf(x) = "NONE" THEN now ELSE createdAt[x]]
    /\ UNCHANGED now

Tick ==
    /\ now' \in {t \in Moment : t > now}
    /\ createdAt' = [x \in RowId |-> IF StatusOf(x) = "NONE" THEN now' ELSE createdAt[x]]
    /\ UNCHANGED tables

ReportsNext == Transaction \/ Tick
ReportsSpec == ReportsInit /\ [][ReportsNext]_reportVars

-----------------------------------------------------------------------------
(* The rows of a report. *)

DayOf(t) == t \div Parts
\* _start_datetime and _end_datetime: both dates count as whole days in UTC.
InRange(q, t) ==
    /\ q.from # NoDay => q.from * Parts <= t
    /\ q.to # NoDay => t < (q.to + 1) * Parts
Within(q, rows) == {x \in rows : InRange(q, createdAt[x])}

\* Of a user as client or as freelancer; a row counts while it exists.
JobsOf(u) == {j \in Job : ExistsJob(j) /\ OwnerOf[j] = u}
ProposalsOf(u, role) ==
    {p \in Proposal : ExistsProposal(p) /\ u = IF role = "CLIENT" THEN OwnerOf[JobOf[p]] ELSE FreelancerOf[p]}
ContractsOf(u, role) ==
    {c \in Contract : ExistsContract(c) /\ contracts[c].proposal \in ProposalsOf(u, role)}
WithStatus(rows, status) == {x \in rows : StatusOf(x) = status}

\* In hundredths of a percent.
Percentage(numerator, denominator) ==
    IF denominator = 0 THEN 0 ELSE (numerator * 10000 + denominator \div 2) \div denominator

-----------------------------------------------------------------------------
(* get_client_dashboard, get_freelancer_dashboard and _get_contracts *)

Dashboard(u, role, q) ==
    LET posted == IF role = "CLIENT" THEN Within(q, JobsOf(u)) ELSE {}
        offers == Within(q, ProposalsOf(u, role))
        deals == Within(q, ContractsOf(u, role))
        completed == WithStatus(deals, "COMPLETED")
    IN  [jobs |-> Cardinality(posted),
         proposals |-> Cardinality(offers),
         accepted |-> Cardinality(WithStatus(offers, "ACCEPTED")),
         contracts |-> Cardinality(deals),
         completed |-> Cardinality(completed),
         publicationRate |-> Percentage(Cardinality(WithStatus(posted, "PUBLISHED")), Cardinality(posted)),
         successRate |-> Percentage(Cardinality(WithStatus(offers, "ACCEPTED")), Cardinality(offers)),
         completionRate |-> Percentage(Cardinality(completed), Cardinality(deals))]

ContractReport(u, role, q) ==
    LET deals == Within(q, ContractsOf(u, role)) IN
    [active |-> Cardinality(WithStatus(deals, "ACTIVE")),
     completed |-> Cardinality(WithStatus(deals, "COMPLETED")),
     cancelled |-> Cardinality(WithStatus(deals, "CANCELLED"))]

-----------------------------------------------------------------------------
(* get_skills: the joins multiply rows, and distinct ids are counted. *)

Outer(rows) == IF rows = {} THEN {NoRow} ELSE rows     \* an outer join has a row for none

SkillRows(u, role, q, skill) ==     \* <<job, proposal, contract>>
    IF role = "CLIENT"
      THEN {r \in Job \X (Proposal \cup {NoRow}) \X (Contract \cup {NoRow}) :
               /\ r[1] \in Within(q, JobsOf(u)) /\ skill \in SkillsOf[r[1]]
               /\ r[2] \in Outer({p \in Proposal : ExistsProposal(p) /\ JobOf[p] = r[1]})
               /\ r[3] \in Outer(ContractsOfJob(r[1]))}
      ELSE {r \in Job \X Proposal \X (Contract \cup {NoRow}) :
               /\ r[2] \in Within(q, ProposalsOf(u, role))
               /\ r[1] = JobOf[r[2]] /\ skill \in SkillsOf[r[1]]
               /\ r[3] \in Outer(ContractsOfProposal(r[2]))}

CountRows(rows, column) == Cardinality({r \in rows : r[column] # NoRow})     \* a mutant: no distinct
CountDistinct(rows, column) == Cardinality({r[column] : r \in rows} \ {NoRow})

SkillReport(u, role, q, skill) ==
    LET rows == SkillRows(u, role, q, skill) IN
    [jobs |-> CountDistinct(rows, 1),
     proposals |-> CountDistinct(rows, 2),
     accepted |-> CountDistinct({r \in rows : r[2] # NoRow /\ StatusOf(r[2]) = "ACCEPTED"}, 2),
     contracts |-> CountDistinct(rows, 3)]

-----------------------------------------------------------------------------
(* _get_trends *)

Period == {"day", "week", "month"}
Latest(days) == CHOOSE d \in days : \A e \in days : e <= d
YearOf(d) == Latest({y \in YearStarts : y <= d})
MonthOf(d) == Latest({m \in MonthStarts : m <= d})
MondayOf(d) == d - (d % 7)
PeriodStart(period, d) ==
    CASE period = "day" -> d [] period = "week" -> MondayOf(d) [] period = "month" -> MonthOf(d)

\* strftime("%Y-W%W"): the year, and how many Mondays of it have come.
WeekName(d) == <<YearOf(d), (d \div 7) - ((YearOf(d) + 6) \div 7) + 1>>
\* strftime("%Y-%m-%d") and strftime("%Y-%m") of a first day tell it.
PeriodName(period, start) == IF period = "week" THEN WeekName(start) ELSE <<start>>

\* A mutant: the first week is named after the day asked for.
EmptyPeriodsFromDay(q, period) ==
    {PeriodName(period, q.from)}
    \cup {PeriodName(period, d) : d \in {e \in (q.from + 1)..q.to : PeriodStart(period, e) = e}}
\* _empty_periods: the period of the first day, and every one that begins after it.
EmptyPeriods(q, period) ==
    {PeriodName(period, PeriodStart(period, q.from))}
    \cup {PeriodName(period, d) : d \in {e \in (q.from + 1)..q.to : PeriodStart(period, e) = e}}

\* date_trunc and strftime of a timestamptz work in the time zone of the session, which
\* is `shift' parts of a day ahead of UTC; SQLite knows UTC only.
LocalDay(s, t) == IF s.dialect = "sqlite" THEN DayOf(t) ELSE DayOf(t + s.shift)

\* SQLite's %W names the week of the day itself, date_trunc gives a first day.
NamesDays(s, period) == s.dialect = "sqlite" /\ period = "week"
Truncated(s, period, t) ==
    IF NamesDays(s, period) THEN WeekName(LocalDay(s, t)) ELSE PeriodStart(period, LocalDay(s, t))
\* _period_key
KeyOf(s, period, group) == IF NamesDays(s, period) THEN group ELSE PeriodName(period, group)

\* GROUP BY, and then an assignment per group to the entry of its key, if there is one.
Counted(s, period, rows, key) ==
    LET groups == {g \in {Truncated(s, period, createdAt[x]) : x \in rows} : KeyOf(s, period, g) = key} IN
    IF groups = {} THEN 0
    ELSE LET group == CHOOSE g \in groups : TRUE IN
         Cardinality({x \in rows : Truncated(s, period, createdAt[x]) = group})

Trends(s, u, role, q, period) ==
    LET offers == Within(q, ProposalsOf(u, role))
        deals == Within(q, ContractsOf(u, role))
        posted == IF role = "CLIENT" THEN Within(q, JobsOf(u)) ELSE {}
    IN  [key \in EmptyPeriods(q, period) |->
           [jobs |-> Counted(s, period, posted, key),
            proposals |-> Counted(s, period, offers, key),
            contracts |-> Counted(s, period, deals, key)]]

\* get_trends needs both dates; _validate_dates refuses them in the wrong order.
Ordered(q) == q.from # NoDay /\ q.to # NoDay => q.from <= q.to
TrendRange == {q \in Asked : q.from # NoDay /\ q.to # NoDay /\ Ordered(q)}

-----------------------------------------------------------------------------
ReportsTypeOK ==
    /\ TablesTypeOK
    /\ now \in Moment
    /\ createdAt \in [RowId -> Moment]

\* SQLite's first days of a year, before its first Monday, are in a week that no Monday
\* names.
Nameless(s, period, d) == NamesDays(s, period) /\ YearOf(d) # YearOf(MondayOf(d))

\* What the trends are to tell of: the rows of the range whose day in the session's time
\* zone is in the range too.
Told(s, q, period, rows) ==
    {x \in rows : /\ LocalDay(s, createdAt[x]) \in q.from..q.to
                  /\ ~Nameless(s, period, LocalDay(s, createdAt[x]))}
InPeriod(s, period, rows, key) ==
    {x \in rows : PeriodName(period, PeriodStart(period, LocalDay(s, createdAt[x]))) = key}

\* `number' is the column of the trends that counts `rows'.
AddsUp(s, q, period, rows, number) ==
    LET told == Told(s, q, period, rows) IN
    /\ s.dialect = "postgresql" /\ s.shift = 0 => told = rows
    /\ \A key \in EmptyPeriods(q, period) :
          /\ Cardinality(InPeriod(s, period, told, key)) <= number[key]
          /\ told = rows => number[key] = Cardinality(InPeriod(s, period, rows, key))
    /\ \A x \in told : \E key \in EmptyPeriods(q, period) : x \in InPeriod(s, period, told, key)

\* Whatever the period and wherever weeks, months and years begin within the range, the
\* trends have an entry for each row that they tell of, and every entry is the number of
\* rows of its period: none is dropped because its key is missing, none is written over
\* by a group with the same key.  In a session in UTC on PostgreSQL they tell of all rows.
TrendsAddUp ==
    \A s \in Session, u \in User, q \in TrendRange, period \in Period :
        LET role == RoleOf[u]
            trends == Trends(s, u, role, q, period)
            keys == EmptyPeriods(q, period)
        IN  /\ AddsUp(s, q, period, Within(q, ProposalsOf(u, role)), [k \in keys |-> trends[k].proposals])
            /\ AddsUp(s, q, period, Within(q, ContractsOf(u, role)), [k \in keys |-> trends[k].contracts])
            /\ role = "CLIENT" =>
                  AddsUp(s, q, period, Within(q, JobsOf(u)), [k \in keys |-> trends[k].jobs])

Rate == 0..10000     \* up to 100 %
DashboardAgrees(u, role, q) ==
    LET d == Dashboard(u, role, q)
        r == ContractReport(u, role, q)
    IN  /\ d.contracts = r.active + r.completed + r.cancelled
        /\ d.completionRate = Percentage(r.completed, r.active + r.completed + r.cancelled)
        /\ {d.publicationRate, d.successRate, d.completionRate} \subseteq Rate

SkillAgrees(u, role, q, skill) ==
    LET d == Dashboard(u, role, q)
        k == SkillReport(u, role, q, skill)
        offers == IF role = "CLIENT"
                    THEN {p \in ProposalsOf(u, role) : InRange(q, createdAt[JobOf[p]])}
                    ELSE Within(q, ProposalsOf(u, role))
        skilled == {p \in offers : skill \in SkillsOf[JobOf[p]]}
    IN  /\ k.proposals = Cardinality(skilled)
        /\ k.accepted = Cardinality(WithStatus(skilled, "ACCEPTED"))
        /\ k.contracts = Cardinality({c \in Contract :
               ExistsContract(c) /\ contracts[c].proposal \in skilled})
        /\ k.contracts <= k.jobs
        /\ IF role = "CLIENT" THEN k.jobs <= d.jobs
           ELSE k.proposals <= d.proposals /\ k.accepted <= d.accepted

\* The skills report counts every job, proposal and contract once for each skill of the
\* job, however the joins multiply them; so it never exceeds the dashboard where both take
\* the same date, and a skill has no more contracts than jobs.  The dashboard and the
\* contract report give one completion rate, and rates are at most 100 %.
ReportsAgree ==
    \A u \in User, q \in {x \in Asked : Ordered(x)} :
        /\ DashboardAgrees(u, RoleOf[u], q)
        /\ \A skill \in Skill : SkillAgrees(u, RoleOf[u], q, skill)
=============================================================================
