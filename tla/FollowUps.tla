------------------------------- MODULE FollowUps -------------------------------
(***************************************************************************)
(* What the dashboard and the applications page say is due:                *)
(* internal/server/server.go.  Every figure, label and order is recomputed *)
(* on each request from the stored applications and the current instant.   *)
(*                                                                         *)
(* An instant is a number of ticks in UTC, DayLength of them to a day.  The*)
(* server's local day is LocalOffset ticks ahead of UTC (behind it, if     *)
(* negative).  A due date is typed in as a calendar date and stored as that*)
(* date's midnight in UTC (module Forms); the pages print it in UTC again, *)
(* and compare it with the bounds of the local day.                        *)
(*                                                                         *)
(* Abstracted: daylight saving time, the letters of company and role (only *)
(* how the comparisons see them is kept), and the counts of this week's    *)
(* activity.                                                               *)
(***************************************************************************)
EXTENDS Forms, PipelineFigures, FiniteSets

CONSTANTS
  Application,
  Company,          \* Company[a], Role[a]: a's names, which no form edits
  Role,
  Statuses,         \* the statuses and priorities tried of each application
  Priorities,
  ListLimit,        \* follow-ups shown on a page: 5
  Absent,           \* an application not yet created
  LocalOffset,
  StaleActiveDays,
  FirstTick,        \* bounds of the clock
  LastTick

ASSUME TimeAssumption ==
  /\ LocalOffset \in (1 - DayLength)..(DayLength - 1)
  /\ StaleActiveDays \in Nat \ {0}
  /\ FirstTick \in Nat /\ LastTick \in Nat

\* A name as the comparisons see it: its place byte by byte, the place of its
\* lower-case form (strings.ToLower), and the names it is equal to under case folding
\* (strings.EqualFold).  The last two are unrelated: "s" and the long s fold alike
\* but have two lower-case forms, and the dotted capital I the other way round.
Name == [exact : Nat, lower : Nat, fold : Nat]

\* What the pages read of a row, and its updated_at.
StoredApplication ==
  [status : ApplicationStatus, priority : Priority, summary : {"", "text"},
   due : {NoDate} \cup {day * DayLength : day \in Dates}, updated : Nat]

ASSUME RowAssumption ==
  /\ Statuses \in [Application -> SUBSET ApplicationStatus]
  /\ Priorities \in [Application -> SUBSET Priority]
  /\ IsFiniteSet(Application) /\ ListLimit \in Nat \ {0}
  /\ Company \in [Application -> Name] /\ Role \in [Application -> Name]
  /\ \A other \in {Absent, Invalid, Refused} : other \notin StoredApplication

VARIABLES
  now,
  apps

vars == <<now, apps>>

TypeOK == now \in Nat /\ apps \in [Application -> {Absent} \cup StoredApplication]

Present == {a \in Application : apps[a] # Absent}

HasNextAction(a) == apps[a].summary # ""

-------------------------------------------------------------------------------
(* Days. *)

LocalDay(t) == (t + LocalOffset) \div DayLength

StartOfDay_UTC(t) == (t \div DayLength) * DayLength

startOfDay(t) == LocalDay(t) * DayLength - LocalOffset

endOfDay(t) == startOfDay(t) + DayLength - 1

-------------------------------------------------------------------------------
(* Classification, beside isActiveStatus of the figures. *)

DueRank_NothingOverdue(due) ==
  IF due = NoDate \/ IsZero(due) THEN 3
  ELSE IF due \in startOfDay(now)..endOfDay(now) THEN 1
  ELSE 2

\* Overdue, due today, upcoming, unscheduled.  nextActionState words the same
\* four cases for the lists.
dashboardDueRank(due) ==
  IF due = NoDate \/ IsZero(due) THEN 3
  ELSE IF due < startOfDay(now) THEN 0
  ELSE IF due <= endOfDay(now) THEN 1
  ELSE 2

\* The "Due follow-ups" of the pulse: overdue or due today, of active applications.
DueFollowUps ==
  {a \in Present : /\ isActiveStatus(apps[a].status)
                   /\ HasNextAction(a)
                   /\ dashboardDueRank(apps[a].due) \in {0, 1}}

\* The "Need follow-up" metric, and the rows that the dashboard's list is cut from.
NeedFollowUp ==
  {a \in Present : HasNextAction(a) /\ (apps[a].due = NoDate \/ apps[a].due <= endOfDay(now))}

\* The count of next actions on the applications page, and the rows its list is cut
\* from.
FollowUpItems == {a \in Present : HasNextAction(a)}

Stale ==
  {a \in Present : /\ isActiveStatus(apps[a].status)
                   /\ apps[a].updated <= now - StaleActiveDays * DayLength}

-------------------------------------------------------------------------------
(* Orders handed to sort.SliceStable. *)

dashboardStatusRank(status) ==
  CASE status = "offer" -> 0
    [] status = "interviewing" -> 1
    [] status = "applied" -> 2
    [] status = "prospect" -> 3
    [] OTHER -> 4

dashboardPriorityRank(priority) ==
  CASE priority = "high" -> 0
    [] priority = "low" -> 2
    [] OTHER -> 1

\* Both orders of the dashboard, as far as they look at the rows alone ...
dashboardApplicationBefore(a, b) ==
  LET l == apps[a]
      r == apps[b]
      dueL == dashboardDueRank(l.due)
      dueR == dashboardDueRank(r.due)
      statusL == dashboardStatusRank(l.status)
      statusR == dashboardStatusRank(r.status)
      priorityL == dashboardPriorityRank(l.priority)
      priorityR == dashboardPriorityRank(r.priority)
  IN  \/ dueL < dueR
      \/ dueL = dueR /\ statusL < statusR
      \/ dueL = dueR /\ statusL = statusR /\ priorityL < priorityR
      \/ /\ dueL = dueR /\ statusL = statusR /\ priorityL = priorityR
         /\ l.updated > r.updated

dashboardNextActionBefore(a, b) ==
  LET dueL == dashboardDueRank(apps[a].due)
      dueR == dashboardDueRank(apps[b].due)
      priorityL == dashboardPriorityRank(apps[a].priority)
      priorityR == dashboardPriorityRank(apps[b].priority)
  IN  \/ dueL < dueR
      \/ dueL = dueR /\ priorityL < priorityR
      \/ dueL = dueR /\ priorityL = priorityR /\ dashboardApplicationBefore(a, b)

\* ... the rows they leave tied ...
Tied(a, b) ==
  /\ dashboardDueRank(apps[a].due) = dashboardDueRank(apps[b].due)
  /\ dashboardStatusRank(apps[a].status) = dashboardStatusRank(apps[b].status)
  /\ dashboardPriorityRank(apps[a].priority) = dashboardPriorityRank(apps[b].priority)
  /\ apps[a].updated = apps[b].updated

\* ... and the names, which break the ties.
NameLess(a, b) ==
  IF Company[a].fold = Company[b].fold
  THEN Role[a].lower < Role[b].lower
  ELSE Company[a].lower < Company[b].lower

dashboardApplicationLess(a, b) ==
  dashboardApplicationBefore(a, b) \/ (Tied(a, b) /\ NameLess(a, b))

dashboardNextActionLess(a, b) ==
  dashboardNextActionBefore(a, b) \/ (Tied(a, b) /\ NameLess(a, b))

FollowUpLess_NamesWhenEither(a, b) ==
  LET l == apps[a].due
      r == apps[b].due
  IN  IF l = NoDate \/ r = NoDate THEN Company[a].exact < Company[b].exact ELSE l < r

FollowUpLess_NoDateFirst(a, b) ==
  LET l == apps[a].due
      r == apps[b].due
  IN  \/ l = NoDate /\ r = NoDate /\ Company[a].exact < Company[b].exact
      \/ l = NoDate /\ r # NoDate
      \/ l # NoDate /\ r # NoDate /\ l < r

\* The order of the applications page, by the due instant itself, and of undated
\* ones by the company as it was typed.
followUpLess(a, b) ==
  LET l == apps[a].due
      r == apps[b].due
  IN  \/ l = NoDate /\ r = NoDate /\ Company[a].exact < Company[b].exact
      \/ l # NoDate /\ r = NoDate
      \/ l # NoDate /\ r # NoDate /\ l < r

\* As much of S as a page shows.
FillsList(V, S) == Cardinality(V) = AtMost(ListLimit, Cardinality(S))

NextActionsShown_CutUnsorted == {V \in SUBSET NeedFollowUp : FillsList(V, NeedFollowUp)}

\* The lists the dashboard may show: none left out comes before one shown.  Tied rows
\* are taken any way, as names may go round in a circle.
NextActionsShown ==
  {V \in SUBSET NeedFollowUp :
     /\ FillsList(V, NeedFollowUp)
     /\ \A a \in V, b \in NeedFollowUp \ V : ~dashboardNextActionBefore(b, a)}

\* The lists the applications page may show.
FollowUpsShown ==
  {V \in SUBSET FollowUpItems :
     /\ FillsList(V, FollowUpItems)
     /\ \A a \in V, b \in FollowUpItems \ V : ~followUpLess(b, a)}

-------------------------------------------------------------------------------
(* Behaviour. *)

Init == /\ now = FirstTick
        /\ apps = [a \in Application |-> Absent]

Tick == /\ now < LastTick
        /\ now' = now + 1
        /\ UNCHANGED apps

Row(row) == [status |-> row.status, priority |-> row.priority, summary |-> row.summary,
             due |-> row.due, updated |-> now]

\* The "new application" form: date and summary are optional, and independent.
NewForms(a) ==
  [company : {"text"}, role : {"text"}, status : Statuses[a], priority : Priorities[a],
   link : {""}, summary : {"", " text"}, date : {NoDate} \cup Dates, notes : {""}]

NewRows(a) == {PostApplication(form) : form \in NewForms(a)}

applicationsCreate(a) ==
  /\ apps[a] = Absent
  /\ \E row \in NewRows(a) : apps' = [apps EXCEPT ![a] = Row(row)]
  /\ UNCHANGED now

StatusForms(a) ==
  [status : Statuses[a], summary : {"", " text"}, date : {NoDate} \cup Dates]

\* The status form replaces the status and the whole next action.
applicationsUpdateStatus(a) ==
  /\ apps[a] # Absent
  /\ \E form \in StatusForms(a) : apps' = [apps EXCEPT ![a] = Row(PostStatus(@, form))]
  /\ UNCHANGED now

\* Saving a posting link refreshes the application too.
applicationsUpdatePosting(a) ==
  /\ apps[a] # Absent
  /\ apps' = [apps EXCEPT ![a].updated = now]
  /\ UNCHANGED now

Next == \/ Tick
        \/ \E a \in Application : \/ applicationsCreate(a)
                                  \/ applicationsUpdateStatus(a)
                                  \/ applicationsUpdatePosting(a)

Spec == Init /\ [][Next]_vars

-------------------------------------------------------------------------------
(* The pipeline figures of both pages are computed from the same rows. *)

StatusCounts ==
  [s \in ApplicationStatus |-> Cardinality({a \in Present : apps[a].status = s})]

Pipeline == INSTANCE PipelineFlow
  WITH statusCounts <- StatusCounts, MaxApplications <- Cardinality(Application)

-------------------------------------------------------------------------------
(* Properties. *)

\* Every form that passes its own checks is stored, and so is whatever the selects
\* offer (FormsAreStored, over all forms); the prefilled status form of a stored
\* application is stored with any other status chosen.
AcceptedFormsAreStored ==
  /\ FormsAreStored
  /\ \A a \in Present : \A status \in Statuses[a] :
       PostStatus(apps[a], [applicationStatusFormValues(apps[a]) EXCEPT !.status = status])
         \notin {Invalid, Refused}

\* A prefilled form that is posted as it was shown keeps the row, for every row that
\* forms can leave (UntouchedFormsKeepRows), and changes nothing of a stored
\* application but the instant of its update.
UntouchedFormKeepsRow ==
  /\ UntouchedFormsKeepRows
  /\ \A a \in Present : PostStatus(apps[a], applicationStatusFormValues(apps[a])) = apps[a]

\* A follow-up that the pulse counts as due is shown on the dashboard and on the page
\* the count links to, unless the list is full of others no less urgent.  The three
\* are selected by the due rank, by the end of the local day and by the summary
\* alone, sorted by two comparisons, and cut to ListLimit (dashboardFollowUpHealthFor,
\* dashboardActivitySummaryFor, followUpItems, dashboard, applicationsIndex).
DueFollowUpsAreListed ==
  \A V \in NextActionsShown \cup FollowUpsShown, b \in DueFollowUps :
    \/ b \in V
    \/ /\ Cardinality(V) = ListLimit
       /\ \A a \in V : dashboardDueRank(apps[a].due) <= dashboardDueRank(apps[b].due)

\* What Less puts after each element of S.
After(Less(_, _), S) == [x \in S |-> {y \in S : Less(x, y)}]

\* Nothing is less both ways, and whatever is less than another is told from every
\* third, on one side or the other.
StrictWeakOrder(Less(_, _), S) ==
  LET after == After(Less, S)
  IN  \A x \in S : \A y \in after[x] :
        /\ x \notin after[y]
        /\ \A z \in S : z \in after[x] \/ y \in after[z]

\* Whether two companies fold alike exactly when their lower-case forms are one.
FoldsAsItLowers(a, b) ==
  Company[a].fold = Company[b].fold <=> Company[a].lower = Company[b].lower

\* Three rows on which the names may go round in a circle.
NamesMayCycle(x, y, z) ==
  /\ Tied(x, y) /\ Tied(x, z)
  /\ \E a, b \in {x, y, z} : ~FoldsAsItLowers(a, b)

StrictWeakOrderButForNames(Less(_, _), S) ==
  LET after == After(Less, S)
  IN  \A x \in S : \A y \in after[x] :
        /\ x \notin after[y]
        /\ \A z \in S : z \in after[x] \/ y \in after[z] \/ NamesMayCycle(x, y, z)

\* sort.SliceStable is handed strict weak orders, so what a list shows does not
\* depend on the order the database returned its rows in, ties apart
\* (followUpItems).  Of the dashboard's two orders that holds but for rows tied in
\* everything else among whose companies folding and lower case disagree: those
\* may go round in a circle (dashboardApplicationLess, dashboardNextActionLess).
ListOrdersAreSound ==
  /\ StrictWeakOrderButForNames(dashboardApplicationLess, Present)
  /\ StrictWeakOrderButForNames(dashboardNextActionLess, NeedFollowUp)
  /\ StrictWeakOrder(followUpLess, FollowUpItems)

\* The two pages agree on urgency: what the dashboard ranks as more urgent (overdue
\* before due today before upcoming before unscheduled) the applications page
\* lists first, though it compares instants and not ranks.
PagesAgreeOnUrgency ==
  \A a, b \in NeedFollowUp :
    dashboardDueRank(apps[a].due) < dashboardDueRank(apps[b].due)
      => followUpLess(a, b) /\ dashboardNextActionLess(a, b)

\* A next action is labelled "Due today" on the day that was typed in, as the
\* server's own calendar has it, and "Overdue" once that day is over.
LabelsFollowTheCalendar ==
  \A a \in FollowUpItems :
    apps[a].due # NoDate =>
      /\ dashboardDueRank(apps[a].due) = 1 <=> inputDate(apps[a].due) = LocalDay(now)
      /\ dashboardDueRank(apps[a].due) = 0 <=> inputDate(apps[a].due) < LocalDay(now)

\* Action property: the passage of time alone never makes an application less
\* urgent, takes a due follow-up off the count, or makes a stale one fresh.
UrgencyOnlyGrows ==
  [][now' # now =>
       /\ \A a \in Present : dashboardDueRank(apps[a].due)' <= dashboardDueRank(apps[a].due)
       /\ DueFollowUps \subseteq DueFollowUps'
       /\ Stale \subseteq Stale']_vars
===============================================================================
