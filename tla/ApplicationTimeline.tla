-------------------------- MODULE ApplicationTimeline --------------------------
(***************************************************************************)
(* Applications, their timelines and the pages that show both:             *)
(* internal/store/sqlite/application_store.go and the handlers of          *)
(* internal/server/server.go that create an application, change its status *)
(* and next action, add a timeline event, show one application, or read    *)
(* all of them (dashboard and JSON export).                                *)
(*                                                                         *)
(* A status update is one transaction that writes the row and appends a    *)
(* generated event; every other statement commits by itself.  A page reads *)
(* the row and the events with separate statements, outside any            *)
(* transaction.  A writer holds the database's write lock from its first   *)
(* statement to its commit, and readers see committed rows only.           *)
(***************************************************************************)
EXTENDS Naturals, Sequences

CONSTANTS
  App,        \* application ids
  Status,     \* pipeline states
  NextAction, \* next-action summaries, the empty one among them
  Request,    \* goroutines serving a page or a form
  Absent,     \* no row
  MaxClock,   \* bound: the database clock stays in 0..MaxClock
  MaxEvents   \* bound: events on one timeline

ASSUME TimelineAssumption ==
  /\ MaxClock \in Nat /\ MaxEvents \in Nat
  /\ Absent \notin [status : Status, next : NextAction]
  /\ Absent \notin Request /\ App # {}

VARIABLES
  clock,   \* strftime('now') in the database
  apps,    \* the applications table
  events,  \* application_events, per application, in the order of commits
  writer,  \* the request whose transaction holds the write lock, or Absent
  req,     \* the requests in flight
  born     \* history: each application as it was created

vars == <<clock, apps, events, writer, req, born>>

Row == [status : Status, next : NextAction]

\* A generated event tells the row it was written with; the user's tell none.
Event == [tells : Row \cup {Absent}, at : 0..MaxClock]

Kind == {"create", "status", "event", "show", "export"}

Step == {"idle", "parsed", "loaded", "updated", "stamped", "inserted",
         "reading", "done", "failed"}

\* row and at are the form's values, at becoming the generated event's stamp;
\* rows and lists are what a page has read, todo the timelines still to read.
View == [rows : [App -> Row \cup {Absent}], lists : [App -> Seq(Event)],
         todo : SUBSET App]

NoView == [rows |-> [a \in App |-> Absent], lists |-> [a \in App |-> <<>>],
           todo |-> {}]

Resting == [step |-> "idle", kind |-> "show", app |-> CHOOSE a \in App : TRUE,
            row |-> Absent, at |-> 0, view |-> NoView]

RequestState == [step : Step, kind : Kind, app : App, row : Row \cup {Absent},
                 at : 0..MaxClock, view : View]

TypeOK ==
  /\ clock \in 0..MaxClock
  /\ apps \in [App -> Row \cup {Absent}]
  /\ events \in [App -> Seq(Event)]
  /\ writer \in Request \cup {Absent}
  /\ \A r \in Request : req[r].step \in {"updated", "stamped"} <=> writer = r
  /\ req \in [Request -> RequestState]
  /\ born \in [App -> Row \cup {Absent}]

Init ==
  /\ clock = 0
  /\ apps = [a \in App |-> Absent]
  /\ events = [a \in App |-> <<>>]
  /\ writer = Absent
  /\ req = [r \in Request |-> Resting]
  /\ born = [a \in App |-> Absent]

------------------------------------------------------------------------------
(* Forms *)

Move(r, step) == req' = [req EXCEPT ![r].step = step]

tables == <<clock, apps, events, born>>

\* The deferred tx.Rollback.
Unlock(r) == writer' = IF writer = r THEN Absent ELSE writer

\* A page is requested, or a form submitted and its token accepted.
Submit(r, kind, a, row, at) ==
  /\ req[r].step = "idle"
  /\ kind \in {"show", "export"} => row = Absent
  /\ kind \in {"create", "status"} => row # Absent
  /\ kind # "event" => at = 0
  /\ req' = [req EXCEPT ![r] = [Resting EXCEPT
       !.step = "parsed", !.kind = kind, !.app = a, !.row = row, !.at = at]]
  /\ UNCHANGED <<tables, writer>>

\* applicationDetail, as far as a form needs it: is there such an application?
LoadApplication(r) ==
  /\ req[r].step = "parsed" /\ req[r].kind \in {"status", "event"}
  /\ Move(r, IF apps[req[r].app] = Absent THEN "failed" ELSE "loaded")
  /\ UNCHANGED <<tables, writer>>

\* CreateApplication's insert, which commits by itself.
InsertApplication(r) ==
  LET a == req[r].app IN
  /\ req[r].step = "parsed" /\ req[r].kind = "create"
  /\ writer = Absent /\ apps[a] = Absent
  /\ apps' = [apps EXCEPT ![a] = req[r].row]
  /\ born' = [born EXCEPT ![a] = req[r].row]
  /\ req' = [req EXCEPT ![r].step = "inserted"]
  /\ UNCHANGED <<clock, events, writer>>

\* AddApplicationEvent's insert, which commits by itself, dated by the form.
InsertEvent(r) ==
  LET a == req[r].app IN
  /\ req[r].step = "loaded" /\ req[r].kind = "event"
  /\ writer = Absent /\ Len(events[a]) < MaxEvents
  /\ events' = [events EXCEPT ![a] = Append(@, [tells |-> Absent, at |-> req[r].at])]
  /\ req' = [req EXCEPT ![r].step = "inserted"]
  /\ UNCHANGED <<clock, apps, writer, born>>

\* The row just inserted is read back, and the form answered.
ReadBack(r) ==
  /\ req[r].step = "inserted"
  /\ Move(r, "done")
  /\ UNCHANGED <<tables, writer>>

------------------------------------------------------------------------------
(* UpdateApplicationStatusAndNextAction *)

\* Mutant: the row is updated outside the transaction.
UpdateRow_Unlocked(r) ==
  /\ req[r].step = "loaded" /\ req[r].kind = "status"
  /\ writer = Absent
  /\ apps' = [apps EXCEPT ![req[r].app] = req[r].row]
  /\ Move(r, "updated")
  /\ UNCHANGED <<clock, events, writer, born>>

\* The first statement of the transaction takes the write lock.
UpdateRow(r) ==
  /\ req[r].step = "loaded" /\ req[r].kind = "status"
  /\ writer = Absent
  /\ Len(events[req[r].app]) < MaxEvents
  /\ writer' = r
  /\ Move(r, "updated")
  /\ UNCHANGED tables

\* The generated event is dated by the database as its insert runs.
InsertStatusEvent(r) ==
  /\ req[r].step = "updated"
  /\ req' = [req EXCEPT ![r].step = "stamped", ![r].at = clock]
  /\ UNCHANGED <<tables, writer>>

\* Mutant: only the status is written, the next action only told.
CommitUpdate_StatusOnly(r) ==
  LET a == req[r].app IN
  /\ req[r].step = "stamped"
  /\ apps' = [apps EXCEPT ![a].status = req[r].row.status]
  /\ events' = [events EXCEPT ![a] = Append(@, [tells |-> req[r].row, at |-> req[r].at])]
  /\ writer' = Absent
  /\ req' = [req EXCEPT ![r].step = "done"]
  /\ UNCHANGED <<clock, born>>

\* The row is selected within the transaction, which then commits both writes.
CommitUpdate(r) ==
  LET a == req[r].app IN
  /\ req[r].step = "stamped"
  /\ apps' = [apps EXCEPT ![a] = req[r].row]
  /\ events' = [events EXCEPT ![a] = Append(@, [tells |-> req[r].row, at |-> req[r].at])]
  /\ writer' = Absent
  /\ req' = [req EXCEPT ![r].step = "done"]
  /\ UNCHANGED <<clock, born>>

------------------------------------------------------------------------------
(* Pages *)

\* GetApplication for a detail page, ListApplications for the others.
ReadRows(r) ==
  LET wanted == IF req[r].kind = "show" THEN {req[r].app} ELSE App
      found == {a \in wanted : apps[a] # Absent}
  IN
  /\ req[r].step = "parsed" /\ req[r].kind \in {"show", "export"}
  /\ req' = [req EXCEPT
       ![r].step = IF req[r].kind = "show" /\ found = {} THEN "failed" ELSE "reading",
       ![r].view.rows = [a \in App |-> IF a \in found THEN apps[a] ELSE Absent],
       ![r].view.todo = found]
  /\ UNCHANGED <<tables, writer>>

\* ListApplicationEvents, once for every application read.
ReadEvents(r, a) ==
  /\ req[r].step = "reading" /\ a \in req[r].view.todo
  /\ req' = [req EXCEPT ![r].view.lists[a] = events[a], ![r].view.todo = @ \ {a}]
  /\ UNCHANGED <<tables, writer>>

Render(r) ==
  /\ req[r].step = "reading" /\ req[r].view.todo = {}
  /\ Move(r, "done")
  /\ UNCHANGED <<tables, writer>>

------------------------------------------------------------------------------
(* Failures and the environment *)

\* The form is invalid, a statement fails, the lock is not granted within the
\* busy timeout, or the client goes away.  An open transaction is rolled back;
\* a statement that committed by itself stays.
Fail(r) ==
  /\ req[r].step \notin {"idle", "done", "failed"}
  /\ Move(r, "failed")
  /\ Unlock(r)
  /\ UNCHANGED tables

Finish(r) ==
  /\ req[r].step \in {"done", "failed"}
  /\ req' = [req EXCEPT ![r] = Resting]
  /\ UNCHANGED <<tables, writer>>

\* The process stops; the next one rolls the open transaction back.
Crash ==
  /\ req' = [r \in Request |-> Resting]
  /\ writer' = Absent
  /\ UNCHANGED tables

Tick ==
  /\ clock < MaxClock
  /\ clock' = clock + 1
  /\ UNCHANGED <<apps, events, writer, req, born>>

Serve(r) ==
  \/ \E kind \in Kind, a \in App, row \in Row \cup {Absent}, at \in 0..MaxClock :
       Submit(r, kind, a, row, at)
  \/ LoadApplication(r)
  \/ InsertApplication(r) \/ InsertEvent(r) \/ ReadBack(r)
  \/ UpdateRow(r) \/ InsertStatusEvent(r) \/ CommitUpdate(r)
  \/ ReadRows(r) \/ (\E a \in App : ReadEvents(r, a)) \/ Render(r)
  \/ Fail(r) \/ Finish(r)

Next == (\E r \in Request : Serve(r)) \/ Crash \/ Tick

Spec == Init /\ [][Next]_vars

------------------------------------------------------------------------------
(* Properties *)

Generated(list) == {i \in 1..Len(list) : list[i].tells # Absent}

\* While the database clock is not stepped back, the timeline tells the truth
\* about the present: among the generated events with the latest date is one
\* that names the application's status and next action, whatever updates
\* overlap, fail half-way or are cut off by a crash.
TimelineTellsStatus ==
  \A a \in App : Generated(events[a]) # {} =>
    \E i \in Generated(events[a]) :
      /\ events[a][i].tells = apps[a]
      /\ \A j \in Generated(events[a]) : events[a][j].at <= events[a][i].at

\* What a page or export shows is explained by what it lists: every status and
\* next action is the one of creation or told by an event of the same page,
\* although rows and timelines are read one after the other.
PageExplainsStatus ==
  \A r \in Request, a \in App :
    LET v == req[r].view IN
    req[r].step = "done" /\ v.rows[a] # Absent =>
      v.rows[a] = born[a] \/ \E i \in 1..Len(v.lists[a]) : v.lists[a][i].tells = v.rows[a]
==============================================================================
