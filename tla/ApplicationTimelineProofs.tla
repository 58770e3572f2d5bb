----------------------- MODULE ApplicationTimelineProofs -----------------------
(***************************************************************************)
(* Theorems about ApplicationTimeline, for any number of applications,     *)
(* states and requests and timelines of any length.                        *)
(***************************************************************************)
EXTENDS ApplicationTimeline, TLAPS

Tells(list, row) == \E i \in 1..Len(list) : list[i].tells = row

\* TimelineTellsStatus of one application's timeline and row.
Truthful(list, row) ==
  Generated(list) # {} =>
    \E i \in Generated(list) : /\ list[i].tells = row
                               /\ \A j \in Generated(list) : list[j].at <= list[i].at

\* Generated events carry dates up to t.
Stamps(list, t) == \A i \in Generated(list) : list[i].at <= t

StampedBy(t) == \A a \in App : Stamps(events[a], t)

\* An application's status is the one of creation or told by its timeline.
RowExplained ==
  \A a \in App : apps[a] # Absent => apps[a] = born[a] \/ Tells(events[a], apps[a])

NoRowNoEvents == \A a \in App : apps[a] = Absent => events[a] = <<>>

TablesOK == TimelineTellsStatus /\ RowExplained /\ NoRowNoEvents /\ StampedBy(clock)

\* Each row a page has read is explained by the list it has read, or as long as
\* it has still to read it, by the timeline.
ViewOK(v) ==
  \A a \in App : v.rows[a] # Absent =>
    /\ apps[a] # Absent
    /\ v.rows[a] = born[a] \/ Tells(IF a \in v.todo THEN events[a] ELSE v.lists[a], v.rows[a])

RequestOK(q) ==
  /\ q.step \in {"parsed", "loaded"} /\ q.kind \in {"create", "status"} => q.row # Absent
  /\ q.step \in {"updated", "stamped"} => q.row # Absent
  /\ q.step \in {"loaded", "updated", "stamped"} => apps[q.app] # Absent
  /\ q.step = "stamped" => q.at <= clock /\ StampedBy(q.at)
  /\ q.step \notin {"reading", "failed"} => q.view.todo = {}
  /\ ViewOK(q.view)

IInv == TypeOK /\ TablesOK /\ \A r \in Request : RequestOK(req[r])
-------------------------------------------------------------------------------
(* Timelines *)

LEMMA EventTyped ==
  ASSUME NEW list \in Seq(Event), NEW i \in Generated(list)
  PROVE  i \in 1..Len(list) /\ list[i].at \in Nat
<1>1. list[i] \in Event
  BY DEF Generated
<1>. QED BY <1>1, TimelineAssumption DEF Generated, Event

\* An event goes to the end of a timeline, and what was told stays told.
LEMMA AppendFacts ==
  ASSUME NEW list \in Seq(Event), NEW e \in Event
  PROVE  /\ Append(list, e) \in Seq(Event)
         /\ Len(Append(list, e)) = Len(list) + 1 /\ Len(list) \in Nat
         /\ \A i \in 1..Len(list) : Append(list, e)[i] = list[i]
         /\ Append(list, e)[Len(list) + 1] = e
         /\ \A i \in Generated(Append(list, e)) :
              \/ i \in Generated(list) /\ Append(list, e)[i] = list[i]
              \/ e.tells # Absent /\ i = Len(list) + 1
         /\ \A i \in Generated(list) : i \in Generated(Append(list, e))
         /\ \A row : Tells(list, row) => Tells(Append(list, e), row)
<1>1. /\ Append(list, e) \in Seq(Event)
      /\ Len(Append(list, e)) = Len(list) + 1 /\ Len(list) \in Nat
      /\ \A i \in 1..Len(list) : Append(list, e)[i] = list[i]
      /\ Append(list, e)[Len(list) + 1] = e
  OBVIOUS
<1>. DEFINE longer == Append(list, e)
<1>2. /\ longer \in Seq(Event)
      /\ Len(longer) = Len(list) + 1 /\ Len(list) \in Nat
      /\ \A i \in 1..Len(list) : longer[i] = list[i]
      /\ longer[Len(list) + 1] = e
  BY <1>1
<1>. HIDE DEF longer
<1>3. \A i \in 1..Len(longer) : i \in 1..Len(list) \/ i = Len(list) + 1
  BY <1>2
<1>4. \A i \in 1..Len(list) : i \in 1..Len(longer)
  BY <1>2
<1>5. \A i \in Generated(longer) :
        \/ i \in Generated(list) /\ longer[i] = list[i]
        \/ e.tells # Absent /\ i = Len(list) + 1
  BY <1>2, <1>3 DEF Generated
<1>6. \A i \in Generated(list) : i \in Generated(longer)
  BY <1>2, <1>4 DEF Generated
<1>7. \A row : Tells(list, row) => Tells(longer, row)
  BY <1>2, <1>4 DEF Tells
<1>. QED BY <1>2, <1>5, <1>6, <1>7 DEF longer

\* An event of the user's leaves what a timeline says of the status as it is.
LEMMA UserEventTruthful ==
  ASSUME NEW list \in Seq(Event), NEW e \in Event, e.tells = Absent, NEW t \in Nat
  PROVE  /\ \A row : Truthful(list, row) => Truthful(Append(list, e), row)
         /\ Stamps(list, t) => Stamps(Append(list, e), t)
<1>1. \A i \in Generated(Append(list, e)) : i \in Generated(list) /\ Append(list, e)[i] = list[i]
  BY AppendFacts
<1>2. \A i \in Generated(list) : i \in Generated(Append(list, e))
  BY AppendFacts
<1>. QED BY <1>1, <1>2, Zenon DEF Truthful, Stamps

\* A generated event that tells the row, and is not dated before another one,
\* makes a timeline tell that row.
LEMMA StatusEventTruthful ==
  ASSUME NEW list \in Seq(Event), NEW e \in Event, e.tells # Absent, NEW t \in Nat,
         Stamps(list, e.at), e.at <= t
  PROVE  Truthful(Append(list, e), e.tells) /\ Stamps(Append(list, e), t)
<1>. DEFINE longer == Append(list, e)
            last == Len(list) + 1
<1>1. /\ Len(list) \in Nat /\ Len(longer) = last /\ longer[last] = e
      /\ \A i \in Generated(longer) :
           (i \in Generated(list) /\ longer[i] = list[i]) \/ i = last
  BY AppendFacts
<1>. HIDE DEF longer
<1>2. last \in Generated(longer)
  BY <1>1 DEF Generated
<1>3. e.at \in Nat
  BY TimelineAssumption DEF Event
<1>4. \A i \in Generated(longer) : longer[i].at <= e.at
  BY <1>1, <1>3 DEF Stamps
<1>5. Truthful(longer, e.tells)
  BY <1>1, <1>2, <1>4 DEF Truthful
<1>6. ASSUME NEW i \in Generated(longer) PROVE longer[i].at <= t
  <2>1. CASE i = last
    BY <1>1, <2>1
  <2>2. CASE i \in Generated(list) /\ longer[i] = list[i]
    <3>1. list[i].at \in Nat
      BY <2>2, EventTyped
    <3>. QED BY <1>3, <2>2, <3>1 DEF Stamps
  <2>. QED BY <1>1, <2>1, <2>2
<1>. QED BY <1>5, <1>6 DEF Stamps, longer

LEMMA TellsStatusOfEach ==
  /\ TimelineTellsStatus <=> \A a \in App : Truthful(events[a], apps[a])
  /\ TimelineTellsStatus' <=> \A a \in App : Truthful(events'[a], apps'[a])
BY DEF TimelineTellsStatus, Truthful

-------------------------------------------------------------------------------
(* Requests *)

LEMMA RestingOK == Resting \in RequestState /\ RequestOK(Resting) /\ Resting.step = "idle"
<1>1. (CHOOSE a \in App : TRUE) \in App
  BY TimelineAssumption
<1>2. NoView \in View /\ NoView.todo = {} /\ NoView.rows = [a \in App |-> Absent]
  BY DEF NoView, View
<1>3. /\ Resting.step = "idle" /\ Resting.kind = "show" /\ Resting.row = Absent
      /\ Resting.view = NoView
  BY DEF Resting
<1>4. Resting \in RequestState
  BY <1>1, <1>2, TimelineAssumption DEF Resting, RequestState, Step, Kind
<1>5. ViewOK(NoView)
  BY <1>2 DEF ViewOK
<1>6. RequestOK(Resting)
  BY <1>2, <1>3, <1>5 DEF RequestOK
<1>. QED BY <1>3, <1>4, <1>6

\* A step of one request that leaves the tables alone.
LEMMA QuietIInv ==
  ASSUME IInv, NEW r \in Request, NEW q \in RequestState,
         req' = [req EXCEPT ![r] = q], RequestOK(q),
         UNCHANGED tables,
         writer' \in Request \cup {Absent},
         q.step \in {"updated", "stamped"} <=> writer' = r,
         \A s \in Request \ {r} : writer' = s <=> writer = s
  PROVE  IInv'
<1>1. TypeOK /\ TablesOK /\ \A s \in Request : RequestOK(req[s])
  BY DEF IInv
<1>2. req'[r] = q /\ \A s \in Request \ {r} : req'[s] = req[s]
  BY <1>1 DEF TypeOK
<1>3. UNCHANGED <<clock, apps, events, born>>
  BY DEF tables
<1>4. TypeOK'
  <2>1. req' \in [Request -> RequestState]
    BY <1>1 DEF TypeOK
  <2>2. ASSUME NEW s \in Request
        PROVE  req'[s].step \in {"updated", "stamped"} <=> writer' = s
    <3>1. CASE s = r
      BY <1>2, <3>1
    <3>2. CASE s # r
      <4>1. req[s].step \in {"updated", "stamped"} <=> writer = s
        BY <1>1 DEF TypeOK
      <4>. QED BY <1>2, <3>2, <4>1
    <3>. QED BY <3>1, <3>2
  <2>. QED BY <1>1, <1>3, <2>1, <2>2 DEF TypeOK
<1>5. TablesOK'
  BY <1>1, <1>3 DEF TablesOK, TimelineTellsStatus, RowExplained, NoRowNoEvents, StampedBy
<1>6. ASSUME NEW s \in Request PROVE RequestOK(req[s])'
  <2>1. PICK p : p = req'[s]
    OBVIOUS
  <2>2. RequestOK(p)
    BY <1>1, <1>2, <2>1
  <2>. QED BY <1>3, <2>1, <2>2 DEF RequestOK, ViewOK, StampedBy
<1>. QED BY <1>4, <1>5, <1>6 DEF IInv

\* A request moves on and keeps everything else.
LEMMA MoveIInv ==
  ASSUME IInv, NEW r \in Request, NEW step \in {"loaded", "updated", "done", "failed"},
         Move(r, step),
         step # "failed" => req[r].view.todo = {},
         step \in {"loaded", "updated"} => apps[req[r].app] # Absent,
         step = "loaded" => req[r].row # Absent \/ req[r].kind = "event",
         step = "updated" => req[r].row # Absent,
         UNCHANGED tables,
         writer' \in Request \cup {Absent},
         step = "updated" <=> writer' = r,
         \A s \in Request \ {r} : writer' = s <=> writer = s
  PROVE  IInv'
<1>1. req[r] \in RequestState /\ RequestOK(req[r])
  BY DEF IInv, TypeOK
<1>2. PICK q : q = [req[r] EXCEPT !.step = step]
  OBVIOUS
<1>3. /\ q.step = step /\ q.kind = req[r].kind /\ q.app = req[r].app /\ q.row = req[r].row
      /\ q.at = req[r].at /\ q.view = req[r].view /\ q \in RequestState
  BY <1>1, <1>2 DEF RequestState, Step
<1>4. req' = [req EXCEPT ![r] = q]
  BY <1>2 DEF Move
<1>5. RequestOK(q)
  BY <1>1, <1>3 DEF RequestOK
<1>6. q.step \in {"updated", "stamped"} <=> writer' = r
  BY <1>3
<1>. QED BY <1>3, <1>4, <1>5, <1>6, QuietIInv

\* What IInv says of one request and of the write lock, for the steps below.
LEMMA Holding ==
  ASSUME IInv, NEW r \in Request
  PROVE  /\ TypeOK /\ TablesOK
         /\ req[r] \in RequestState /\ RequestOK(req[r])
         /\ req[r].step \in {"updated", "stamped"} <=> writer = r
         /\ writer \in Request \cup {Absent}
BY DEF IInv, TypeOK

LEMMA SubmitIInv ==
  ASSUME IInv, NEW r \in Request, NEW kind \in Kind, NEW a \in App,
         NEW row \in Row \cup {Absent}, NEW at \in 0..MaxClock, Submit(r, kind, a, row, at)
  PROVE  IInv'
<1>1. PICK q : q = [Resting EXCEPT
                     !.step = "parsed", !.kind = kind, !.app = a, !.row = row, !.at = at]
  OBVIOUS
<1>2. Resting \in RequestState /\ RequestOK(Resting) /\ Resting.step = "idle"
  BY RestingOK
<1>3. /\ q \in RequestState /\ q.step = "parsed" /\ q.kind = kind /\ q.row = row
      /\ q.view = Resting.view
  BY <1>1, <1>2 DEF RequestState, Step
<1>4. RequestOK(q)
  BY <1>2, <1>3 DEF RequestOK, Submit
<1>. QED BY <1>1, <1>3, <1>4, Holding, QuietIInv DEF Submit

LEMMA LoadIInv ==
  ASSUME IInv, NEW r \in Request, LoadApplication(r)
  PROVE  IInv'
<1>1. /\ req[r].step = "parsed" /\ req[r].kind \in {"status", "event"}
      /\ Move(r, IF apps[req[r].app] = Absent THEN "failed" ELSE "loaded")
      /\ UNCHANGED tables /\ writer' = writer
  BY DEF LoadApplication
<1>2. req[r].view.todo = {} /\ (req[r].row # Absent \/ req[r].kind = "event")
  BY <1>1, Holding DEF RequestOK
<1>3. CASE apps[req[r].app] = Absent
  BY <1>1, <1>3, Holding, MoveIInv
<1>4. CASE apps[req[r].app] # Absent
  BY <1>1, <1>2, <1>4, Holding, MoveIInv
<1>. QED BY <1>3, <1>4

LEMMA UpdateRowIInv ==
  ASSUME IInv, NEW r \in Request, UpdateRow(r)
  PROVE  IInv'
<1>1. /\ req[r].step = "loaded" /\ req[r].kind = "status" /\ writer = Absent
      /\ Move(r, "updated") /\ UNCHANGED tables /\ writer' = r
  BY DEF UpdateRow
<1>2. req[r].view.todo = {} /\ req[r].row # Absent /\ apps[req[r].app] # Absent
  BY <1>1, Holding DEF RequestOK
<1>. QED BY <1>1, <1>2, Holding, MoveIInv, TimelineAssumption

LEMMA InsertStatusEventIInv ==
  ASSUME IInv, NEW r \in Request, InsertStatusEvent(r)
  PROVE  IInv'
<1>1. PICK q : q = [req[r] EXCEPT !.step = "stamped", !.at = clock]
  OBVIOUS
<1>2. req[r].step = "updated" /\ req' = [req EXCEPT ![r] = q] /\ UNCHANGED <<tables, writer>>
  BY <1>1 DEF InsertStatusEvent
<1>3. req[r] \in RequestState /\ RequestOK(req[r]) /\ clock \in 0..MaxClock
  BY Holding DEF TypeOK
<1>4. /\ q \in RequestState /\ q.step = "stamped" /\ q.at = clock /\ q.row = req[r].row
      /\ q.app = req[r].app /\ q.view = req[r].view /\ q.kind = req[r].kind
  BY <1>1, <1>3 DEF RequestState, Step
<1>5. RequestOK(q)
  BY <1>2, <1>3, <1>4, Holding DEF RequestOK, TablesOK
<1>. QED BY <1>2, <1>4, <1>5, Holding, QuietIInv

LEMMA ReadRowsIInv ==
  ASSUME IInv, NEW r \in Request, ReadRows(r)
  PROVE  IInv'
<1>. DEFINE wanted == IF req[r].kind = "show" THEN {req[r].app} ELSE App
            found == {a \in wanted : apps[a] # Absent}
            rows == [a \in App |-> IF a \in found THEN apps[a] ELSE Absent]
            step == IF req[r].kind = "show" /\ found = {} THEN "failed" ELSE "reading"
<1>1. req[r] \in RequestState /\ RequestOK(req[r]) /\ TypeOK /\ TablesOK
  BY Holding
<1>2. found \subseteq App /\ rows \in [App -> Row \cup {Absent}] /\ step \in {"failed", "reading"}
  BY <1>1 DEF RequestState, TypeOK
<1>3. \A a \in App : rows[a] # Absent => a \in found /\ rows[a] = apps[a] /\ apps[a] # Absent
  OBVIOUS
<1>4. /\ req[r].step = "parsed" /\ UNCHANGED <<tables, writer>>
      /\ req' = [req EXCEPT ![r].step = step, ![r].view.rows = rows, ![r].view.todo = found]
  BY DEF ReadRows
<1>. HIDE DEF found, rows, step
<1>5. PICK v : v = [req[r].view EXCEPT !.rows = rows, !.todo = found]
  OBVIOUS
<1>6. PICK q : q = [req[r] EXCEPT !.step = step, !.view = v]
  OBVIOUS
<1>7. v \in View /\ v.rows = rows /\ v.todo = found
  BY <1>1, <1>2, <1>5 DEF RequestState, View
<1>8. q \in RequestState /\ q.step = step /\ q.view = v
  BY <1>1, <1>2, <1>6, <1>7 DEF RequestState, Step
<1>9. req' = [req EXCEPT ![r] = q]
  BY <1>4, <1>5, <1>6
<1>10. ViewOK(v)
  BY <1>1, <1>3, <1>7 DEF ViewOK, TablesOK, RowExplained
<1>11. RequestOK(q)
  BY <1>2, <1>8, <1>10 DEF RequestOK
<1>. QED BY <1>2, <1>4, <1>8, <1>9, <1>11, Holding, QuietIInv

LEMMA ReadEventsIInv ==
  ASSUME IInv, NEW r \in Request, NEW a \in App, ReadEvents(r, a)
  PROVE  IInv'
<1>1. req[r] \in RequestState /\ RequestOK(req[r]) /\ TypeOK /\ TablesOK
  BY Holding
<1>2. /\ req[r].step = "reading" /\ a \in req[r].view.todo /\ UNCHANGED <<tables, writer>>
      /\ req' = [req EXCEPT ![r].view.lists[a] = events[a], ![r].view.todo = @ \ {a}]
  BY DEF ReadEvents
<1>3. PICK v : v = [req[r].view EXCEPT !.lists[a] = events[a], !.todo = @ \ {a}]
  OBVIOUS
<1>4. PICK q : q = [req[r] EXCEPT !.view = v]
  OBVIOUS
<1>5. /\ v \in View /\ v.rows = req[r].view.rows /\ v.todo = req[r].view.todo \ {a}
      /\ v.lists = [req[r].view.lists EXCEPT ![a] = events[a]]
      /\ req[r].view.lists \in [App -> Seq(Event)]
  BY <1>1, <1>3 DEF RequestState, View, TypeOK
<1>6. q \in RequestState /\ q.step = "reading" /\ q.view = v
  BY <1>1, <1>2, <1>4, <1>5 DEF RequestState
<1>7. req' = [req EXCEPT ![r] = q]
  BY <1>2, <1>3, <1>4
<1>8. ViewOK(v)
  <2>1. SUFFICES ASSUME NEW b \in App, v.rows[b] # Absent
                 PROVE  /\ apps[b] # Absent
                        /\ \/ v.rows[b] = born[b]
                           \/ Tells(IF b \in v.todo THEN events[b] ELSE v.lists[b], v.rows[b])
    BY DEF ViewOK
  <2>2. /\ apps[b] # Absent
        /\ \/ v.rows[b] = born[b]
           \/ Tells(IF b \in req[r].view.todo THEN events[b] ELSE req[r].view.lists[b], v.rows[b])
    BY <1>1, <1>5, <2>1 DEF RequestOK, ViewOK
  <2>. QED BY <1>2, <1>5, <2>2
<1>9. RequestOK(q)
  BY <1>6, <1>8 DEF RequestOK
<1>. QED BY <1>2, <1>6, <1>7, <1>9, Holding, QuietIInv

LEMMA FailIInv ==
  ASSUME IInv, NEW r \in Request, Fail(r)
  PROVE  IInv'
<1>1. Move(r, "failed") /\ UNCHANGED tables /\ writer' = IF writer = r THEN Absent ELSE writer
  BY DEF Fail, Unlock
<1>. QED BY <1>1, Holding, MoveIInv, TimelineAssumption

LEMMA FinishIInv ==
  ASSUME IInv, NEW r \in Request, Finish(r)
  PROVE  IInv'
<1>1. Resting \in RequestState /\ RequestOK(Resting) /\ Resting.step = "idle"
  BY RestingOK
<1>. QED BY <1>1, Holding, QuietIInv DEF Finish

-------------------------------------------------------------------------------
(* Steps that change the tables *)

\* What holds of a request goes on holding while the tables only grow.
LEMMA RequestsKeep ==
  ASSUME TypeOK, NEW q \in RequestState, RequestOK(q),
         clock' \in Nat /\ clock <= clock',
         \A a \in App : apps[a] # Absent => apps'[a] # Absent /\ born'[a] = born[a],
         \A a \in App : \A row : Tells(events[a], row) => Tells(events'[a], row),
         q.step = "stamped" => StampedBy(q.at)'
  PROVE  RequestOK(q)'
<1>1. ViewOK(q.view)'
  <2>1. SUFFICES ASSUME NEW a \in App, q.view.rows[a] # Absent
                 PROVE  /\ apps'[a] # Absent
                        /\ \/ q.view.rows[a] = born'[a]
                           \/ Tells(IF a \in q.view.todo THEN events'[a] ELSE q.view.lists[a],
                                    q.view.rows[a])
    BY DEF ViewOK
  <2>2. /\ apps[a] # Absent
        /\ \/ q.view.rows[a] = born[a]
           \/ Tells(IF a \in q.view.todo THEN events[a] ELSE q.view.lists[a], q.view.rows[a])
    BY <2>1 DEF RequestOK, ViewOK
  <2>. QED BY <2>2
<1>2. q.app \in App /\ q.at \in Nat /\ clock \in Nat
  BY TimelineAssumption DEF RequestState, TypeOK
<1>3. q.step = "stamped" => q.at <= clock'
  BY <1>2 DEF RequestOK
<1>4. q.step \in {"loaded", "updated", "stamped"} => apps'[q.app] # Absent
  BY <1>2 DEF RequestOK
<1>5. /\ q.step \in {"parsed", "loaded"} /\ q.kind \in {"create", "status"} => q.row # Absent
      /\ q.step \in {"updated", "stamped"} => q.row # Absent
      /\ q.step \notin {"reading", "failed"} => q.view.todo = {}
  BY DEF RequestOK
<1>. HIDE DEF ViewOK
<1>. QED BY <1>1, <1>3, <1>4, <1>5 DEF RequestOK

\* The database clock moves on.
LEMMA TickIInv == IInv /\ Tick => IInv'
<1>. SUFFICES ASSUME IInv, Tick PROVE IInv'
  OBVIOUS
<1>1. /\ clock' = clock + 1 /\ clock' \in 0..MaxClock /\ clock \in 0..MaxClock
      /\ UNCHANGED <<apps, events, writer, req, born>>
  BY TimelineAssumption DEF Tick, IInv, TypeOK
<1>2. TypeOK'
  BY <1>1 DEF IInv, TypeOK
<1>3. TablesOK'
  <2>1. ASSUME NEW a \in App, NEW i \in Generated(events[a])
        PROVE  events[a][i].at <= clock + 1
    <3>1. events[a] \in Seq(Event) /\ Stamps(events[a], clock)
      BY DEF IInv, TypeOK, TablesOK, StampedBy
    <3>2. events[a][i].at \in Nat
      BY <3>1, EventTyped
    <3>. QED BY <1>1, <3>1, <3>2, TimelineAssumption DEF Stamps
  <2>2. StampedBy(clock)'
    BY <1>1, <2>1 DEF StampedBy, Stamps
  <2>. QED BY <1>1, <2>2 DEF IInv, TablesOK, TimelineTellsStatus, RowExplained, NoRowNoEvents
<1>4. ASSUME NEW r \in Request PROVE RequestOK(req[r])'
  <2>1. PICK q : q = req[r] /\ q = req'[r]
    BY <1>1
  <2>2. q \in RequestState /\ RequestOK(q)
    BY <2>1, Holding
  <2>3. q.step = "stamped" => StampedBy(q.at)'
    BY <1>1, <2>2 DEF RequestOK, StampedBy
  <2>4. RequestOK(q)'
    BY <1>1, <2>2, <2>3, RequestsKeep, TimelineAssumption DEF IInv
  <2>. QED BY <2>1, <2>4 DEF RequestOK
<1>. QED BY <1>2, <1>3, <1>4 DEF IInv

\* The process stops and every request with it.
LEMMA CrashIInv == IInv /\ Crash => IInv'
<1>. SUFFICES ASSUME IInv, Crash PROVE IInv'
  OBVIOUS
<1>1. Resting \in RequestState /\ RequestOK(Resting) /\ Resting.step = "idle"
  BY RestingOK
<1>2. /\ \A r \in Request : req'[r] = Resting
      /\ req' \in [Request -> RequestState]
      /\ writer' = Absent /\ UNCHANGED <<clock, apps, events, born>>
  BY <1>1 DEF Crash, tables
<1>3. TypeOK'
  BY <1>1, <1>2, TimelineAssumption DEF IInv, TypeOK
<1>4. TablesOK'
  BY <1>2 DEF IInv, TablesOK, TimelineTellsStatus, RowExplained, NoRowNoEvents, StampedBy
<1>5. ASSUME NEW r \in Request PROVE RequestOK(req[r])'
  <2>1. PICK q : q = Resting /\ q = req'[r]
    BY <1>2
  <2>2. RequestOK(q)
    BY <1>1, <2>1
  <2>. QED BY <1>2, <2>1, <2>2 DEF RequestOK, ViewOK, StampedBy
<1>. QED BY <1>3, <1>4, <1>5 DEF IInv

\* One request's statement commits: the tables grow, and no request but this one
\* may hold the write lock.
LEMMA CommitIInv ==
  ASSUME IInv, TablesOK', NEW r \in Request,
         req[r].step \notin {"reading", "failed"},
         writer \in {r, Absent} /\ writer' = Absent,
         NEW step \in {"inserted", "done"},
         req' = [req EXCEPT ![r].step = step],
         clock' = clock,
         apps' \in [App -> Row \cup {Absent}], born' \in [App -> Row \cup {Absent}],
         events' \in [App -> Seq(Event)],
         \A a \in App : apps[a] # Absent => apps'[a] # Absent /\ born'[a] = born[a],
         \A a \in App : \A row : Tells(events[a], row) => Tells(events'[a], row)
  PROVE  IInv'
<1>1. TypeOK /\ clock \in Nat
  BY TimelineAssumption DEF IInv, TypeOK
<1>2. PICK q : q = [req[r] EXCEPT !.step = step]
  OBVIOUS
<1>3. req[r] \in RequestState /\ RequestOK(req[r])
  BY Holding
<1>4. /\ q \in RequestState /\ q.step = step /\ q.kind = req[r].kind /\ q.row = req[r].row
      /\ q.view = req[r].view
  BY <1>2, <1>3 DEF RequestState, Step
<1>5. req' = [req EXCEPT ![r] = q]
  BY <1>2
<1>6. /\ req' \in [Request -> RequestState] /\ req'[r] = q
      /\ \A s \in Request \ {r} : req'[s] = req[s]
  <2>1. req \in [Request -> RequestState]
    BY <1>1 DEF TypeOK
  <2>. QED BY <1>4, <1>5, <2>1
<1>7. ASSUME NEW s \in Request \ {r} PROVE req[s].step \notin {"updated", "stamped"}
  <2>1. writer # s
    BY TimelineAssumption
  <2>. QED BY <2>1, Holding
<1>8. TypeOK'
  <2>1. ASSUME NEW s \in Request
        PROVE  req'[s].step \notin {"updated", "stamped"} /\ writer' # s
    BY <1>4, <1>6, <1>7, TimelineAssumption
  <2>. QED BY <1>1, <1>6, <2>1 DEF TypeOK
<1>9. ASSUME NEW s \in Request PROVE RequestOK(req[s])'
  <2>1. PICK p : p = req'[s]
    OBVIOUS
  <2>2. p \in RequestState /\ RequestOK(p) /\ p.step # "stamped"
    <3>1. CASE s = r
      BY <1>3, <1>4, <1>6, <2>1, <3>1 DEF RequestOK
    <3>2. CASE s # r
      BY <1>6, <1>7, <2>1, <3>2, Holding
    <3>. QED BY <3>1, <3>2
  <2>3. RequestOK(p)'
    BY <1>1, <2>2, RequestsKeep
  <2>. QED BY <2>1, <2>3 DEF RequestOK
<1>. QED BY <1>8, <1>9 DEF IInv

LEMMA InsertApplicationIInv ==
  ASSUME IInv, NEW r \in Request, InsertApplication(r)
  PROVE  IInv'
<1>. DEFINE a == req[r].app
            row == req[r].row
<1>1. TypeOK /\ TablesOK /\ req[r] \in RequestState /\ RequestOK(req[r])
  BY Holding
<1>2. /\ req[r].step = "parsed" /\ req[r].kind = "create" /\ writer = Absent /\ apps[a] = Absent
      /\ apps' = [apps EXCEPT ![a] = row] /\ born' = [born EXCEPT ![a] = row]
      /\ req' = [req EXCEPT ![r].step = "inserted"]
      /\ UNCHANGED <<clock, events, writer>>
  BY DEF InsertApplication
<1>3. a \in App /\ row \in Row
  BY <1>1, <1>2 DEF RequestState, RequestOK
<1>. HIDE DEF a, row
<1>4. /\ apps' \in [App -> Row \cup {Absent}] /\ born' \in [App -> Row \cup {Absent}]
      /\ apps'[a] = row /\ born'[a] = row /\ row # Absent
      /\ \A b \in App \ {a} : apps'[b] = apps[b] /\ born'[b] = born[b]
  BY <1>1, <1>2, <1>3, TimelineAssumption DEF TypeOK, Row
<1>5. events[a] = <<>> /\ Generated(events[a]) = {}
  BY <1>1, <1>2, <1>3 DEF TablesOK, NoRowNoEvents, Generated
<1>6. TimelineTellsStatus'
  <2>1. Truthful(events'[a], apps'[a])
    BY <1>2, <1>5 DEF Truthful
  <2>2. \A b \in App \ {a} : Truthful(events'[b], apps'[b])
    BY <1>1, <1>2, <1>4, TellsStatusOfEach DEF TablesOK
  <2>. QED BY <2>1, <2>2, TellsStatusOfEach
<1>7. TablesOK'
  BY <1>1, <1>2, <1>4, <1>6 DEF TablesOK, RowExplained, NoRowNoEvents, StampedBy, Stamps
<1>8. events' \in [App -> Seq(Event)]
  BY <1>1, <1>2 DEF TypeOK
<1>9. \A b \in App : apps[b] # Absent => apps'[b] # Absent /\ born'[b] = born[b]
  BY <1>2, <1>4
<1>. QED BY <1>2, <1>4, <1>7, <1>8, <1>9, CommitIInv

LEMMA InsertEventIInv ==
  ASSUME IInv, NEW r \in Request, InsertEvent(r)
  PROVE  IInv'
<1>. DEFINE a == req[r].app
            e == [tells |-> Absent, at |-> req[r].at]
<1>1. TypeOK /\ TablesOK /\ req[r] \in RequestState /\ RequestOK(req[r])
  BY Holding
<1>2. /\ req[r].step = "loaded" /\ writer = Absent
      /\ events' = [events EXCEPT ![a] = Append(@, e)]
      /\ req' = [req EXCEPT ![r].step = "inserted"]
      /\ UNCHANGED <<clock, apps, writer, born>>
  BY DEF InsertEvent
<1>3. a \in App /\ e \in Event /\ e.tells = Absent /\ apps[a] # Absent
  BY <1>1, <1>2 DEF RequestState, RequestOK, Event
<1>. HIDE DEF a, e
<1>4. events[a] \in Seq(Event) /\ events \in [App -> Seq(Event)]
  BY <1>1, <1>3 DEF TypeOK
<1>5. /\ events'[a] = Append(events[a], e) /\ events'[a] \in Seq(Event)
      /\ \A b \in App \ {a} : events'[b] = events[b]
      /\ events' \in [App -> Seq(Event)]
  BY <1>2, <1>3, <1>4, AppendFacts
<1>6. clock \in Nat
  BY <1>1, TimelineAssumption DEF TypeOK
<1>7. ASSUME NEW b \in App
      PROVE  /\ \A row : Tells(events[b], row) => Tells(events'[b], row)
             /\ Truthful(events'[b], apps[b]) /\ Stamps(events'[b], clock)
  <2>1. Truthful(events[b], apps[b]) /\ Stamps(events[b], clock)
    BY <1>1, TellsStatusOfEach DEF TablesOK, StampedBy
  <2>2. CASE b = a
    <3>1. Stamps(events'[a], clock)
      BY <1>3, <1>4, <1>5, <1>6, <2>1, <2>2, UserEventTruthful
    <3>2. Truthful(events'[a], apps[a])
      BY <1>3, <1>4, <1>5, <1>6, <2>1, <2>2, UserEventTruthful
    <3>3. \A row : Tells(events[a], row) => Tells(events'[a], row)
      BY <1>3, <1>4, <1>5, AppendFacts
    <3>. QED BY <2>2, <3>1, <3>2, <3>3
  <2>3. CASE b # a
    BY <1>5, <2>1, <2>3
  <2>. QED BY <2>2, <2>3
<1>8. TimelineTellsStatus' /\ StampedBy(clock)'
  BY <1>2, <1>7, TellsStatusOfEach DEF StampedBy
<1>9. RowExplained' /\ NoRowNoEvents'
  BY <1>1, <1>2, <1>3, <1>5, <1>7 DEF TablesOK, RowExplained, NoRowNoEvents
<1>10. TablesOK'
  BY <1>8, <1>9 DEF TablesOK
<1>. QED BY <1>1, <1>2, <1>5, <1>7, <1>10, CommitIInv DEF TypeOK

LEMMA CommitUpdateIInv ==
  ASSUME IInv, NEW r \in Request, CommitUpdate(r)
  PROVE  IInv'
<1>. DEFINE a == req[r].app
            row == req[r].row
            e == [tells |-> row, at |-> req[r].at]
<1>1. TypeOK /\ TablesOK /\ req[r] \in RequestState /\ RequestOK(req[r])
  BY Holding
<1>2. /\ req[r].step = "stamped"
      /\ apps' = [apps EXCEPT ![a] = row]
      /\ events' = [events EXCEPT ![a] = Append(@, e)]
      /\ req' = [req EXCEPT ![r].step = "done"]
      /\ writer' = Absent /\ UNCHANGED <<clock, born>>
  BY DEF CommitUpdate
<1>3. /\ a \in App /\ e \in Event /\ e.tells = row /\ row # Absent /\ row \in Row
      /\ apps[a] # Absent /\ e.at <= clock /\ Stamps(events[a], e.at)
  BY <1>1, <1>2 DEF RequestState, RequestOK, Event, StampedBy
<1>4. writer = r
  BY <1>2, Holding
<1>. HIDE DEF a, row, e
<1>5. events[a] \in Seq(Event) /\ events \in [App -> Seq(Event)] /\ clock \in Nat
  BY <1>1, <1>3, TimelineAssumption DEF TypeOK
<1>6. /\ apps' \in [App -> Row \cup {Absent}] /\ apps'[a] = row
      /\ \A b \in App \ {a} : apps'[b] = apps[b]
  BY <1>1, <1>2, <1>3 DEF TypeOK
<1>7. /\ events'[a] = Append(events[a], e) /\ events'[a] \in Seq(Event)
      /\ \A b \in App \ {a} : events'[b] = events[b]
      /\ events' \in [App -> Seq(Event)]
  BY <1>2, <1>3, <1>5, AppendFacts
<1>8. /\ \A told : Tells(events[a], told) => Tells(events'[a], told)
      /\ Tells(events'[a], row)
  BY <1>3, <1>5, <1>7, AppendFacts DEF Tells
<1>9. Truthful(events'[a], row) /\ Stamps(events'[a], clock)
  BY <1>3, <1>5, <1>7, StatusEventTruthful
<1>10. ASSUME NEW b \in App
       PROVE  /\ \A told : Tells(events[b], told) => Tells(events'[b], told)
              /\ Truthful(events'[b], apps'[b]) /\ Stamps(events'[b], clock)
  <2>1. Truthful(events[b], apps[b]) /\ Stamps(events[b], clock)
    BY <1>1, TellsStatusOfEach DEF TablesOK, StampedBy
  <2>2. CASE b = a
    BY <1>6, <1>8, <1>9, <2>2
  <2>3. CASE b # a
    BY <1>6, <1>7, <2>1, <2>3
  <2>. QED BY <2>2, <2>3
<1>11. TimelineTellsStatus' /\ StampedBy(clock)'
  BY <1>2, <1>10, TellsStatusOfEach DEF StampedBy
<1>12. RowExplained' /\ NoRowNoEvents'
  BY <1>1, <1>2, <1>3, <1>6, <1>7, <1>8 DEF TablesOK, RowExplained, NoRowNoEvents
<1>13. TablesOK'
  BY <1>11, <1>12 DEF TablesOK
<1>14. \A b \in App : apps[b] # Absent => apps'[b] # Absent /\ born'[b] = born[b]
  BY <1>2, <1>3, <1>6
<1>15. born' \in [App -> Row \cup {Absent}]
  BY <1>1, <1>2 DEF TypeOK
<1>. QED BY <1>2, <1>4, <1>6, <1>7, <1>10, <1>13, <1>14, <1>15, CommitIInv

-------------------------------------------------------------------------------
(* The invariant *)

LEMMA InitIInv == Init => IInv
<1>. SUFFICES ASSUME Init PROVE IInv
  OBVIOUS
<1>1. Init /\ 0 \in 0..MaxClock /\ Absent \notin Request
  BY TimelineAssumption
<1>2. ASSUME NEW list, list = <<>> PROVE Generated(list) = {} /\ list \in Seq(Event)
  BY <1>2 DEF Generated
<1>3. Resting.step = "idle" /\ Resting \in RequestState /\ RequestOK(Resting)
  BY RestingOK
<1>4. TypeOK
  <2>1. \A r \in Request : req[r].step \notin {"updated", "stamped"} /\ writer # r
    BY <1>1, <1>3 DEF Init
  <2>. QED BY <1>1, <1>2, <1>3, <2>1 DEF Init, TypeOK
<1>5. TablesOK
  BY <1>1, <1>2 DEF Init, TablesOK, TimelineTellsStatus, RowExplained, NoRowNoEvents,
                   StampedBy, Stamps
<1>6. \A r \in Request : RequestOK(req[r])
  BY <1>3 DEF Init
<1>. QED BY <1>4, <1>5, <1>6 DEF IInv

LEMMA NextIInv == IInv /\ [Next]_vars => IInv'
<1>. SUFFICES ASSUME IInv, [Next]_vars PROVE IInv'
  OBVIOUS
<1>1. ASSUME NEW r \in Request, Serve(r) PROVE IInv'
  <2>1. CASE \E kind \in Kind, a \in App, row \in Row \cup {Absent}, at \in 0..MaxClock :
               Submit(r, kind, a, row, at)
    BY <2>1, SubmitIInv
  <2>2. CASE LoadApplication(r)
    BY <2>2, LoadIInv
  <2>3. CASE InsertApplication(r) \/ InsertEvent(r)
    BY <2>3, InsertApplicationIInv, InsertEventIInv
  <2>4. CASE ReadBack(r)
    <3>1. req[r].view.todo = {} /\ writer # r
      BY <2>4, Holding DEF ReadBack, RequestOK
    <3>. QED BY <2>4, <3>1, Holding, MoveIInv DEF ReadBack
  <2>5. CASE UpdateRow(r) \/ InsertStatusEvent(r) \/ CommitUpdate(r)
    BY <2>5, UpdateRowIInv, InsertStatusEventIInv, CommitUpdateIInv
  <2>6. CASE ReadRows(r)
    BY <2>6, ReadRowsIInv
  <2>7. CASE \E a \in App : ReadEvents(r, a)
    BY <2>7, ReadEventsIInv
  <2>8. CASE Render(r)
    <3>1. writer # r
      BY <2>8, Holding DEF Render
    <3>. QED BY <2>8, <3>1, Holding, MoveIInv DEF Render
  <2>9. CASE Fail(r) \/ Finish(r)
    BY <2>9, FailIInv, FinishIInv
  <2>. QED BY <1>1, <2>1, <2>2, <2>3, <2>4, <2>5, <2>6, <2>7, <2>8, <2>9 DEF Serve
<1>2. CASE UNCHANGED vars
  BY <1>2 DEF vars, IInv, TypeOK, TablesOK, TimelineTellsStatus, RowExplained, NoRowNoEvents,
              StampedBy, RequestOK, ViewOK
<1>. QED BY <1>1, <1>2, CrashIInv, TickIInv DEF Next

LEMMA Inductive == Spec => []IInv
<1>. QED BY InitIInv, NextIInv, PTL DEF Spec

-------------------------------------------------------------------------------
(* The theorems *)

\* Rows, timelines, the write lock and the requests in flight keep their types.
THEOREM TypeCorrect == Spec => []TypeOK
<1>1. IInv => TypeOK
  BY DEF IInv
<1>. QED BY <1>1, Inductive, PTL

\* A latest generated event names the application's status and next action.
THEOREM TimelineCorrect == Spec => []TimelineTellsStatus
<1>1. IInv => TimelineTellsStatus
  BY DEF IInv, TablesOK
<1>. QED BY <1>1, Inductive, PTL

\* A page explains each status it shows, though it reads rows and timelines apart.
THEOREM PageCorrect == Spec => []PageExplainsStatus
<1>1. IInv => PageExplainsStatus
  <2>. SUFFICES ASSUME IInv, NEW r \in Request, NEW a \in App,
                       req[r].step = "done", req[r].view.rows[a] # Absent
                PROVE  \/ req[r].view.rows[a] = born[a]
                       \/ Tells(req[r].view.lists[a], req[r].view.rows[a])
    BY DEF PageExplainsStatus, Tells
  <2>. QED BY DEF IInv, RequestOK, ViewOK
<1>. QED BY <1>1, Inductive, PTL
===============================================================================
