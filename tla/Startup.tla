------------------------------- MODULE Startup --------------------------------
(***************************************************************************)
(* One server process from main (cmd/jobhunt-os/main.go) to its exit, and  *)
(* started again: the configuration, the database, the HTTP listener in a  *)
(* goroutine of its own, signals, the graceful shutdown with its timeout   *)
(* and the connections it waits for.  net/http and os/signal are external: *)
(* they are modelled from how main sets them up and calls them.  Time      *)
(* passes in units of five seconds.                                        *)
(***************************************************************************)
EXTENDS Configuration

CONSTANTS
  Environment,  \* the environments the process may be started in
  Connection,   \* the connections of its clients
  NoConfig,     \* the configuration of a process that has none
  MaxFaults     \* bound on failing steps and crashes

\* A user name is given or not; a duration has a number.
ASSUME EnvironmentAssumption ==
  \A e \in Environment :
    /\ e.username \in BOOLEAN
    /\ e.idle # Unset => e.idle.n \in Int
    /\ e.absolute # Unset => e.absolute.n \in Int

ASSUME FaultAssumption == MaxFaults \in Nat

VARIABLES
  env,       \* the environment; an operator who changes it starts a new behaviour
  cfg,       \* what Load made of it
  main,      \* where the main goroutine is
  db,        \* the database handle: "none", "open" or "closed"
  listener,  \* the goroutine of ListenAndServe and what errCh holds
  signalled, \* the context of NotifyContext is done
  stopped,   \* the operator asked for a stop: the container is not restarted
  timer,     \* time since the shutdown began
  conn,      \* conn[c]: a connection as the server sees it
  exit,      \* how the last process ended
  faults     \* steps that failed so far

vars == <<env, cfg, main, db, listener, signalled, stopped, timer, conn, exit, faults>>

ReadTimeout == 1
WriteTimeout == 2

\* Mutant: half of it.
ShutdownTimeout_Short == 1
ShutdownTimeout == 2

Fresh(step) == [step |-> step, age |-> 0, late |-> FALSE, open |-> FALSE]
NoConnection == Fresh("none")

Step == {"none", "new", "idle", "handling"}

ConnectionState ==
  [step : Step, age : 0..WriteTimeout, late : BOOLEAN, open : BOOLEAN]

TypeOK ==
  /\ env \in Environment
  /\ cfg = NoConfig \/ (cfg = Load(env) /\ cfg # Refused)
  /\ main \in {"down", "configured", "opened", "migrated", "serving", "draining",
               "closing", "leaving"}
  /\ db \in {"none", "open", "closed"}
  /\ listener \in {"none", "starting", "open", "failed", "closed"}
  /\ signalled \in BOOLEAN /\ stopped \in BOOLEAN
  /\ timer \in 0..ShutdownTimeout
  /\ conn \in [Connection -> ConnectionState]
  /\ exit \in {"none", "0", "1", "panic", "killed"}
  /\ faults \in 0..MaxFaults

Init ==
  /\ env \in Environment
  /\ cfg = NoConfig /\ main = "down" /\ db = "none" /\ listener = "none"
  /\ signalled = FALSE /\ stopped = FALSE /\ timer = 0
  /\ conn = [c \in Connection |-> NoConnection]
  /\ exit = "none" /\ faults = 0

\* The process ends: its goroutines and connections end with it, and no deferred
\* call runs.
Exit(code) ==
  /\ main' = "down" /\ exit' = code
  /\ cfg' = NoConfig /\ db' = "none" /\ listener' = "none"
  /\ signalled' = FALSE /\ timer' = 0
  /\ conn' = [c \in Connection |-> NoConnection]

Fault == faults < MaxFaults /\ faults' = faults + 1

-------------------------------------------------------------------------------
(* From main's first line to the select *)

\* The restart policy, or a shell, starts the process; what Load refuses ends it.
Start ==
  /\ main = "down" /\ ~stopped
  /\ IF Load(env) = Refused
     THEN Exit("1")
     ELSE /\ main' = "configured" /\ cfg' = Load(env)
          /\ UNCHANGED <<db, listener, signalled, timer, conn, exit>>
  /\ UNCHANGED <<env, stopped, faults>>

OpenDatabase ==
  /\ main = "configured"
  /\ main' = "opened" /\ db' = "open"
  /\ UNCHANGED <<env, cfg, listener, signalled, stopped, timer, conn, exit, faults>>

Migrate ==
  /\ main = "opened"
  /\ main' = "migrated"
  /\ UNCHANGED <<env, cfg, db, listener, signalled, stopped, timer, conn, exit, faults>>

\* Either of the two fails: os.Exit(1).
StartFails ==
  /\ main \in {"configured", "opened"}
  /\ Fault /\ Exit("1")
  /\ UNCHANGED <<env, stopped>>

\* NewWithOptions, NotifyContext and the goroutine.
NewServer ==
  /\ main = "migrated"
  /\ IF Panics(cfg)
     THEN Exit("panic")
     ELSE /\ main' = "serving" /\ listener' = "starting"
          /\ UNCHANGED <<cfg, db, signalled, timer, conn, exit>>
  /\ UNCHANGED <<env, stopped, faults>>

-------------------------------------------------------------------------------
(* The goroutine of ListenAndServe *)

\* A server that is shutting down refuses to serve: ErrServerClosed.
Listen ==
  /\ listener = "starting"
  /\ listener' = IF main = "serving" THEN "open" ELSE "closed"
  /\ UNCHANGED <<env, cfg, main, db, signalled, stopped, timer, conn, exit, faults>>

\* The address is taken, or Accept fails: the error goes to errCh.
ListenerFails ==
  /\ listener = "starting" \/ (listener = "open" /\ main = "serving")
  /\ Fault /\ listener' = "failed"
  /\ UNCHANGED <<env, cfg, main, db, signalled, stopped, timer, conn, exit>>

-------------------------------------------------------------------------------
(* The select, the shutdown and the return of main *)

\* Mutant: the error of the listener is lost.
ServerStopped_ErrorLost ==
  /\ main = "serving" /\ listener = "failed" /\ signalled
  /\ Exit("1")
  /\ UNCHANGED <<env, stopped, faults>>

\* errCh is ready first, or chosen when both are: os.Exit(1) under running handlers.
ServerStopped ==
  /\ main = "serving" /\ listener = "failed"
  /\ Exit("1")
  /\ UNCHANGED <<env, stopped, faults>>

\* Shutdown closes the listener before it looks at any connection.
BeginShutdown ==
  /\ main = "serving" /\ signalled
  /\ main' = "draining" /\ timer' = 0
  /\ listener' = IF listener = "open" THEN "closed" ELSE listener
  /\ UNCHANGED <<env, cfg, db, signalled, stopped, conn, exit, faults>>

\* It closes the connections it finds idle ...
CloseIdle(c) ==
  /\ main = "draining" /\ conn[c].step = "idle"
  /\ conn' = [conn EXCEPT ![c] = NoConnection]
  /\ UNCHANGED <<env, cfg, main, db, listener, signalled, stopped, timer, exit, faults>>

\* ... and returns nil once there is none of any kind.
ShutdownDone ==
  /\ main = "draining"
  /\ \A c \in Connection : conn[c].step = "none"
  /\ main' = "closing"
  /\ UNCHANGED <<env, cfg, db, listener, signalled, stopped, timer, conn, exit, faults>>

\* Mutant: main returns on every outcome of Shutdown, through the deferred calls.
ShutdownTimesOut_Returns ==
  /\ main = "draining" /\ timer = ShutdownTimeout
  /\ main' = "closing"
  /\ UNCHANGED <<env, cfg, db, listener, signalled, stopped, timer, conn, exit, faults>>

\* Mutant: Shutdown is given no deadline.
ShutdownTimesOut_Never ==
  /\ main = "draining" /\ timer > ShutdownTimeout
  /\ Exit("1")
  /\ UNCHANGED <<env, stopped, faults>>

ShutdownTimesOut ==
  /\ main = "draining" /\ timer = ShutdownTimeout
  /\ Exit("1")
  /\ UNCHANGED <<env, stopped, faults>>

\* The deferred calls, last one first: signals are back to their default action
\* before the database is closed.
CloseDatabase ==
  /\ main = "closing"
  /\ main' = "leaving" /\ db' = "closed"
  /\ UNCHANGED <<env, cfg, listener, signalled, stopped, timer, conn, exit, faults>>

Return ==
  /\ main = "leaving"
  /\ Exit("0")
  /\ UNCHANGED <<env, stopped, faults>>

-------------------------------------------------------------------------------
(* Connections *)

Accept(c) ==
  /\ listener = "open" /\ conn[c].step = "none"
  /\ conn' = [conn EXCEPT ![c] = Fresh("new")]
  /\ UNCHANGED <<env, cfg, main, db, listener, signalled, stopped, timer, exit, faults>>

\* A request's header is read; its answer may be written until WriteTimeout.  The
\* handler runs with credentials or, where ServeHTTP asks for none, without.  Whether
\* a header that arrives during the shutdown still gets a handler is left to net/http:
\* it may also go the way of CloseIdle, Leave and ReadTimesOut.
ReadHeader(c, page) ==
  /\ conn[c].step \in {"new", "idle"}
  /\ conn' = [conn EXCEPT ![c] =
       [step |-> "handling", age |-> 0, late |-> main = "draining",
        open |-> page = "application" /\ ~NeedsCredentials(cfg, page)]]
  /\ UNCHANGED <<env, cfg, main, db, listener, signalled, stopped, timer, exit, faults>>

\* The handler returns: the connection is kept, unless the server is shutting down
\* or the client asked to close it.
Finish(c) ==
  /\ conn[c].step = "handling"
  /\ \E step \in IF main = "serving" THEN {"idle", "none"} ELSE {"none"} :
       conn' = [conn EXCEPT ![c] = Fresh(step)]
  /\ UNCHANGED <<env, cfg, main, db, listener, signalled, stopped, timer, exit, faults>>

\* The client leaves, or an idle connection reaches its two minutes.
Leave(c) ==
  /\ conn[c].step \in {"new", "idle"}
  /\ conn' = [conn EXCEPT ![c] = NoConnection]
  /\ UNCHANGED <<env, cfg, main, db, listener, signalled, stopped, timer, exit, faults>>

\* No header within the read timeout.
ReadTimesOut(c) ==
  /\ conn[c].step = "new" /\ conn[c].age >= ReadTimeout
  /\ conn' = [conn EXCEPT ![c] = NoConnection]
  /\ UNCHANGED <<env, cfg, main, db, listener, signalled, stopped, timer, exit, faults>>

-------------------------------------------------------------------------------
(* The world around the process *)

\* SIGINT or SIGTERM, from the operator: NotifyContext takes the first one, ignores
\* those after it, and leaves the process to its default action before and after.
Signal ==
  /\ stopped' = TRUE
  /\ \/ /\ main = "down"
        /\ UNCHANGED <<cfg, main, db, listener, signalled, timer, conn, exit>>
     \/ /\ main \in {"serving", "draining"}
        /\ signalled' = TRUE
        /\ UNCHANGED <<cfg, main, db, listener, timer, conn, exit>>
     \/ /\ main \notin {"down", "serving", "draining"}
        /\ Exit("killed")
  /\ UNCHANGED <<env, faults>>

\* The operator starts a stopped program again.
Restart ==
  /\ main = "down" /\ stopped
  /\ stopped' = FALSE
  /\ UNCHANGED <<env, cfg, main, db, listener, signalled, timer, conn, exit, faults>>

\* SIGKILL, a power cut.
Crash ==
  /\ main # "down"
  /\ Fault /\ Exit("killed")
  /\ UNCHANGED <<env, stopped>>

Older(age) == IF age < WriteTimeout THEN age + 1 ELSE age

\* Ages stop at WriteTimeout, after which nothing looks at them.
Tick ==
  LET Aging(c) == conn[c].step \in {"new", "handling"} IN
  /\ \/ main = "draining" /\ timer < ShutdownTimeout
     \/ main # "draining" /\ \E c \in Connection : Aging(c) /\ conn[c].age < WriteTimeout
  /\ timer' = IF main = "draining" THEN timer + 1 ELSE timer
  /\ conn' = [c \in Connection |->
                IF Aging(c) THEN [conn[c] EXCEPT !.age = Older(@)] ELSE conn[c]]
  /\ UNCHANGED <<env, cfg, main, db, listener, signalled, stopped, exit, faults>>

-------------------------------------------------------------------------------

Main ==
  \/ Start \/ OpenDatabase \/ Migrate \/ NewServer
  \/ ServerStopped \/ BeginShutdown \/ ShutdownDone \/ ShutdownTimesOut
  \/ CloseDatabase \/ Return

Next ==
  \/ Main \/ StartFails \/ Listen \/ ListenerFails
  \/ \E c \in Connection :
       \/ Accept(c) \/ Finish(c) \/ Leave(c) \/ ReadTimesOut(c) \/ CloseIdle(c)
       \/ \E page \in Page : ReadHeader(c, page)
  \/ Signal \/ Restart \/ Crash \/ Tick

\* The scheduler runs main, the goroutine of the listener and the server's own
\* timers; handlers and clients may take for ever.
Fairness ==
  /\ WF_vars(Main) /\ WF_vars(Listen) /\ WF_vars(Tick)
  /\ \A c \in Connection : WF_vars(CloseIdle(c)) /\ WF_vars(ReadTimesOut(c))

Spec == Init /\ [][Next]_vars /\ Fairness

-------------------------------------------------------------------------------
(* Properties *)

\* An application page is handled without credentials only on a loopback address,
\* or when both overrides were set: the mode, the address and the two flags are
\* checked in config, the credentials in the server, and they have to agree.
ProtectedOnNetwork ==
  \A c \in Connection :
    conn[c].open =>
      \/ isLoopbackAddr(env.addr)
      \/ IsTrue(env.allowNetwork) /\ IsTrue(env.allowInsecureNoAuth)

AtMostTyped(limit, text) ==
  text # Unset /\ text.unit = "days" /\ text.n >= 0 => limit <= text.n * Day

\* What Load accepts works: the server built from it does not panic, its password
\* hash can match a password, and the session limits are positive and never longer
\* than the count of days typed, also where it overflows.  (A negative count may
\* overflow to a positive limit.)
AcceptedConfigWorks ==
  /\ exit # "panic"
  /\ cfg # NoConfig =>
       /\ cfg.mode # "disabled" => Verifiable(cfg.hash)
       /\ cfg.idle > 0 /\ cfg.absolute > 0
       /\ AtMostTyped(cfg.idle, env.idle) /\ AtMostTyped(cfg.absolute, env.absolute)

\* No handler runs in a process that has closed its database: only a shutdown that
\* has seen every connection end reaches the deferred close.
DatabaseClosedQuietly ==
  db = "closed" => \A c \in Connection : conn[c].step = "none"

\* A shutdown that times out abandons no request whose answer could still be
\* written: the header of each request it finds running was read during the
\* shutdown, or longer ago than the write timeout.
AnswersOutliveShutdown ==
  [][main = "draining" /\ exit' = "1" /\ main' = "down" =>
       \A c \in Connection :
         conn[c].step = "handling" /\ ~conn[c].late => conn[c].age >= WriteTimeout]_vars

\* A signal that the process has taken ends it, though handlers may hang and
\* clients may keep their connections.
SignalStops == signalled ~> main = "down"

Serving == main = "serving" /\ listener = "open"

\* Under a restart policy the program comes to serve whenever it is not stopped:
\* a configuration that is accepted, failing starts and a listener that fails while
\* the process runs never leave it up and deaf.
ComesUpAgain == Load(env) # Refused => []<>(stopped \/ Serving)
===============================================================================
