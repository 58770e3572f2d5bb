---------------------------- MODULE StartupProofs -----------------------------
(***************************************************************************)
(* Theorems about Startup, for every set of environments and connections.  *)
(*                                                                         *)
(* Two lemmas say what a configuration that Load accepts is good for; the  *)
(* inductive invariant then carries them through the life of the process,  *)
(* with what the shutdown knows of the connections it waits for.           *)
(***************************************************************************)
EXTENDS Startup, TLAPS

-------------------------------------------------------------------------------
(* Accepted configurations *)

\* A word holds an integer, and never more than the natural number put into it.
LEMMA WrapBounds ==
  ASSUME NEW x \in Int
  PROVE  Wrap(x) \in Int /\ (x >= 0 => Wrap(x) <= x)
<1> DEFINE m == 2 * HalfWord
           y == x + HalfWord
<1>1. m \in Nat /\ m > 0 /\ y \in Int
  BY WidthAssumption
<1>0. Wrap(x) = (y % m) - HalfWord /\ y = x + HalfWord
  BY DEF Wrap
<1> HIDE DEF m, y
<1>2. y % m \in 0..m-1
  BY <1>1
<1>3. ASSUME y >= 0 PROVE y % m <= y
  <2>1. CASE y < m
    BY <1>1, <2>1, <1>3, Z3
  <2>2. CASE y >= m
    BY <1>1, <1>2, <2>2
  <2>. QED BY <2>1, <2>2, <1>1
<1>. QED BY <1>0, <1>1, <1>2, <1>3, WidthAssumption

\* A session limit that is accepted is positive, and bounded by what was typed.
LEMMA AcceptedDuration ==
  ASSUME NEW text, text # Unset => text.n \in Int,
         NEW fallback \in Int, fallback > 0,
         parseOptionalDuration(text, fallback) # Refused
  PROVE  /\ parseOptionalDuration(text, fallback) > 0
         /\ AtMostTyped(parseOptionalDuration(text, fallback), text)
<1>1. CASE text = Unset
  BY <1>1 DEF parseOptionalDuration, AtMostTyped
<1>2. CASE text # Unset
  <2>1. /\ parseOptionalDuration(text, fallback) = parseDuration(text)
        /\ ~(parseDuration(text) <= 0)
    BY <1>2 DEF parseOptionalDuration
  <2>2. text.n * Day \in Int /\ (text.n >= 0 => text.n * Day >= 0)
    BY <1>2, WidthAssumption
  <2>3. CASE text.unit = "days"
    <3>1. parseDuration(text) = Wrap(text.n * Day)
      BY <2>3 DEF parseDuration
    <3>. QED BY <2>1, <2>2, <3>1, WrapBounds DEF AtMostTyped
  <2>4. CASE text.unit # "days"
    BY <1>2, <2>1, <2>4 DEF parseDuration, AtMostTyped
  <2>. QED BY <2>3, <2>4
<1>. QED BY <1>1, <1>2

\* What Load checked of the fields of the configuration it returns.
LEMMA LoadChecked ==
  ASSUME NEW e, Load(e) # Refused
  PROVE  LET c == Load(e) IN
         /\ c.mode \in {"disabled", "login", "basic"}
         /\ c.mode = "disabled" => IsTrue(e.allowInsecureNoAuth) \/ isLoopbackAddr(e.addr)
         /\ c.mode # "disabled" =>
              e.username /\ c.username /\ c.hash # Unset /\ ParsePasswordHash(c.hash) # Refused
         /\ IsTrue(e.allowNetwork) \/ isLoopbackAddr(e.addr)
         /\ c.idle = parseOptionalDuration(e.idle, DefaultIdle) /\ c.idle # Refused
         /\ c.absolute = parseOptionalDuration(e.absolute, DefaultAbsolute)
         /\ c.absolute # Refused
<1> DEFINE mode == parseAuthMode(e)
           hash == resolveAuthPasswordHash(e, mode)
<1>1. /\ Load(e) = [mode |-> mode,
                    username |-> IF mode = "disabled" THEN FALSE ELSE e.username,
                    hash |-> IF mode = "disabled" THEN Unset ELSE hash,
                    idle |-> parseOptionalDuration(e.idle, DefaultIdle),
                    absolute |-> parseOptionalDuration(e.absolute, DefaultAbsolute)]
      /\ mode \in {"disabled", "login", "basic"}
      /\ validateAuthConfig(e, mode, hash)
      /\ ValidateAddr(e.addr, IsTrue(e.allowNetwork))
      /\ parseOptionalDuration(e.idle, DefaultIdle) # Refused
      /\ parseOptionalDuration(e.absolute, DefaultAbsolute) # Refused
  BY Zenon DEF Load
<1> HIDE DEF mode, hash
<1>2. mode = "disabled" => IsTrue(e.allowInsecureNoAuth) \/ isLoopbackAddr(e.addr)
  BY <1>1 DEF validateAuthConfig
<1>3. mode # "disabled" => e.username /\ hash # Unset /\ ParsePasswordHash(hash) # Refused
  BY <1>1 DEF validateAuthConfig
<1>4. IsTrue(e.allowNetwork) \/ isLoopbackAddr(e.addr)
  BY <1>1, Zenon DEF ValidateAddr
<1>5. /\ Load(e).mode = mode
      /\ Load(e).hash = IF mode = "disabled" THEN Unset ELSE hash
      /\ Load(e).idle = parseOptionalDuration(e.idle, DefaultIdle)
      /\ Load(e).absolute = parseOptionalDuration(e.absolute, DefaultAbsolute)
  BY <1>1
<1>6. mode # "disabled" => Load(e).username
  <2>. SUFFICES ASSUME mode # "disabled" PROVE Load(e).username
    OBVIOUS
  <2>1. Load(e).username = e.username
    BY <1>1
  <2>. QED BY <2>1, <1>3
<1>7. mode # "disabled" => Load(e).hash = hash
  BY <1>5
<1>. QED BY <1>1, <1>2, <1>3, <1>4, <1>5, <1>6, <1>7

\* An accepted configuration works.
LEMMA AcceptedLemma ==
  ASSUME NEW e \in Environment, Load(e) # Refused
  PROVE  LET c == Load(e) IN
         /\ ~Panics(c)
         /\ c.mode # "disabled" => Verifiable(c.hash)
         /\ c.idle > 0 /\ c.absolute > 0
         /\ AtMostTyped(c.idle, e.idle) /\ AtMostTyped(c.absolute, e.absolute)
<1> DEFINE c == Load(e)
<1>1. /\ c.mode \in {"disabled", "login", "basic"}
      /\ c.mode # "disabled" =>
           c.username /\ c.hash # Unset /\ ParsePasswordHash(c.hash) # Refused
      /\ c.idle = parseOptionalDuration(e.idle, DefaultIdle) /\ c.idle # Refused
      /\ c.absolute = parseOptionalDuration(e.absolute, DefaultAbsolute)
      /\ c.absolute # Refused
  BY LoadChecked
<1> HIDE DEF c
<1>2. ~Panics(c)
  BY <1>1 DEF Panics, authMode, Authenticator, HasSessionStore
<1>3. c.mode # "disabled" => Verifiable(c.hash)
  BY <1>1, WidthAssumption
     DEF ParsePasswordHash, Verifiable, Argon2idMemoryKiB, Argon2idTime,
         Argon2idParallelism, DefaultIterations, SaltBytes, KeyBytes
<1>4. DefaultIdle \in Int /\ DefaultIdle > 0 /\ DefaultAbsolute \in Int /\ DefaultAbsolute > 0
  BY WidthAssumption DEF DefaultIdle, DefaultAbsolute
<1>5. c.idle > 0 /\ AtMostTyped(c.idle, e.idle)
  BY <1>1, <1>4, AcceptedDuration, EnvironmentAssumption
<1>6. c.absolute > 0 /\ AtMostTyped(c.absolute, e.absolute)
  BY <1>1, <1>4, AcceptedDuration, EnvironmentAssumption
<1>. QED BY <1>2, <1>3, <1>5, <1>6 DEF c

Protected(e) ==
  isLoopbackAddr(e.addr) \/ (IsTrue(e.allowNetwork) /\ IsTrue(e.allowInsecureNoAuth))

\* Where the server asks for no credentials, config saw a loopback address or both
\* overrides.
LEMMA ProtectedLemma ==
  ASSUME NEW e, Load(e) # Refused, ~NeedsCredentials(Load(e), "application")
  PROVE  Protected(e)
<1>1. Load(e).mode \in {"disabled", "login", "basic"}
  BY LoadChecked
<1>2. Load(e).mode = "disabled"
  BY <1>1 DEF NeedsCredentials, authMode
<1>. QED BY <1>2, LoadChecked, Zenon DEF Protected

-------------------------------------------------------------------------------
(* The inductive invariant *)

ConfigOf ==
  /\ env \in Environment
  /\ main # "down" => cfg = Load(env) /\ cfg # Refused
  /\ main = "down" => cfg = NoConfig
  /\ exit # "panic"

\* Connections exist while the process serves or drains, the listener is open
\* while it serves, and the database is closed last.
Lifecycle ==
  /\ main \in {"down", "configured", "opened", "migrated", "serving", "draining",
               "closing", "leaving"}
  /\ listener = "open" => main = "serving"
  /\ db = "closed" => main = "leaving"
  /\ main \notin {"serving", "draining"} => \A c \in Connection : conn[c] = NoConnection

Connections ==
  /\ conn \in [Connection -> ConnectionState]
  /\ \A c \in Connection : conn[c].step = "none" => conn[c] = NoConnection
  /\ \A c \in Connection : conn[c].open => Protected(env)

\* Whatever was running when the shutdown began has run at least as long as it.
Aged ==
  /\ timer \in 0..ShutdownTimeout
  /\ main = "draining" =>
       \A c \in Connection :
         conn[c].step = "handling" /\ ~conn[c].late => conn[c].age >= timer

Rest ==
  /\ db \in {"none", "open", "closed"}
  /\ listener \in {"none", "starting", "open", "failed", "closed"}
  /\ signalled \in BOOLEAN /\ stopped \in BOOLEAN
  /\ exit \in {"none", "0", "1", "panic", "killed"}
  /\ faults \in 0..MaxFaults

IInv == ConfigOf /\ Lifecycle /\ Connections /\ Aged /\ Rest

LEMMA FreshTyped ==
  ASSUME NEW step \in Step
  PROVE  /\ Fresh(step) \in ConnectionState
         /\ Fresh(step).step = step /\ Fresh(step).open = FALSE
BY DEF Fresh, ConnectionState, WriteTimeout

LEMMA NoConnectionTyped ==
  NoConnection \in ConnectionState /\ NoConnection.step = "none" /\ NoConnection.open = FALSE
BY FreshTyped DEF NoConnection, Step

LEMMA InitIInv == Init => IInv
<1>. SUFFICES ASSUME Init PROVE IInv
  OBVIOUS
<1>1. ConfigOf /\ Rest
  <2>1. ConfigOf
    BY DEF Init, ConfigOf
  <2>2. Rest
    <3>1. 0 \in 0..MaxFaults
      BY FaultAssumption
    <3>. QED BY <3>1, Zenon DEF Init, Rest
  <2>. QED BY <2>1, <2>2
<1>2. Lifecycle
  BY DEF Init, Lifecycle
<1>3. Aged
  BY DEF Init, Aged, ShutdownTimeout
<1>4. Connections
  BY NoConnectionTyped DEF Init, Connections
<1>. QED BY <1>1, <1>2, <1>3, <1>4 DEF IInv

\* A process that ends leaves nothing behind.
LEMMA ExitIInv ==
  ASSUME IInv, NEW code \in {"0", "1", "killed"}, Exit(code),
         env' = env, stopped' \in BOOLEAN, faults' \in 0..MaxFaults
  PROVE  IInv'
<1>1. ConfigOf' /\ Rest'
  BY DEF IInv, Exit, ConfigOf, Rest
<1>2. Lifecycle'
  BY DEF Exit, Lifecycle
<1>3. Aged'
  BY DEF Exit, Aged, ShutdownTimeout
<1>4. Connections'
  BY NoConnectionTyped DEF Exit, Connections
<1>. QED BY <1>1, <1>2, <1>3, <1>4 DEF IInv

\* A step of one connection c, which leaves everything else alone.
LEMMA ConnectionIInv ==
  ASSUME IInv, NEW c \in Connection, NEW new \in ConnectionState,
         main \in {"serving", "draining"},
         conn' = [conn EXCEPT ![c] = new],
         UNCHANGED <<env, cfg, main, db, listener, signalled, stopped, timer, exit, faults>>,
         new.step = "none" => new = NoConnection,
         new.open => Protected(env),
         main = "draining" /\ new.step = "handling" /\ ~new.late => new.age >= timer
  PROVE  IInv'
<1>1. conn \in [Connection -> ConnectionState]
  BY DEF IInv, Connections
<1>2. /\ conn' \in [Connection -> ConnectionState]
      /\ \A k \in Connection : conn'[k] = IF k = c THEN new ELSE conn[k]
  BY <1>1
<1>3. ConfigOf' /\ Lifecycle' /\ Rest'
  BY DEF IInv, ConfigOf, Lifecycle, Rest
<1>4. Connections'
  BY <1>2 DEF IInv, Connections, Protected
<1>5. Aged'
  BY <1>2 DEF IInv, Aged
<1>. QED BY <1>3, <1>4, <1>5 DEF IInv

LEMMA NextIInv == IInv /\ [Next]_vars => IInv'
<1>. SUFFICES ASSUME IInv, [Next]_vars PROVE IInv'
  OBVIOUS
<1>. USE DEF IInv
<1>1. CASE Start
  <2>1. CASE Load(env) = Refused
    BY <1>1, <2>1, ExitIInv DEF Start, Rest
  <2>2. CASE Load(env) # Refused
    <3>1. ConfigOf' /\ Lifecycle' /\ Aged' /\ Rest'
      BY <1>1, <2>2 DEF Start, ConfigOf, Lifecycle, Aged, Rest
    <3>2. Connections'
      BY <1>1, <2>2 DEF Start, Connections, Protected
    <3>. QED BY <3>1, <3>2
  <2>. QED BY <2>1, <2>2
<1>2. CASE OpenDatabase \/ Migrate \/ Listen
  <2>1. ConfigOf' /\ Lifecycle' /\ Aged' /\ Rest'
    BY <1>2 DEF OpenDatabase, Migrate, Listen, ConfigOf, Lifecycle, Aged, Rest
  <2>2. Connections'
    BY <1>2 DEF OpenDatabase, Migrate, Listen, Connections, Protected
  <2>. QED BY <2>1, <2>2
<1>3. CASE NewServer
  <2>1. ~Panics(cfg)
    BY <1>3, AcceptedLemma DEF NewServer, ConfigOf
  <2>2. ConfigOf' /\ Lifecycle' /\ Aged' /\ Rest'
    BY <1>3, <2>1 DEF NewServer, ConfigOf, Lifecycle, Aged, Rest
  <2>3. Connections'
    BY <1>3, <2>1 DEF NewServer, Connections, Protected
  <2>. QED BY <2>2, <2>3
<1>4. CASE StartFails \/ Crash
  <2>1. faults' \in 0..MaxFaults
    BY <1>4, FaultAssumption DEF StartFails, Crash, Fault, Rest
  <2>2. /\ \E code \in {"1", "killed"} : Exit(code)
        /\ env' = env /\ stopped' \in BOOLEAN
    BY <1>4 DEF StartFails, Crash, Rest
  <2>. QED BY <2>1, <2>2, ExitIInv
<1>5. CASE ListenerFails
  <2>1. faults' \in 0..MaxFaults
    BY <1>5, FaultAssumption DEF ListenerFails, Fault, Rest
  <2>2. ConfigOf' /\ Lifecycle' /\ Aged' /\ Rest'
    BY <1>5, <2>1 DEF ListenerFails, ConfigOf, Lifecycle, Aged, Rest
  <2>3. Connections'
    BY <1>5 DEF ListenerFails, Connections, Protected
  <2>. QED BY <2>2, <2>3
<1>6. CASE ServerStopped \/ ShutdownTimesOut \/ Return
  BY <1>6, ExitIInv DEF ServerStopped, ShutdownTimesOut, Return, Rest
<1>7. CASE BeginShutdown
  <2>1. ConfigOf' /\ Lifecycle' /\ Rest'
    BY <1>7 DEF BeginShutdown, ConfigOf, Lifecycle, Rest
  <2>2. Connections'
    BY <1>7 DEF BeginShutdown, Connections, Protected
  <2>3. Aged'
    BY <1>7 DEF BeginShutdown, Aged, Connections, ConnectionState, ShutdownTimeout, WriteTimeout
  <2>. QED BY <2>1, <2>2, <2>3
<1>8. CASE ShutdownDone \/ CloseDatabase
  <2>1. ConfigOf' /\ Lifecycle' /\ Aged' /\ Rest'
    BY <1>8 DEF ShutdownDone, CloseDatabase, ConfigOf, Lifecycle, Connections, Aged, Rest
  <2>2. Connections'
    BY <1>8 DEF ShutdownDone, CloseDatabase, Connections, Protected
  <2>. QED BY <2>1, <2>2
<1>9. ASSUME NEW c \in Connection,
             Accept(c) \/ Finish(c) \/ Leave(c) \/ ReadTimesOut(c) \/ CloseIdle(c)
               \/ \E page \in Page : ReadHeader(c, page)
      PROVE  IInv'
  <2>0. main \in {"serving", "draining"}
    BY <1>9 DEF Accept, Finish, Leave, ReadTimesOut, CloseIdle, ReadHeader, Lifecycle, NoConnection, Fresh
  <2>1. CASE Accept(c)
    BY <2>0, <2>1, FreshTyped, ConnectionIInv DEF Accept, Step
  <2>2. CASE Finish(c)
    <3>1. PICK step \in {"idle", "none"} : conn' = [conn EXCEPT ![c] = Fresh(step)]
      BY <2>2 DEF Finish
    <3>2. /\ Fresh(step) \in ConnectionState
          /\ Fresh(step).step = step /\ Fresh(step).open = FALSE
          /\ step = "none" => Fresh(step) = NoConnection
      BY FreshTyped DEF Step, NoConnection
    <3>. QED BY <2>0, <2>2, <3>1, <3>2, ConnectionIInv DEF Finish
  <2>3. CASE Leave(c) \/ ReadTimesOut(c) \/ CloseIdle(c)
    BY <2>0, <2>3, NoConnectionTyped, ConnectionIInv DEF Leave, ReadTimesOut, CloseIdle
  <2>4. CASE \E page \in Page : ReadHeader(c, page)
    <3>1. PICK page \in Page : ReadHeader(c, page)
      BY <2>4
    <3> DEFINE new == [step |-> "handling", age |-> 0, late |-> main = "draining",
                       open |-> page = "application" /\ ~NeedsCredentials(cfg, page)]
    <3>2. new \in ConnectionState /\ new.step = "handling"
      BY DEF ConnectionState, Step, WriteTimeout
    <3>3. new.open => Protected(env)
      BY <2>0, <3>1, ProtectedLemma DEF ConfigOf
    <3>4. main = "draining" => new.late
      OBVIOUS
    <3>5. conn' = [conn EXCEPT ![c] = new]
      BY <3>1 DEF ReadHeader
    <3> HIDE DEF new
    <3>. QED BY <2>0, <3>1, <3>2, <3>3, <3>4, <3>5, ConnectionIInv DEF ReadHeader
  <2>. QED BY <1>9, <2>1, <2>2, <2>3, <2>4
<1>10. CASE Signal
  <2>1. CASE main = "down"
    <3>1. ConfigOf' /\ Lifecycle' /\ Aged' /\ Rest'
      BY <1>10, <2>1 DEF Signal, ConfigOf, Lifecycle, Aged, Rest
    <3>2. Connections'
      BY <1>10, <2>1 DEF Signal, Connections, Protected
    <3>. QED BY <3>1, <3>2
  <2>2. CASE main \in {"serving", "draining"}
    <3>1. ConfigOf' /\ Lifecycle' /\ Aged' /\ Rest'
      BY <1>10, <2>2 DEF Signal, ConfigOf, Lifecycle, Aged, Rest
    <3>2. Connections'
      BY <1>10, <2>2 DEF Signal, Connections, Protected
    <3>. QED BY <3>1, <3>2
  <2>3. CASE main \notin {"down", "serving", "draining"}
    BY <1>10, <2>3, ExitIInv DEF Signal, Rest
  <2>. QED BY <2>1, <2>2, <2>3
<1>11. CASE Restart
  <2>1. ConfigOf' /\ Lifecycle' /\ Aged' /\ Rest'
    BY <1>11 DEF Restart, ConfigOf, Lifecycle, Aged, Rest
  <2>2. Connections'
    BY <1>11 DEF Restart, Connections, Protected
  <2>. QED BY <2>1, <2>2
<1>12. CASE Tick
  <2>1. conn \in [Connection -> ConnectionState]
    BY DEF Connections
  <2>2. ASSUME NEW k \in Connection
        PROVE  /\ conn'[k] \in ConnectionState
               /\ conn'[k].step = conn[k].step /\ conn'[k].open = conn[k].open
               /\ conn'[k].late = conn[k].late
               /\ conn[k].step = "none" => conn'[k] = conn[k]
               /\ conn[k].step = "handling" => conn'[k].age = Older(conn[k].age)
    BY <1>12, <2>1 DEF Tick, ConnectionState, Older, WriteTimeout
  <2>3. Connections'
    <3>1. conn' \in [Connection -> ConnectionState]
      BY <1>12, <2>2 DEF Tick
    <3>. QED BY <1>12, <2>2, <3>1 DEF Tick, Connections, Protected
  <2>4. Aged'
    <3>1. timer' \in 0..ShutdownTimeout
      BY <1>12 DEF Tick, Aged, ShutdownTimeout
    <3>2. ASSUME NEW k \in Connection, main' = "draining",
                 conn'[k].step = "handling", ~conn'[k].late
          PROVE  conn'[k].age >= timer'
      <4>1. conn[k].age \in 0..WriteTimeout /\ conn[k].age >= timer
        BY <1>12, <2>1, <2>2, <3>2 DEF Tick, Aged, ConnectionState
      <4>2. timer' = timer + 1 /\ timer < ShutdownTimeout
        BY <1>12, <3>2 DEF Tick
      <4>3. conn'[k].age = Older(conn[k].age)
        BY <2>2, <3>2
      <4>. QED BY <4>1, <4>2, <4>3 DEF Aged, Older, ShutdownTimeout, WriteTimeout
    <3>. QED BY <3>1, <3>2 DEF Aged
  <2>5. ConfigOf' /\ Rest'
    BY <1>12 DEF Tick, ConfigOf, Rest
  <2>6. Lifecycle'
    <3>1. ASSUME main' \notin {"serving", "draining"}, NEW k \in Connection
          PROVE  conn'[k] = NoConnection
      BY <1>12, <2>2, <3>1 DEF Tick, Lifecycle, NoConnection, Fresh
    <3>. QED BY <1>12, <3>1 DEF Tick, Lifecycle
  <2>. QED BY <2>3, <2>4, <2>5, <2>6
<1>13. CASE UNCHANGED vars
  <2>1. ConfigOf' /\ Lifecycle' /\ Aged' /\ Rest'
    BY <1>13 DEF vars, ConfigOf, Lifecycle, Aged, Rest
  <2>2. Connections'
    BY <1>13 DEF vars, Connections, Protected
  <2>. QED BY <2>1, <2>2
<1>. HIDE DEF IInv
<1>. QED BY <1>1, <1>2, <1>3, <1>4, <1>5, <1>6, <1>7, <1>8, <1>9, <1>10, <1>11, <1>12, <1>13
         DEF Next, Main

LEMMA Inductive == Spec => []IInv
<1>1. Init => IInv
  BY InitIInv
<1>2. IInv /\ [Next]_vars => IInv'
  BY NextIInv
<1>. QED BY <1>1, <1>2, PTL DEF Spec

-------------------------------------------------------------------------------
(* The theorems *)

\* The state of the process keeps its types, for every environment.
THEOREM TypeCorrect == Spec => []TypeOK
<1>1. IInv => TypeOK
  BY DEF IInv, ConfigOf, Lifecycle, Connections, Aged, Rest, TypeOK
<1>. QED BY <1>1, Inductive, PTL

\* No application page is handled without credentials on a network address, unless
\* both overrides were set: config.Load, the mode it passes on and ServeHTTP agree.
THEOREM ProtectedCorrect == Spec => []ProtectedOnNetwork
<1>1. IInv => ProtectedOnNetwork
  BY DEF IInv, Connections, ProtectedOnNetwork, Protected
<1>. QED BY <1>1, Inductive, PTL

\* Every configuration that config.Load accepts works, whatever was typed.
THEOREM AcceptedCorrect == Spec => []AcceptedConfigWorks
<1>1. IInv => AcceptedConfigWorks
  <2>. SUFFICES ASSUME IInv PROVE AcceptedConfigWorks
    OBVIOUS
  <2>1. exit # "panic"
    BY DEF IInv, ConfigOf
  <2>2. CASE cfg = NoConfig
    BY <2>1, <2>2 DEF AcceptedConfigWorks
  <2>3. CASE cfg # NoConfig
    <3>1. env \in Environment /\ cfg = Load(env) /\ Load(env) # Refused
      BY <2>3 DEF IInv, ConfigOf
    <3>. QED BY <2>1, <3>1, AcceptedLemma DEF AcceptedConfigWorks
  <2>. QED BY <2>2, <2>3
<1>. QED BY <1>1, Inductive, PTL

\* The database is closed under no handler.
THEOREM DatabaseCorrect == Spec => []DatabaseClosedQuietly
<1>1. IInv => DatabaseClosedQuietly
  BY DEF IInv, Lifecycle, DatabaseClosedQuietly, NoConnection, Fresh
<1>. QED BY <1>1, Inductive, PTL

\* A shutdown that times out abandons no answer that could still be written.
THEOREM AnswersCorrect == Spec => AnswersOutliveShutdown
<1> DEFINE A == main = "draining" /\ exit' = "1" /\ main' = "down" =>
                  \A c \in Connection :
                    conn[c].step = "handling" /\ ~conn[c].late => conn[c].age >= WriteTimeout
<1>1. IInv /\ [Next]_vars => [A]_vars
  <2>. SUFFICES ASSUME IInv, Next, main = "draining", exit' = "1", main' = "down",
                       NEW c \in Connection, conn[c].step = "handling", ~conn[c].late
                PROVE  conn[c].age >= WriteTimeout
    OBVIOUS
  <2>1. ShutdownTimesOut
    BY DEF Next, Main, Start, OpenDatabase, Migrate, NewServer, StartFails, Listen,
           ListenerFails, ServerStopped, BeginShutdown, ShutdownDone, CloseDatabase, Return,
           Accept, Finish, Leave, ReadTimesOut, CloseIdle, ReadHeader, Signal, Restart,
           Crash, Tick, Exit
  <2>. QED BY <2>1 DEF ShutdownTimesOut, IInv, Aged, ShutdownTimeout, WriteTimeout
<1>. QED BY <1>1, Inductive, PTL DEF Spec, AnswersOutliveShutdown
===============================================================================
