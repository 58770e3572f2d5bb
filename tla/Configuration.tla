---------------------------- MODULE Configuration -----------------------------
(***************************************************************************)
(* What the program makes of its environment: internal/config/config.go,   *)
(* with the password hashes of internal/auth/auth.go that it accepts and   *)
(* the options internal/server/server.go builds a server from.             *)
(*                                                                         *)
(* An environment is a record of classes of values: an address that is     *)
(* loopback or not, a flag that is true, false, unset or no boolean, a     *)
(* duration as typed.  Durations keep their width: they are counted in     *)
(* units of which a day has Day, and wrap at HalfWord as the 64-bit        *)
(* nanoseconds of the program do.                                          *)
(***************************************************************************)
EXTENDS Integers

CONSTANTS
  Day,      \* length of a day
  HalfWord, \* durations are -HalfWord..HalfWord-1
  Unset,    \* an absent variable, hash or file
  Refused   \* the result of a step that returned an error

ASSUME WidthAssumption == Day \in Nat /\ Day > 1 /\ HalfWord \in Nat /\ HalfWord > 30 * Day

-------------------------------------------------------------------------------
(* Password hashes *)

Argon2idMemoryKiB == 19456
Argon2idTime == 2
Argon2idParallelism == 1
DefaultIterations == 210000
SaltBytes == 16
KeyBytes == 32
MinPasswordLength == 15
MaxPasswordLength == 1024

\* Mutant: one of the lower bounds is left to the verification.
ParsePasswordHash_AnyTime(h) ==
  IF \/ /\ h.scheme = "argon2id"
        /\ h.memory >= Argon2idMemoryKiB
        /\ h.parallelism \in Argon2idParallelism..255
        /\ h.salt >= SaltBytes /\ h.digest = KeyBytes
     \/ /\ h.scheme = "pbkdf2-sha256"
        /\ h.iterations >= DefaultIterations
        /\ h.salt >= SaltBytes /\ h.digest = KeyBytes
  THEN h ELSE Refused

\* The parser of an encoded hash; any scheme but the two, or a hash that does
\* not split into its parts, has scheme "other".
ParsePasswordHash(h) ==
  IF \/ /\ h.scheme = "argon2id"
        /\ h.memory >= Argon2idMemoryKiB
        /\ h.time >= Argon2idTime
        /\ h.parallelism \in Argon2idParallelism..255
        /\ h.salt >= SaltBytes /\ h.digest = KeyBytes
     \/ /\ h.scheme = "pbkdf2-sha256"
        /\ h.iterations >= DefaultIterations
        /\ h.salt >= SaltBytes /\ h.digest = KeyBytes
  THEN h ELSE Refused

\* PasswordHash.Verify checks the same bounds again before it computes: only a
\* hash that passes them can match any password at all.
Verifiable(h) ==
  \/ /\ h.scheme = "argon2id"
     /\ h.memory >= Argon2idMemoryKiB /\ h.time >= Argon2idTime
     /\ h.parallelism >= Argon2idParallelism
     /\ h.salt >= SaltBytes /\ h.digest = KeyBytes
  \/ /\ h.scheme = "pbkdf2-sha256"
     /\ h.iterations >= DefaultIterations
     /\ h.salt >= SaltBytes /\ h.digest = KeyBytes

\* HashPassword: the password policy, then a hash with the default parameters.
HashPassword(password) ==
  IF /\ password.length \in MinPasswordLength..MaxPasswordLength
     /\ password.printable
  THEN [scheme |-> "argon2id", memory |-> Argon2idMemoryKiB, time |-> Argon2idTime,
        parallelism |-> Argon2idParallelism, iterations |-> 0,
        salt |-> SaltBytes, digest |-> KeyBytes]
  ELSE Refused

-------------------------------------------------------------------------------
(* Single variables *)

\* parseOptionalBool; "junk" is what strconv.ParseBool refuses.
Boolean(flag) == flag # "junk"
IsTrue(flag) == flag = "true"

\* An address that names no port is refused.  The empty host listens everywhere.
SplitHostPort(addr) == addr # "malformed"

isLoopbackAddr(addr) == addr \in {"unset", "localhost", "loopback"}

ValidateAddr(addr, allowNetwork) ==
  SplitHostPort(addr) /\ (allowNetwork \/ isLoopbackAddr(addr))

\* Two's complement: what is left of x in a word.
Wrap(x) == ((x + HalfWord) % (2 * HalfWord)) - HalfWord

\* A day count is multiplied without a check; time.ParseDuration, which reads the
\* other forms, refuses what does not fit.
parseDuration(text) == IF text.unit = "days" THEN Wrap(text.n * Day) ELSE text.n

parseOptionalDuration(text, fallback) ==
  IF text = Unset THEN fallback
  ELSE IF text.unit = "junk" \/ parseDuration(text) <= 0 THEN Refused
  ELSE parseDuration(text)

\* The defaults of load: 12 hours and 30 days.
DefaultIdle == Day \div 2
DefaultAbsolute == 30 * Day

\* expandHome: only a path that starts with ~ needs a home directory.
expandHome(path, home) == IF path = "~" /\ ~home THEN Refused ELSE path

\* dataDir, by operating system.
dataDir(e) ==
  IF e.dataDir # "unset" THEN expandHome(e.dataDir, e.home)
  ELSE IF e.goos = "windows"
       THEN IF e.appData THEN "plain" ELSE IF e.home THEN "~" ELSE Refused
  ELSE IF e.goos = "linux" /\ e.xdg # "unset" THEN expandHome(e.xdg, e.home)
  ELSE IF e.home THEN "~" ELSE Refused

-------------------------------------------------------------------------------
(* Authentication *)

Credentials(e) == e.username \/ e.hash # Unset \/ e.file # Unset

parseAuthMode(e) ==
  IF e.mode = "unset"
  THEN IF Credentials(e) THEN "basic" ELSE "disabled"
  ELSE e.mode

\* The hash itself, or that of the password in the file.
resolveAuthPasswordHash(e, mode) ==
  IF e.hash # Unset /\ e.file # Unset THEN Refused
  ELSE IF e.file = Unset \/ mode = "disabled" THEN e.hash
  ELSE IF ~e.file.readable THEN Refused
  ELSE HashPassword(e.file)

\* Mutant: the listening address does not matter.
ValidateAuthConfig_AnyAddress(e, mode, hash) ==
  \/ mode = "disabled" /\ ~Credentials(e)
  \/ /\ mode \in {"login", "basic"}
     /\ e.username /\ hash # Unset
     /\ ParsePasswordHash(hash) # Refused

validateAuthConfig(e, mode, hash) ==
  \/ /\ mode = "disabled" /\ ~Credentials(e)
     /\ IsTrue(e.allowInsecureNoAuth) \/ isLoopbackAddr(e.addr)
  \/ /\ mode \in {"login", "basic"}
     /\ e.username /\ hash # Unset
     /\ ParsePasswordHash(hash) # Refused

\* load: every check must pass; their order only decides which error is told.
Load(e) ==
  LET dir == dataDir(e)
      idle == parseOptionalDuration(e.idle, DefaultIdle)
      absolute == parseOptionalDuration(e.absolute, DefaultAbsolute)
      mode == parseAuthMode(e)
      hash == resolveAuthPasswordHash(e, mode)
  IN
  IF /\ dir # Refused
     /\ \A flag \in {e.allowNetwork, e.allowInsecureNoAuth, e.secureCookies, e.trustProxy} :
          Boolean(flag)
     /\ ValidateAddr(e.addr, IsTrue(e.allowNetwork))
     /\ idle # Refused /\ absolute # Refused
     /\ mode \in {"disabled", "login", "basic"}
     /\ hash # Refused
     /\ validateAuthConfig(e, mode, hash)
  THEN [mode |-> mode,
        username |-> IF mode = "disabled" THEN FALSE ELSE e.username,
        hash |-> IF mode = "disabled" THEN Unset ELSE hash,
        idle |-> idle, absolute |-> absolute]
  ELSE Refused

-------------------------------------------------------------------------------
(* The server's own view of the same options *)

\* authMode: main always passes a mode, so the guess is for callers of New.
authMode(c) ==
  IF c.mode # "unset" THEN c.mode
  ELSE IF c.username \/ c.hash # Unset THEN "basic" ELSE "disabled"

\* main opens a session store for the login mode only.
HasSessionStore(c) == c.mode = "login"

\* newBasicAuth and newLoginAuth.
Authenticator(c) == c.username /\ c.hash # Unset /\ ParsePasswordHash(c.hash) # Refused

\* NewWithOptions panics where an authenticator or the session store is missing.
Panics(c) ==
  \/ authMode(c) \notin {"disabled", "login", "basic"}
  \/ authMode(c) \in {"login", "basic"} /\ ~Authenticator(c)
  \/ authMode(c) = "login" /\ ~HasSessionStore(c)

Page == {"healthz", "login", "favicon", "static", "application"}

\* ServeHTTP: requiresBasicAuth and requiresLoginAuth.
NeedsCredentials(c, page) ==
  \/ authMode(c) = "basic" /\ page # "healthz"
  \/ authMode(c) = "login" /\ page = "application"
===============================================================================
