------------------------------ MODULE MCStartup -------------------------------
(***************************************************************************)
(* Two connections over the environments that decide something: the table  *)
(* of addresses, flags and credentials in full, and each other variable on *)
(* its own.                                                                *)
(***************************************************************************)
EXTENDS Startup

Argon == [scheme |-> "argon2id", memory |-> 19456, time |-> 2, parallelism |-> 1,
          iterations |-> 0, salt |-> 16, digest |-> 32]
Pbkdf2 == [Argon EXCEPT !.scheme = "pbkdf2-sha256", !.iterations = 210000]

Plain == [addr |-> "unset", allowNetwork |-> "unset", allowInsecureNoAuth |-> "unset",
          secureCookies |-> "unset", trustProxy |-> "unset",
          idle |-> Unset, absolute |-> Unset, mode |-> "unset", username |-> FALSE,
          hash |-> Unset, file |-> Unset, dataDir |-> "unset", goos |-> "linux",
          home |-> TRUE, xdg |-> "unset", appData |-> FALSE]
Login == [Plain EXCEPT !.mode = "login", !.username = TRUE, !.hash = Argon]

PasswordFile(n) == [readable |-> TRUE, length |-> n, printable |-> TRUE]

AuthTable ==
  { [Plain EXCEPT !.addr = a, !.allowNetwork = n, !.allowInsecureNoAuth = i,
                  !.mode = m, !.username = u, !.hash = h, !.file = f] :
      a \in {"loopback", "wildcard"}, n \in {"unset", "true"}, i \in {"unset", "true"},
      m \in {"unset", "disabled", "login"}, u \in BOOLEAN,
      h \in {Unset, Argon, [Argon EXCEPT !.time = 1]},
      f \in {Unset, PasswordFile(15), PasswordFile(14)} }

\* With Day = 4 and HalfWord = 128, 32 days is the first count that overflows:
\* 40 days become negative, 64 nothing, 65 one day, and -40 days 24 days.
Durations ==
  { [unit |-> "days", n |-> d] : d \in {-40, -1, 0, 1, 31, 32, 40, 64, 65} }
    \cup { [unit |-> "go", n |-> d] : d \in {0, 1} } \cup { [unit |-> "junk", n |-> 0] }

Others ==
  { [Login EXCEPT !.idle = d] : d \in Durations }
    \cup { [Login EXCEPT !.absolute = d] : d \in Durations }
    \cup { [Login EXCEPT !.hash = h] : h \in
             { Pbkdf2, [Pbkdf2 EXCEPT !.iterations = 209999], [Argon EXCEPT !.memory = 19455],
               [Argon EXCEPT !.parallelism = 0], [Argon EXCEPT !.salt = 15],
               [Argon EXCEPT !.digest = 31], [Argon EXCEPT !.scheme = "other"] } }
    \cup { [Login EXCEPT !.hash = Unset, !.file = f] : f \in
             { [PasswordFile(15) EXCEPT !.readable = FALSE],
               [PasswordFile(15) EXCEPT !.printable = FALSE],
               PasswordFile(1024), PasswordFile(1025) } }
    \cup { [Plain EXCEPT !.addr = a] : a \in {"unset", "malformed"} }
    \cup { [Plain EXCEPT !.mode = "basic", !.username = TRUE, !.hash = Argon],
           [Plain EXCEPT !.mode = "junk"], [Plain EXCEPT !.allowNetwork = "junk"],
           [Plain EXCEPT !.secureCookies = "junk"] }
    \cup { [Plain EXCEPT !.home = FALSE, !.goos = g, !.dataDir = d, !.xdg = x, !.appData = a] :
             g \in {"linux", "darwin", "windows"}, d \in {"unset", "~"},
             x \in {"unset", "plain", "~"}, a \in BOOLEAN }

Environments == AuthTable \cup Others
===============================================================================
