--------------------------- MODULE MigrationContract ---------------------------
(***************************************************************************)
(* What an upgrade promises to whoever shares the data: the schema goes up *)
(* by one version at a time and in one step, which touches no document and *)
(* no link; a process comes into service only on a schema that has all it  *)
(* knows; and what a server of any release has stored stays, together with *)
(* its link.  Nothing is said here of statements, locks, half-built tables *)
(* or of processes that die on the way.                                    *)
(***************************************************************************)
EXTENDS Naturals

CONSTANTS Process, Known, Doc, Last

VARIABLES
  version,    \* how many migrations the data has been through
  documents,  \* the documents stored
  links,      \* those of them that an application lists
  serving     \* the processes in service

vars == <<version, documents, links, serving>>

Init == version = 0 /\ documents = {} /\ links = {} /\ serving = {}

Upgrade ==
  /\ version < Last
  /\ version' = version + 1
  /\ UNCHANGED <<documents, links, serving>>

Serve(p) ==
  /\ p \notin serving /\ Known[p] <= version
  /\ serving' = serving \cup {p}
  /\ UNCHANGED <<version, documents, links>>

Stop(p) ==
  /\ p \in serving
  /\ serving' = serving \ {p}
  /\ UNCHANGED <<version, documents, links>>

Store(d) ==
  /\ serving # {} /\ d \notin documents
  /\ documents' = documents \cup {d} /\ links' = links \cup {d}
  /\ UNCHANGED <<version, serving>>

Next ==
  \/ Upgrade
  \/ \E p \in Process : Serve(p) \/ Stop(p)
  \/ \E d \in Doc : Store(d)

Spec == Init /\ [][Next]_vars
================================================================================
