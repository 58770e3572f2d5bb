--------------------------- MODULE DocumentContract ---------------------------
(***************************************************************************)
(* What an uploaded PDF is promised, with every upload atomic: a document  *)
(* is filed once, under an application or in the library, and for good; a  *)
(* posting is filed, attached and confirmed in one step; and what has been *)
(* confirmed stays readable.  Only a document of the library may be filed  *)
(* before it is confirmed, and lose its file instead.  Nothing is said     *)
(* here of files being written, of requests, failures or crashes.          *)
(***************************************************************************)
CONSTANTS App, Id, Library, Absent

VARIABLES
  docs,      \* docs[d]: where document d is filed, or Absent
  attached,  \* the postings: an application and a document
  told,      \* documents that somebody was told are saved
  readable   \* documents whose file is complete

vars == <<docs, attached, told, readable>>

Init ==
  /\ docs = [d \in Id |-> Absent]
  /\ attached = {} /\ told = {} /\ readable = {}

FilePosting(a, d) ==
  /\ docs[d] = Absent
  /\ docs' = [docs EXCEPT ![d] = <<a, d>>]
  /\ attached' = attached \cup {<<a, d>>}
  /\ told' = told \cup {d}
  /\ readable' = readable \cup {d}

FileDocument(d) ==
  /\ docs[d] = Absent
  /\ docs' = [docs EXCEPT ![d] = <<Library, d>>]
  /\ readable' = readable \cup {d}
  /\ UNCHANGED <<attached, told>>

\* Filed in the library, and nobody told yet.
Unconfirmed(d) == docs[d] = <<Library, d>> /\ d \notin told

Confirm(d) ==
  /\ Unconfirmed(d) /\ d \in readable
  /\ told' = told \cup {d}
  /\ UNCHANGED <<docs, attached, readable>>

LoseFile(d) ==
  /\ Unconfirmed(d)
  /\ readable' = readable \ {d}
  /\ UNCHANGED <<docs, attached, told>>

\* Another upload that draws the id of a document without a file puts its own there.
ReplaceFile(d) ==
  /\ Unconfirmed(d)
  /\ readable' = readable \cup {d}
  /\ UNCHANGED <<docs, attached, told>>

Next ==
  \E d \in Id :
    \/ \E a \in App : FilePosting(a, d)
    \/ FileDocument(d)
    \/ Confirm(d)
    \/ LoseFile(d)
    \/ ReplaceFile(d)

Spec == Init /\ [][Next]_vars
===============================================================================
