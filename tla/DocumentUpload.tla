---------------------------- MODULE DocumentUpload ----------------------------
(***************************************************************************)
(* Uploaded PDFs: the forms of internal/server/server.go that accept one,  *)
(* the file below the data directory, and the rows of documents and        *)
(* application_documents that point at it.                                 *)
(*                                                                         *)
(* A file and its row live in two stores with no common transaction.  The  *)
(* handlers write the file first, insert the row, read it back, and remove *)
(* the file when anything after its creation fails.  A statement fails     *)
(* when the database says so or when the client has gone away (the request *)
(* context is cancelled); the process can stop between any two steps.      *)
(***************************************************************************)
EXTENDS Integers

CONSTANTS
  App, Id,     \* application and document ids
  Url,         \* well-formed posting links
  Size,        \* sizes of uploaded files, in bytes
  Upload,      \* goroutines serving a form
  NoUrl, BadUrl, Absent, NoFile, Library

defaultMaxFormBytes == 1048576

maxPostingPDFBytes == 20 * 1048576

maxPostingMultipartBytes == maxPostingPDFBytes + 2 * 1048576

\* The fields and boundaries around the file make the body larger than it.
Overhead == 512

ASSUME UploadAssumption ==
  /\ NoUrl \in Url /\ BadUrl \notin Url /\ Absent \notin Url
  /\ Library \notin App
  /\ Size \subseteq Nat

\* Files of the library and of each application have a directory of their own.
Path == (App \cup {Library}) \X Id

ASSUME AbsentAssumption ==
  Absent \notin Path /\ NoFile \notin [pdf : BOOLEAN, size : Size]

VARIABLES
  apps,      \* applications: the posting link of each row
  docs,      \* documents: the storage path of each row
  attached,  \* application_documents
  disk,      \* files below the data directory
  upload,    \* the requests in flight
  told,      \* history: the documents whose upload was answered as saved
  stray      \* history: the files a crash or a failing os.Remove left behind

vars == <<apps, docs, attached, disk, upload, told, stray>>

Attachment == {NoFile} \cup [pdf : BOOLEAN, size : Size]

Form ==
  [kind : {"document"}, app : {Library}, url : {NoUrl}, file : Attachment]
    \cup [kind : {"application", "posting"}, app : App,
          url : Url \cup {BadUrl}, file : Attachment]

Step == {"idle", "parsed", "loaded", "updated", "created", "naming", "writing",
         "written", "inserted", "saved", "failed", "too large"}

\* A request: its form, the path of the file it created, and (history) whether
\* the application has had the link of the form since the handler read it.
Request == [step : Step, form : Form, path : Path \cup {Absent}, linked : BOOLEAN]

NoRequest ==
  [step |-> "idle", path |-> Absent, linked |-> FALSE,
   form |-> [kind |-> "document", app |-> Library, url |-> NoUrl, file |-> NoFile]]

TypeOK ==
  /\ apps \in [App -> Url \cup {Absent}]
  /\ docs \in [Id -> Path \cup {Absent}]
  /\ attached \subseteq App \X Id
  /\ disk \in [Path -> {"none", "partial", "whole"}]
  /\ upload \in [Upload -> Request]
  /\ told \subseteq Id
  /\ stray \subseteq Path

Init ==
  /\ apps \in [App -> {NoUrl, Absent}]
  /\ docs = [d \in Id |-> Absent]
  /\ attached = {}
  /\ disk = [p \in Path |-> "none"]
  /\ upload = [u \in Upload |-> NoRequest]
  /\ told = {}
  /\ stray = {}

------------------------------------------------------------------------------
(* Parts the handlers share *)

Move(u, step) == upload' = [upload EXCEPT ![u].step = step]

Rows == <<apps, docs, attached>>

Files == <<disk, stray>>

\* validatePostingPDF
ValidPDF(f) == f # NoFile /\ f.pdf /\ 0 < f.size /\ f.size <= maxPostingPDFBytes

\* A new application is kept, and its form answered as saved, without its PDF.
Failed(u) == IF upload[u].form.kind = "application" THEN "saved" ELSE "failed"

\* What follows once the application is in place: savePostingPDF, if there is
\* a file, which starts by validating it.
AfterApplication(u) ==
  LET f == upload[u].form.file IN
  IF f = NoFile THEN "saved" ELSE IF ValidPDF(f) THEN "naming" ELSE Failed(u)

\* The deferred os.Remove, whose own error is ignored.
Discard(u) ==
  LET p == upload[u].path IN
  \/ disk' = [disk EXCEPT ![p] = "none"] /\ UNCHANGED stray
  \/ stray' = stray \cup {p} /\ UNCHANGED disk

------------------------------------------------------------------------------
(* The handlers *)

\* The body of a posting or application form may hold a whole PDF; that of
\* the documents page is limited like any form.
BodyLimit(kind) ==
  IF kind = "document" THEN defaultMaxFormBytes ELSE maxPostingMultipartBytes

\* The form is parsed and its token accepted (module AuthFlow).  A body beyond the
\* limit is refused, by the documents page as an invalid form.
Submit(u, form) ==
  LET f == form.file
      fits == f = NoFile \/ f.size + Overhead <= BodyLimit(form.kind)
  IN
  /\ upload[u].step = "idle"
  /\ upload' = [upload EXCEPT ![u] =
       [step |-> IF fits THEN "parsed" ELSE "too large",
        form |-> form, path |-> Absent, linked |-> FALSE]]
  /\ UNCHANGED <<Rows, Files, told>>

\* documentsCreate: a bad PDF is an error of the form, and its other fields may have
\* errors too.
ValidateDocument(u) ==
  LET r == upload[u] IN
  /\ r.step = "parsed" /\ r.form.kind = "document"
  /\ \/ Move(u, "failed")
     \/ ValidPDF(r.form.file) /\ Move(u, "naming")
  /\ UNCHANGED <<Rows, Files, told>>

\* applicationsCreate: a bad link or PDF is refused before anything is stored;
\* the insert may also fail.
CreateApplication(u) ==
  LET form == upload[u].form
      valid == form.url # BadUrl /\ (form.file = NoFile \/ ValidPDF(form.file))
  IN
  /\ upload[u].step = "parsed" /\ form.kind = "application"
  /\ \/ Move(u, "failed") /\ UNCHANGED apps
     \/ /\ valid /\ apps[form.app] = Absent
        /\ apps' = [apps EXCEPT ![form.app] = form.url]
        /\ Move(u, "created")
  /\ UNCHANGED <<docs, attached, Files, told>>

\* The row just inserted is read back; failing that, the form is shown again.
ReadApplication(u) ==
  /\ upload[u].step = "created"
  /\ Move(u, "failed") \/ Move(u, AfterApplication(u))
  /\ UNCHANGED <<Rows, Files, told>>

\* applicationsUpdatePosting reads the application and compares its link.
LoadApplication(u) ==
  LET form == upload[u].form
      unchanged == apps[form.app] = form.url
  IN
  /\ upload[u].step = "parsed" /\ form.kind = "posting"
  /\ \/ Move(u, "failed")
     \/ /\ apps[form.app] # Absent /\ form.url # BadUrl
        /\ ~(form.file = NoFile /\ unchanged)
        /\ upload' = [upload EXCEPT
             ![u].step = IF unchanged THEN AfterApplication(u) ELSE "loaded",
             ![u].linked = unchanged]
  /\ UNCHANGED <<Rows, Files, told>>

\* History: link is now the link of application a.
Linked(a, link) ==
  [v \in Upload |->
    [upload[v] EXCEPT
       !.linked = @ \/ (upload[v].form.app = a /\ upload[v].form.url = link)]]

\* Mutant: the statement's error is ignored.
UpdateLink_ErrorIgnored(u) ==
  LET form == upload[u].form IN
  /\ upload[u].step = "loaded"
  /\ \/ Move(u, "updated") /\ UNCHANGED apps
     \/ /\ apps' = [apps EXCEPT ![form.app] = form.url]
        /\ upload' = [Linked(form.app, form.url) EXCEPT ![u].step = "updated"]
  /\ UNCHANGED <<docs, attached, Files, told>>

\* UpdateApplicationPostingURL: one statement, committed by itself.
UpdateLink(u) ==
  LET form == upload[u].form IN
  /\ upload[u].step = "loaded"
  /\ \/ Move(u, "failed") /\ UNCHANGED apps
     \/ /\ apps' = [apps EXCEPT ![form.app] = form.url]
        /\ upload' = [Linked(form.app, form.url) EXCEPT ![u].step = "updated"]
  /\ UNCHANGED <<docs, attached, Files, told>>

\* The application is read back; failing that, the new link stays stored.
ReadLink(u) ==
  /\ upload[u].step = "updated"
  /\ Move(u, "failed") \/ Move(u, AfterApplication(u))
  /\ UNCHANGED <<Rows, Files, told>>

------------------------------------------------------------------------------
(* The file *)

\* Mutant: an existing file is opened and truncated.
OpenFile_NotExclusive(u, d) ==
  LET p == <<upload[u].form.app, d>> IN
  /\ upload[u].step = "naming"
  /\ \/ Move(u, Failed(u)) /\ UNCHANGED Files
     \/ /\ disk' = [disk EXCEPT ![p] = "partial"] /\ UNCHANGED stray
        /\ upload' = [upload EXCEPT ![u].step = "writing", ![u].path = p]
  /\ UNCHANGED <<Rows, told>>

\* newDocumentUploadID draws d at random; O_EXCL refuses a path in use.
OpenFile(u, d) ==
  LET p == <<upload[u].form.app, d>> IN
  /\ upload[u].step = "naming"
  /\ \/ Move(u, Failed(u)) /\ UNCHANGED Files
     \/ /\ disk[p] = "none"
        /\ disk' = [disk EXCEPT ![p] = "partial"] /\ UNCHANGED stray
        /\ upload' = [upload EXCEPT ![u].step = "writing", ![u].path = p]
  /\ UNCHANGED <<Rows, told>>

\* Mutant: a copy that fails half-way is taken for a success.
CopyFile_ErrorIgnored(u) ==
  /\ upload[u].step = "writing"
  /\ \/ UNCHANGED Files
     \/ disk' = [disk EXCEPT ![upload[u].path] = "whole"] /\ UNCHANGED stray
  /\ Move(u, "written")
  /\ UNCHANGED <<Rows, told>>

CopyFile(u) ==
  /\ upload[u].step = "writing"
  /\ \/ Discard(u) /\ Move(u, Failed(u))
     \/ /\ disk' = [disk EXCEPT ![upload[u].path] = "whole"] /\ UNCHANGED stray
        /\ Move(u, "written")
  /\ UNCHANGED <<Rows, told>>

------------------------------------------------------------------------------
(* Its rows *)

\* CreateDocument: the insert commits by itself; an id in use fails it.
InsertDocument(u) ==
  LET p == upload[u].path IN
  /\ upload[u].step = "written" /\ upload[u].form.kind = "document"
  /\ \/ Discard(u) /\ Move(u, "failed") /\ UNCHANGED docs
     \/ /\ docs[p[2]] = Absent
        /\ docs' = [docs EXCEPT ![p[2]] = p]
        /\ Move(u, "inserted")
        /\ UNCHANGED Files
  /\ UNCHANGED <<apps, attached, told>>

\* The row is read back; failing that, the file is removed and the row stays.
ReadDocument(u) ==
  /\ upload[u].step = "inserted"
  /\ \/ Discard(u) /\ Move(u, "failed") /\ UNCHANGED told
     \/ /\ Move(u, "saved")
        /\ told' = told \cup {upload[u].path[2]}
        /\ UNCHANGED Files
  /\ UNCHANGED Rows

\* Mutant: the rollback leaves the file.
Attach_KeepsFile(u) ==
  LET p == upload[u].path IN
  /\ upload[u].step = "written" /\ upload[u].form.kind # "document"
  /\ \/ Move(u, Failed(u)) /\ UNCHANGED <<docs, attached, Files, told>>
     \/ /\ docs[p[2]] = Absent
        /\ docs' = [docs EXCEPT ![p[2]] = p]
        /\ attached' = attached \cup {p}
        /\ Move(u, "saved")
        /\ told' = told \cup {p[2]}
        /\ UNCHANGED Files
  /\ UNCHANGED apps

\* AttachDocumentToApplication: both rows in one transaction, read back before
\* the commit, so that a failure at any point of it leaves none.
Attach(u) ==
  LET p == upload[u].path IN
  /\ upload[u].step = "written" /\ upload[u].form.kind # "document"
  /\ \/ Discard(u) /\ Move(u, Failed(u)) /\ UNCHANGED <<docs, attached, told>>
     \/ /\ docs[p[2]] = Absent /\ apps[p[1]] # Absent
        /\ docs' = [docs EXCEPT ![p[2]] = p]
        /\ attached' = attached \cup {p}
        /\ Move(u, "saved")
        /\ told' = told \cup {p[2]}
        /\ UNCHANGED Files
  /\ UNCHANGED apps

\* The answer has been read and the goroutine ends.
Finish(u) ==
  /\ upload[u].step \in {"saved", "failed", "too large"}
  /\ upload' = [upload EXCEPT ![u] = NoRequest]
  /\ UNCHANGED <<Rows, Files, told>>

\* The request has created its file, and no row points at the file yet.
Filling(u) == upload[u].step \in {"writing", "written"}

\* The process stops: deferred removals do not run, rows and files stay.
Crash ==
  /\ upload' = [u \in Upload |-> NoRequest]
  /\ stray' = stray \cup {upload[u].path : u \in {v \in Upload : Filling(v)}}
  /\ UNCHANGED <<Rows, disk, told>>

Serve(u) ==
  \/ \E form \in Form : Submit(u, form)
  \/ ValidateDocument(u)
  \/ CreateApplication(u) \/ ReadApplication(u)
  \/ LoadApplication(u) \/ UpdateLink(u) \/ ReadLink(u)
  \/ \E d \in Id : OpenFile(u, d)
  \/ CopyFile(u)
  \/ InsertDocument(u) \/ ReadDocument(u)
  \/ Attach(u)
  \/ Finish(u)

Next == (\E u \in Upload : Serve(u)) \/ Crash

Spec == Init /\ [][Next]_vars

------------------------------------------------------------------------------
(* The contract: what is left of files, requests and crashes is whether a document can *)
(* be read.                                                                            *)

Readable == {d \in Id : docs[d] # Absent /\ disk[docs[d]] = "whole"}

Contract == INSTANCE DocumentContract WITH readable <- Readable

------------------------------------------------------------------------------
(* Properties *)

\* Whatever fails, is interrupted or overlaps, the files and the rows together act like
\* one store: a document is filed once and for good, a posting with its attachment and its
\* confirmation in one step, and what was confirmed keeps its file (saveUploadedDocument,
\* AttachDocumentToApplication).
ImplementsDocumentContract == Contract!Spec

\* Every PDF attached to an application has its document row and its whole
\* file, through failures, concurrent uploads and crashes: the file is complete
\* before the transaction, and removed only when the transaction failed.
PostingsHaveFiles ==
  \A p \in attached : docs[p[2]] = p /\ disk[p] = "whole"

\* A document whose upload was answered as saved stays readable: no cleanup of
\* another request and no id drawn twice takes its file or its row away.
AcknowledgedKept ==
  \A d \in told : docs[d] # Absent /\ disk[docs[d]] = "whole"

\* A posting form answered as saved has had its link stored at some moment
\* since the handler read the application, also when the handler left the link
\* alone because it compared equal to the one it had read.
SavedLinkWasStored ==
  \A u \in Upload :
    upload[u].form.kind = "posting" /\ upload[u].step = "saved" => upload[u].linked

\* Every file belongs to a document or to an upload under way, or was left by a
\* crash or a failing removal: no error path of the handlers forgets one.
NoOrphans ==
  \A p \in Path :
    disk[p] # "none" =>
      \/ docs[p[2]] = p
      \/ \E u \in Upload : Filling(u) /\ upload[u].path = p
      \/ p \in stray

\* "Could not save document" is said only of documents that were not saved
\* (saveUploadedDocument).
FailureMeansNotSaved ==
  \A u \in Upload :
    LET r == upload[u] IN
    r.form.kind = "document" /\ r.step = "failed" /\ r.path # Absent
      => docs[r.path[2]] # r.path

\* No PDF within the cap of 20 MB stated for uploads is turned away for the
\* size of its form (documentsCreate and the two posting forms).
UploadsUpToTheCap ==
  \A u \in Upload :
    upload[u].step = "too large" => ~ValidPDF(upload[u].form.file)
==============================================================================
