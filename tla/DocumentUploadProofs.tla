------------------------- MODULE DocumentUploadProofs -------------------------
(***************************************************************************)
(* Proofs about DocumentUpload for any applications, ids, links, file      *)
(* sizes and requests.  The inductive invariant says who owns a file:      *)
(* until it is answered, a request is the only one on its path, and no     *)
(* attached or acknowledged document lives there.                          *)
(***************************************************************************)
EXTENDS DocumentUpload, TLAPS

\* A request that has created its file and may still remove it.
Busy(r) == r.step \in {"writing", "written", "inserted"}

Owns(r) ==
  /\ r.path \in Path /\ r.path[1] = r.form.app
  /\ r.path \notin attached
  /\ \A d \in told : docs[d] # r.path
  /\ disk[r.path] = IF r.step = "writing" THEN "partial" ELSE "whole"
  /\ r.step = "inserted" => docs[r.path[2]] = r.path

OwnFiles == \A u \in Upload : Busy(upload[u]) => Owns(upload[u])

PathsDistinct ==
  \A u, v \in Upload :
    u # v /\ Busy(upload[u]) /\ Busy(upload[v]) => upload[u].path # upload[v].path

\* Where a posting form can be once its link has been compared or stored; a
\* link about to be stored is well formed.
LinkRemembered(r) ==
  /\ r.form.kind = "posting" =>
       /\ r.step \notin {"created", "inserted"}
       /\ r.step \in {"updated", "naming", "writing", "written", "saved"} => r.linked
  /\ r.step = "loaded" => r.form.kind = "posting" /\ r.form.url # BadUrl

LinksRemembered == \A u \in Upload : LinkRemembered(upload[u])

IInv ==
  /\ TypeOK
  /\ PostingsHaveFiles
  /\ AcknowledgedKept
  /\ OwnFiles
  /\ PathsDistinct
  /\ LinksRemembered

------------------------------------------------------------------------------
LEMMA NoRequestTyped == NoRequest \in Request /\ ~Busy(NoRequest) /\ LinkRemembered(NoRequest)
<1>1. NoRequest.form \in Form
  BY DEF NoRequest, Form, Attachment
<1>. QED
  BY <1>1 DEF NoRequest, Request, Step, Busy, LinkRemembered

LEMMA InitIInv == Init => IInv
<1>. SUFFICES ASSUME Init PROVE IInv
  OBVIOUS
<1>1. TypeOK
  BY NoRequestTyped, UploadAssumption DEF Init, TypeOK
<1>2. \A u \in Upload : ~Busy(upload[u]) /\ LinkRemembered(upload[u])
  BY NoRequestTyped DEF Init
<1>3. PostingsHaveFiles /\ AcknowledgedKept
  BY DEF Init, PostingsHaveFiles, AcknowledgedKept
<1>. QED
  BY <1>1, <1>2, <1>3 DEF IInv, OwnFiles, PathsDistinct, LinksRemembered

\* The steps a handler may go to.
LEMMA StepsTyped ==
  ASSUME NEW u \in Upload
  PROVE  /\ Failed(u) \in {"saved", "failed"} /\ Failed(u) \in Step
         /\ upload[u].form.kind = "posting" => Failed(u) = "failed"
         /\ AfterApplication(u) \in {"saved", "failed", "naming"}
         /\ AfterApplication(u) \in Step
  BY DEF Failed, AfterApplication, Step

LEMMA Moved ==
  ASSUME TypeOK, NEW u \in Upload, NEW s \in Step, Move(u, s)
  PROVE  /\ upload' \in [Upload -> Request]
         /\ upload'[u].step = s /\ upload'[u].path = upload[u].path
         /\ upload'[u].form = upload[u].form /\ upload'[u].linked = upload[u].linked
         /\ \A v \in Upload \ {u} : upload'[v] = upload[v]
<1>1. upload'[u] = [upload[u] EXCEPT !.step = s] /\ \A v \in Upload \ {u} : upload'[v] = upload[v]
  BY DEF TypeOK, Move
<1>2. upload[u] \in Request
  BY DEF TypeOK
<1>3. /\ upload'[u] \in Request
      /\ upload'[u].step = s /\ upload'[u].path = upload[u].path
      /\ upload'[u].form = upload[u].form /\ upload'[u].linked = upload[u].linked
  BY <1>1, <1>2 DEF Request
<1>. QED
  BY <1>1, <1>3 DEF TypeOK, Move

\* A step that leaves the files and the rows of documents alone and gives no
\* request a file.
LEMMA PlainStep ==
  ASSUME IInv, TypeOK', UNCHANGED <<docs, attached, disk, told>>,
         \A v \in Upload :
           /\ Busy(upload'[v]) => /\ Busy(upload[v]) /\ upload'[v].step = upload[v].step
                                  /\ upload'[v].path = upload[v].path
                                  /\ upload'[v].form = upload[v].form
           /\ LinkRemembered(upload'[v])
  PROVE  IInv'
<1>1. PostingsHaveFiles' /\ AcknowledgedKept'
  BY DEF IInv, PostingsHaveFiles, AcknowledgedKept
<1>2. OwnFiles'
  BY DEF IInv, OwnFiles, Owns
<1>3. PathsDistinct'
  BY DEF IInv, PathsDistinct
<1>4. LinksRemembered'
  BY DEF LinksRemembered
<1>. QED
  BY <1>1, <1>2, <1>3, <1>4 DEF IInv

\* Such a step of one request: it moves to a step without a file.
LEMMA PlainMove ==
  ASSUME IInv, NEW u \in Upload, NEW s \in Step, Move(u, s),
         s \notin {"loaded", "writing", "written", "inserted"},
         apps' \in [App -> Url \cup {Absent}],
         UNCHANGED <<docs, attached, disk, told, stray>>,
         upload[u].form.kind = "posting" =>
           s \notin {"created"} /\ (s \in {"updated", "naming", "saved"} => upload[u].linked)
  PROVE  IInv'
<1>1. /\ upload' \in [Upload -> Request]
      /\ upload'[u].step = s /\ upload'[u].path = upload[u].path
      /\ upload'[u].form = upload[u].form /\ upload'[u].linked = upload[u].linked
      /\ \A v \in Upload \ {u} : upload'[v] = upload[v]
  BY Moved DEF IInv
<1>2. TypeOK'
  BY <1>1 DEF IInv, TypeOK
<1>3. ~Busy(upload'[u])
  BY <1>1 DEF Busy
<1>4. \A v \in Upload : LinkRemembered(upload'[v])
  BY <1>1 DEF IInv, LinksRemembered, LinkRemembered
<1>. QED
  BY <1>1, <1>2, <1>3, <1>4, PlainStep
\* A failure after the file was created: only the request's own file may go.
LEMMA DiscardStep ==
  ASSUME IInv, NEW u \in Upload, NEW s \in {"saved", "failed"},
         Busy(upload[u]), Discard(u), Move(u, s),
         upload[u].form.kind = "posting" => s = "failed",
         UNCHANGED <<apps, docs, attached, told>>
  PROVE  IInv'
<1>. DEFINE p == upload[u].path
<1>1. TypeOK /\ Owns(upload[u]) /\ p \in Path
  BY DEF IInv, OwnFiles, Owns
<1>2. /\ disk' \in [Path -> {"none", "partial", "whole"}]
      /\ stray' \subseteq Path
      /\ \A q \in Path \ {p} : disk'[q] = disk[q]
  BY <1>1 DEF Discard, TypeOK
<1>3. /\ upload' \in [Upload -> Request]
      /\ upload'[u].step = s /\ upload'[u].form = upload[u].form
      /\ \A v \in Upload \ {u} : upload'[v] = upload[v]
      /\ ~Busy(upload'[u])
  BY <1>1, Moved DEF Busy, Step
<1>4. TypeOK'
  BY <1>1, <1>2, <1>3 DEF TypeOK
<1>5. PostingsHaveFiles'
  <2>1. attached \subseteq Path
    BY <1>1 DEF TypeOK, Path
  <2>. QED
    BY <1>1, <1>2, <2>1 DEF IInv, PostingsHaveFiles, Owns
<1>6. AcknowledgedKept'
  BY <1>1, <1>2 DEF IInv, AcknowledgedKept, Owns, TypeOK
<1>7. OwnFiles'
  <2>1. ASSUME NEW v \in Upload \ {u}, Busy(upload[v])
        PROVE  Owns(upload[v])'
    BY <1>1, <1>2, <1>3, <2>1 DEF IInv, OwnFiles, PathsDistinct, Owns
  <2>. QED
    BY <1>3, <2>1 DEF OwnFiles
<1>8. PathsDistinct' /\ LinksRemembered'
  BY <1>3 DEF IInv, PathsDistinct, LinksRemembered, LinkRemembered
<1>. QED
  BY <1>4, <1>5, <1>6, <1>7, <1>8 DEF IInv

------------------------------------------------------------------------------
(* One lemma per action *)

LEMMA SubmitStep ==
  ASSUME IInv, NEW u \in Upload, NEW form \in Form, Submit(u, form)
  PROVE  IInv'
<1>1. /\ upload'[u].step \in {"parsed", "too large"}
      /\ upload'[u] \in Request
      /\ \A v \in Upload \ {u} : upload'[v] = upload[v]
  BY DEF IInv, TypeOK, Submit, Request, Step
<1>2. TypeOK'
  BY <1>1 DEF IInv, TypeOK, Submit, Rows, Files
<1>3. ~Busy(upload'[u]) /\ LinkRemembered(upload'[u])
  BY <1>1 DEF Busy, LinkRemembered
<1>. QED
  BY <1>1, <1>2, <1>3, PlainStep DEF Submit, Rows, Files, IInv, LinksRemembered

LEMMA ValidateDocumentStep ==
  ASSUME IInv, NEW u \in Upload, ValidateDocument(u)
  PROVE  IInv'
<1>1. PICK s \in {"naming", "failed"} : Move(u, s)
  BY DEF ValidateDocument
<1>. QED
  BY <1>1, PlainMove DEF ValidateDocument, Rows, Files, Step, IInv, TypeOK

LEMMA CreateApplicationStep ==
  ASSUME IInv, NEW u \in Upload, CreateApplication(u)
  PROVE  IInv'
<1>1. apps' \in [App -> Url \cup {Absent}]
  <2>1. upload[u].form \in Form
    BY DEF IInv, TypeOK, Request
  <2>2. upload[u].form.kind = "application" => upload[u].form.url \in Url \cup {BadUrl}
    BY <2>1 DEF Form
  <2>. QED
    BY <2>2 DEF CreateApplication, IInv, TypeOK
<1>2. PICK s \in {"created", "failed"} : Move(u, s)
  BY DEF CreateApplication
<1>. QED
  BY <1>1, <1>2, PlainMove DEF CreateApplication, Files, Step

LEMMA ReadApplicationStep ==
  ASSUME IInv, NEW u \in Upload, ReadApplication(u)
  PROVE  IInv'
<1>1. upload[u].form.kind # "posting"
  BY DEF IInv, LinksRemembered, LinkRemembered, ReadApplication
<1>2. PICK s \in {"saved", "failed", "naming"} : Move(u, s)
  BY StepsTyped DEF ReadApplication
<1>. QED
  BY <1>1, <1>2, PlainMove DEF ReadApplication, Rows, Files, Step, IInv, TypeOK

LEMMA LoadApplicationStep ==
  ASSUME IInv, NEW u \in Upload, LoadApplication(u)
  PROVE  IInv'
<1>. DEFINE unchanged == apps[upload[u].form.app] = upload[u].form.url
            s == IF unchanged THEN AfterApplication(u) ELSE "loaded"
<1>1. CASE Move(u, "failed")
  BY <1>1, PlainMove DEF LoadApplication, Rows, Files, Step, IInv, TypeOK
<1>2. CASE /\ upload[u].form.url # BadUrl
           /\ upload' = [upload EXCEPT ![u].step = s, ![u].linked = unchanged]
  <2>1. upload[u] \in Request /\ s \in Step /\ s \in {"saved", "failed", "naming", "loaded"}
    BY StepsTyped DEF IInv, TypeOK, Step
  <2>2. /\ upload'[u] = [upload[u] EXCEPT !.step = s, !.linked = unchanged]
        /\ \A v \in Upload \ {u} : upload'[v] = upload[v]
    BY <1>2 DEF IInv, TypeOK
  <2>3. /\ upload'[u] \in Request /\ upload'[u].step = s
        /\ upload'[u].linked = unchanged
    BY <2>1, <2>2 DEF Request
  <2>4. TypeOK'
    BY <1>2, <2>2, <2>3 DEF IInv, TypeOK, LoadApplication, Rows, Files
  <2>5. upload'[u].form = upload[u].form /\ (s = "loaded" => ~unchanged)
    BY <2>1, <2>2, StepsTyped
  <2>6. upload[u].form.kind = "posting" /\ upload[u].form.url # BadUrl
    BY <1>2 DEF LoadApplication
  <2>7. ~Busy(upload'[u]) /\ LinkRemembered(upload'[u])
    BY <2>1, <2>3, <2>5, <2>6, StepsTyped DEF Busy, LinkRemembered
  <2>. QED
    BY <2>2, <2>4, <2>7, PlainStep DEF IInv, LinksRemembered, LoadApplication, Rows, Files
<1>. QED
  BY <1>1, <1>2 DEF LoadApplication

LEMMA UpdateLinkStep ==
  ASSUME IInv, NEW u \in Upload, UpdateLink(u)
  PROVE  IInv'
<1>. DEFINE a == upload[u].form.app
            link == upload[u].form.url
<1>1. CASE Move(u, "failed") /\ UNCHANGED apps
  BY <1>1, PlainMove DEF UpdateLink, Files, Step, IInv, TypeOK
<1>2. CASE /\ apps' = [apps EXCEPT ![a] = link]
           /\ upload' = [Linked(a, link) EXCEPT ![u].step = "updated"]
  <2>1. upload[u] \in Request /\ upload[u].step = "loaded"
    BY DEF IInv, TypeOK, UpdateLink, Files
  <2>2. upload[u].form.kind = "posting" /\ link # BadUrl
    BY <2>1 DEF IInv, LinksRemembered, LinkRemembered
  <2>3. a \in App /\ link \in Url
    BY <2>1, <2>2 DEF Request, Form
  <2>4. ASSUME NEW v \in Upload
        PROVE  LET sets == upload[v].form.app = a /\ upload[v].form.url = link IN
               /\ upload'[v] \in Request
               /\ upload'[v].step = IF v = u THEN "updated" ELSE upload[v].step
               /\ upload'[v].form = upload[v].form /\ upload'[v].path = upload[v].path
               /\ upload'[v].linked = (upload[v].linked \/ sets)
    <3>. DEFINE sets == upload[v].form.app = a /\ upload[v].form.url = link
                w == [upload[v] EXCEPT !.linked = @ \/ sets]
    <3>1. upload[v] \in Request
      BY DEF IInv, TypeOK
    <3>2. /\ w \in Request /\ w.step = upload[v].step /\ w.form = upload[v].form
          /\ w.path = upload[v].path /\ w.linked = (upload[v].linked \/ sets)
      BY <3>1 DEF Request
    <3>3. upload'[v] = IF v = u THEN [w EXCEPT !.step = "updated"] ELSE w
      BY <1>2 DEF Linked
    <3>. HIDE DEF w, sets
    <3>4. upload'[v] \in Request /\ upload'[v].step = (IF v = u THEN "updated" ELSE w.step)
          /\ upload'[v].form = w.form /\ upload'[v].path = w.path /\ upload'[v].linked = w.linked
      BY <3>2, <3>3 DEF Request, Step
    <3>. QED
      BY <3>2, <3>4 DEF sets
  <2>5. TypeOK'
    <3>1. upload' \in [Upload -> Request]
      BY <1>2, <2>4 DEF Linked
    <3>. QED
      BY <1>2, <2>3, <3>1 DEF IInv, TypeOK, UpdateLink, Files
  <2>6. ASSUME NEW v \in Upload
        PROVE  LinkRemembered(upload'[v])
    <3>1. LinkRemembered(upload[v]) /\ (v = u => upload'[v].linked)
      BY <2>4 DEF IInv, LinksRemembered
    <3>. QED
      BY <2>2, <2>4, <3>1 DEF LinkRemembered
  <2>7. \A v \in Upload : Busy(upload'[v]) => /\ Busy(upload[v])
                                            /\ upload'[v].step = upload[v].step
    BY <2>4 DEF Busy
  <2>. QED
    BY <2>4, <2>5, <2>6, <2>7, PlainStep DEF UpdateLink, Files
<1>. QED
  BY <1>1, <1>2 DEF UpdateLink

LEMMA ReadLinkStep ==
  ASSUME IInv, NEW u \in Upload, ReadLink(u)
  PROVE  IInv'
<1>1. upload[u].form.kind = "posting" => upload[u].linked
  BY DEF IInv, LinksRemembered, LinkRemembered, ReadLink
<1>2. PICK s \in {"saved", "failed", "naming"} : Move(u, s)
  BY StepsTyped DEF ReadLink
<1>. QED
  BY <1>1, <1>2, PlainMove DEF ReadLink, Rows, Files, Step, IInv, TypeOK

LEMMA FinishStep ==
  ASSUME IInv, NEW u \in Upload, Finish(u)
  PROVE  IInv'
<1>1. /\ upload'[u] = NoRequest /\ \A v \in Upload \ {u} : upload'[v] = upload[v]
      /\ upload' \in [Upload -> Request]
  BY NoRequestTyped DEF IInv, TypeOK, Finish
<1>2. TypeOK'
  BY <1>1 DEF IInv, TypeOK, Finish, Rows, Files
<1>. QED
  BY <1>1, <1>2, NoRequestTyped, PlainStep DEF IInv, LinksRemembered, Finish, Rows, Files

LEMMA CrashStep ==
  ASSUME IInv, Crash
  PROVE  IInv'
<1>1. /\ \A v \in Upload : upload'[v] = NoRequest
      /\ upload' \in [Upload -> Request]
  BY NoRequestTyped DEF Crash
<1>2. TypeOK'
  <2>1. \A u \in Upload : Filling(u) => upload[u].path \in Path
    BY DEF IInv, OwnFiles, Owns, Busy, Filling
  <2>. QED
    BY <1>1, <2>1 DEF IInv, TypeOK, Crash, Rows
<1>. QED
  BY <1>1, <1>2, NoRequestTyped, PlainStep DEF Crash, Rows
LEMMA OpenFileStep ==
  ASSUME IInv, NEW u \in Upload, NEW d \in Id, OpenFile(u, d)
  PROVE  IInv'
<1>. DEFINE p == <<upload[u].form.app, d>>
<1>1. CASE Move(u, Failed(u)) /\ UNCHANGED <<disk, stray>>
  <2>1. upload[u].form.kind = "posting" => upload[u].linked
    BY DEF IInv, LinksRemembered, LinkRemembered, OpenFile
  <2>. QED
    BY <1>1, <2>1, StepsTyped, PlainMove DEF OpenFile, Rows, Files, IInv, TypeOK
<1>2. CASE /\ disk[p] = "none"
           /\ disk' = [disk EXCEPT ![p] = "partial"] /\ UNCHANGED stray
           /\ upload' = [upload EXCEPT ![u].step = "writing", ![u].path = p]
  <2>1. /\ TypeOK /\ upload[u] \in Request /\ upload[u].step = "naming"
        /\ UNCHANGED <<apps, docs, attached, told>>
    BY DEF IInv, TypeOK, OpenFile, Rows, Files
  <2>2. p \in Path
    BY <2>1 DEF Request, Form, Path
  <2>3. /\ upload'[u] = [upload[u] EXCEPT !.step = "writing", !.path = p]
        /\ \A v \in Upload \ {u} : upload'[v] = upload[v]
    BY <1>2, <2>1 DEF TypeOK
  <2>4. /\ upload'[u] \in Request /\ upload'[u].step = "writing" /\ upload'[u].path = p
        /\ upload'[u].form = upload[u].form /\ upload'[u].linked = upload[u].linked
    BY <2>1, <2>2, <2>3 DEF Request, Step
  <2>5. TypeOK'
    BY <1>2, <2>1, <2>2, <2>3, <2>4 DEF TypeOK
  <2>6. /\ p \notin attached /\ \A e \in told : docs[e] # p
        /\ \A v \in Upload : Busy(upload[v]) => upload[v].path # p
    BY <1>2 DEF IInv, PostingsHaveFiles, AcknowledgedKept, OwnFiles, Owns
  <2>7. \A q \in Path \ {p} : disk'[q] = disk[q]
    BY <1>2, <2>1 DEF TypeOK
  <2>8. PostingsHaveFiles' /\ AcknowledgedKept'
    <3>1. attached \subseteq Path /\ \A e \in told : docs[e] # Absent => docs[e] \in Path
      BY <2>1 DEF TypeOK, Path
    <3>. QED
      BY <2>1, <2>6, <2>7, <3>1 DEF IInv, PostingsHaveFiles, AcknowledgedKept
  <2>9. OwnFiles'
    <3>1. Owns(upload[u])'
      BY <1>2, <2>1, <2>2, <2>4, <2>6 DEF Owns, TypeOK
    <3>2. ASSUME NEW v \in Upload \ {u}, Busy(upload[v])
          PROVE  Owns(upload[v])'
      BY <2>1, <2>3, <2>6, <2>7, <3>2 DEF IInv, OwnFiles, Owns
    <3>. QED
      BY <2>3, <3>1, <3>2 DEF OwnFiles
  <2>10. PathsDistinct'
    <3>1. ASSUME NEW v \in Upload \ {u}, Busy(upload'[v])
          PROVE  upload'[v].path # p
      BY <2>3, <2>6, <3>1
    <3>2. ASSUME NEW v \in Upload \ {u}, NEW w \in Upload \ {u}, v # w,
                 Busy(upload'[v]), Busy(upload'[w])
          PROVE  upload'[v].path # upload'[w].path
      BY <2>3, <3>2 DEF IInv, PathsDistinct
    <3>. QED
      BY <2>4, <3>1, <3>2 DEF PathsDistinct
  <2>11. LinksRemembered'
    <3>1. LinkRemembered(upload[u])
      BY DEF IInv, LinksRemembered
    <3>2. LinkRemembered(upload'[u])
      BY <2>1, <2>4, <3>1 DEF LinkRemembered
    <3>. QED
      BY <2>3, <3>2 DEF IInv, LinksRemembered
  <2>. QED
    BY <2>5, <2>8, <2>9, <2>10, <2>11 DEF IInv
<1>. QED
  BY <1>1, <1>2 DEF OpenFile, Files

LEMMA CopyFileStep ==
  ASSUME IInv, NEW u \in Upload, CopyFile(u)
  PROVE  IInv'
<1>. DEFINE p == upload[u].path
<1>1. /\ TypeOK /\ upload[u].step = "writing" /\ Busy(upload[u]) /\ Owns(upload[u])
      /\ UNCHANGED <<apps, docs, attached, told>>
  BY DEF IInv, OwnFiles, CopyFile, Busy, Rows, Files
<1>2. CASE Discard(u) /\ Move(u, Failed(u))
  BY <1>1, <1>2, StepsTyped, DiscardStep
<1>3. CASE disk' = [disk EXCEPT ![p] = "whole"] /\ UNCHANGED stray /\ Move(u, "written")
  <2>1. /\ upload' \in [Upload -> Request]
        /\ upload'[u].step = "written" /\ upload'[u].path = p
        /\ upload'[u].form = upload[u].form /\ upload'[u].linked = upload[u].linked
        /\ \A v \in Upload \ {u} : upload'[v] = upload[v]
    BY <1>1, <1>3, Moved DEF Step
  <2>2. /\ disk'[p] = "whole" /\ \A q \in Path \ {p} : disk'[q] = disk[q]
    BY <1>1, <1>3 DEF TypeOK, Owns
  <2>3. TypeOK'
    BY <1>1, <1>3, <2>1 DEF TypeOK
  <2>4. PostingsHaveFiles' /\ AcknowledgedKept'
    <3>1. attached \subseteq Path /\ \A e \in told : docs[e] # Absent => docs[e] \in Path
      BY <1>1 DEF TypeOK, Path
    <3>. QED
      BY <1>1, <2>2, <3>1 DEF IInv, PostingsHaveFiles, AcknowledgedKept
  <2>5. OwnFiles'
    <3>1. Owns(upload[u])'
      BY <1>1, <2>1, <2>2 DEF Owns
    <3>2. ASSUME NEW v \in Upload \ {u}, Busy(upload[v])
          PROVE  Owns(upload[v])'
      BY <1>1, <2>1, <2>2, <3>2 DEF IInv, OwnFiles, PathsDistinct, Owns
    <3>. QED
      BY <2>1, <3>1, <3>2 DEF OwnFiles
  <2>6. PathsDistinct' /\ LinksRemembered'
    BY <1>1, <2>1 DEF IInv, PathsDistinct, LinksRemembered, LinkRemembered, Busy
  <2>. QED
    BY <2>3, <2>4, <2>5, <2>6 DEF IInv
<1>. QED
  BY <1>2, <1>3 DEF CopyFile, Files

\* The row of a document whose id was free is inserted.
LEMMA InsertDocumentStep ==
  ASSUME IInv, NEW u \in Upload, InsertDocument(u)
  PROVE  IInv'
<1>. DEFINE p == upload[u].path
<1>1. /\ TypeOK /\ upload[u].step = "written" /\ Busy(upload[u]) /\ Owns(upload[u])
      /\ UNCHANGED <<apps, attached, told>> /\ upload[u].form.kind = "document"
  BY DEF IInv, OwnFiles, InsertDocument, Busy
<1>2. CASE Discard(u) /\ Move(u, "failed") /\ UNCHANGED docs
  BY <1>1, <1>2, DiscardStep
<1>3. CASE /\ docs[p[2]] = Absent
           /\ docs' = [docs EXCEPT ![p[2]] = p]
           /\ Move(u, "inserted")
           /\ UNCHANGED <<disk, stray>>
  <2>1. /\ upload' \in [Upload -> Request]
        /\ upload'[u].step = "inserted" /\ upload'[u].path = p
        /\ upload'[u].form = upload[u].form /\ upload'[u].linked = upload[u].linked
        /\ \A v \in Upload \ {u} : upload'[v] = upload[v]
    BY <1>1, <1>3, Moved DEF Step
  <2>2. /\ p \in Path /\ p[2] \in Id /\ p # Absent
        /\ docs'[p[2]] = p /\ \A d \in Id \ {p[2]} : docs'[d] = docs[d]
    BY <1>1, <1>3, AbsentAssumption DEF TypeOK, Owns, Path
  <2>3. TypeOK'
    BY <1>1, <1>3, <2>1, <2>2 DEF TypeOK
  <2>4. p[2] \notin told /\ \A q \in attached : q[2] # p[2]
    BY <1>1, <1>3, AbsentAssumption DEF IInv, AcknowledgedKept, PostingsHaveFiles, TypeOK, Path
  <2>5. PostingsHaveFiles' /\ AcknowledgedKept'
    BY <1>1, <1>3, <2>2, <2>4 DEF IInv, PostingsHaveFiles, AcknowledgedKept, TypeOK
  <2>6. OwnFiles'
    <3>1. Owns(upload[u])'
      BY <1>1, <1>3, <2>1, <2>2, <2>4 DEF Owns, TypeOK
    <3>2. ASSUME NEW v \in Upload \ {u}, Busy(upload[v])
          PROVE  Owns(upload[v])'
      <4>1. Owns(upload[v]) /\ upload[v].path \in Path /\ upload[v].path[2] \in Id
        BY <3>2 DEF IInv, OwnFiles, Owns, Path
      <4>2. upload[v].step = "inserted" => upload[v].path[2] # p[2]
        BY <1>3, <4>1, AbsentAssumption DEF Owns
      <4>. QED
        BY <1>1, <1>3, <2>1, <2>2, <2>4, <4>1, <4>2 DEF Owns, TypeOK
    <3>. QED
      BY <2>1, <3>1, <3>2 DEF OwnFiles
  <2>7. PathsDistinct' /\ LinksRemembered'
    BY <1>1, <2>1 DEF IInv, PathsDistinct, LinksRemembered, LinkRemembered, Busy
  <2>. QED
    BY <2>3, <2>5, <2>6, <2>7 DEF IInv
<1>. QED
  BY <1>2, <1>3 DEF InsertDocument, Files

LEMMA ReadDocumentStep ==
  ASSUME IInv, NEW u \in Upload, ReadDocument(u)
  PROVE  IInv'
<1>. DEFINE p == upload[u].path
<1>1. /\ TypeOK /\ upload[u].step = "inserted" /\ Busy(upload[u]) /\ Owns(upload[u])
      /\ UNCHANGED <<apps, docs, attached>> /\ LinkRemembered(upload[u])
  BY DEF IInv, OwnFiles, LinksRemembered, ReadDocument, Busy, Rows, Files
<1>2. CASE Discard(u) /\ Move(u, "failed") /\ UNCHANGED told
  BY <1>1, <1>2, DiscardStep
<1>3. CASE Move(u, "saved") /\ told' = told \cup {p[2]} /\ UNCHANGED <<disk, stray>>
  <2>1. /\ upload' \in [Upload -> Request]
        /\ upload'[u].step = "saved" /\ upload'[u].form = upload[u].form
        /\ \A v \in Upload \ {u} : upload'[v] = upload[v]
        /\ ~Busy(upload'[u])
    BY <1>1, <1>3, Moved DEF Step, Busy
  <2>2. p \in Path /\ p[2] \in Id /\ p # Absent /\ docs[p[2]] = p /\ disk[p] = "whole"
    BY <1>1, AbsentAssumption DEF Owns, Path
  <2>3. TypeOK'
    BY <1>1, <1>3, <2>1, <2>2 DEF TypeOK
  <2>4. PostingsHaveFiles' /\ AcknowledgedKept'
    BY <1>1, <1>3, <2>2 DEF IInv, PostingsHaveFiles, AcknowledgedKept
  <2>5. OwnFiles'
    <3>1. ASSUME NEW v \in Upload \ {u}, Busy(upload[v])
          PROVE  Owns(upload[v])'
      BY <1>1, <1>3, <2>1, <2>2, <3>1 DEF IInv, OwnFiles, PathsDistinct, Owns
    <3>. QED
      BY <2>1, <3>1 DEF OwnFiles
  <2>6. PathsDistinct' /\ LinksRemembered'
    BY <1>1, <2>1 DEF IInv, PathsDistinct, LinksRemembered, LinkRemembered
  <2>. QED
    BY <2>3, <2>4, <2>5, <2>6 DEF IInv
<1>. QED
  BY <1>2, <1>3 DEF ReadDocument, Files

\* Both rows of a posting are committed together.
LEMMA AttachStep ==
  ASSUME IInv, NEW u \in Upload, Attach(u)
  PROVE  IInv'
<1>. DEFINE p == upload[u].path
<1>1. /\ TypeOK /\ upload[u].step = "written" /\ Busy(upload[u]) /\ Owns(upload[u])
      /\ UNCHANGED apps /\ LinkRemembered(upload[u]) /\ upload[u].form.kind # "document"
  BY DEF IInv, OwnFiles, LinksRemembered, Attach, Busy
<1>2. CASE Discard(u) /\ Move(u, Failed(u)) /\ UNCHANGED <<docs, attached, told>>
  BY <1>1, <1>2, StepsTyped, DiscardStep
<1>3. CASE /\ docs[p[2]] = Absent
           /\ docs' = [docs EXCEPT ![p[2]] = p]
           /\ attached' = attached \cup {p}
           /\ Move(u, "saved")
           /\ told' = told \cup {p[2]}
           /\ UNCHANGED <<disk, stray>>
  <2>1. /\ upload' \in [Upload -> Request]
        /\ upload'[u].step = "saved" /\ upload'[u].form = upload[u].form
        /\ upload'[u].linked = upload[u].linked
        /\ \A v \in Upload \ {u} : upload'[v] = upload[v]
        /\ ~Busy(upload'[u])
    BY <1>1, <1>3, Moved DEF Step, Busy
  <2>2. /\ p \in Path /\ p[2] \in Id /\ p # Absent /\ disk[p] = "whole"
        /\ docs'[p[2]] = p /\ \A d \in Id \ {p[2]} : docs'[d] = docs[d]
    BY <1>1, <1>3, AbsentAssumption DEF TypeOK, Owns, Path
  <2>3. p \in App \X Id
    <3>1. p[1] = upload[u].form.app /\ upload[u].form \in Form
      BY <1>1 DEF Owns, TypeOK, Request
    <3>2. upload[u].form.app \in App
      BY <1>1, <3>1 DEF Form
    <3>. QED
      BY <2>2, <3>1, <3>2 DEF Path
  <2>4. TypeOK'
    BY <1>1, <1>3, <2>1, <2>2, <2>3 DEF TypeOK
  <2>5. p[2] \notin told /\ \A q \in attached : q[2] # p[2]
    BY <1>1, <1>3, AbsentAssumption DEF IInv, AcknowledgedKept, PostingsHaveFiles, TypeOK, Path
  <2>6. PostingsHaveFiles' /\ AcknowledgedKept'
    BY <1>1, <1>3, <2>2, <2>5 DEF IInv, PostingsHaveFiles, AcknowledgedKept, TypeOK
  <2>7. OwnFiles'
    <3>1. ASSUME NEW v \in Upload \ {u}, Busy(upload[v])
          PROVE  Owns(upload[v])'
      <4>1. /\ Owns(upload[v]) /\ upload[v].path \in Path /\ upload[v].path[2] \in Id
            /\ upload[v].path # p
        BY <1>1, <3>1 DEF IInv, OwnFiles, PathsDistinct, Owns, Path
      <4>2. upload[v].step = "inserted" => upload[v].path[2] # p[2]
        BY <1>3, <4>1, AbsentAssumption DEF Owns
      <4>. QED
        BY <1>1, <1>3, <2>1, <2>2, <2>5, <4>1, <4>2 DEF Owns, TypeOK
    <3>. QED
      BY <2>1, <3>1 DEF OwnFiles
  <2>8. PathsDistinct' /\ LinksRemembered'
    BY <1>1, <2>1 DEF IInv, PathsDistinct, LinksRemembered, LinkRemembered
  <2>. QED
    BY <2>4, <2>6, <2>7, <2>8 DEF IInv
<1>. QED
  BY <1>2, <1>3 DEF Attach, Files

------------------------------------------------------------------------------
LEMMA NextIInv == IInv /\ [Next]_vars => IInv'
<1>1. ASSUME IInv, UNCHANGED vars
      PROVE  IInv'
  <2>1. TypeOK' /\ LinksRemembered'
    BY <1>1 DEF IInv, TypeOK, LinksRemembered, vars
  <2>. QED
    BY <1>1, <2>1, PlainStep DEF vars, LinksRemembered
<1>. QED
  BY <1>1, SubmitStep, ValidateDocumentStep, CreateApplicationStep,
     ReadApplicationStep, LoadApplicationStep, UpdateLinkStep, ReadLinkStep,
     OpenFileStep, CopyFileStep, InsertDocumentStep, ReadDocumentStep,
     AttachStep, FinishStep, CrashStep DEF Next, Serve

LEMMA Invariance == Spec => []IInv
  BY InitIInv, NextIInv, PTL DEF Spec

\* The state always has its type.
THEOREM TypeCorrect == Spec => []TypeOK
  BY Invariance, PTL DEF IInv

\* Every posting attached to an application has its document and its file.
THEOREM PostingsCorrect == Spec => []PostingsHaveFiles
  BY Invariance, PTL DEF IInv

\* An upload that was answered as saved is never lost again.
THEOREM AcknowledgedCorrect == Spec => []AcknowledgedKept
  BY Invariance, PTL DEF IInv

\* A posting form answered as saved has had its link stored.
THEOREM LinkCorrect == Spec => []SavedLinkWasStored
<1>1. IInv => SavedLinkWasStored
  BY DEF IInv, LinksRemembered, LinkRemembered, SavedLinkWasStored
<1>. QED
  BY <1>1, Invariance, PTL
------------------------------------------------------------------------------
(* Files without a document *)

Covered(p) ==
  \/ docs[p[2]] = p
  \/ \E u \in Upload : Filling(u) /\ upload[u].path = p
  \/ p \in stray

\* Steps that keep every file and every request that is writing one.
LEMMA KeepsCovered ==
  ASSUME IInv, NoOrphans, UNCHANGED <<docs, disk, stray>>,
         \A v \in Upload : upload[v].step \in {"writing", "written"} =>
           upload'[v].step = upload[v].step /\ upload'[v].path = upload[v].path
  PROVE  NoOrphans'
  BY DEF NoOrphans, Filling

\* Steps of a request whose file becomes a document, goes, or is left behind.
LEMMA EndsCovered ==
  ASSUME IInv, NoOrphans, NEW u \in Upload, Busy(upload[u]),
         \A v \in Upload \ {u} : upload'[v] = upload[v],
         \A d \in Id : docs[d] # Absent => docs'[d] = docs[d],
         stray \subseteq stray',
         LET p == upload[u].path IN
           /\ \A q \in Path \ {p} : disk'[q] = disk[q]
           /\ disk'[p] = "none" \/ p \in stray' \/ docs'[p[2]] = p \/
              (upload'[u].step = "written" /\ upload'[u].path = p)
  PROVE  NoOrphans'
<1>. DEFINE p == upload[u].path
<1>1. SUFFICES ASSUME NEW q \in Path, disk'[q] # "none" PROVE Covered(q)'
  BY DEF NoOrphans, Covered
<1>2. CASE q = p
  BY <1>1, <1>2 DEF Covered, Filling
<1>3. CASE q # p
  <2>1. disk[q] # "none"
    BY <1>1, <1>3
  <2>2. CASE docs[q[2]] = q
    <3>1. q[2] \in Id /\ q # Absent
      BY AbsentAssumption DEF Path
    <3>. QED
      BY <2>2, <3>1 DEF Covered
  <2>3. CASE \E v \in Upload : Filling(v) /\ upload[v].path = q
    <3>1. PICK v \in Upload : Filling(v) /\ upload[v].path = q
      BY <2>3
    <3>2. v # u
      BY <1>3, <3>1
    <3>. QED
      BY <3>1, <3>2 DEF Covered, Filling
  <2>4. CASE q \in stray
    BY <2>4 DEF Covered
  <2>. QED
    BY <2>1, <2>2, <2>3, <2>4 DEF NoOrphans
<1>. QED
  BY <1>2, <1>3

LEMMA OrphansStep ==
  ASSUME IInv, NoOrphans, [Next]_vars
  PROVE  NoOrphans'
<1>1. CASE UNCHANGED vars
  BY <1>1, KeepsCovered DEF vars
<1>2. ASSUME NEW u \in Upload,
             \/ \E form \in Form : Submit(u, form)
             \/ ValidateDocument(u) \/ CreateApplication(u) \/ ReadApplication(u)
             \/ LoadApplication(u) \/ ReadLink(u) \/ Finish(u)
      PROVE  NoOrphans'
  <2>1. upload[u].step \notin {"writing", "written"} /\ UNCHANGED <<docs, disk, stray>>
    BY <1>2 DEF Submit, ValidateDocument, CreateApplication, ReadApplication,
       LoadApplication, ReadLink, Finish, Rows, Files
  <2>2. \A v \in Upload \ {u} : upload'[v] = upload[v]
    BY <1>2 DEF Submit, ValidateDocument, CreateApplication, ReadApplication,
       LoadApplication, ReadLink, Finish, Move, IInv, TypeOK
  <2>. QED
    BY <2>1, <2>2, KeepsCovered
<1>3. ASSUME NEW u \in Upload, UpdateLink(u)
      PROVE  NoOrphans'
  <2>1. UNCHANGED <<docs, disk, stray>> /\ upload[u].step = "loaded"
    BY <1>3 DEF UpdateLink, Files
  <2>2. ASSUME NEW v \in Upload \ {u}
        PROVE  upload'[v].step = upload[v].step /\ upload'[v].path = upload[v].path
    <3>1. CASE Move(u, "failed")
      BY <3>1 DEF Move, IInv, TypeOK
    <3>2. CASE upload' = [Linked(upload[u].form.app, upload[u].form.url)
                           EXCEPT ![u].step = "updated"]
      <4>1. upload[v] \in Request
        BY DEF IInv, TypeOK
      <4>2. upload'[v] = Linked(upload[u].form.app, upload[u].form.url)[v]
        BY <3>2 DEF Linked
      <4>. DEFINE r == upload[v]
                  sets == r.form.app = upload[u].form.app /\ r.form.url = upload[u].form.url
      <4>3. upload'[v] = [r EXCEPT !.linked = @ \/ sets]
        BY <4>2 DEF Linked
      <4>. HIDE DEF sets
      <4>. QED
        BY <4>1, <4>3 DEF Request
    <3>. QED
      BY <1>3, <3>1, <3>2 DEF UpdateLink
  <2>. QED
    BY <2>1, <2>2, KeepsCovered
<1>4. ASSUME NEW u \in Upload, NEW d \in Id, OpenFile(u, d)
      PROVE  NoOrphans'
  <2>. DEFINE p == <<upload[u].form.app, d>>
  <2>1. /\ upload[u].step = "naming" /\ UNCHANGED docs
        /\ \A v \in Upload \ {u} : upload'[v] = upload[v]
    BY <1>4 DEF OpenFile, Rows, Move, IInv, TypeOK
  <2>2. CASE UNCHANGED Files
    BY <2>1, <2>2, KeepsCovered DEF Files
  <2>3. CASE /\ UNCHANGED stray
             /\ disk' = [disk EXCEPT ![p] = "partial"]
             /\ upload' = [upload EXCEPT ![u].step = "writing", ![u].path = p]
    <3>1. upload'[u].step = "writing" /\ upload'[u].path = p
      <4>1. upload[u] \in Request
        BY DEF IInv, TypeOK
      <4>. QED
        BY <2>3, <4>1 DEF IInv, TypeOK, Request
    <3>2. \A q \in Path \ {p} : disk'[q] = disk[q]
      BY <2>3 DEF IInv, TypeOK
    <3>. QED
      BY <2>1, <2>3, <3>1, <3>2 DEF NoOrphans, Filling
  <2>. QED
    BY <1>4, <2>2, <2>3 DEF OpenFile
<1>5. ASSUME NEW u \in Upload,
             CopyFile(u) \/ InsertDocument(u) \/ ReadDocument(u) \/ Attach(u)
      PROVE  NoOrphans'
  <2>. DEFINE p == upload[u].path
  <2>1. /\ TypeOK /\ Busy(upload[u]) /\ p \in Path /\ p[2] \in Id
        /\ (upload[u].step = "inserted" => docs[p[2]] = p)
    BY <1>5 DEF IInv, OwnFiles, Owns, Path, Busy, CopyFile, InsertDocument, ReadDocument, Attach
  <2>2. \A v \in Upload \ {u} : upload'[v] = upload[v]
    BY <1>5, <2>1 DEF CopyFile, InsertDocument, ReadDocument, Attach, Move, TypeOK
  <2>3. \A d \in Id : docs[d] # Absent => docs'[d] = docs[d]
    BY <1>5, <2>1 DEF CopyFile, InsertDocument, ReadDocument, Attach, Rows, TypeOK
  <2>4. \A q \in Path \ {p} : disk'[q] = disk[q]
    BY <1>5, <2>1 DEF CopyFile, InsertDocument, ReadDocument, Attach, Discard, Rows, Files, TypeOK
  <2>5. ASSUME Discard(u)
        PROVE  disk'[p] = "none" \/ p \in stray'
    BY <2>1, <2>5 DEF Discard, TypeOK
  <2>6. ASSUME docs' = [docs EXCEPT ![p[2]] = p]
        PROVE  docs'[p[2]] = p
    BY <2>1, <2>6 DEF TypeOK
  <2>7. ASSUME Move(u, "written")
        PROVE  upload'[u].step = "written" /\ upload'[u].path = p
    BY <2>1, <2>7, Moved DEF Step
  <2>8. \/ disk'[p] = "none" \/ p \in stray' \/ docs'[p[2]] = p
        \/ upload'[u].step = "written" /\ upload'[u].path = p
    BY <1>5, <2>1, <2>5, <2>6, <2>7 DEF CopyFile, InsertDocument, ReadDocument, Attach, Rows
  <2>9. stray \subseteq stray'
    BY <1>5 DEF CopyFile, InsertDocument, ReadDocument, Attach, Discard, Files
  <2>. QED
    BY <2>1, <2>2, <2>3, <2>4, <2>8, <2>9, EndsCovered
<1>6. ASSUME Crash
      PROVE  NoOrphans'
  BY <1>6 DEF Crash, Rows, NoOrphans
<1>. QED
  BY <1>1, <1>2, <1>3, <1>4, <1>5, <1>6 DEF Next, Serve

\* No upload leaves a file behind that no document points at, unless the process
\* stopped or the file could not be removed.
THEOREM NoOrphansCorrect == Spec => []NoOrphans
<1>1. Init => NoOrphans
  BY DEF Init, NoOrphans
<1>2. IInv /\ NoOrphans /\ [Next]_vars => NoOrphans'
  BY OrphansStep
<1>. QED
  BY <1>1, <1>2, Invariance, PTL DEF Spec
------------------------------------------------------------------------------
(* The contract *)

\* A document is filed under its own id, and one under an application was confirmed as it
\* was filed.
Filed ==
  \A d \in Id : docs[d] # Absent =>
    /\ docs[d] \in Path /\ docs[d][2] = d
    /\ docs[d][1] # Library => d \in told

Documents == <<docs, attached, told>>

LEMMA PathFacts ==
  ASSUME NEW p \in Path
  PROVE  /\ p = <<p[1], p[2]>> /\ p[1] \in App \cup {Library} /\ p[2] \in Id
         /\ p # Absent
BY AbsentAssumption DEF Path

\* The only document a file can be of is the one with its id.
LEMMA OneFileChanges ==
  ASSUME TypeOK, Filed, NEW p \in Path, UNCHANGED docs,
         \A q \in Path \ {p} : disk'[q] = disk[q]
  PROVE  /\ docs[p[2]] # p => Readable' = Readable
         /\ docs[p[2]] = p =>
              Readable' = IF disk'[p] = "whole" THEN Readable \cup {p[2]} ELSE Readable \ {p[2]}
<1>1. p[2] \in Id /\ p # Absent
  BY PathFacts
<1>2. ASSUME NEW d \in Id, docs[d] # Absent, d # p[2]
      PROVE  disk'[docs[d]] = disk[docs[d]]
  BY <1>2 DEF Filed
<1>3. ASSUME docs[p[2]] # p, docs[p[2]] # Absent
      PROVE  disk'[docs[p[2]]] = disk[docs[p[2]]]
  BY <1>1, <1>3 DEF Filed
<1>4. CASE docs[p[2]] # p
  <2>1. ASSUME NEW d \in Id PROVE d \in Readable' <=> d \in Readable
    BY <1>2, <1>3, <1>4 DEF Readable
  <2>. QED BY <1>4, <2>1 DEF Readable
<1>5. CASE docs[p[2]] = p
  <2>1. ASSUME NEW d \in Id \ {p[2]} PROVE d \in Readable' <=> d \in Readable
    BY <1>2 DEF Readable
  <2>2. p[2] \in Readable' <=> disk'[p] = "whole"
    BY <1>1, <1>5 DEF Readable
  <2>3. Readable \subseteq Id /\ Readable' \subseteq Id
    BY DEF Readable
  <2>. QED BY <1>1, <1>5, <2>1, <2>2, <2>3
<1>. QED BY <1>4, <1>5

\* A request that is still busy with its file holds no confirmed document.
LEMMA BusyUnconfirmed ==
  ASSUME IInv, Filed, NEW u \in Upload, Busy(upload[u]), docs[upload[u].path[2]] = upload[u].path
  PROVE  Contract!Unconfirmed(upload[u].path[2])
<1>. DEFINE p == upload[u].path
<1>1. p \in Path /\ \A d \in told : docs[d] # p
  BY DEF IInv, OwnFiles, Owns
<1>2. p = <<p[1], p[2]>> /\ p[2] \in Id /\ p # Absent
  BY <1>1, PathFacts
<1>3. p[2] \notin told
  BY <1>1
<1>4. p[1] = Library
  BY <1>2, <1>3 DEF Filed
<1>. QED BY <1>2, <1>3, <1>4 DEF Contract!Unconfirmed

\* A request that removes its file may take it from an unconfirmed document only.
LEMMA DiscardMaps ==
  ASSUME IInv, Filed, NEW u \in Upload, Busy(upload[u]), Discard(u), UNCHANGED Documents
  PROVE  [Contract!Next]_(Contract!vars)
<1>. DEFINE p == upload[u].path
<1>1. TypeOK /\ p \in Path /\ p[2] \in Id
  BY PathFacts DEF IInv, OwnFiles, Owns
<1>2. UNCHANGED <<docs, attached, told>>
  BY DEF Documents
<1>3. CASE disk' = [disk EXCEPT ![p] = "none"]
  <2>1. disk'[p] = "none" /\ \A q \in Path \ {p} : disk'[q] = disk[q]
    BY <1>1, <1>3 DEF TypeOK
  <2>2. /\ docs[p[2]] # p => Readable' = Readable
        /\ docs[p[2]] = p => Readable' = Readable \ {p[2]}
    BY <1>1, <1>2, <2>1, OneFileChanges
  <2>3. CASE docs[p[2]] # p
    BY <1>2, <2>2, <2>3 DEF Contract!vars
  <2>4. CASE docs[p[2]] = p
    <3>1. Contract!LoseFile(p[2])
      BY <1>2, <2>2, <2>4, BusyUnconfirmed DEF Contract!LoseFile
    <3>. QED BY <1>1, <3>1 DEF Contract!Next
  <2>. QED BY <2>3, <2>4
<1>4. CASE UNCHANGED disk
  BY <1>2, <1>4 DEF Contract!vars, Readable
<1>. QED BY <1>3, <1>4 DEF Discard

LEMMA CopyMaps ==
  ASSUME IInv, Filed, NEW u \in Upload, CopyFile(u)
  PROVE  [Contract!Next]_(Contract!vars)
<1>. DEFINE p == upload[u].path
<1>1. Busy(upload[u]) /\ UNCHANGED Documents /\ UNCHANGED <<docs, attached, told>>
  BY DEF CopyFile, Busy, Rows, Documents
<1>2. TypeOK /\ p \in Path /\ p[2] \in Id
  BY <1>1, PathFacts DEF IInv, OwnFiles, Owns
<1>3. CASE Discard(u)
  BY <1>1, <1>3, DiscardMaps
<1>4. CASE disk' = [disk EXCEPT ![p] = "whole"]
  <2>1. disk'[p] = "whole" /\ \A q \in Path \ {p} : disk'[q] = disk[q]
    BY <1>2, <1>4 DEF TypeOK
  <2>2. /\ docs[p[2]] # p => Readable' = Readable
        /\ docs[p[2]] = p => Readable' = Readable \cup {p[2]}
    BY <1>1, <1>2, <2>1, OneFileChanges
  <2>3. CASE docs[p[2]] # p
    BY <1>1, <2>2, <2>3 DEF Contract!vars
  <2>4. CASE docs[p[2]] = p
    <3>1. Contract!ReplaceFile(p[2])
      BY <1>1, <2>2, <2>4, BusyUnconfirmed DEF Contract!ReplaceFile
    <3>. QED BY <1>2, <3>1 DEF Contract!Next
  <2>. QED BY <2>3, <2>4
<1>. QED BY <1>3, <1>4 DEF CopyFile

LEMMA OpenMaps ==
  ASSUME IInv, Filed, NEW u \in Upload, NEW d \in Id, OpenFile(u, d)
  PROVE  UNCHANGED Contract!vars
<1>. DEFINE p == <<upload[u].form.app, d>>
<1>1. UNCHANGED <<docs, attached, told>> /\ TypeOK /\ upload[u] \in Request
  BY DEF OpenFile, Rows, IInv, TypeOK
<1>2. CASE UNCHANGED Files
  BY <1>1, <1>2 DEF Contract!vars, Readable, Files
<1>3. CASE disk[p] = "none" /\ disk' = [disk EXCEPT ![p] = "partial"]
  <2>1. p \in Path /\ p[2] = d
    BY <1>1 DEF Request, Form, Path
  <2>2. disk'[p] = "partial" /\ \A q \in Path \ {p} : disk'[q] = disk[q]
    BY <1>1, <1>3, <2>1 DEF TypeOK
  <2>3. d \notin Readable \/ docs[d] # p
    BY <1>3 DEF Readable
  <2>4. /\ docs[p[2]] # p => Readable' = Readable
        /\ docs[p[2]] = p => Readable' = Readable \ {p[2]}
    BY <1>1, <2>1, <2>2, OneFileChanges
  <2>5. Readable' = Readable
    BY <2>1, <2>3, <2>4
  <2>. QED BY <1>1, <2>5 DEF Contract!vars
<1>. QED BY <1>2, <1>3 DEF OpenFile

\* A row that is inserted with its file in place makes the document readable.
LEMMA FiledReadable ==
  ASSUME TypeOK, NEW p \in Path, docs[p[2]] = Absent, docs' = [docs EXCEPT ![p[2]] = p],
         disk[p] = "whole", UNCHANGED disk
  PROVE  Readable' = Readable \cup {p[2]}
<1>1. p[2] \in Id /\ p # Absent
  BY PathFacts
<1>2. docs'[p[2]] = p /\ \A d \in Id \ {p[2]} : docs'[d] = docs[d]
  BY <1>1 DEF TypeOK
<1>3. \A d \in Id : d \in Readable' <=> d \in Readable \/ d = p[2]
  BY <1>1, <1>2 DEF Readable
<1>4. Readable \subseteq Id /\ Readable' \subseteq Id
  BY DEF Readable
<1>. QED BY <1>1, <1>3, <1>4

LEMMA InsertMaps ==
  ASSUME IInv, Filed, NEW u \in Upload, InsertDocument(u)
  PROVE  [Contract!Next]_(Contract!vars) /\ Filed'
<1>. DEFINE p == upload[u].path
<1>1. /\ Busy(upload[u]) /\ UNCHANGED <<attached, told>>
      /\ upload[u].step = "written" /\ upload[u].form.kind = "document"
  BY DEF InsertDocument, Busy
<1>2. TypeOK /\ p \in Path /\ p[2] \in Id /\ p = <<p[1], p[2]>> /\ disk[p] = "whole"
  BY <1>1, PathFacts DEF IInv, OwnFiles, Owns
<1>3. CASE Discard(u) /\ UNCHANGED docs
  BY <1>1, <1>3, DiscardMaps DEF Filed, Documents
<1>4. CASE docs[p[2]] = Absent /\ docs' = [docs EXCEPT ![p[2]] = p] /\ UNCHANGED Files
  <2>1. p[1] = Library
    <3>1. p[1] = upload[u].form.app /\ upload[u].form \in Form
      BY <1>1, <1>2 DEF IInv, OwnFiles, Owns, TypeOK, Request
    <3>. QED BY <1>1, <3>1 DEF Form
  <2>2. Readable' = Readable \cup {p[2]}
    BY <1>2, <1>4, FiledReadable DEF Files
  <2>3. Contract!FileDocument(p[2])
    BY <1>1, <1>2, <1>4, <2>1, <2>2 DEF Contract!FileDocument
  <2>4. docs'[p[2]] = p /\ \A d \in Id \ {p[2]} : docs'[d] = docs[d]
    BY <1>2, <1>4 DEF TypeOK
  <2>5. Filed'
    BY <1>1, <1>2, <2>1, <2>4 DEF Filed
  <2>. QED BY <1>2, <2>3, <2>5 DEF Contract!Next
<1>. QED BY <1>3, <1>4 DEF InsertDocument

LEMMA ConfirmMaps ==
  ASSUME IInv, Filed, NEW u \in Upload, ReadDocument(u)
  PROVE  [Contract!Next]_(Contract!vars)
<1>. DEFINE p == upload[u].path
<1>1. /\ Busy(upload[u]) /\ upload[u].step = "inserted" /\ UNCHANGED <<docs, attached>>
  BY DEF ReadDocument, Busy, Rows
<1>2. /\ TypeOK /\ p \in Path /\ p[2] \in Id /\ p # Absent
      /\ disk[p] = "whole" /\ docs[p[2]] = p
  BY <1>1, PathFacts DEF IInv, OwnFiles, Owns
<1>3. CASE Discard(u) /\ UNCHANGED told
  BY <1>1, <1>3, DiscardMaps DEF Documents
<1>4. CASE told' = told \cup {p[2]} /\ UNCHANGED Files
  <2>1. Readable' = Readable /\ p[2] \in Readable
    BY <1>1, <1>2, <1>4 DEF Readable, Files
  <2>2. Contract!Confirm(p[2])
    BY <1>1, <1>2, <1>4, <2>1, BusyUnconfirmed DEF Contract!Confirm
  <2>. QED BY <1>2, <2>2 DEF Contract!Next
<1>. QED BY <1>3, <1>4 DEF ReadDocument

LEMMA AttachMaps ==
  ASSUME IInv, Filed, NEW u \in Upload, Attach(u)
  PROVE  [Contract!Next]_(Contract!vars) /\ Filed'
<1>. DEFINE p == upload[u].path
<1>1. /\ Busy(upload[u]) /\ upload[u].step = "written" /\ upload[u].form.kind # "document"
  BY DEF Attach, Busy
<1>2. TypeOK /\ p \in Path /\ p[2] \in Id /\ p = <<p[1], p[2]>> /\ disk[p] = "whole"
  BY <1>1, PathFacts DEF IInv, OwnFiles, Owns
<1>3. CASE Discard(u) /\ UNCHANGED <<docs, attached, told>>
  BY <1>1, <1>3, DiscardMaps DEF Filed, Documents
<1>4. CASE /\ docs[p[2]] = Absent /\ docs' = [docs EXCEPT ![p[2]] = p]
           /\ attached' = attached \cup {p} /\ told' = told \cup {p[2]} /\ UNCHANGED Files
  <2>1. p[1] \in App
    <3>1. p[1] = upload[u].form.app /\ upload[u].form \in Form
      BY <1>1, <1>2 DEF IInv, OwnFiles, Owns, TypeOK, Request
    <3>. QED BY <1>1, <3>1 DEF Form
  <2>2. Readable' = Readable \cup {p[2]}
    BY <1>2, <1>4, FiledReadable DEF Files
  <2>3. Contract!FilePosting(p[1], p[2])
    BY <1>2, <1>4, <2>2 DEF Contract!FilePosting
  <2>4. docs'[p[2]] = p /\ \A d \in Id \ {p[2]} : docs'[d] = docs[d]
    BY <1>2, <1>4 DEF TypeOK
  <2>5. Filed'
    BY <1>2, <1>4, <2>4 DEF Filed
  <2>. QED BY <1>2, <2>1, <2>3, <2>5 DEF Contract!Next
<1>. QED BY <1>3, <1>4 DEF Attach

LEMMA ContractStep ==
  ASSUME IInv, Filed, [Next]_vars
  PROVE  [Contract!Next]_(Contract!vars) /\ Filed'
<1>1. ASSUME UNCHANGED <<docs, attached, told, disk>>
      PROVE  UNCHANGED Contract!vars /\ Filed'
  BY <1>1 DEF Contract!vars, Readable, Filed
<1>2. ASSUME UNCHANGED <<docs, told>> PROVE Filed'
  BY <1>2 DEF Filed
<1>3. CASE UNCHANGED vars \/ Crash
  BY <1>1, <1>3 DEF vars, Crash, Rows
<1>4. ASSUME NEW u \in Upload,
             \/ \E form \in Form : Submit(u, form)
             \/ ValidateDocument(u) \/ CreateApplication(u) \/ ReadApplication(u)
             \/ LoadApplication(u) \/ UpdateLink(u) \/ ReadLink(u) \/ Finish(u)
      PROVE  UNCHANGED <<docs, attached, told, disk>>
  BY <1>4 DEF Submit, ValidateDocument, CreateApplication, ReadApplication, LoadApplication,
              UpdateLink, ReadLink, Finish, Rows, Files
<1>5. ASSUME NEW u \in Upload, NEW d \in Id, OpenFile(u, d)
      PROVE  UNCHANGED Contract!vars /\ Filed'
  BY <1>2, <1>5, OpenMaps DEF OpenFile, Rows
<1>6. ASSUME NEW u \in Upload, CopyFile(u)
      PROVE  [Contract!Next]_(Contract!vars) /\ Filed'
  BY <1>2, <1>6, CopyMaps DEF CopyFile, Rows
<1>7. ASSUME NEW u \in Upload, ReadDocument(u)
      PROVE  [Contract!Next]_(Contract!vars) /\ Filed'
  <2>1. docs' = docs /\ told \subseteq told'
    BY <1>7 DEF ReadDocument, Rows
  <2>2. Filed'
    BY <2>1 DEF Filed
  <2>. QED BY <1>7, <2>2, ConfirmMaps
<1>. QED BY <1>1, <1>3, <1>4, <1>5, <1>6, <1>7, InsertMaps, AttachMaps DEF Next, Serve

\* Files, rows and requests together implement the contract: documents are filed for good,
\* postings in one step with their attachment, and no confirmed document loses its file
\* (saveUploadedDocument, AttachDocumentToApplication).
THEOREM ContractImplemented == Spec => ImplementsDocumentContract
<1>1. Init => Contract!Init /\ Filed
  <2>1. Init => Readable = {}
    BY DEF Init, Readable
  <2>. QED BY <2>1 DEF Init, Contract!Init, Filed
<1>2. IInv /\ Filed /\ [Next]_vars => [Contract!Next]_(Contract!vars) /\ Filed'
  BY ContractStep
<1>. QED
  BY <1>1, <1>2, Invariance, PTL DEF Spec, ImplementsDocumentContract, Contract!Spec
==============================================================================
