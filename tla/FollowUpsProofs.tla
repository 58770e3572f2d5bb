--------------------------- MODULE FollowUpsProofs ----------------------------
(***************************************************************************)
(* Theorems about FollowUps, the forms that feed it and the pipeline of    *)
(* the same applications, for any number of them, any dates, any length of *)
(* a day and any instant.                                                  *)
(***************************************************************************)
EXTENDS FollowUps, PipelineFlow, TLAPS, FiniteSetTheorems

-------------------------------------------------------------------------------
(* Fields *)

LEMMA TrimFacts ==
  /\ \A text \in Text : Trim(text) \in {"", "text"} /\ Trim(Trim(text)) = Trim(text)
  /\ \A link \in Link : Trim(link) \in {"", "http", "relative"} /\ Trim(Trim(link)) = Trim(link)
  /\ Trim("") = ""
BY DEF Trim, Text, Link

\* Space is cut off texts only: a select posts one of its names.
LEMMA TrimChoices ==
  /\ \A name \in Choice(applicationStatusOptions) : Trim(name) = name
  /\ \A name \in Choice(applicationPriorityOptions) : Trim(name) = name
  /\ \A name \in Choice(applicationEventTypeOptions) : Trim(name) = name
  /\ \A name \in Choice(documentTypeOptions) : Trim(name) = name
BY DEF Trim, Choice, applicationStatusOptions, applicationPriorityOptions,
       applicationEventTypeOptions, documentTypeOptions

\* The lists of the forms, of Valid and of the schema name the same.
LEMMA SameNames ==
  /\ applicationStatusOptions = ApplicationStatus /\ StatusCheck = ApplicationStatus
  /\ applicationPriorityOptions = Priority /\ PriorityCheck = Priority
  /\ applicationEventTypeOptions = EventType /\ EventTypeCheck = EventType
  /\ documentTypeOptions = DocumentType /\ DocumentTypeCheck = DocumentType
  /\ "" \notin ApplicationStatus \cup Priority \cup EventType \cup DocumentType
BY DEF applicationStatusOptions, ApplicationStatus, StatusCheck,
       applicationPriorityOptions, Priority, PriorityCheck,
       applicationEventTypeOptions, EventType, EventTypeCheck,
       documentTypeOptions, DocumentType, DocumentTypeCheck

\* Division by the length of a day.
LEMMA DayDivision ==
  ASSUME NEW t \in Int
  PROVE  /\ t \div DayLength \in Int
         /\ (t \div DayLength) * DayLength <= t
         /\ t < (t \div DayLength) * DayLength + DayLength
BY DateAssumption

LEMMA DayProduct ==
  ASSUME NEW i \in Int, NEW j \in Int
  PROVE  /\ i * DayLength \in Int
         /\ i < j => i * DayLength + DayLength <= j * DayLength
BY DateAssumption

LEMMA DayNotZero ==
  ASSUME NEW day \in Int, day # 0
  PROVE  day * DayLength \in Int /\ day * DayLength # 0
<1>1. 0 * DayLength = 0 /\ DayLength > 0
  BY DateAssumption
<1>2. day < 0 \/ 0 < day
  OBVIOUS
<1>. QED BY <1>1, <1>2, DayProduct, DateAssumption

\* A date survives the way into the database and back.
LEMMA StoredDate ==
  /\ \A instant \in Int \cup {NoDate} : Stored(instant) = instant
  /\ \A day \in Int : (day * DayLength) \div DayLength = day
  /\ \A date \in DateField \ {BadDate} : DateOf(date) \in Int \cup {NoDate}
<1>1. ASSUME NEW instant \in Int PROVE Stored(instant) = instant
  <2>1. instant % DayLength = instant - DayLength * (instant \div DayLength)
    BY DateAssumption
  <2>2. instant \div DayLength \in Int
    BY DayDivision
  <2>3. (instant \div DayLength) * DayLength = DayLength * (instant \div DayLength)
    BY <2>2, DateAssumption
  <2>. DEFINE days == instant \div DayLength
              time == instant % DayLength
  <2>4. Stored(instant) = days * DayLength + time
    BY DateAssumption DEF Stored, parseSQLiteTime, formatTime
  <2>5. days * DayLength \in Int /\ time = instant - days * DayLength
    BY <2>1, <2>2, <2>3, DateAssumption
  <2>. HIDE DEF days, time
  <2>. QED BY <2>4, <2>5
<1>2. ASSUME NEW day \in Int PROVE (day * DayLength) \div DayLength = day
  BY DateAssumption
<1>3. ASSUME NEW date \in DateField \ {BadDate} PROVE DateOf(date) \in Int \cup {NoDate}
  BY DateAssumption DEF DateField, DateOf
<1>. QED BY <1>1, <1>2, <1>3 DEF Stored

-------------------------------------------------------------------------------
(* Application forms *)

\* What applicationFromForm asks of a trimmed form.
ApplicationAccepted(f) ==
  /\ f.company # "" /\ f.role # "" /\ f.status \in ApplicationStatus /\ f.priority \in Priority
  /\ f.link \in {"", "http"} /\ f.date # BadDate

LEMMA TrimmedApplication ==
  ASSUME NEW form \in ApplicationForm, NEW f, f = trimmedValues(form)
  PROVE  /\ f.company = Trim(form.company) /\ f.company \in {"", "text"}
         /\ f.role = Trim(form.role) /\ f.role \in {"", "text"}
         /\ f.status = form.status /\ f.status \in Choice(applicationStatusOptions)
         /\ f.priority = form.priority /\ f.priority \in Choice(applicationPriorityOptions)
         /\ f.link = Trim(form.link) /\ f.link \in {"", "http", "relative"}
         /\ f.summary = Trim(form.summary) /\ f.summary \in {"", "text"}
         /\ f.date = form.date /\ f.date \in DateField
         /\ f.notes = Trim(form.notes) /\ f.notes \in {"", "text"}
<1>1. f = [company |-> Trim(form.company), role |-> Trim(form.role),
           status |-> Trim(form.status), priority |-> Trim(form.priority),
           link |-> Trim(form.link), summary |-> Trim(form.summary),
           date |-> form.date, notes |-> Trim(form.notes)]
  BY DEF trimmedValues, ApplicationForm
<1>2. /\ {form.company, form.role, form.summary, form.notes} \subseteq Text
      /\ form.link \in Link /\ form.date \in DateField
      /\ form.status \in Choice(applicationStatusOptions)
      /\ form.priority \in Choice(applicationPriorityOptions)
  BY DEF ApplicationForm
<1>3. /\ f.company = Trim(form.company) /\ f.role = Trim(form.role)
      /\ f.status = Trim(form.status) /\ f.priority = Trim(form.priority)
      /\ f.link = Trim(form.link) /\ f.summary = Trim(form.summary)
      /\ f.date = form.date /\ f.notes = Trim(form.notes)
  BY <1>1
<1>4. Trim(form.status) = form.status /\ Trim(form.priority) = form.priority
  BY <1>2, TrimChoices
<1>5. /\ {Trim(form.company), Trim(form.role), Trim(form.summary), Trim(form.notes)}
           \subseteq {"", "text"}
      /\ Trim(form.link) \in {"", "http", "relative"}
  BY <1>2, TrimFacts
<1>. QED BY <1>2, <1>3, <1>4, <1>5

\* The store keeps a new application that the handler accepts as it is.
LEMMA CreateKeeps ==
  ASSUME NEW app, app \in NewApplication,
         {app.company, app.role} = {"text"}, {app.summary, app.notes} \subseteq {"", "text"},
         app.status \in ApplicationStatus, app.priority \in Priority, app.link \in {"", "http"}
  PROVE  CreateApplication(app) = app
<1>1. /\ Trim(app.company) = app.company /\ Trim(app.role) = app.role
      /\ Trim(app.link) = app.link /\ Trim(app.summary) = app.summary
      /\ Trim(app.notes) = app.notes
  BY DEF Trim
<1>2. app.status # "" /\ app.priority # ""
  BY SameNames
<1>3. normalizeApplicationForCreate(app) = app
  BY <1>1, <1>2 DEF normalizeApplicationForCreate, NewApplication
<1>4. validateApplicationForCreate(app) /\ app.status \in StatusCheck /\ app.priority \in PriorityCheck
  BY SameNames DEF validateApplicationForCreate, ValidHTTPURL
<1>5. Stored(app.due) = app.due
  BY StoredDate DEF NewApplication
<1>6. [app EXCEPT !.due = Stored(@)] = app
  BY <1>5 DEF NewApplication
<1>. QED BY <1>3, <1>4, <1>6 DEF CreateApplication

LEMMA PostedApplication ==
  ASSUME NEW form \in ApplicationForm
  PROVE  PostApplication(form) = IF ApplicationAccepted(trimmedValues(form))
                                 THEN ApplicationOf(trimmedValues(form)) ELSE Invalid
<1>1. PICK f : f = trimmedValues(form)
  OBVIOUS
<1>2. /\ {f.company, f.role, f.summary, f.notes} \subseteq {"", "text"}
      /\ f.status \in Choice(applicationStatusOptions)
      /\ f.priority \in Choice(applicationPriorityOptions)
      /\ f.link \in {"", "http", "relative"} /\ f.date \in DateField
  BY <1>1, TrimmedApplication
<1>3. applicationFromForm(f) = IF ApplicationAccepted(f) THEN ApplicationOf(f) ELSE Invalid
  BY SameNames DEF applicationFromForm, ApplicationAccepted, RequiredString, ValidHTTPURL
<1>4. CASE ~ApplicationAccepted(f)
  BY <1>1, <1>3, <1>4 DEF PostApplication
<1>5. CASE ApplicationAccepted(f)
  <2>1. PICK app : app = ApplicationOf(f)
    OBVIOUS
  <2>2. /\ app.company = f.company /\ app.role = f.role /\ app.status = f.status
        /\ app.priority = f.priority /\ app.link = f.link /\ app.summary = f.summary
        /\ app.notes = f.notes
    BY <2>1 DEF ApplicationOf
  <2>3. DateOf(f.date) \in Int \cup {NoDate}
    BY <1>2, <1>5, StoredDate DEF ApplicationAccepted
  <2>4. app \in NewApplication
    BY <1>2, <2>1, <2>3 DEF ApplicationOf, NewApplication, Text, Link
  <2>5. app # Invalid
    BY <2>4, ResultAssumption
  <2>6. CreateApplication(app) = app
    BY <1>2, <1>5, <2>2, <2>4, CreateKeeps DEF ApplicationAccepted
  <2>. QED BY <1>1, <1>3, <1>5, <2>1, <2>5, <2>6 DEF PostApplication
<1>. QED BY <1>1, <1>4, <1>5

LEMMA AcceptedApplication ==
  ASSUME NEW form \in ApplicationForm, ApplicationAccepted(trimmedValues(form))
  PROVE  ApplicationOf(trimmedValues(form)) \notin {Invalid, Refused}
<1>1. PICK f : f = trimmedValues(form)
  OBVIOUS
<1>2. /\ {f.company, f.role, f.summary, f.notes} \subseteq {"", "text"}
      /\ f.status \in Choice(applicationStatusOptions)
      /\ f.priority \in Choice(applicationPriorityOptions)
      /\ f.link \in {"", "http", "relative"} /\ f.date \in DateField
  BY <1>1, TrimmedApplication
<1>3. DateOf(f.date) \in Int \cup {NoDate}
  BY <1>1, <1>2, StoredDate DEF ApplicationAccepted
<1>4. ApplicationOf(f) \in NewApplication
  BY <1>2, <1>3 DEF ApplicationOf, NewApplication, Text, Link
<1>. QED BY <1>1, <1>4, ResultAssumption

\* A form with what the selects offer, and with its fields filled in, leaves a row.
LEMMA OfferedApplicationStored ==
  ASSUME NEW form \in ApplicationForm,
         form.status \in applicationStatusOptions, form.priority \in applicationPriorityOptions,
         Typed(form.company), Typed(form.role),
         Trim(form.link) # "relative", form.date # BadDate
  PROVE  /\ PostApplication(form) = ApplicationOf(trimmedValues(form))
         /\ PostApplication(form) \in ApplicationRow
<1>1. PICK f : f = trimmedValues(form)
  OBVIOUS
<1>2. /\ f.company = "text" /\ f.role = "text" /\ f.status = form.status
      /\ f.priority = form.priority /\ f.link \in {"", "http"} /\ f.date = form.date
      /\ f.date \in Dates \cup {0, NoDate} /\ {f.summary, f.notes} \subseteq {"", "text"}
  <2>1. Trim(form.company) # "" /\ Trim(form.role) # ""
    BY DEF Typed
  <2>2. /\ f.company = Trim(form.company) /\ f.company \in {"", "text"}
        /\ f.role = Trim(form.role) /\ f.role \in {"", "text"}
        /\ f.link = Trim(form.link) /\ f.link \in {"", "http", "relative"}
    BY <1>1, TrimmedApplication
  <2>3. /\ f.status = form.status /\ f.priority = form.priority
        /\ f.date = form.date /\ f.date \in DateField
        /\ f.summary \in {"", "text"} /\ f.notes \in {"", "text"}
    BY <1>1, TrimmedApplication
  <2>. QED BY <2>1, <2>2, <2>3 DEF DateField
<1>3. ApplicationAccepted(f)
  BY <1>2, SameNames DEF ApplicationAccepted
<1>4. DateOf(f.date) \in {NoDate} \cup {day * DayLength : day \in Dates \cup {0}}
  BY <1>2 DEF DateOf
<1>5. ApplicationOf(f) \in ApplicationRow
  BY <1>2, <1>4, SameNames DEF ApplicationOf, ApplicationRow
<1>. QED BY <1>1, <1>3, <1>5, PostedApplication

LEMMA ResultsAreNoRows == Invalid \notin ApplicationRow /\ Refused \notin ApplicationRow
<1>1. {day * DayLength : day \in Dates \cup {0}} \subseteq Int
  BY DateAssumption
<1>2. StatusCheck \subseteq Choice(applicationStatusOptions)
      /\ PriorityCheck \subseteq Choice(applicationPriorityOptions)
  BY SameNames DEF Choice
<1>3. ASSUME NEW row \in ApplicationRow PROVE row \in NewApplication
  BY <1>1, <1>2, <1>3 DEF ApplicationRow, NewApplication, Text, Link
<1>. QED BY <1>3, ResultAssumption

-------------------------------------------------------------------------------
(* Status forms *)

\* A status form leaves the row with its own status, summary and date.
LEMMA PostedStatus ==
  ASSUME NEW row, NEW form \in StatusForm
  PROVE  PostStatus(row, form) =
           IF form.status \in ApplicationStatus /\ form.date # BadDate
           THEN [row EXCEPT !.status = form.status, !.summary = Trim(form.summary),
                            !.due = DateOf(form.date)]
           ELSE Invalid
<1>1. PICK f : f = trimmedValues(form)
  OBVIOUS
<1>2. f = [status |-> Trim(form.status), summary |-> Trim(form.summary), date |-> form.date]
  BY <1>1 DEF trimmedValues, StatusForm
<1>3. form.status \in Choice(applicationStatusOptions) /\ form.summary \in Text
      /\ form.date \in DateField
  BY DEF StatusForm
<1>4. f.status = form.status /\ f.summary = Trim(form.summary) /\ f.date = form.date
  BY <1>2, <1>3, TrimChoices
<1>5. Trim(f.summary) = Trim(form.summary)
  BY <1>3, <1>4, TrimFacts
<1>6. form.date # BadDate => Stored(DateOf(f.date)) = DateOf(form.date)
  BY <1>3, <1>4, StoredDate
<1>7. form.status \in ApplicationStatus =>
        f.status # "" /\ f.status \in StatusCheck /\ "note" \in EventTypeCheck
  BY <1>4, SameNames DEF EventTypeCheck, EventType
<1>. QED BY <1>1, <1>4, <1>5, <1>6, <1>7 DEF PostStatus, RequiredString

\* A prefilled status form holds what it was prefilled with.
LEMMA StatusFormPrefilled ==
  ASSUME NEW row, row.status \in ApplicationStatus, row.summary \in {"", "text"},
         NEW day \in Dates \cup {NoDate}, row.due = DateOf(day)
  PROVE  /\ applicationStatusFormValues(row) =
              [status |-> row.status, summary |-> row.summary, date |-> day]
         /\ applicationStatusFormValues(row) \in StatusForm
<1>1. CASE day = NoDate
  <2>1. inputDate(row.due) = day
    BY <1>1 DEF inputDate, DateOf
  <2>. QED BY <1>1, <2>1, SameNames
           DEF applicationStatusFormValues, Selected, StatusForm, Choice, Text, DateField
<1>2. CASE day \in Dates
  <2>1. day \in Int /\ day # 0 /\ day # NoDate /\ row.due = day * DayLength
    BY <1>2, DateAssumption DEF DateOf
  <2>2. row.due \in Int /\ row.due # 0 /\ row.due # NoDate
    BY <2>1, DayNotZero, DateAssumption
  <2>3. inputDate(row.due) = day
    BY <2>1, <2>2, StoredDate DEF inputDate, IsZero
  <2>. QED BY <1>2, <2>3, SameNames
           DEF applicationStatusFormValues, Selected, StatusForm, Choice, Text, DateField
<1>. QED BY <1>1, <1>2

\* Such a form, posted as it was shown, gives back the row.
LEMMA PrefilledPosted ==
  ASSUME NEW row, row.status \in ApplicationStatus, row.summary \in {"", "text"},
         NEW day \in Dates \cup {NoDate}, row.due = DateOf(day),
         [row EXCEPT !.status = row.status, !.summary = row.summary, !.due = row.due] = row
  PROVE  PostStatus(row, applicationStatusFormValues(row)) = row
<1>1. PICK form : form = applicationStatusFormValues(row)
  OBVIOUS
<1>2. form = [status |-> row.status, summary |-> row.summary, date |-> day] /\ form \in StatusForm
  BY <1>1, StatusFormPrefilled
<1>3. form.status = row.status /\ form.summary = row.summary /\ form.date = day
  BY <1>2
<1>4. Trim(form.summary) = row.summary
  BY <1>3 DEF Trim
<1>5. form.date # BadDate
  BY <1>3, DateAssumption
<1>6. PostStatus(row, form) =
        IF form.status \in ApplicationStatus /\ form.date # BadDate
        THEN [row EXCEPT !.status = form.status, !.summary = Trim(form.summary),
                         !.due = DateOf(form.date)]
        ELSE Invalid
  BY <1>2, PostedStatus
<1>. QED BY <1>1, <1>3, <1>4, <1>5, <1>6

\* A status form of known names leaves an application's row a row.
LEMMA PostedStatusRow ==
  ASSUME NEW row \in ApplicationRow, NEW form \in StatusForm
  PROVE  /\ PostStatus(row, form) # Refused
         /\ form.status \in applicationStatusOptions /\ form.date # BadDate
              => PostStatus(row, form) \in ApplicationRow
<1>1. CASE form.status \in ApplicationStatus /\ form.date # BadDate
  <2>1. PICK new : new = [row EXCEPT !.status = form.status, !.summary = Trim(form.summary),
                                     !.due = DateOf(form.date)]
    OBVIOUS
  <2>2. Trim(form.summary) \in {"", "text"} /\ form.date \in Dates \cup {0, NoDate}
    BY <1>1, TrimFacts DEF StatusForm, DateField
  <2>3. DateOf(form.date) \in {NoDate} \cup {day * DayLength : day \in Dates \cup {0}}
    BY <2>2 DEF DateOf
  <2>4. form.status \in StatusCheck
    BY <1>1, SameNames
  <2>5. new \in ApplicationRow
    BY <2>1, <2>2, <2>3, <2>4 DEF ApplicationRow
  <2>6. PostStatus(row, form) = new
    BY <1>1, <2>1, PostedStatus
  <2>. QED BY <2>5, <2>6, ResultsAreNoRows
<1>2. CASE ~(form.status \in ApplicationStatus /\ form.date # BadDate)
  <2>1. PostStatus(row, form) = Invalid
    BY <1>2, PostedStatus
  <2>. QED BY <1>2, <2>1, SameNames, ResultAssumption
<1>. QED BY <1>1, <1>2

-------------------------------------------------------------------------------
(* Events, documents and contacts *)

LEMMA PostedEvent ==
  ASSUME NEW form \in EventForm
  PROVE  /\ PostEvent(form) = Refused => form.date = 0
         /\ /\ form.type \in applicationEventTypeOptions /\ Typed(form.summary)
            /\ form.date \in Dates
            => PostEvent(form) \notin {Invalid, Refused}
<1>1. PICK f : f = trimmedValues(form)
  OBVIOUS
<1>2. f = [type |-> Trim(form.type), summary |-> Trim(form.summary), date |-> form.date,
           notes |-> Trim(form.notes)]
  BY <1>1 DEF trimmedValues, EventForm
<1>3. /\ form.type \in Choice(applicationEventTypeOptions) /\ form.summary \in Text
      /\ form.date \in DateField /\ form.notes \in Text
  BY DEF EventForm
<1>4. /\ f.type = form.type /\ f.summary = Trim(form.summary) /\ f.date = form.date
      /\ f.notes = Trim(form.notes)
  BY <1>2, <1>3, TrimChoices
<1>5. /\ f.summary \in {"", "text"} /\ f.notes \in {"", "text"}
      /\ Trim(f.summary) = f.summary
  BY <1>3, <1>4, TrimFacts
<1>. DEFINE accepted == /\ f.type \in EventType /\ f.summary # ""
                        /\ f.date \notin {NoDate, BadDate}
<1>6. applicationEventFromForm(f) =
        IF accepted THEN [type |-> f.type, summary |-> f.summary, at |-> DateOf(f.date),
                          notes |-> f.notes]
                    ELSE Invalid
  BY SameNames DEF applicationEventFromForm, RequiredString
<1>7. CASE ~accepted
  <2>1. PostEvent(form) = Invalid
    BY <1>1, <1>6, <1>7 DEF PostEvent
  <2>2. ~(/\ form.type \in applicationEventTypeOptions /\ Typed(form.summary)
          /\ form.date \in Dates)
    BY <1>4, <1>7, SameNames, DateAssumption DEF Typed
  <2>. QED BY <2>1, <2>2, ResultAssumption
<1>8. CASE accepted
  <2>1. PICK event : event = [type |-> f.type, summary |-> f.summary, at |-> DateOf(f.date),
                              notes |-> f.notes]
    OBVIOUS
  <2>2. f.date \in Int /\ DateOf(f.date) = f.date * DayLength /\ DateOf(f.date) \in Int
    <3>1. f.date \in Dates \cup {0} /\ f.date # NoDate
      <4>1. f.date \in Dates \cup {0, NoDate, BadDate}
        BY <1>3, <1>4 DEF DateField
      <4>2. f.date # NoDate /\ f.date # BadDate
        BY <1>8
      <4>. QED BY <4>1, <4>2
    <3>2. f.date \in Int
      <4>1. Dates \cup {0} \subseteq Int
        BY DateAssumption
      <4>. QED BY <3>1, <4>1, Zenon
    <3>3. DateOf(f.date) = f.date * DayLength
      BY <3>1 DEF DateOf
    <3>. QED BY <3>2, <3>3, DateAssumption
  <2>3. /\ event.type = f.type /\ event.summary = f.summary /\ event.at = DateOf(f.date)
        /\ event \in NewEvent
    BY <1>3, <1>4, <1>5, <2>1, <2>2 DEF NewEvent, Text
  <2>4. event \notin {Invalid, Refused}
    BY <2>3, ResultAssumption
  <2>5. PostEvent(form) = AddEvent(event)
    BY <1>1, <1>6, <1>8, <2>1, <2>4 DEF PostEvent
  <2>6. [event EXCEPT !.at = Stored(@)] = event
    BY <2>2, <2>3, StoredDate DEF NewEvent
  <2>7. AddEvent(event) = IF event.at = 0 THEN Refused ELSE event
    BY <1>5, <1>8, <2>3, <2>6, SameNames DEF AddEvent, IsZero
  <2>8. f.date # 0 => event.at # 0
    BY <2>2, <2>3, DayNotZero
  <2>. QED BY <1>4, <2>4, <2>5, <2>7, <2>8, DateAssumption
<1>. QED BY <1>7, <1>8

LEMMA CreatedDocument ==
  ASSUME NEW document \in DocumentForm, document.name = "text", document.type \in DocumentType
  PROVE  CreateDocument(document) \notin {Invalid, Refused}
<1>1. document.type # ""
  BY SameNames
<1>2. CreateDocument(document) = document
  BY <1>1, SameNames DEF CreateDocument, Trim, DocumentForm
<1>. QED BY <1>2, ResultAssumption

LEMMA PostedDocument ==
  ASSUME NEW form \in DocumentForm
  PROVE  /\ PostDocument(form) # Refused
         /\ form.type \in documentTypeOptions /\ Typed(form.name) => PostDocument(form) # Invalid
<1>1. PICK f : f = trimmedValues(form)
  OBVIOUS
<1>2. f = [name |-> Trim(form.name), type |-> Trim(form.type), notes |-> Trim(form.notes)]
  BY <1>1 DEF trimmedValues, DocumentForm
<1>3. form.name \in Text /\ form.type \in Choice(documentTypeOptions) /\ form.notes \in Text
  BY DEF DocumentForm
<1>4. f.name = Trim(form.name) /\ f.type = form.type /\ f.notes = Trim(form.notes)
  BY <1>2, <1>3, TrimChoices
<1>5. f.name \in {"", "text"} /\ f.notes \in {"", "text"}
  BY <1>3, <1>4, TrimFacts
<1>. DEFINE accepted == f.name # "" /\ f.type \in DocumentType
<1>6. documentFromUploadForm(f) =
        IF accepted THEN [name |-> f.name, type |-> f.type, notes |-> f.notes] ELSE Invalid
  BY SameNames DEF documentFromUploadForm, RequiredString
<1>7. CASE ~accepted
  <2>1. PostDocument(form) = Invalid
    BY <1>1, <1>6, <1>7 DEF PostDocument
  <2>. QED BY <1>4, <1>7, <2>1, SameNames, ResultAssumption DEF Typed
<1>8. CASE accepted
  <2>1. PICK document : document = [name |-> f.name, type |-> f.type, notes |-> f.notes]
    OBVIOUS
  <2>2. /\ document \in DocumentForm /\ document.name = "text"
        /\ document.type \in DocumentType
    BY <1>3, <1>4, <1>5, <1>8, <2>1 DEF DocumentForm, Text
  <2>3. document # Invalid
    BY <2>2, ResultAssumption
  <2>4. PostDocument(form) = CreateDocument(document)
    BY <1>1, <1>6, <1>8, <2>1, <2>3 DEF PostDocument
  <2>. QED BY <2>2, <2>4, CreatedDocument
<1>. QED BY <1>7, <1>8

LEMMA PostedContact ==
  ASSUME NEW form \in ContactForm
  PROVE  PostContact(form) # Refused
<1>1. PICK f : f = trimmedValues(form)
  OBVIOUS
<1>2. f = [name |-> Trim(form.name), notes |-> Trim(form.notes)]
  BY <1>1 DEF trimmedValues, ContactForm
<1>3. form.name \in Text /\ form.notes \in Text
  BY DEF ContactForm
<1>4. f.name \in {"", "text"} /\ f.notes \in {"", "text"} /\ Trim(f.name) = f.name
  BY <1>2, <1>3, TrimFacts
<1>5. f \in ContactForm
  BY <1>2, <1>4 DEF ContactForm, Text
<1>. QED BY <1>1, <1>4, <1>5, ResultAssumption DEF PostContact, RequiredString

-------------------------------------------------------------------------------
(* All forms *)

\* No form gets past its own checks to be turned down by the store or the schema.
THEOREM EveryFormIsStored == FormsAreStored
<1>1. ASSUME NEW form \in ApplicationForm
      PROVE  /\ PostApplication(form) # Refused
             /\ /\ form.status \in applicationStatusOptions
                /\ form.priority \in applicationPriorityOptions
                /\ Typed(form.company) /\ Typed(form.role)
                /\ Trim(form.link) # "relative" /\ form.date # BadDate
                => PostApplication(form) \in ApplicationRow
  <2>1. PostApplication(form) # Refused
    BY PostedApplication, AcceptedApplication, ResultAssumption
  <2>. QED BY <2>1, OfferedApplicationStored
<1>2. "job_posting" \in AttachmentType /\ "job_posting" \in AttachmentTypeCheck
  BY DEF AttachmentType, AttachmentTypeCheck
<1>3. AttachPosting("job_posting", "job_posting") # Refused
  <2>1. PICK document : document = [name |-> "text", type |-> "job_posting", notes |-> "text"]
    OBVIOUS
  <2>2. document \in DocumentForm /\ document.name = "text" /\ document.type \in DocumentType
    BY <2>1 DEF DocumentForm, Text, Choice, documentTypeOptions, DocumentType
  <2>. QED BY <1>2, <2>1, <2>2, CreatedDocument DEF AttachPosting
<1>. QED BY <1>1, <1>3, PostedStatusRow, PostedEvent, PostedDocument, PostedContact
         DEF FormsAreStored

\* A prefilled form changes nothing.
THEOREM EveryUntouchedFormKeepsItsRow == UntouchedFormsKeepRows
<1>1. ASSUME NEW row \in ApplicationRow, ~IsZero(row.due)
      PROVE  PostStatus(row, applicationStatusFormValues(row)) = row
  <2>1. PICK day \in Dates \cup {NoDate} : row.due = DateOf(day)
    <3>1. row.due \in {NoDate} \cup {day * DayLength : day \in Dates \cup {0}}
      BY DEF ApplicationRow
    <3>2. CASE row.due = NoDate
      BY <3>2 DEF DateOf
    <3>3. CASE row.due # NoDate
      <4>1. PICK day \in Dates \cup {0} : row.due = day * DayLength
        BY <3>1, <3>3
      <4>2. 0 * DayLength = 0
        BY DateAssumption
      <4>3. day # 0
        BY <1>1, <4>1, <4>2 DEF IsZero
      <4>4. day \in Dates /\ day # NoDate
        BY <4>3, DateAssumption
      <4>. QED BY <4>1, <4>4 DEF DateOf
    <3>. QED BY <3>2, <3>3
  <2>2. row.status \in ApplicationStatus /\ row.summary \in {"", "text"}
    BY SameNames DEF ApplicationRow
  <2>3. row = [company |-> row.company, role |-> row.role, status |-> row.status,
               priority |-> row.priority, link |-> row.link, summary |-> row.summary,
               due |-> row.due, notes |-> row.notes]
    BY DEF ApplicationRow
  <2>4. [row EXCEPT !.status = row.status, !.summary = row.summary, !.due = row.due] = row
    BY <2>3
  <2>. QED BY <2>1, <2>2, <2>4, PrefilledPosted
<1>2. ASSUME NEW row \in ApplicationRow PROVE PostLink(row, row.link) = Invalid
  BY DEF PostLink, Trim, ApplicationRow
<1>. QED BY <1>1, <1>2 DEF UntouchedFormsKeepRows
-------------------------------------------------------------------------------
(* Stored applications *)

\* The due date of a stored application is a date typed, and not 0001-01-01.
LEMMA StoredDue ==
  ASSUME NEW row \in StoredApplication
  PROVE  /\ row.due \in Int \cup {NoDate} /\ row.due # 0
         /\ \E day \in Dates \cup {NoDate} : row.due = DateOf(day)
         /\ row.due # NoDate =>
              \E day \in Dates : day \in Int /\ day # 0 /\ row.due = day * DayLength
<1>1. row.due \in {NoDate} \cup {day * DayLength : day \in Dates}
  BY DEF StoredApplication
<1>2. CASE row.due = NoDate
  <2>1. NoDate # 0
    BY DateAssumption
  <2>2. row.due = DateOf(NoDate)
    BY <1>2 DEF DateOf
  <2>. QED BY <1>2, <2>1, <2>2
<1>3. CASE row.due # NoDate
  <2>1. PICK day \in Dates : row.due = day * DayLength
    BY <1>1, <1>3
  <2>2. day \in Int /\ day # 0 /\ day # NoDate
    BY DateAssumption
  <2>3. DateOf(day) = row.due
    BY <2>1, <2>2 DEF DateOf
  <2>. QED BY <2>1, <2>2, <2>3, DayNotZero
<1>. QED BY <1>2, <1>3

LEMMA StatusKeepsStored ==
  ASSUME NEW row \in StoredApplication, NEW form \in StatusForm,
         form.status \in ApplicationStatus, form.date \in Dates \cup {NoDate}
  PROVE  PostStatus(row, form) \in StoredApplication
<1>1. PICK new : new = [row EXCEPT !.status = form.status, !.summary = Trim(form.summary),
                                   !.due = DateOf(form.date)]
  OBVIOUS
<1>2. form.date # BadDate
  BY DateAssumption
<1>3. PostStatus(row, form) = new
  <2>1. PostStatus(row, form) =
          IF form.status \in ApplicationStatus /\ form.date # BadDate
          THEN [row EXCEPT !.status = form.status, !.summary = Trim(form.summary),
                           !.due = DateOf(form.date)]
          ELSE Invalid
    BY PostedStatus
  <2>. QED BY <1>1, <1>2, <2>1
<1>4. DateOf(form.date) \in {NoDate} \cup {day * DayLength : day \in Dates}
  BY DEF DateOf
<1>5. Trim(form.summary) \in {"", "text"}
  BY TrimFacts DEF StatusForm
<1>6. new \in StoredApplication
  BY <1>1, <1>4, <1>5 DEF StoredApplication
<1>. QED BY <1>3, <1>6

\* The prefilled status form of a stored application is one the handler takes.
LEMMA StoredPrefilled ==
  ASSUME NEW row \in StoredApplication
  PROVE  \E day \in Dates \cup {NoDate} :
           /\ row.due = DateOf(day)
           /\ applicationStatusFormValues(row) =
                [status |-> row.status, summary |-> row.summary, date |-> day]
           /\ applicationStatusFormValues(row) \in StatusForm
<1>1. PICK day \in Dates \cup {NoDate} : row.due = DateOf(day)
  BY StoredDue
<1>2. /\ row.status \in ApplicationStatus /\ row.summary \in {"", "text"}
      /\ row.due \in Int \cup {NoDate}
  BY StoredDue DEF StoredApplication
<1>. QED BY <1>1, <1>2, StatusFormPrefilled

\* A row as the handlers leave it, in the columns that FollowUps keeps.
LEMMA KeptRow ==
  ASSUME NEW row, now \in Nat,
         row.status \in ApplicationStatus, row.priority \in Priority,
         row.summary \in {"", "text"},
         row.due \in {NoDate} \cup {day * DayLength : day \in Dates}
  PROVE  Row(row) \in StoredApplication
BY DEF Row, StoredApplication

LEMMA CreatedRow ==
  ASSUME NEW a \in Application, NEW row \in NewRows(a), now \in Nat
  PROVE  Row(row) \in StoredApplication
<1>1. PICK form \in NewForms(a) : row = PostApplication(form)
  BY DEF NewRows
<1>2. /\ form.company = "text" /\ form.role = "text" /\ form.link = ""
      /\ form.status \in Statuses[a] /\ form.priority \in Priorities[a]
      /\ form.summary \in {"", " text"} /\ form.date \in {NoDate} \cup Dates
  BY DEF NewForms
<1>3. form.status \in applicationStatusOptions /\ form.priority \in applicationPriorityOptions
  <2>1. Priorities[a] \subseteq Priority /\ Statuses[a] \subseteq ApplicationStatus
    BY RowAssumption
  <2>. QED BY <1>2, <2>1, SameNames
<1>4. form \in ApplicationForm
  BY <1>3 DEF NewForms, ApplicationForm, Text, Link, Choice, DateField
<1>5. form.date # BadDate
  BY <1>2, DateAssumption
<1>6. Typed(form.company) /\ Typed(form.role) /\ Trim(form.link) # "relative"
  BY <1>2 DEF Typed, Trim
<1>7. row = ApplicationOf(trimmedValues(form))
  BY <1>1, <1>3, <1>4, <1>5, <1>6, OfferedApplicationStored
<1>8. PICK f : f = trimmedValues(form)
  OBVIOUS
<1>9. /\ f.status = form.status /\ f.priority = form.priority
      /\ f.summary \in {"", "text"} /\ f.date = form.date
  BY <1>4, <1>8, TrimmedApplication
<1>10. /\ row.status = f.status /\ row.priority = f.priority
       /\ row.summary = f.summary /\ row.due = DateOf(f.date)
  BY <1>7, <1>8 DEF ApplicationOf
<1>11. row.due \in {NoDate} \cup {day * DayLength : day \in Dates}
  BY <1>2, <1>9, <1>10 DEF DateOf
<1>12. row.status \in ApplicationStatus /\ row.priority \in Priority /\ row.summary \in {"", "text"}
  BY <1>3, <1>9, <1>10, SameNames
<1>. QED BY <1>11, <1>12, KeptRow

\* What the status form leaves of a stored application.
LEMMA StatusFormStored ==
  ASSUME NEW row \in StoredApplication, NEW a \in Application,
         NEW form \in StatusForms(a), now \in Nat
  PROVE  Row(PostStatus(row, form)) \in StoredApplication
<1>1. /\ form \in StatusForm /\ form.status \in ApplicationStatus
      /\ form.date \in Dates \cup {NoDate}
  BY RowAssumption, SameNames DEF StatusForms, StatusForm, Choice, Text, DateField
<1>2. PICK new : new = PostStatus(row, form)
  OBVIOUS
<1>3. new \in StoredApplication
  BY <1>1, <1>2, StatusKeepsStored
<1>4. Row(new) \in StoredApplication
  BY <1>3, KeptRow DEF StoredApplication
<1>. QED BY <1>2, <1>4

-------------------------------------------------------------------------------
(* Types *)

\* The clock counts up and every application is a row that the forms leave, with
\* the instant of its last update.
THEOREM TypeCorrect == Spec => []TypeOK
<1>1. Init => TypeOK
  BY TimeAssumption DEF Init, TypeOK
<1>2. TypeOK /\ [Next]_vars => TypeOK'
  <2> SUFFICES ASSUME TypeOK, [Next]_vars PROVE TypeOK'
    OBVIOUS
  <2>1. now \in Nat /\ apps \in [Application -> {Absent} \cup StoredApplication]
    BY DEF TypeOK
  <2>2. CASE Tick
    BY <2>1, <2>2 DEF Tick, TypeOK
  <2>3. ASSUME NEW a \in Application, applicationsCreate(a) PROVE TypeOK'
    <3>1. PICK row \in NewRows(a) : apps' = [apps EXCEPT ![a] = Row(row)]
      BY <2>3 DEF applicationsCreate
    <3>2. Row(row) \in StoredApplication
      BY <2>1, CreatedRow
    <3>. QED BY <2>1, <2>3, <3>1, <3>2 DEF applicationsCreate, TypeOK
  <2>4. ASSUME NEW a \in Application, applicationsUpdateStatus(a) PROVE TypeOK'
    <3>1. PICK form \in StatusForms(a) : apps' = [apps EXCEPT ![a] = Row(PostStatus(apps[a], form))]
      BY <2>4 DEF applicationsUpdateStatus
    <3>2. apps[a] \in StoredApplication
      BY <2>1, <2>4 DEF applicationsUpdateStatus
    <3>3. Row(PostStatus(apps[a], form)) \in StoredApplication
      BY <2>1, <3>2, StatusFormStored
    <3>. QED BY <2>1, <2>4, <3>1, <3>3 DEF applicationsUpdateStatus, TypeOK
  <2>5. ASSUME NEW a \in Application, applicationsUpdatePosting(a) PROVE TypeOK'
    <3>1. apps[a] \in StoredApplication
      BY <2>1, <2>5 DEF applicationsUpdatePosting
    <3>2. [apps[a] EXCEPT !.updated = now] \in StoredApplication
      BY <2>1, <3>1 DEF StoredApplication
    <3>. QED BY <2>1, <2>5, <3>2 DEF applicationsUpdatePosting, TypeOK
  <2>6. CASE UNCHANGED vars
    BY <2>6 DEF vars, TypeOK
  <2>. QED BY <2>2, <2>3, <2>4, <2>5, <2>6 DEF Next
<1>. QED BY <1>1, <1>2, PTL DEF Spec

\* What every present application is.
LEMMA PresentStored ==
  ASSUME TypeOK, NEW a \in Present
  PROVE  a \in Application /\ apps[a] \in StoredApplication
BY DEF TypeOK, Present

-------------------------------------------------------------------------------
(* Forms of stored applications *)

\* Accepted forms are stored, and so is every stored application's own form with
\* another status chosen.
THEOREM FormsCorrect == Spec => []AcceptedFormsAreStored
<1>1. TypeOK => AcceptedFormsAreStored
  <2> SUFFICES ASSUME TypeOK, NEW a \in Present, NEW status \in Statuses[a]
               PROVE  PostStatus(apps[a],
                        [applicationStatusFormValues(apps[a]) EXCEPT !.status = status])
                          \notin {Invalid, Refused}
    BY EveryFormIsStored DEF AcceptedFormsAreStored
  <2>1. apps[a] \in StoredApplication
    BY PresentStored
  <2>2. PICK day \in Dates \cup {NoDate} :
          /\ applicationStatusFormValues(apps[a]) =
               [status |-> apps[a].status, summary |-> apps[a].summary, date |-> day]
          /\ applicationStatusFormValues(apps[a]) \in StatusForm
    BY <2>1, StoredPrefilled
  <2>3. PICK form : form = [applicationStatusFormValues(apps[a]) EXCEPT !.status = status]
    OBVIOUS
  <2>4. status \in ApplicationStatus /\ status \in Choice(applicationStatusOptions)
    <3>1. Statuses[a] \subseteq ApplicationStatus
      BY PresentStored, RowAssumption
    <3>. QED BY <3>1, SameNames DEF Choice
  <2>5. form \in StatusForm
    BY <2>2, <2>3, <2>4 DEF StatusForm
  <2>6. form.status = status /\ form.date = day
    BY <2>2, <2>3
  <2>7. PostStatus(apps[a], form) \in StoredApplication
    BY <2>1, <2>4, <2>5, <2>6, StatusKeepsStored
  <2>. QED BY <2>3, <2>7, RowAssumption
<1>. QED BY <1>1, TypeCorrect, PTL

\* A prefilled form keeps its row, whatever row the forms left.
THEOREM UntouchedCorrect == Spec => []UntouchedFormKeepsRow
<1>1. TypeOK => UntouchedFormKeepsRow
  <2> SUFFICES ASSUME TypeOK, NEW a \in Present
               PROVE  PostStatus(apps[a], applicationStatusFormValues(apps[a])) = apps[a]
    BY EveryUntouchedFormKeepsItsRow DEF UntouchedFormKeepsRow
  <2>1. PICK row : row = apps[a] /\ row \in StoredApplication
    BY PresentStored
  <2>2. PICK day \in Dates \cup {NoDate} : row.due = DateOf(day)
    BY <2>1, StoredDue
  <2>3. row.status \in ApplicationStatus /\ row.summary \in {"", "text"}
    BY <2>1 DEF StoredApplication
  <2>4. row = [status |-> row.status, priority |-> row.priority, summary |-> row.summary,
               due |-> row.due, updated |-> row.updated]
    BY <2>1 DEF StoredApplication
  <2>5. [row EXCEPT !.status = row.status, !.summary = row.summary, !.due = row.due] = row
    BY <2>4
  <2>. QED BY <2>1, <2>2, <2>3, <2>5, PrefilledPosted
<1>. QED BY <1>1, TypeCorrect, PTL
-------------------------------------------------------------------------------
(* The local day *)

\* The day an instant falls in has it between its bounds.
LEMMA DayBounds ==
  ASSUME NEW t \in Int
  PROVE  /\ LocalDay(t) \in Int /\ LocalDay(t) * DayLength \in Int
         /\ startOfDay(t) \in Int /\ endOfDay(t) \in Int
         /\ startOfDay(t) <= t /\ t <= endOfDay(t)
<1>1. LocalOffset \in Int /\ DayLength \in Int
  BY TimeAssumption, DateAssumption
<1>2. PICK local : local = t + LocalOffset /\ local \in Int
  BY <1>1
<1>3. PICK day : day = local \div DayLength
  OBVIOUS
<1>4. day \in Int /\ day * DayLength <= local /\ local < day * DayLength + DayLength
  BY <1>2, <1>3, DayDivision
<1>5. day * DayLength \in Int
  BY <1>4, DayProduct
<1>6. LocalDay(t) = day /\ startOfDay(t) = day * DayLength - LocalOffset
      /\ endOfDay(t) = day * DayLength - LocalOffset + DayLength - 1
  BY <1>2, <1>3 DEF LocalDay, startOfDay, endOfDay
<1>. QED BY <1>1, <1>2, <1>4, <1>5, <1>6

\* Later instants fall in later days.
LEMMA DaysPass ==
  ASSUME NEW t \in Int, NEW u \in Int, t <= u
  PROVE  startOfDay(t) <= startOfDay(u) /\ endOfDay(t) <= endOfDay(u)
<1>1. LocalOffset \in Int /\ DayLength \in Int
  BY TimeAssumption, DateAssumption
<1>2. PICK i, j : i = LocalDay(t) /\ j = LocalDay(u)
  OBVIOUS
<1>3. i \in Int /\ j \in Int /\ i * DayLength \in Int /\ j * DayLength \in Int
  BY <1>2, DayBounds
<1>4. /\ startOfDay(t) = i * DayLength - LocalOffset /\ startOfDay(u) = j * DayLength - LocalOffset
      /\ endOfDay(t) = i * DayLength - LocalOffset + DayLength - 1
      /\ endOfDay(u) = j * DayLength - LocalOffset + DayLength - 1
  BY <1>2 DEF startOfDay, endOfDay
<1>5. startOfDay(t) <= t /\ u <= endOfDay(u)
  BY DayBounds
<1>6. ~(j < i)
  <2> SUFFICES ASSUME j < i PROVE FALSE
    OBVIOUS
  <2>1. j * DayLength + DayLength <= i * DayLength
    BY <1>3, DayProduct
  <2>. QED BY <1>1, <1>3, <1>4, <1>5, <2>1
<1>7. i = j \/ i < j
  BY <1>3, <1>6
<1>8. i * DayLength <= j * DayLength
  <2>1. CASE i = j
    BY <1>3, <2>1
  <2>2. CASE i < j
    <3>1. i * DayLength + DayLength <= j * DayLength
      BY <1>3, <2>2, DayProduct
    <3>. QED BY <1>3, <3>1, DateAssumption
  <2>. QED BY <1>7, <2>1, <2>2
<1>. QED BY <1>1, <1>3, <1>4, <1>8

\* The rank of a due date at an instant.
DueRankAt(due, t) ==
  IF due = NoDate \/ due = 0 THEN 3
  ELSE IF due < startOfDay(t) THEN 0
  ELSE IF due <= endOfDay(t) THEN 1
  ELSE 2

LEMMA RankNow == \A due : dashboardDueRank(due) = DueRankAt(due, now)
BY DEF dashboardDueRank, DueRankAt, IsZero

LEMMA RankOnlyFalls ==
  ASSUME NEW due \in Int \cup {NoDate}, NEW t \in Int, NEW u \in Int, t <= u
  PROVE  DueRankAt(due, u) <= DueRankAt(due, t)
<1>1. /\ startOfDay(t) \in Int /\ endOfDay(t) \in Int
      /\ startOfDay(u) \in Int /\ endOfDay(u) \in Int
      /\ startOfDay(t) <= startOfDay(u) /\ endOfDay(t) <= endOfDay(u)
  BY DayBounds, DaysPass
<1>2. CASE due = NoDate \/ due = 0
  BY <1>2 DEF DueRankAt
<1>3. CASE ~(due = NoDate \/ due = 0)
  <2>1. due \in Int
    BY <1>3
  <2>. QED BY <1>1, <1>3, <2>1 DEF DueRankAt
<1>. QED BY <1>2, <1>3

\* What the rank of a stored application says of its due date.
LEMMA RankOfStored ==
  ASSUME TypeOK, NEW a \in Present
  PROVE  /\ dashboardDueRank(apps[a].due) \in 0..3
         /\ apps[a].due = NoDate => dashboardDueRank(apps[a].due) = 3
         /\ apps[a].due # NoDate =>
              /\ apps[a].due \in Int
              /\ dashboardDueRank(apps[a].due) = 0 <=> apps[a].due < startOfDay(now)
              /\ dashboardDueRank(apps[a].due) = 1 <=> /\ startOfDay(now) <= apps[a].due
                                                       /\ apps[a].due <= endOfDay(now)
              /\ dashboardDueRank(apps[a].due) = 2 <=> endOfDay(now) < apps[a].due
              /\ dashboardDueRank(apps[a].due) # 3
         /\ startOfDay(now) \in Int /\ endOfDay(now) \in Int
         /\ startOfDay(now) <= endOfDay(now)
<1>1. now \in Int /\ apps[a] \in StoredApplication
  BY PresentStored DEF TypeOK
<1>2. PICK due, first, last :
        due = apps[a].due /\ first = startOfDay(now) /\ last = endOfDay(now)
  OBVIOUS
<1>3. due \in Int \cup {NoDate} /\ due # 0
  BY <1>1, <1>2, StoredDue
<1>4. /\ first \in Int /\ last \in Int /\ first <= last
  BY <1>1, <1>2, DayBounds
<1>5. PICK rank : rank = dashboardDueRank(due)
  OBVIOUS
<1>6. rank = IF due = NoDate THEN 3 ELSE IF due < first THEN 0 ELSE IF due <= last THEN 1 ELSE 2
  BY <1>2, <1>3, <1>5 DEF dashboardDueRank, IsZero
<1>7. CASE due = NoDate
  BY <1>2, <1>4, <1>5, <1>6, <1>7
<1>8. CASE due # NoDate
  <2>1. due \in Int
    BY <1>3, <1>8
  <2>2. /\ rank \in 0..2
        /\ rank = 0 <=> due < first
        /\ rank = 1 <=> first <= due /\ due <= last
        /\ rank = 2 <=> last < due
    BY <1>4, <1>6, <1>8, <2>1
  <2>3. rank \in 0..3 /\ rank # 3
    BY <2>2
  <2>. QED BY <1>2, <1>4, <1>5, <1>8, <2>1, <2>2, <2>3
<1>. QED BY <1>7, <1>8

-------------------------------------------------------------------------------
(* What the pages show *)

\* The more urgent of two rows comes first in either order.
LEMMA UrgentFirst ==
  ASSUME TypeOK, NEW a \in Present, NEW b \in Present,
         dashboardDueRank(apps[a].due) < dashboardDueRank(apps[b].due)
  PROVE  followUpLess(a, b) /\ dashboardNextActionBefore(a, b)
<1>1. PICK i, j : i = dashboardDueRank(apps[a].due) /\ j = dashboardDueRank(apps[b].due)
  OBVIOUS
<1>2. i \in 0..3 /\ j \in 0..3 /\ i < j
  BY <1>1, RankOfStored
<1>3. apps[a].due # NoDate
  BY <1>1, <1>2, RankOfStored
<1>4. ASSUME apps[b].due # NoDate PROVE apps[a].due < apps[b].due
  <2>1. PICK l, r, first, last : /\ l = apps[a].due /\ r = apps[b].due
                                 /\ first = startOfDay(now) /\ last = endOfDay(now)
    OBVIOUS
  <2>2. /\ l \in Int /\ r \in Int /\ first \in Int /\ last \in Int /\ first <= last
        /\ i = 0 <=> l < first
        /\ i = 1 <=> first <= l /\ l <= last
        /\ j = 1 <=> first <= r /\ r <= last
        /\ j = 2 <=> last < r
        /\ i # 3 /\ j # 3
    BY <1>1, <1>3, <1>4, <2>1, RankOfStored
  <2>. QED BY <1>2, <2>1, <2>2
<1>5. followUpLess(a, b)
  BY <1>3, <1>4 DEF followUpLess
<1>. QED BY <1>5 DEF dashboardNextActionBefore

\* A list cut to ListLimit shows everything or is full.
LEMMA FullOrAll ==
  ASSUME NEW S, IsFiniteSet(S), NEW V \in SUBSET S,
         Cardinality(V) = AtMost(ListLimit, Cardinality(S))
  PROVE  V = S \/ Cardinality(V) = ListLimit
<1>1. Cardinality(S) \in Nat /\ ListLimit \in Nat
  BY FS_CardinalityType, RowAssumption
<1>2. Cardinality(V) = ListLimit \/ Cardinality(V) = Cardinality(S)
  BY <1>1 DEF AtMost
<1>3. Cardinality(V) = Cardinality(S) => V = S
  BY FS_Subset
<1>. QED BY <1>2, <1>3

\* Whatever is due is among the rows of either list.
LEMMA DueAreSelected ==
  TypeOK => DueFollowUps \subseteq NeedFollowUp /\ NeedFollowUp \subseteq FollowUpItems
<1> SUFFICES ASSUME TypeOK, NEW a \in DueFollowUps PROVE a \in NeedFollowUp
  BY DEF NeedFollowUp, FollowUpItems
<1>1. /\ a \in Present /\ HasNextAction(a)
      /\ dashboardDueRank(apps[a].due) \in {0, 1}
  BY DEF DueFollowUps
<1>2. apps[a].due # NoDate
  BY <1>1, RankOfStored
<1>3. /\ apps[a].due \in Int /\ startOfDay(now) \in Int /\ endOfDay(now) \in Int
      /\ startOfDay(now) <= endOfDay(now)
      /\ apps[a].due < startOfDay(now) \/ apps[a].due <= endOfDay(now)
  BY <1>1, <1>2, RankOfStored
<1>4. apps[a].due <= endOfDay(now)
  BY <1>3
<1>. QED BY <1>1, <1>4 DEF NeedFollowUp

\* A follow-up counted as due is on both lists, or the list that lacks it is full of
\* others no less urgent.
THEOREM ListedCorrect == Spec => []DueFollowUpsAreListed
<1>1. TypeOK => DueFollowUpsAreListed
  <2> SUFFICES ASSUME TypeOK, NEW V \in NextActionsShown \cup FollowUpsShown,
                      NEW b \in DueFollowUps, b \notin V
               PROVE  /\ Cardinality(V) = ListLimit
                      /\ \A a \in V :
                           dashboardDueRank(apps[a].due) <= dashboardDueRank(apps[b].due)
    BY DEF DueFollowUpsAreListed
  <2>1. b \in NeedFollowUp /\ b \in FollowUpItems
    BY DueAreSelected
  <2>2. /\ NeedFollowUp \subseteq Present /\ FollowUpItems \subseteq Present
        /\ IsFiniteSet(NeedFollowUp) /\ IsFiniteSet(FollowUpItems)
    <3>1. NeedFollowUp \subseteq Present /\ FollowUpItems \subseteq Present
          /\ Present \subseteq Application
      BY DEF NeedFollowUp, FollowUpItems, Present
    <3>. QED BY <3>1, FS_Subset, RowAssumption
  <2>3. ASSUME NEW a \in Present, dashboardDueRank(apps[b].due) < dashboardDueRank(apps[a].due)
        PROVE  followUpLess(b, a) /\ dashboardNextActionBefore(b, a)
    BY <2>1, <2>2, <2>3, UrgentFirst
  <2>4. ASSUME NEW a \in Present, ~(followUpLess(b, a) /\ dashboardNextActionBefore(b, a))
        PROVE  dashboardDueRank(apps[a].due) <= dashboardDueRank(apps[b].due)
    <3>1. dashboardDueRank(apps[a].due) \in 0..3 /\ dashboardDueRank(apps[b].due) \in 0..3
      BY <2>1, <2>2, RankOfStored
    <3>. QED BY <2>3, <2>4, <3>1
  <2>5. CASE V \in NextActionsShown
    <3>1. /\ V \in SUBSET NeedFollowUp /\ Cardinality(V) = AtMost(ListLimit, Cardinality(NeedFollowUp))
          /\ \A a \in V, c \in NeedFollowUp \ V : ~dashboardNextActionBefore(c, a)
      BY <2>5 DEF NextActionsShown, FillsList
    <3>2. V = NeedFollowUp \/ Cardinality(V) = ListLimit
      BY <2>2, <3>1, FullOrAll
    <3>. QED BY <2>1, <2>2, <2>4, <3>1, <3>2
  <2>6. CASE V \in FollowUpsShown
    <3>1. /\ V \in SUBSET FollowUpItems /\ Cardinality(V) = AtMost(ListLimit, Cardinality(FollowUpItems))
          /\ \A a \in V, c \in FollowUpItems \ V : ~followUpLess(c, a)
      BY <2>6 DEF FollowUpsShown, FillsList
    <3>2. V = FollowUpItems \/ Cardinality(V) = ListLimit
      BY <2>2, <3>1, FullOrAll
    <3>. QED BY <2>1, <2>2, <2>4, <3>1, <3>2
  <2>. QED BY <2>5, <2>6
<1>. QED BY <1>1, TypeCorrect, PTL

\* What the dashboard ranks as more urgent, both lists show first.
THEOREM AgreeCorrect == Spec => []PagesAgreeOnUrgency
<1>1. TypeOK => PagesAgreeOnUrgency
  <2> SUFFICES ASSUME TypeOK, NEW a \in NeedFollowUp, NEW b \in NeedFollowUp,
                      dashboardDueRank(apps[a].due) < dashboardDueRank(apps[b].due)
               PROVE  followUpLess(a, b) /\ dashboardNextActionLess(a, b)
    BY DEF PagesAgreeOnUrgency
  <2>1. a \in Present /\ b \in Present
    BY DEF NeedFollowUp
  <2>. QED BY <2>1, UrgentFirst DEF dashboardNextActionLess
<1>. QED BY <1>1, TypeCorrect, PTL
-------------------------------------------------------------------------------
(* Labels and the calendar *)

\* A stored due date, the day it was typed as and the local day, on one scale.
LEMMA LabelledDay ==
  ASSUME TypeOK, NEW a \in Present, apps[a].due # NoDate
  PROVE  LET day == inputDate(apps[a].due)
             today == LocalDay(now)
         IN  /\ day \in Int /\ today \in Int
             /\ day * DayLength \in Int /\ today * DayLength \in Int
             /\ apps[a].due = day * DayLength
             /\ startOfDay(now) = today * DayLength - LocalOffset
             /\ endOfDay(now) = today * DayLength - LocalOffset + DayLength - 1
<1>1. apps[a] \in StoredApplication /\ now \in Int
  BY PresentStored DEF TypeOK
<1>2. PICK day \in Dates : day \in Int /\ day # 0 /\ apps[a].due = day * DayLength
  BY <1>1, StoredDue
<1>3. day * DayLength # 0 /\ day * DayLength \in Int
  BY <1>2, DayNotZero
<1>4. inputDate(apps[a].due) = day
  BY <1>2, <1>3, StoredDate DEF inputDate, IsZero
<1>5. LocalDay(now) \in Int /\ LocalDay(now) * DayLength \in Int
  BY <1>1, DayBounds
<1>. QED BY <1>2, <1>3, <1>4, <1>5 DEF startOfDay, endOfDay

\* At UTC and east of it, a next action is due today on the day that was typed in
\* and overdue after it.
THEOREM LabelsCorrect ==
  ASSUME LocalOffset \in Nat
  PROVE  Spec => []LabelsFollowTheCalendar
<1>1. TypeOK => LabelsFollowTheCalendar
  <2> SUFFICES ASSUME TypeOK, NEW a \in FollowUpItems, apps[a].due # NoDate
               PROVE  /\ dashboardDueRank(apps[a].due) = 1 <=> inputDate(apps[a].due) = LocalDay(now)
                      /\ dashboardDueRank(apps[a].due) = 0 <=> inputDate(apps[a].due) < LocalDay(now)
    BY DEF LabelsFollowTheCalendar
  <2>1. a \in Present
    BY DEF FollowUpItems
  <2>2. PICK day, today, typed, current :
          /\ day = inputDate(apps[a].due) /\ today = LocalDay(now)
          /\ typed = day * DayLength /\ current = today * DayLength
    OBVIOUS
  <2>3. /\ day \in Int /\ today \in Int /\ typed \in Int /\ current \in Int
        /\ apps[a].due = typed
        /\ startOfDay(now) = current - LocalOffset
        /\ endOfDay(now) = current - LocalOffset + DayLength - 1
    BY <2>1, <2>2, LabelledDay
  <2>4. /\ day < today => typed + DayLength <= current
        /\ today < day => current + DayLength <= typed
        /\ day = today => typed = current
    BY <2>2, <2>3, DayProduct
  <2>5. LocalOffset \in 0..(DayLength - 1) /\ DayLength \in Nat \ {0}
    BY TimeAssumption, DateAssumption
  <2>6. /\ dashboardDueRank(apps[a].due) = 0 <=> typed < current - LocalOffset
        /\ dashboardDueRank(apps[a].due) = 1 <=>
             /\ current - LocalOffset <= typed
             /\ typed <= current - LocalOffset + DayLength - 1
    BY <2>1, <2>3, RankOfStored
  <2>7. /\ typed < current - LocalOffset <=> day < today
        /\ /\ current - LocalOffset <= typed
           /\ typed <= current - LocalOffset + DayLength - 1
           <=> day = today
    BY <2>3, <2>4, <2>5
  <2>. QED BY <2>2, <2>6, <2>7
<1>. QED BY <1>1, TypeCorrect, PTL

\* West of UTC the same comparison labels every next action a day early: "Due today"
\* on the day before the one typed in, and "Overdue" on that day itself.
LabelsADayEarly ==
  \A a \in FollowUpItems :
    apps[a].due # NoDate =>
      /\ dashboardDueRank(apps[a].due) = 1 <=> inputDate(apps[a].due) = LocalDay(now) + 1
      /\ dashboardDueRank(apps[a].due) = 0 <=> inputDate(apps[a].due) <= LocalDay(now)

\* On a server west of UTC all labels are a day early, all the time.
THEOREM LabelsWestOfUTC ==
  ASSUME LocalOffset < 0
  PROVE  Spec => []LabelsADayEarly
<1>1. TypeOK => LabelsADayEarly
  <2> SUFFICES ASSUME TypeOK, NEW a \in FollowUpItems, apps[a].due # NoDate
               PROVE  /\ dashboardDueRank(apps[a].due) = 1
                           <=> inputDate(apps[a].due) = LocalDay(now) + 1
                      /\ dashboardDueRank(apps[a].due) = 0
                           <=> inputDate(apps[a].due) <= LocalDay(now)
    BY DEF LabelsADayEarly
  <2>1. a \in Present
    BY DEF FollowUpItems
  <2>2. PICK day, today, typed, current, tomorrow :
          /\ day = inputDate(apps[a].due) /\ today = LocalDay(now)
          /\ typed = day * DayLength /\ current = today * DayLength
          /\ tomorrow = (today + 1) * DayLength
    OBVIOUS
  <2>3. /\ day \in Int /\ today \in Int /\ typed \in Int /\ current \in Int
        /\ apps[a].due = typed
        /\ startOfDay(now) = current - LocalOffset
        /\ endOfDay(now) = current - LocalOffset + DayLength - 1
    BY <2>1, <2>2, LabelledDay
  <2>4. /\ LocalOffset \in Int /\ 1 - DayLength <= LocalOffset /\ LocalOffset <= -1
        /\ DayLength \in Nat \ {0}
    BY TimeAssumption, DateAssumption
  <2>5. tomorrow = current + DayLength
    BY <2>2, <2>3, <2>4
  <2>6. /\ day < today + 1 => typed + DayLength <= tomorrow
        /\ today + 1 < day => tomorrow + DayLength <= typed
        /\ day = today + 1 => typed = tomorrow
    BY <2>2, <2>3, DayProduct
  <2>7. /\ dashboardDueRank(apps[a].due) = 0 <=> typed < current - LocalOffset
        /\ dashboardDueRank(apps[a].due) = 1 <=>
             /\ current - LocalOffset <= typed
             /\ typed <= current - LocalOffset + DayLength - 1
    BY <2>1, <2>3, RankOfStored
  <2>8. /\ typed < current - LocalOffset <=> day <= today
        /\ /\ current - LocalOffset <= typed
           /\ typed <= current - LocalOffset + DayLength - 1
           <=> day = today + 1
    BY <2>3, <2>4, <2>5, <2>6
  <2>. QED BY <2>2, <2>7, <2>8
<1>. QED BY <1>1, TypeCorrect, PTL
-------------------------------------------------------------------------------
(* Orders *)

\* What the dashboard's orders compare before the names.
Key == [due : Int, status : Int, priority : Int, updated : Int]

ApplicationKey(a) ==
  [due |-> dashboardDueRank(apps[a].due), status |-> dashboardStatusRank(apps[a].status),
   priority |-> dashboardPriorityRank(apps[a].priority), updated |-> apps[a].updated]

KeyBefore(k, l) ==
  \/ k.due < l.due
  \/ k.due = l.due /\ k.status < l.status
  \/ k.due = l.due /\ k.status = l.status /\ k.priority < l.priority
  \/ /\ k.due = l.due /\ k.status = l.status /\ k.priority = l.priority
     /\ k.updated > l.updated

NextKeyBefore(k, l) ==
  \/ k.due < l.due
  \/ k.due = l.due /\ k.priority < l.priority
  \/ k.due = l.due /\ k.priority = l.priority /\ KeyBefore(k, l)

KeysTied(k, l) ==
  k.due = l.due /\ k.status = l.status /\ k.priority = l.priority /\ k.updated = l.updated

\* Keys are compared one way at most, and whatever comes between no two of them is
\* tied with both.
LEMMA KeyOrder ==
  ASSUME NEW k \in Key, NEW l \in Key, NEW m \in Key
  PROVE  /\ KeyBefore(k, l) => ~KeyBefore(l, k) /\ ~KeysTied(k, l)
         /\ KeyBefore(k, l) => KeyBefore(k, m) \/ KeyBefore(m, l)
         /\ KeysTied(k, l) =>
              /\ KeysTied(l, k)
              /\ KeyBefore(k, m) \/ KeyBefore(m, l) \/ (KeysTied(k, m) /\ KeysTied(m, l))
<1>1. /\ k.due \in Int /\ k.status \in Int /\ k.priority \in Int /\ k.updated \in Int
      /\ l.due \in Int /\ l.status \in Int /\ l.priority \in Int /\ l.updated \in Int
      /\ m.due \in Int /\ m.status \in Int /\ m.priority \in Int /\ m.updated \in Int
  BY DEF Key
<1>. QED BY <1>1 DEF KeyBefore, KeysTied

LEMMA NextKeyOrder ==
  ASSUME NEW k \in Key, NEW l \in Key, NEW m \in Key
  PROVE  /\ NextKeyBefore(k, l) => ~NextKeyBefore(l, k) /\ ~KeysTied(k, l)
         /\ NextKeyBefore(k, l) => NextKeyBefore(k, m) \/ NextKeyBefore(m, l)
         /\ KeysTied(k, l) =>
              \/ NextKeyBefore(k, m) \/ NextKeyBefore(m, l)
              \/ KeysTied(k, m) /\ KeysTied(m, l)
<1>1. /\ k.due \in Int /\ k.priority \in Int /\ l.due \in Int /\ l.priority \in Int
      /\ m.due \in Int /\ m.priority \in Int
  BY DEF Key
<1>2. /\ KeyBefore(k, l) => ~KeyBefore(l, k) /\ ~KeysTied(k, l)
      /\ KeyBefore(k, l) => KeyBefore(k, m) \/ KeyBefore(m, l)
      /\ KeysTied(k, l) =>
           KeyBefore(k, m) \/ KeyBefore(m, l) \/ (KeysTied(k, m) /\ KeysTied(m, l))
  BY KeyOrder
<1>3. KeysTied(k, l) => k.due = l.due /\ k.priority = l.priority
  BY DEF KeysTied
<1>. QED BY <1>1, <1>2, <1>3 DEF NextKeyBefore

LEMMA StoredInstant ==
  ASSUME NEW row \in StoredApplication
  PROVE  row.updated \in Int
<1>1. row.updated \in Nat
  BY DEF StoredApplication
<1>. QED BY <1>1

LEMMA KeysOfPresent ==
  ASSUME TypeOK, NEW a \in Present
  PROVE  ApplicationKey(a) \in Key
<1>1. apps[a] \in StoredApplication /\ a \in Application
  BY PresentStored
<1>2. apps[a].updated \in Int
  BY <1>1, StoredInstant, Zenon
<1>3. dashboardDueRank(apps[a].due) \in Int
  BY RankOfStored
<1>4. dashboardStatusRank(apps[a].status) \in Int
  BY DEF dashboardStatusRank
<1>5. dashboardPriorityRank(apps[a].priority) \in Int
  BY DEF dashboardPriorityRank
<1>. QED BY <1>2, <1>3, <1>4, <1>5 DEF ApplicationKey, Key

LEMMA BeforeByKey ==
  ASSUME NEW a, NEW b
  PROVE  /\ dashboardApplicationBefore(a, b) <=> KeyBefore(ApplicationKey(a), ApplicationKey(b))
         /\ dashboardNextActionBefore(a, b) <=> NextKeyBefore(ApplicationKey(a), ApplicationKey(b))
         /\ Tied(a, b) <=> KeysTied(ApplicationKey(a), ApplicationKey(b))
<1>1. dashboardApplicationBefore(a, b) <=> KeyBefore(ApplicationKey(a), ApplicationKey(b))
  BY DEF dashboardApplicationBefore, KeyBefore, ApplicationKey
<1>2. /\ ApplicationKey(a).due = dashboardDueRank(apps[a].due)
      /\ ApplicationKey(b).due = dashboardDueRank(apps[b].due)
      /\ ApplicationKey(a).priority = dashboardPriorityRank(apps[a].priority)
      /\ ApplicationKey(b).priority = dashboardPriorityRank(apps[b].priority)
  BY DEF ApplicationKey
<1>3. Tied(a, b) <=> KeysTied(ApplicationKey(a), ApplicationKey(b))
  BY DEF Tied, KeysTied, ApplicationKey
<1>. QED BY <1>1, <1>2, <1>3 DEF dashboardNextActionBefore, NextKeyBefore

\* The same of the rows, by their keys.
LEMMA RowOrder ==
  ASSUME TypeOK, NEW x \in Present, NEW y \in Present, NEW z \in Present
  PROVE  /\ Tied(x, y) => Tied(y, x)
         /\ dashboardApplicationBefore(x, y) =>
              /\ ~dashboardApplicationBefore(y, x) /\ ~Tied(x, y)
              /\ dashboardApplicationBefore(x, z) \/ dashboardApplicationBefore(z, y)
         /\ dashboardNextActionBefore(x, y) =>
              /\ ~dashboardNextActionBefore(y, x) /\ ~Tied(x, y)
              /\ dashboardNextActionBefore(x, z) \/ dashboardNextActionBefore(z, y)
         /\ Tied(x, y) /\ ~(Tied(x, z) /\ Tied(z, y)) =>
              /\ dashboardApplicationBefore(x, z) \/ dashboardApplicationBefore(z, y)
              /\ dashboardNextActionBefore(x, z) \/ dashboardNextActionBefore(z, y)
<1>1. PICK k, l, m : k = ApplicationKey(x) /\ l = ApplicationKey(y) /\ m = ApplicationKey(z)
  OBVIOUS
<1>2. k \in Key /\ l \in Key /\ m \in Key
  BY <1>1, KeysOfPresent
<1>3. /\ KeyBefore(k, l) => /\ ~KeyBefore(l, k) /\ ~KeysTied(k, l)
                            /\ KeyBefore(k, m) \/ KeyBefore(m, l)
      /\ KeysTied(k, l) =>
           /\ KeysTied(l, k)
           /\ KeyBefore(k, m) \/ KeyBefore(m, l) \/ (KeysTied(k, m) /\ KeysTied(m, l))
  BY <1>2, KeyOrder
<1>4. /\ NextKeyBefore(k, l) => /\ ~NextKeyBefore(l, k) /\ ~KeysTied(k, l)
                                /\ NextKeyBefore(k, m) \/ NextKeyBefore(m, l)
      /\ KeysTied(k, l) =>
           \/ NextKeyBefore(k, m) \/ NextKeyBefore(m, l)
           \/ KeysTied(k, m) /\ KeysTied(m, l)
  BY <1>2, NextKeyOrder
<1>. QED BY <1>1, <1>3, <1>4, BeforeByKey

\* The names never put two rows before each other, and where folding goes with lower
\* case they are an order.
LEMMA NameOrder ==
  ASSUME NEW x \in Application, NEW y \in Application, NEW z \in Application
  PROVE  /\ NameLess(x, y) => ~NameLess(y, x)
         /\ (\A a, b \in {x, y, z} : FoldsAsItLowers(a, b)) =>
              (NameLess(x, y) => NameLess(x, z) \/ NameLess(z, y))
<1>1. \A a \in Application : Company[a].lower \in Int /\ Role[a].lower \in Int
  <2> TAKE a \in Application
  <2>1. Company[a] \in Name /\ Role[a] \in Name
    BY RowAssumption
  <2>. QED BY <2>1 DEF Name
<1>2. NameLess(x, y) => ~NameLess(y, x)
  BY <1>1 DEF NameLess
<1>3. ASSUME \A a, b \in {x, y, z} : FoldsAsItLowers(a, b), NameLess(x, y)
      PROVE  NameLess(x, z) \/ NameLess(z, y)
  <2>1. /\ Company[x].fold = Company[y].fold <=> Company[x].lower = Company[y].lower
        /\ Company[x].fold = Company[z].fold <=> Company[x].lower = Company[z].lower
        /\ Company[z].fold = Company[y].fold <=> Company[z].lower = Company[y].lower
    BY <1>3 DEF FoldsAsItLowers
  <2>. QED BY <1>1, <1>3, <2>1 DEF NameLess
<1>. QED BY <1>2, <1>3

\* Both orders of the dashboard, the ties broken by names.
LEMMA NamesBreakTies ==
  ASSUME TypeOK, NEW x \in Present, NEW y \in Present, NEW z \in Present
  PROVE  /\ dashboardApplicationLess(x, y) =>
              /\ ~dashboardApplicationLess(y, x)
              /\ \/ dashboardApplicationLess(x, z) \/ dashboardApplicationLess(z, y)
                 \/ NamesMayCycle(x, y, z)
         /\ dashboardNextActionLess(x, y) =>
              /\ ~dashboardNextActionLess(y, x)
              /\ \/ dashboardNextActionLess(x, z) \/ dashboardNextActionLess(z, y)
                 \/ NamesMayCycle(x, y, z)
<1>1. x \in Application /\ y \in Application /\ z \in Application
  BY PresentStored
<1>2. NameLess(x, y) => ~NameLess(y, x)
  BY <1>1, NameOrder
<1>3. /\ Tied(x, y) => Tied(y, x)
      /\ Tied(y, x) => Tied(x, y)
      /\ dashboardApplicationBefore(x, y) => ~dashboardApplicationBefore(y, x) /\ ~Tied(x, y)
      /\ dashboardApplicationBefore(y, x) => ~Tied(y, x)
      /\ dashboardNextActionBefore(x, y) => ~dashboardNextActionBefore(y, x) /\ ~Tied(x, y)
      /\ dashboardNextActionBefore(y, x) => ~Tied(y, x)
  BY RowOrder
<1>4. /\ dashboardApplicationLess(x, y) => ~dashboardApplicationLess(y, x)
      /\ dashboardNextActionLess(x, y) => ~dashboardNextActionLess(y, x)
  BY <1>2, <1>3 DEF dashboardApplicationLess, dashboardNextActionLess
<1>5. Tied(x, y) /\ Tied(x, z) /\ NameLess(x, y) =>
        NameLess(x, z) \/ NameLess(z, y) \/ NamesMayCycle(x, y, z)
  BY <1>1, NameOrder DEF NamesMayCycle
<1>6. ASSUME dashboardApplicationLess(x, y)
      PROVE  \/ dashboardApplicationLess(x, z) \/ dashboardApplicationLess(z, y)
             \/ NamesMayCycle(x, y, z)
  BY <1>5, <1>6, RowOrder DEF dashboardApplicationLess
<1>7. ASSUME dashboardNextActionLess(x, y)
      PROVE  \/ dashboardNextActionLess(x, z) \/ dashboardNextActionLess(z, y)
             \/ NamesMayCycle(x, y, z)
  BY <1>5, <1>7, RowOrder DEF dashboardNextActionLess
<1>. QED BY <1>4, <1>6, <1>7

\* Due instants with the undated ones last, those by company.
LEMMA FollowUpOrder ==
  ASSUME TypeOK, NEW a \in Present, NEW b \in Present, NEW c \in Present
  PROVE  /\ followUpLess(a, b) => ~followUpLess(b, a)
         /\ followUpLess(a, b) => followUpLess(a, c) \/ followUpLess(c, b)
<1>1. PICK x, y, z : x = apps[a].due /\ y = apps[b].due /\ z = apps[c].due
  OBVIOUS
<1>2. x \in Int \cup {NoDate} /\ y \in Int \cup {NoDate} /\ z \in Int \cup {NoDate}
  BY <1>1, PresentStored, StoredDue
<1>3. PICK i, j, k :
        i = Company[a].exact /\ j = Company[b].exact /\ k = Company[c].exact
  OBVIOUS
<1>4. i \in Nat /\ j \in Nat /\ k \in Nat
  <2>1. Company[a] \in Name /\ Company[b] \in Name /\ Company[c] \in Name
    BY PresentStored, RowAssumption
  <2>. QED BY <1>3, <2>1 DEF Name
<1>5. /\ followUpLess(b, a) <=> \/ y = NoDate /\ x = NoDate /\ j < i
                                \/ y # NoDate /\ x = NoDate
                                \/ y # NoDate /\ x # NoDate /\ y < x
      /\ followUpLess(a, b) <=> \/ x = NoDate /\ y = NoDate /\ i < j
                                \/ x # NoDate /\ y = NoDate
                                \/ x # NoDate /\ y # NoDate /\ x < y
      /\ followUpLess(a, c) <=> \/ x = NoDate /\ z = NoDate /\ i < k
                                \/ x # NoDate /\ z = NoDate
                                \/ x # NoDate /\ z # NoDate /\ x < z
      /\ followUpLess(c, b) <=> \/ z = NoDate /\ y = NoDate /\ k < j
                                \/ z # NoDate /\ y = NoDate
                                \/ z # NoDate /\ y # NoDate /\ z < y
  BY <1>1, <1>3 DEF followUpLess
<1>6. followUpLess(a, b) => ~followUpLess(b, a)
  BY <1>2, <1>4, <1>5
<1>7. ASSUME followUpLess(a, b) PROVE followUpLess(a, c) \/ followUpLess(c, b)
  <2>1. CASE x = NoDate
    BY <1>4, <1>5, <1>7, <2>1
  <2>2. CASE x # NoDate /\ (y = NoDate \/ z = NoDate)
    BY <1>5, <1>7, <2>2
  <2>3. CASE x # NoDate /\ y # NoDate /\ z # NoDate
    <3>1. x \in Int /\ y \in Int /\ z \in Int /\ x < y
      BY <1>2, <1>5, <1>7, <2>3
    <3>2. x < z \/ z < y
      BY <3>1
    <3>. QED BY <1>5, <2>3, <3>2
  <2>. QED BY <2>1, <2>2, <2>3
<1>. QED BY <1>6, <1>7

\* The applications page sorts by a strict weak order.  So does the dashboard, but for
\* rows tied in everything but names among which folding and lower case disagree.
THEOREM OrdersCorrect == Spec => []ListOrdersAreSound
<1>1. TypeOK => ListOrdersAreSound
  <2> SUFFICES ASSUME TypeOK PROVE ListOrdersAreSound
    OBVIOUS
  <2>1. NeedFollowUp \subseteq Present /\ FollowUpItems \subseteq Present
    BY DEF NeedFollowUp, FollowUpItems
  <2>2. StrictWeakOrderButForNames(dashboardApplicationLess, Present)
    BY NamesBreakTies DEF StrictWeakOrderButForNames, After
  <2>3. StrictWeakOrderButForNames(dashboardNextActionLess, NeedFollowUp)
    BY <2>1, NamesBreakTies DEF StrictWeakOrderButForNames, After
  <2>4. StrictWeakOrder(followUpLess, FollowUpItems)
    BY <2>1, FollowUpOrder DEF StrictWeakOrder, After
  <2>. QED BY <2>2, <2>3, <2>4 DEF ListOrdersAreSound
<1>. QED BY <1>1, TypeCorrect, PTL

\* Where all companies fold as they lower, as companies in plain ASCII do, the
\* dashboard's comparisons are strict weak orders too (dashboardApplicationLess,
\* dashboardNextActionLess).
THEOREM PlainNamesOrder ==
  ASSUME \A a, b \in Application : FoldsAsItLowers(a, b)
  PROVE  Spec => [](/\ StrictWeakOrder(dashboardApplicationLess, Present)
                    /\ StrictWeakOrder(dashboardNextActionLess, NeedFollowUp))
<1>1. TypeOK => /\ StrictWeakOrder(dashboardApplicationLess, Present)
                /\ StrictWeakOrder(dashboardNextActionLess, NeedFollowUp)
  <2> SUFFICES ASSUME TypeOK
               PROVE  /\ StrictWeakOrder(dashboardApplicationLess, Present)
                      /\ StrictWeakOrder(dashboardNextActionLess, NeedFollowUp)
    OBVIOUS
  <2>1. NeedFollowUp \subseteq Present /\ Present \subseteq Application
    BY DEF NeedFollowUp, Present
  <2>2. \A x, y, z \in Present : ~NamesMayCycle(x, y, z)
    BY <2>1 DEF NamesMayCycle
  <2>3. StrictWeakOrder(dashboardApplicationLess, Present)
    BY <2>2, NamesBreakTies DEF StrictWeakOrder, After
  <2>4. StrictWeakOrder(dashboardNextActionLess, NeedFollowUp)
    BY <2>1, <2>2, NamesBreakTies DEF StrictWeakOrder, After
  <2>. QED BY <2>3, <2>4
<1>. QED BY <1>1, TypeCorrect, PTL

\* Elsewhere they need not be: companies s, t and the long s, tied in everything else
\* and with the roles of the first and the last the other way round, go in a circle in
\* both orders (dashboardApplicationLess, dashboardNextActionLess).
THEOREM NamesCycle ==
  ASSUME NEW s \in Application, NEW t \in Application, NEW long \in Application,
         Tied(s, t), Tied(t, long), Tied(long, s),
         Company[s].fold = Company[long].fold, Company[t].fold # Company[s].fold,
         Company[s].lower < Company[t].lower, Company[t].lower < Company[long].lower,
         Role[long].lower < Role[s].lower
  PROVE  /\ dashboardApplicationLess(s, t) /\ dashboardApplicationLess(t, long)
         /\ dashboardApplicationLess(long, s)
         /\ dashboardNextActionLess(s, t) /\ dashboardNextActionLess(t, long)
         /\ dashboardNextActionLess(long, s)
<1>1. NameLess(s, t) /\ NameLess(t, long) /\ NameLess(long, s)
  BY DEF NameLess
<1>. QED BY <1>1 DEF dashboardApplicationLess, dashboardNextActionLess

-------------------------------------------------------------------------------
(* The passage of time *)

\* Time alone makes nothing less urgent, and nothing fresh.
THEOREM UrgencyCorrect == Spec => UrgencyOnlyGrows
<1>1. TypeOK /\ [Next]_vars =>
        (now' # now =>
           /\ \A a \in Present : dashboardDueRank(apps[a].due)' <= dashboardDueRank(apps[a].due)
           /\ DueFollowUps \subseteq DueFollowUps'
           /\ Stale \subseteq Stale')
  <2> SUFFICES ASSUME TypeOK, [Next]_vars, now' # now
               PROVE  /\ \A a \in Present :
                           dashboardDueRank(apps[a].due)' <= dashboardDueRank(apps[a].due)
                      /\ DueFollowUps \subseteq DueFollowUps'
                      /\ Stale \subseteq Stale'
    OBVIOUS
  <2>1. now' = now + 1 /\ apps' = apps
    BY DEF Next, Tick, applicationsCreate, applicationsUpdateStatus, applicationsUpdatePosting, vars
  <2>2. now \in Int /\ now' \in Int /\ now <= now'
    BY <2>1 DEF TypeOK
  <2>3. ASSUME NEW a \in Present
        PROVE  dashboardDueRank(apps[a].due)' <= dashboardDueRank(apps[a].due)
    <3>1. apps[a].due \in Int \cup {NoDate}
      BY PresentStored, StoredDue
    <3>2. /\ dashboardDueRank(apps[a].due) = DueRankAt(apps[a].due, now)
          /\ dashboardDueRank(apps[a].due)' = DueRankAt(apps[a].due, now')
      BY <2>1 DEF dashboardDueRank, DueRankAt, IsZero, startOfDay, endOfDay, LocalDay
    <3>3. DueRankAt(apps[a].due, now') <= DueRankAt(apps[a].due, now)
      BY <2>2, <3>1, RankOnlyFalls
    <3>. QED BY <3>2, <3>3
  <2>4. ASSUME NEW a \in DueFollowUps PROVE a \in DueFollowUps'
    <3>1. /\ a \in Present /\ isActiveStatus(apps[a].status) /\ HasNextAction(a)
          /\ dashboardDueRank(apps[a].due) \in {0, 1}
      BY DEF DueFollowUps
    <3>2. PICK i, j : i = dashboardDueRank(apps[a].due) /\ j = dashboardDueRank(apps[a].due)'
      OBVIOUS
    <3>3. j <= i
      BY <2>3, <3>1, <3>2
    <3>4. j \in 0..3
      <4>1. j = DueRankAt(apps[a].due, now')
        BY <2>1, <3>2 DEF dashboardDueRank, DueRankAt, IsZero, startOfDay, endOfDay, LocalDay
      <4>. QED BY <4>1 DEF DueRankAt
    <3>5. j \in {0, 1}
      BY <3>1, <3>2, <3>3, <3>4
    <3>6. a \in Present' /\ isActiveStatus(apps'[a].status) /\ HasNextAction(a)'
      BY <2>1, <3>1 DEF Present, HasNextAction
    <3>. QED BY <2>1, <3>2, <3>5, <3>6 DEF DueFollowUps
  <2>5. ASSUME NEW a \in Stale PROVE a \in Stale'
    <3>1. /\ a \in Present /\ isActiveStatus(apps[a].status)
          /\ apps[a].updated <= now - StaleActiveDays * DayLength
      BY DEF Stale
    <3>2. apps[a].updated \in Int
      BY <3>1, PresentStored, StoredInstant, Zenon
    <3>3. StaleActiveDays * DayLength \in Int
      BY TimeAssumption, DateAssumption
    <3>4. apps[a].updated <= now' - StaleActiveDays * DayLength
      BY <2>2, <3>1, <3>2, <3>3
    <3>. QED BY <2>1, <3>1, <3>4 DEF Stale, Present
  <2>. QED BY <2>3, <2>4, <2>5
<1>. QED BY <1>1, TypeCorrect, PTL DEF Spec, UrgencyOnlyGrows
-------------------------------------------------------------------------------
(* The figures of the pipeline, for any distribution of applications *)

\* How many applications have each status.
Distribution == [Status -> Nat]

LEMMA OneListOfStatuses == Status = ApplicationStatus
BY DEF Status, ApplicationStatus

LEMMA Counted ==
  ASSUME NEW counts \in Distribution
  PROVE  /\ counts["prospect"] \in Nat /\ counts["applied"] \in Nat
         /\ counts["interviewing"] \in Nat /\ counts["offer"] \in Nat
         /\ counts["accepted"] \in Nat /\ counts["declined"] \in Nat
         /\ counts["rejected"] \in Nat /\ counts["withdrawn"] \in Nat
         /\ counts["archived"] \in Nat
BY DEF Distribution, Status

\* Each group counts its own statuses, on either page.
LEMMA GroupFigures ==
  ASSUME NEW counts \in Distribution
  PROVE  /\ \A g \in {"prospect", "applied", "interviewing", "offer", "accepted"} :
              GroupCount(counts, g) = counts[g] /\ StageCount(counts, g) = counts[g]
         /\ GroupCount(counts, "closed") = counts["declined"] + counts["rejected"]
                                             + counts["withdrawn"] + counts["archived"]
         /\ StageCount(counts, "closed") = GroupCount(counts, "closed")
         /\ GroupCount(counts, "closed") \in Nat
<1>1. /\ Group["prospect"] = {"prospect"} /\ Group["applied"] = {"applied"}
      /\ Group["interviewing"] = {"interviewing"} /\ Group["offer"] = {"offer"}
      /\ Group["accepted"] = {"accepted"}
      /\ Group["closed"] = {"declined", "rejected", "withdrawn", "archived"}
  BY DEF Group
<1>2. \A g \in DOMAIN Group : Stage[g] = Group[g]
  BY DEF Group, Stage
<1>3. DOMAIN Group = {"prospect", "applied", "interviewing", "offer", "accepted", "closed"}
  BY DEF Group
<1>4. \A g \in DOMAIN Group : StageCount(counts, g) = GroupCount(counts, g)
  BY <1>2 DEF StageCount, GroupCount
<1>5. GroupCount(counts, "prospect") = counts["prospect"]
  BY <1>1, Counted DEF GroupCount, CountOf, SumOverStatuses
<1>6. GroupCount(counts, "applied") = counts["applied"]
  BY <1>1, Counted DEF GroupCount, CountOf, SumOverStatuses
<1>7. GroupCount(counts, "interviewing") = counts["interviewing"]
  BY <1>1, Counted DEF GroupCount, CountOf, SumOverStatuses
<1>8. GroupCount(counts, "offer") = counts["offer"]
  BY <1>1, Counted DEF GroupCount, CountOf, SumOverStatuses
<1>9. GroupCount(counts, "accepted") = counts["accepted"]
  BY <1>1, Counted DEF GroupCount, CountOf, SumOverStatuses
<1>10. GroupCount(counts, "closed") = counts["declined"] + counts["rejected"]
                                        + counts["withdrawn"] + counts["archived"]
  BY <1>1, Counted DEF GroupCount, CountOf, SumOverStatuses
<1>11. GroupCount(counts, "closed") \in Nat
  BY <1>10, Counted
<1>. QED BY <1>3, <1>4, <1>5, <1>6, <1>7, <1>8, <1>9, <1>10, <1>11

LEMMA TotalFigures ==
  ASSUME NEW counts \in Distribution
  PROVE  /\ Total(counts) \in Nat
         /\ Total(counts) = counts["prospect"] + counts["applied"] + counts["interviewing"]
                              + counts["offer"] + counts["accepted"]
                              + GroupCount(counts, "closed")
         /\ ActiveApplications(counts) = counts["prospect"] + counts["applied"]
                                           + counts["interviewing"] + counts["offer"]
<1>1. Total(counts) = counts["prospect"] + counts["applied"] + counts["interviewing"]
                        + counts["offer"] + counts["accepted"] + counts["declined"]
                        + counts["rejected"] + counts["withdrawn"] + counts["archived"]
  BY DEF Total, SumOverStatuses
<1>2. {s \in Status : isActiveStatus(s)}
        = {"prospect", "applied", "interviewing", "offer"}
  BY DEF Status, isActiveStatus
<1>3. ActiveApplications(counts)
        = CountOf(counts, {"prospect", "applied", "interviewing", "offer"})
  BY <1>2 DEF ActiveApplications
<1>4. ActiveApplications(counts) = counts["prospect"] + counts["applied"]
                                     + counts["interviewing"] + counts["offer"]
  BY <1>3, Counted DEF CountOf, SumOverStatuses
<1>. QED BY <1>1, <1>4, GroupFigures, Counted

\* Division, as the figures use it.
LEMMA Quotient ==
  ASSUME NEW n \in Nat, NEW total \in Nat \ {0}
  PROVE  /\ n \div total \in Nat
         /\ (n \div total) * total <= n
         /\ n < (n \div total) * total + total
OBVIOUS

\* A rounded percentage is within one of the share, before and after half a point.
LEMMA ShareBounds ==
  ASSUME NEW count \in Nat, NEW total \in Nat \ {0}
  PROVE  /\ percentageShare(count, total) \in Nat
         /\ percentageShare(count, total) * total <= count * 100 + total \div 2
         /\ count * 100 + total \div 2 < percentageShare(count, total) * total + total
<1>1. total \div 2 \in Nat /\ 2 * (total \div 2) <= total
  OBVIOUS
<1>2. CASE count = 0
  <2>1. percentageShare(count, total) = 0
    BY <1>2 DEF percentageShare
  <2>2. 0 * total = 0 /\ 0 * 100 = 0
    OBVIOUS
  <2>. QED BY <1>1, <1>2, <2>1, <2>2
<1>3. CASE count # 0
  <2>1. PICK n : n = count * 100 + total \div 2
    OBVIOUS
  <2>2. n \in Nat
    BY <1>1, <2>1
  <2>3. percentageShare(count, total) = n \div total
    BY <1>3, <2>1 DEF percentageShare
  <2>. QED BY <2>1, <2>2, <2>3, Quotient
<1>. QED BY <1>2, <1>3

\* Six parts of a whole.
Whole(total, a, b, c, d, e, f) ==
  /\ total \in Nat \ {0}
  /\ a \in Nat /\ b \in Nat /\ c \in Nat /\ d \in Nat /\ e \in Nat /\ f \in Nat
  /\ a + b + c + d + e + f = total

\* Their rounded percentages.
SixShares(total, a, b, c, d, e, f) ==
  percentageShare(a, total) + percentageShare(b, total)
    + percentageShare(c, total) + percentageShare(d, total)
    + percentageShare(e, total) + percentageShare(f, total)

LEMMA SharesAddUp ==
  ASSUME NEW total, NEW a, NEW b, NEW c, NEW d, NEW e, NEW f, Whole(total, a, b, c, d, e, f)
  PROVE  SixShares(total, a, b, c, d, e, f) \in 97..103
<1>0. /\ total \in Nat \ {0}
      /\ a \in Nat /\ b \in Nat /\ c \in Nat /\ d \in Nat /\ e \in Nat /\ f \in Nat
      /\ a + b + c + d + e + f = total
  BY DEF Whole
<1>1. PICK p, q, r, s, t, u :
        /\ p = percentageShare(a, total) /\ q = percentageShare(b, total)
        /\ r = percentageShare(c, total) /\ s = percentageShare(d, total)
        /\ t = percentageShare(e, total) /\ u = percentageShare(f, total)
  OBVIOUS
<1>2. PICK half : half = total \div 2
  OBVIOUS
<1>3. half \in Nat /\ 2 * half <= total /\ total <= 2 * half + 1
  BY <1>0, <1>2
<1>4. /\ p \in Nat /\ q \in Nat /\ r \in Nat /\ s \in Nat /\ t \in Nat /\ u \in Nat
      /\ p * total <= a * 100 + half /\ a * 100 + half < p * total + total
      /\ q * total <= b * 100 + half /\ b * 100 + half < q * total + total
      /\ r * total <= c * 100 + half /\ c * 100 + half < r * total + total
      /\ s * total <= d * 100 + half /\ d * 100 + half < s * total + total
      /\ t * total <= e * 100 + half /\ e * 100 + half < t * total + total
      /\ u * total <= f * 100 + half /\ f * 100 + half < u * total + total
  BY <1>0, <1>1, <1>2, ShareBounds
<1>5. PICK sum : sum = p + q + r + s + t + u
  OBVIOUS
<1>6. sum \in Nat /\ sum * total = p * total + q * total + r * total + s * total + t * total + u * total
  BY <1>0, <1>4, <1>5
<1>7. PICK product : product = sum * total
  OBVIOUS
<1>8. /\ product <= 100 * total + 6 * half
      /\ 100 * total + 6 * half + 6 <= product + 6 * total
  BY <1>0, <1>3, <1>4, <1>6, <1>7
<1>9. product <= 103 * total
  BY <1>0, <1>3, <1>6, <1>7, <1>8
<1>10. ~(104 <= sum)
  <2> SUFFICES ASSUME 104 <= sum PROVE FALSE
    OBVIOUS
  <2>1. 104 * total <= sum * total
    BY <1>0, <1>6
  <2>. QED BY <1>0, <1>6, <1>7, <1>9, <2>1
<1>11. ~(sum <= 96)
  <2> SUFFICES ASSUME sum <= 96 PROVE FALSE
    OBVIOUS
  <2>1. sum * total <= 96 * total
    BY <1>0, <1>6
  <2>. QED BY <1>0, <1>3, <1>6, <1>7, <1>8, <2>1
<1>12. SixShares(total, a, b, c, d, e, f) = sum
  BY <1>1, <1>5 DEF SixShares
<1>. QED BY <1>6, <1>10, <1>11, <1>12

\* The groups of both pages partition the applications, however many have each status,
\* and their shares add up to 100 but for the rounding (dashboardPipelinePulseGroups,
\* applicationsFlowFor, percentageShare).
THEOREM GroupsFor ==
  ASSUME NEW counts \in Distribution
  PROVE  GroupsPartition(counts)
<1>1. ActiveApplications(counts) + GroupCount(counts, "accepted")
        + GroupCount(counts, "closed") = Total(counts)
  BY GroupFigures, TotalFigures, Counted
<1>2. SumOverGroups(LAMBDA g : IF g \in {"accepted", "closed"} THEN 0
                                        ELSE GroupCount(counts, g))
        = ActiveApplications(counts)
  BY GroupFigures, TotalFigures, Counted DEF SumOverGroups
<1>3. \A g \in DOMAIN Group :
        StageCount(counts, g) = GroupCount(counts, g)
  BY GroupFigures DEF Group
<1>4. Total(counts) > 0 =>
        SumOverGroups(LAMBDA g :
          percentageShare(GroupCount(counts, g), Total(counts)))
            \in 97..103
  <2> SUFFICES ASSUME Total(counts) > 0
               PROVE  SumOverGroups(LAMBDA g :
                        percentageShare(GroupCount(counts, g),
                                                 Total(counts))) \in 97..103
    OBVIOUS
  <2>1. PICK total, a, b, c, d, e, f :
          /\ total = Total(counts) /\ a = counts["prospect"]
          /\ b = counts["applied"] /\ c = counts["interviewing"]
          /\ d = counts["offer"] /\ e = counts["accepted"]
          /\ f = GroupCount(counts, "closed")
    OBVIOUS
  <2>2. /\ total \in Nat \ {0} /\ a \in Nat /\ b \in Nat /\ c \in Nat /\ d \in Nat /\ e \in Nat
        /\ f \in Nat /\ a + b + c + d + e + f = total
    BY <2>1, GroupFigures, TotalFigures, Counted
  <2>3. SixShares(total, a, b, c, d, e, f) \in 97..103
    <3>1. Whole(total, a, b, c, d, e, f)
      BY <2>2 DEF Whole
    <3>. QED BY <3>1, SharesAddUp, Zenon
  <2>4. SumOverGroups(LAMBDA g : percentageShare(GroupCount(counts, g),
                                                                   Total(counts)))
          = SixShares(total, a, b, c, d, e, f)
    <3>1. /\ GroupCount(counts, "prospect") = a
          /\ GroupCount(counts, "applied") = b
          /\ GroupCount(counts, "interviewing") = c
          /\ GroupCount(counts, "offer") = d
          /\ GroupCount(counts, "accepted") = e
          /\ GroupCount(counts, "closed") = f
          /\ Total(counts) = total
      <4>1. \A g \in {"prospect", "applied", "interviewing", "offer", "accepted"} :
              GroupCount(counts, g) = counts[g]
        BY GroupFigures
      <4>. QED BY <2>1, <4>1
    <3>. QED BY <3>1 DEF SumOverGroups, SixShares
  <2>. QED BY <2>3, <2>4
<1>. QED BY <1>1, <1>2, <1>3, <1>4 DEF GroupsPartition

-------------------------------------------------------------------------------
\* The ribbons of the graph, one by one.
LEMMA Tracked ==
  ASSUME NEW counts \in Distribution, NEW g \in DOMAIN Stage
  PROVE  LET ribbons == applicationsSankeyFor(counts).tracked
             n == StageCount(counts, g)
             total == Total(counts)
         IN  /\ n \in Nat
             /\ Carried(ribbons, g) = n
             /\ Width(ribbons, g) = LinkWidth(n, total)
             /\ g \in DOMAIN ribbons =>
                  /\ ribbons[g].width = LinkWidth(n, total)
                  /\ ribbons[g].height = NodeHeight(n, total)
<1>1. PICK ribbons, n, total :
        /\ ribbons = applicationsSankeyFor(counts).tracked
        /\ n = StageCount(counts, g) /\ total = Total(counts)
  OBVIOUS
<1>2. n \in Nat
  <2>1. DOMAIN Stage = {"prospect", "applied", "interviewing", "offer", "accepted", "closed"}
    BY DEF Stage
  <2>. QED BY <1>1, <2>1, GroupFigures, Counted
<1>3. /\ n > 0 <=> g \in DOMAIN ribbons
      /\ n > 0 => /\ ribbons[g].count = n
                  /\ ribbons[g].width = LinkWidth(n, total)
                  /\ ribbons[g].height = NodeHeight(n, total)
  BY <1>1 DEF applicationsSankeyFor, Stage, stagePositions
<1>4. n = 0 \/ n > 0
  BY <1>2
<1>5. n = 0 => LinkWidth(n, total) = 0
  BY DEF LinkWidth
<1>6. Carried(ribbons, g) = n
  BY <1>3, <1>4 DEF Carried
<1>7. Width(ribbons, g) = LinkWidth(n, total)
  BY <1>3, <1>4, <1>5 DEF Width
<1>. QED BY <1>1, <1>2, <1>3, <1>6, <1>7

LEMMA Outcomes ==
  ASSUME NEW counts \in Distribution, NEW s \in Stage["closed"]
  PROVE  LET ribbons == applicationsSankeyFor(counts).closed
             n == counts[s]
             total == Total(counts)
         IN  /\ n \in Nat
             /\ Carried(ribbons, s) = n
             /\ Width(ribbons, s) = LinkWidth(n, total)
             /\ s \in DOMAIN ribbons =>
                  /\ ribbons[s].width = LinkWidth(n, total)
                  /\ ribbons[s].height = OutcomeHeight(n, total)
<1>1. PICK ribbons, n, total :
        /\ ribbons = applicationsSankeyFor(counts).closed
        /\ n = counts[s] /\ total = Total(counts)
  OBVIOUS
<1>2. n \in Nat
  BY <1>1, Counted DEF Stage
<1>3. /\ n > 0 <=> s \in DOMAIN ribbons
      /\ n > 0 => /\ ribbons[s].count = n
                  /\ ribbons[s].width = LinkWidth(n, total)
                  /\ ribbons[s].height = OutcomeHeight(n, total)
  BY <1>1 DEF applicationsSankeyFor, Stage, outcomePositions
<1>4. n = 0 \/ n > 0
  BY <1>2
<1>5. n = 0 => LinkWidth(n, total) = 0
  BY DEF LinkWidth
<1>6. Carried(ribbons, s) = n
  BY <1>3, <1>4 DEF Carried
<1>7. Width(ribbons, s) = LinkWidth(n, total)
  BY <1>3, <1>4, <1>5 DEF Width
<1>. QED BY <1>1, <1>2, <1>3, <1>6, <1>7

\* No other node has a ribbon.
LEMMA RibbonDomains ==
  ASSUME NEW counts \in Distribution
  PROVE  /\ DOMAIN applicationsSankeyFor(counts).tracked \subseteq DOMAIN Stage
         /\ DOMAIN applicationsSankeyFor(counts).closed \subseteq Stage["closed"]
BY DEF applicationsSankeyFor

LEMMA StageKeys ==
  /\ DOMAIN Stage = {"prospect", "applied", "interviewing", "offer", "accepted", "closed"}
  /\ Stage["closed"] = {"declined", "rejected", "withdrawn", "archived"}
BY DEF Stage

\* The graph loses no application on the way in or out (applicationsSankeyFor).
THEOREM FlowFor ==
  ASSUME NEW counts \in Distribution
  PROVE  FlowConserved(counts)
<1>1. PICK graph : graph = applicationsSankeyFor(counts)
  OBVIOUS
<1>2. SumOverGroups(LAMBDA g : Carried(graph.tracked, g))
        = Total(counts)
  <2>1. \A g \in DOMAIN Stage :
          Carried(graph.tracked, g) = StageCount(counts, g)
    BY <1>1, Tracked
  <2>2. /\ Carried(graph.tracked, "prospect") = counts["prospect"]
        /\ Carried(graph.tracked, "applied") = counts["applied"]
        /\ Carried(graph.tracked, "interviewing") = counts["interviewing"]
        /\ Carried(graph.tracked, "offer") = counts["offer"]
        /\ Carried(graph.tracked, "accepted") = counts["accepted"]
        /\ Carried(graph.tracked, "closed") = GroupCount(counts, "closed")
    BY <2>1, StageKeys, GroupFigures
  <2>. QED BY <2>2, TotalFigures DEF SumOverGroups
<1>3. SumOverStatuses(LAMBDA s : Carried(graph.closed, s))
        = GroupCount(counts, "closed")
  <2>1. \A s \in Stage["closed"] : Carried(graph.closed, s) = counts[s]
    BY <1>1, Outcomes
  <2>2. /\ Carried(graph.closed, "declined") = counts["declined"]
        /\ Carried(graph.closed, "rejected") = counts["rejected"]
        /\ Carried(graph.closed, "withdrawn") = counts["withdrawn"]
        /\ Carried(graph.closed, "archived") = counts["archived"]
    BY <2>1, StageKeys
  <2>3. \A s : s \notin Stage["closed"] => Carried(graph.closed, s) = 0
    BY <1>1, RibbonDomains DEF Carried
  <2>4. /\ Carried(graph.closed, "prospect") = 0
        /\ Carried(graph.closed, "applied") = 0
        /\ Carried(graph.closed, "interviewing") = 0
        /\ Carried(graph.closed, "offer") = 0
        /\ Carried(graph.closed, "accepted") = 0
    BY <2>3, StageKeys
  <2>. QED BY <2>2, <2>4, GroupFigures, Counted DEF SumOverStatuses
<1>. QED BY <1>1, <1>2, <1>3 DEF FlowConserved

\* The page behind "closed" lists all that are not active: the accepted ones too.
LEMMA ListedAsClosed ==
  ASSUME NEW counts \in Distribution
  PROVE  Listed(counts, "closed") = counts["accepted"] + GroupCount(counts, "closed")
<1>1. "closed" \notin Status
  BY DEF Status
<1>2. {s \in Status : ~isActiveStatus(s)}
        = {"accepted", "declined", "rejected", "withdrawn", "archived"}
  BY DEF Status, isActiveStatus
<1>3. Listed(counts, "closed") =
        CountOf(counts, {"accepted", "declined", "rejected", "withdrawn", "archived"})
  BY <1>1, <1>2 DEF Listed, filterApplications
<1>. QED BY <1>3, GroupFigures, Counted DEF CountOf, SumOverStatuses

\* The page behind a group with one status lists what the group counts, and the page
\* behind an outcome what its ribbon carries (filterApplications).
THEOREM LinksFor ==
  ASSUME NEW counts \in Distribution
  PROVE  LinksLead(counts)
<1>1. ASSUME NEW g \in DOMAIN Group \ {"closed"}
      PROVE  Listed(counts, g) = GroupCount(counts, g)
  <2>1. g \in Status /\ Group[g] = {g}
    BY DEF Group, Status
  <2>2. filterApplications(g) = {g}
    BY <2>1 DEF filterApplications
  <2>. QED BY <2>1, <2>2 DEF Listed, GroupCount
<1>2. ASSUME NEW s \in Stage["closed"]
      PROVE  Listed(counts, s) = Carried(applicationsSankeyFor(counts).closed, s)
  <2>1. s \in {"declined", "rejected", "withdrawn", "archived"}
    BY StageKeys
  <2>2. s \in Status
    BY <2>1 DEF Status
  <2>3. filterApplications(s) = {s}
    BY <2>1, <2>2 DEF filterApplications
  <2>4. CountOf(counts, {s}) = counts[s]
    BY <2>1, Counted DEF CountOf, SumOverStatuses
  <2>. QED BY <2>3, <2>4, Outcomes DEF Listed
<1>. QED BY <1>1, <1>2 DEF LinksLead

-------------------------------------------------------------------------------
\* Rounded-down quotients of parts are no more than that of the whole.
LEMMA QuotientOfWhole ==
  ASSUME NEW total \in Nat \ {0}, NEW n \in Nat, NEW q \in Nat, q * total <= n
  PROVE  q <= n \div total
<1>1. PICK r : r = n \div total
  OBVIOUS
<1>2. r \in Nat /\ n < r * total + total
  BY <1>1, Quotient
<1>3. ~(r + 1 <= q)
  <2> SUFFICES ASSUME r + 1 <= q PROVE FALSE
    OBVIOUS
  <2>1. (r + 1) * total <= q * total
    BY <1>2
  <2>2. (r + 1) * total = r * total + total
    BY <1>2
  <2>. QED BY <1>2, <2>1, <2>2
<1>. QED BY <1>1, <1>2, <1>3

\* How wide a ribbon is, against what it carries.
LEMMA WidthBounds ==
  ASSUME NEW total \in Nat \ {0}, NEW n \in Nat
  PROVE  \E q \in Nat : /\ q * total <= n * 64
                        /\ LinkWidth(n, total) \in Nat
                        /\ LinkWidth(n, total) <= 8 + q
                        /\ n = 0 => LinkWidth(n, total) = 0
<1>1. PICK q : q = (n * 64) \div total
  OBVIOUS
<1>2. q \in Nat /\ q * total <= n * 64
  BY <1>1, Quotient
<1>3. LinkWidth(n, total) = IF n = 0 THEN 0 ELSE IF 8 + q > 72 THEN 72 ELSE 8 + q
  BY <1>1 DEF LinkWidth, AtMost
<1>. QED BY <1>2, <1>3

\* No ribbon is wider than the node it enters.
LEMMA RibbonFits ==
  ASSUME NEW total \in Nat, NEW n \in Nat
  PROVE  /\ LinkWidth(n, total) <= NodeHeight(n, total)
         /\ LinkWidth(n, total) <= OutcomeHeight(n, total)
<1>1. CASE total = 0 \/ n = 0
  BY <1>1 DEF LinkWidth, NodeHeight, OutcomeHeight
<1>2. CASE total # 0 /\ n # 0
  <2>1. PICK w, h, o : w = (n * 64) \div total /\ h = (n * 150) \div total /\ o = (n * 90) \div total
    OBVIOUS
  <2>2. w \in Nat /\ w * total <= n * 64 /\ h \in Nat /\ o \in Nat
    BY <1>2, <2>1, Quotient
  <2>3. w * total <= n * 150 /\ w * total <= n * 90
    BY <2>2
  <2>4. w <= h /\ w <= o
    BY <1>2, <2>1, <2>2, <2>3, QuotientOfWhole
  <2>5. /\ LinkWidth(n, total) = IF 8 + w > 72 THEN 72 ELSE 8 + w
        /\ NodeHeight(n, total) = IF 34 + h > 190 THEN 190 ELSE 34 + h
        /\ OutcomeHeight(n, total) = IF 24 + o > 120 THEN 120 ELSE 24 + o
    BY <1>2, <2>1 DEF LinkWidth, NodeHeight, OutcomeHeight, AtMost
  <2>. QED BY <2>2, <2>4, <2>5
<1>. QED BY <1>1, <1>2

\* Widths of ribbons that leave one node.
SixWidths(total, a, b, c, d, e, f) ==
  LinkWidth(a, total) + LinkWidth(b, total) + LinkWidth(c, total)
    + LinkWidth(d, total) + LinkWidth(e, total) + LinkWidth(f, total)

LEMMA SixRibbons ==
  ASSUME NEW total, NEW a, NEW b, NEW c, NEW d, NEW e, NEW f, Whole(total, a, b, c, d, e, f)
  PROVE  SixWidths(total, a, b, c, d, e, f) <= 288
<1>0. /\ total \in Nat \ {0}
      /\ a \in Nat /\ b \in Nat /\ c \in Nat /\ d \in Nat /\ e \in Nat /\ f \in Nat
      /\ a + b + c + d + e + f = total
  BY DEF Whole
<1>1. PICK p, q, r, s, t, u :
        /\ p = LinkWidth(a, total) /\ q = LinkWidth(b, total)
        /\ r = LinkWidth(c, total) /\ s = LinkWidth(d, total)
        /\ t = LinkWidth(e, total) /\ u = LinkWidth(f, total)
  OBVIOUS
<1>2. PICK i \in Nat : i * total <= a * 64 /\ p \in Nat /\ p <= 8 + i
  BY <1>0, <1>1, WidthBounds
<1>3. PICK j \in Nat : j * total <= b * 64 /\ q \in Nat /\ q <= 8 + j
  BY <1>0, <1>1, WidthBounds
<1>4. PICK k \in Nat : k * total <= c * 64 /\ r \in Nat /\ r <= 8 + k
  BY <1>0, <1>1, WidthBounds
<1>5. PICK l \in Nat : l * total <= d * 64 /\ s \in Nat /\ s <= 8 + l
  BY <1>0, <1>1, WidthBounds
<1>6. PICK m \in Nat : m * total <= e * 64 /\ t \in Nat /\ t <= 8 + m
  BY <1>0, <1>1, WidthBounds
<1>7. PICK n \in Nat : n * total <= f * 64 /\ u \in Nat /\ u <= 8 + n
  BY <1>0, <1>1, WidthBounds
<1>8. PICK sum : sum = i + j + k + l + m + n
  OBVIOUS
<1>9. sum \in Nat /\ sum * total = i * total + j * total + k * total + l * total + m * total + n * total
  BY <1>0, <1>8
<1>10. sum * total <= 64 * total
  BY <1>0, <1>2, <1>3, <1>4, <1>5, <1>6, <1>7, <1>9
<1>11. ~(65 <= sum)
  <2> SUFFICES ASSUME 65 <= sum PROVE FALSE
    OBVIOUS
  <2>1. 65 * total <= sum * total
    BY <1>0, <1>9
  <2>. QED BY <1>0, <1>9, <1>10, <2>1
<1>12. p + q + r + s + t + u <= 48 + sum
  BY <1>0, <1>2, <1>3, <1>4, <1>5, <1>6, <1>7, <1>8
<1>13. SixWidths(total, a, b, c, d, e, f) = p + q + r + s + t + u
  BY <1>1 DEF SixWidths
<1>. QED BY <1>2, <1>3, <1>4, <1>5, <1>6, <1>7, <1>9, <1>11, <1>12, <1>13

LEMMA FourRibbons ==
  ASSUME NEW total \in Nat \ {0},
         NEW a \in Nat, NEW b \in Nat, NEW c \in Nat, NEW d \in Nat, NEW closed \in Nat,
         a + b + c + d = closed, closed <= total
  PROVE  LinkWidth(a, total) + LinkWidth(b, total)
           + LinkWidth(c, total) + LinkWidth(d, total)
           <= NodeHeight(closed, total)
<1>1. PICK p, q, r, s :
        /\ p = LinkWidth(a, total) /\ q = LinkWidth(b, total)
        /\ r = LinkWidth(c, total) /\ s = LinkWidth(d, total)
  OBVIOUS
<1>2. PICK i \in Nat : i * total <= a * 64 /\ p \in Nat /\ p <= 8 + i /\ (a = 0 => p = 0)
  BY <1>1, WidthBounds
<1>3. PICK j \in Nat : j * total <= b * 64 /\ q \in Nat /\ q <= 8 + j /\ (b = 0 => q = 0)
  BY <1>1, WidthBounds
<1>4. PICK k \in Nat : k * total <= c * 64 /\ r \in Nat /\ r <= 8 + k /\ (c = 0 => r = 0)
  BY <1>1, WidthBounds
<1>5. PICK l \in Nat : l * total <= d * 64 /\ s \in Nat /\ s <= 8 + l /\ (d = 0 => s = 0)
  BY <1>1, WidthBounds
<1>6. CASE closed = 0
  <2>1. a = 0 /\ b = 0 /\ c = 0 /\ d = 0
    BY <1>6
  <2>2. NodeHeight(closed, total) = 22
    BY <1>6 DEF NodeHeight
  <2>. QED BY <1>1, <1>2, <1>3, <1>4, <1>5, <2>1, <2>2
<1>7. CASE closed # 0
  <2>1. PICK sum, h : sum = i + j + k + l /\ h = (closed * 150) \div total
    OBVIOUS
  <2>2. sum \in Nat /\ sum * total = i * total + j * total + k * total + l * total
    BY <2>1
  <2>3. sum * total <= 64 * closed
    BY <1>2, <1>3, <1>4, <1>5, <2>2
  <2>4. h \in Nat
    BY <2>1, Quotient
  <2>5. sum <= h
    <3>1. sum * total <= closed * 150 /\ closed * 150 \in Nat
      BY <2>2, <2>3
    <3>. QED BY <2>1, <2>2, <3>1, QuotientOfWhole
  <2>6. ~(65 <= sum)
    <3> SUFFICES ASSUME 65 <= sum PROVE FALSE
      OBVIOUS
    <3>1. 65 * total <= sum * total
      BY <2>2
    <3>. QED BY <2>2, <2>3, <3>1
  <2>7. p + q + r + s <= 32 + sum
    BY <1>2, <1>3, <1>4, <1>5, <2>1
  <2>8. NodeHeight(closed, total) = IF 34 + h > 190 THEN 190 ELSE 34 + h
    BY <1>7, <2>1 DEF NodeHeight, AtMost
  <2>. QED BY <1>1, <1>2, <1>3, <1>4, <1>5, <2>2, <2>4, <2>5, <2>6, <2>7, <2>8
<1>. QED BY <1>6, <1>7

\* The ribbons fit their nodes, by however many applications the widths and heights are
\* divided (applicationsSankeyLinkWidth, applicationsSankeyNodeHeight).
THEOREM RibbonsFor ==
  ASSUME NEW counts \in Distribution
  PROVE  RibbonsFit(counts)
<1>1. PICK graph : graph = applicationsSankeyFor(counts)
  OBVIOUS
<1>2. PICK total : total = Total(counts)
  OBVIOUS
<1>3. total \in Nat
  BY <1>2, TotalFigures
<1>4. \A n : total = 0 => LinkWidth(n, total) = 0
  BY DEF LinkWidth
<1>5. \A g \in DOMAIN Stage :
        /\ StageCount(counts, g) \in Nat
        /\ Width(graph.tracked, g)
             = LinkWidth(StageCount(counts, g), total)
        /\ g \in DOMAIN graph.tracked =>
             /\ graph.tracked[g].width = LinkWidth(StageCount(counts, g), total)
             /\ graph.tracked[g].height
                  = NodeHeight(StageCount(counts, g), total)
  BY <1>1, <1>2, Tracked
<1>6. \A s \in Stage["closed"] :
        /\ counts[s] \in Nat
        /\ Width(graph.closed, s) = LinkWidth(counts[s], total)
        /\ s \in DOMAIN graph.closed =>
             /\ graph.closed[s].width = LinkWidth(counts[s], total)
             /\ graph.closed[s].height = OutcomeHeight(counts[s], total)
  BY <1>1, <1>2, Outcomes
<1>7. \A s : s \notin Stage["closed"] => Width(graph.closed, s) = 0
  BY <1>1, RibbonDomains DEF Width
<1>8. \A g \in DOMAIN graph.tracked : graph.tracked[g].width <= graph.tracked[g].height
  <2> SUFFICES ASSUME NEW g \in DOMAIN graph.tracked
               PROVE  graph.tracked[g].width <= graph.tracked[g].height
    OBVIOUS
  <2>1. g \in DOMAIN Stage
    BY <1>1, RibbonDomains
  <2>2. PICK n \in Nat : n = StageCount(counts, g)
    BY <1>5, <2>1
  <2>3. /\ graph.tracked[g].width = LinkWidth(n, total)
        /\ graph.tracked[g].height = NodeHeight(n, total)
    BY <1>5, <2>1, <2>2
  <2>4. LinkWidth(n, total) <= NodeHeight(n, total)
    BY <1>3, RibbonFits
  <2>. QED BY <2>3, <2>4
<1>9. \A s \in DOMAIN graph.closed : graph.closed[s].width <= graph.closed[s].height
  <2> SUFFICES ASSUME NEW s \in DOMAIN graph.closed
               PROVE  graph.closed[s].width <= graph.closed[s].height
    OBVIOUS
  <2>1. s \in Stage["closed"]
    BY <1>1, RibbonDomains
  <2>2. PICK n \in Nat : n = counts[s]
    BY <1>6, <2>1
  <2>3. /\ graph.closed[s].width = LinkWidth(n, total)
        /\ graph.closed[s].height = OutcomeHeight(n, total)
    BY <1>6, <2>1, <2>2
  <2>4. LinkWidth(n, total) <= OutcomeHeight(n, total)
    BY <1>3, RibbonFits
  <2>. QED BY <2>3, <2>4
<1>10. PICK a, b, c, d, e, f, i, j, k, l :
         /\ a = counts["prospect"] /\ b = counts["applied"]
         /\ c = counts["interviewing"] /\ d = counts["offer"]
         /\ e = counts["accepted"] /\ f = StageCount(counts, "closed")
         /\ i = counts["declined"] /\ j = counts["rejected"]
         /\ k = counts["withdrawn"] /\ l = counts["archived"]
  OBVIOUS
<1>11. /\ a \in Nat /\ b \in Nat /\ c \in Nat /\ d \in Nat /\ e \in Nat /\ f \in Nat
       /\ i \in Nat /\ j \in Nat /\ k \in Nat /\ l \in Nat
       /\ a + b + c + d + e + f = total /\ i + j + k + l = f /\ f <= total
  BY <1>2, <1>10, GroupFigures, TotalFigures, Counted
<1>12. SumOverGroups(LAMBDA g : Width(graph.tracked, g)) <= RootHeight(total)
  <2>1. /\ Width(graph.tracked, "prospect") = LinkWidth(a, total)
        /\ Width(graph.tracked, "applied") = LinkWidth(b, total)
        /\ Width(graph.tracked, "interviewing") = LinkWidth(c, total)
        /\ Width(graph.tracked, "offer") = LinkWidth(d, total)
        /\ Width(graph.tracked, "accepted") = LinkWidth(e, total)
        /\ Width(graph.tracked, "closed") = LinkWidth(f, total)
    <3>1. \A g \in {"prospect", "applied", "interviewing", "offer", "accepted"} :
            StageCount(counts, g) = counts[g]
      BY GroupFigures
    <3>. QED BY <1>5, <1>10, <3>1, StageKeys
  <2>2. SumOverGroups(LAMBDA g : Width(graph.tracked, g)) =
          SixWidths(total, a, b, c, d, e, f)
    BY <2>1 DEF SumOverGroups, SixWidths
  <2>3. CASE total = 0
    <3>1. RootHeight(total) = 180
      BY <2>3 DEF RootHeight
    <3>. QED BY <1>4, <2>2, <2>3, <3>1 DEF SixWidths
  <2>4. CASE total # 0
    <3>1. RootHeight(total) = 288
      BY <2>4 DEF RootHeight
    <3>2. Whole(total, a, b, c, d, e, f)
      BY <1>3, <1>11, <2>4 DEF Whole
    <3>3. SixWidths(total, a, b, c, d, e, f) <= 288
      BY <3>2, SixRibbons, Zenon
    <3>. QED BY <2>2, <3>1, <3>3
  <2>. QED BY <2>3, <2>4
<1>13. SumOverStatuses(LAMBDA s : Width(graph.closed, s))
         <= NodeHeight(StageCount(counts, "closed"), total)
  <2>1. /\ Width(graph.closed, "prospect") = 0 /\ Width(graph.closed, "applied") = 0
        /\ Width(graph.closed, "interviewing") = 0 /\ Width(graph.closed, "offer") = 0
        /\ Width(graph.closed, "accepted") = 0
        /\ Width(graph.closed, "declined") = LinkWidth(i, total)
        /\ Width(graph.closed, "rejected") = LinkWidth(j, total)
        /\ Width(graph.closed, "withdrawn") = LinkWidth(k, total)
        /\ Width(graph.closed, "archived") = LinkWidth(l, total)
    BY <1>6, <1>7, <1>10, StageKeys
  <2>2. PICK p, q, r, t : /\ p = LinkWidth(i, total) /\ q = LinkWidth(j, total)
                          /\ r = LinkWidth(k, total) /\ t = LinkWidth(l, total)
    OBVIOUS
  <2>3. CASE total = 0
    <3>1. p = 0 /\ q = 0 /\ r = 0 /\ t = 0
      BY <1>4, <2>2, <2>3
    <3>2. NodeHeight(f, total) = 22
      BY <2>3 DEF NodeHeight
    <3>. QED BY <1>10, <2>1, <2>2, <3>1, <3>2 DEF SumOverStatuses
  <2>4. CASE total # 0
    <3>1. p \in Nat /\ q \in Nat /\ r \in Nat /\ t \in Nat
      BY <1>3, <1>11, <2>2, <2>4, WidthBounds
    <3>2. p + q + r + t <= NodeHeight(f, total)
      BY <1>3, <1>11, <2>2, <2>4, FourRibbons
    <3>3. SumOverStatuses(LAMBDA s : Width(graph.closed, s)) = p + q + r + t
      BY <2>1, <2>2, <3>1 DEF SumOverStatuses
    <3>. QED BY <1>10, <3>2, <3>3
  <2>. QED BY <2>3, <2>4
<1>. QED BY <1>1, <1>2, <1>8, <1>9, <1>12, <1>13 DEF RibbonsFit
-------------------------------------------------------------------------------
(* The pipeline of the stored applications *)

WithStatus(rows, s) == {a \in Application : rows[a] # Absent /\ rows[a].status = s}

LEMMA CountedRows ==
  /\ StatusCounts = [s \in ApplicationStatus |-> Cardinality(WithStatus(apps, s))]
  /\ StatusCounts' = [s \in ApplicationStatus |-> Cardinality(WithStatus(apps', s))]
<1>1. \A s : {a \in Present : apps[a].status = s} = WithStatus(apps, s)
  BY DEF Present, WithStatus
<1>2. \A s : {a \in Present' : apps'[a].status = s} = WithStatus(apps', s)
  BY DEF Present, WithStatus
<1>. QED BY <1>1, <1>2 DEF StatusCounts

LEMMA FiniteCounts ==
  ASSUME NEW rows, NEW s
  PROVE  /\ IsFiniteSet(WithStatus(rows, s)) /\ Cardinality(WithStatus(rows, s)) \in Nat
         /\ Cardinality(WithStatus(rows, s)) = 0 => WithStatus(rows, s) = {}
<1>1. WithStatus(rows, s) \in SUBSET Application
  BY DEF WithStatus
<1>2. IsFiniteSet(WithStatus(rows, s))
  BY <1>1, RowAssumption, FS_Subset
<1>. QED BY <1>2, FS_CardinalityType, FS_EmptySet

LEMMA CountsAreDistribution == StatusCounts \in Distribution
BY CountedRows, FiniteCounts, OneListOfStatuses DEF Distribution

\* One row is written, the others stay as they are.
Written(rows, next, a, row) ==
  /\ rows \in [Application -> {Absent} \cup StoredApplication]
  /\ a \in Application /\ row \in StoredApplication
  /\ next = [rows EXCEPT ![a] = row]

LEMMA RowWritten ==
  ASSUME NEW rows, NEW next, NEW a, NEW row, NEW s, Written(rows, next, a, row)
  PROVE  WithStatus(next, s) =
           IF row.status = s THEN WithStatus(rows, s) \cup {a} ELSE WithStatus(rows, s) \ {a}
<1>1. row # Absent
  BY RowAssumption DEF Written
<1>. QED BY <1>1 DEF WithStatus, Written

LEMMA CountsWritten ==
  ASSUME NEW rows, NEW next, NEW a, NEW row, NEW s, Written(rows, next, a, row)
  PROVE  /\ Cardinality(WithStatus(rows, s)) \in Nat
         /\ row.status = s /\ a \notin WithStatus(rows, s) =>
              Cardinality(WithStatus(next, s)) = Cardinality(WithStatus(rows, s)) + 1
         /\ row.status # s /\ a \in WithStatus(rows, s) =>
              Cardinality(WithStatus(next, s)) = Cardinality(WithStatus(rows, s)) - 1
         /\ (row.status = s <=> a \in WithStatus(rows, s)) =>
              Cardinality(WithStatus(next, s)) = Cardinality(WithStatus(rows, s))
<1>1. PICK before, after : before = WithStatus(rows, s) /\ after = WithStatus(next, s)
  OBVIOUS
<1>2. IsFiniteSet(before) /\ Cardinality(before) \in Nat
  BY <1>1, FiniteCounts
<1>3. after = IF row.status = s THEN before \cup {a} ELSE before \ {a}
  <2>1. WithStatus(next, s) =
          IF row.status = s THEN WithStatus(rows, s) \cup {a} ELSE WithStatus(rows, s) \ {a}
    BY RowWritten
  <2>. QED BY <1>1, <2>1
<1>4. Cardinality(before \cup {a}) =
        IF a \in before THEN Cardinality(before) ELSE Cardinality(before) + 1
  BY <1>2, FS_AddElement
<1>5. Cardinality(before \ {a}) =
        IF a \in before THEN Cardinality(before) - 1 ELSE Cardinality(before)
  BY <1>2, FS_RemoveElement
<1>. QED BY <1>1, <1>2, <1>3, <1>4, <1>5

\* A new row is counted once, under its own status.
LEMMA CreationCounts ==
  ASSUME TypeOK, NEW a \in Application, NEW row \in StoredApplication,
         apps[a] = Absent, apps' = [apps EXCEPT ![a] = row]
  PROVE  StatusCounts' = [StatusCounts EXCEPT ![row.status] = @ + 1]
<1>1. Written(apps, apps', a, row)
  BY DEF TypeOK, Written
<1>2. \A s : a \notin WithStatus(apps, s)
  BY DEF WithStatus
<1>3. PICK counts, next : counts = StatusCounts /\ next = StatusCounts'
  OBVIOUS
<1>4. /\ counts = [s \in ApplicationStatus |-> Cardinality(WithStatus(apps, s))]
      /\ next = [s \in ApplicationStatus |-> Cardinality(WithStatus(apps', s))]
  BY <1>3, CountedRows
<1>5. ASSUME NEW s \in ApplicationStatus
      PROVE  /\ counts[s] \in Nat
             /\ row.status = s => next[s] = counts[s] + 1
             /\ row.status # s => next[s] = counts[s]
  <2>1. counts[s] = Cardinality(WithStatus(apps, s)) /\ next[s] = Cardinality(WithStatus(apps', s))
    BY <1>4
  <2>. QED BY <1>1, <1>2, <2>1, CountsWritten
<1>6. DOMAIN counts = ApplicationStatus /\ DOMAIN next = ApplicationStatus
  BY <1>4
<1>7. next = [s \in DOMAIN next |-> next[s]]
  BY <1>4
<1>8. next = [counts EXCEPT ![row.status] = @ + 1]
  BY <1>5, <1>6, <1>7
<1>. QED BY <1>3, <1>8

\* A row that changes its status is taken from the old one and counted under the new.
LEMMA MoveCounts ==
  ASSUME TypeOK, NEW a \in Application, NEW row \in StoredApplication,
         apps[a] # Absent, apps' = [apps EXCEPT ![a] = row]
  PROVE  /\ row.status = apps[a].status => StatusCounts' = StatusCounts
         /\ row.status # apps[a].status =>
              /\ StatusCounts[apps[a].status] > 0
              /\ StatusCounts' = [StatusCounts EXCEPT ![apps[a].status] = @ - 1,
                                                      ![row.status] = @ + 1]
<1>1. Written(apps, apps', a, row)
  BY DEF TypeOK, Written
<1>2. PICK old, new : old = apps[a].status /\ new = row.status
  OBVIOUS
<1>3. old \in ApplicationStatus /\ new \in ApplicationStatus
  BY <1>2 DEF TypeOK, StoredApplication
<1>4. \A s : a \in WithStatus(apps, s) <=> s = old
  BY <1>2 DEF WithStatus
<1>5. PICK counts, next : counts = StatusCounts /\ next = StatusCounts'
  OBVIOUS
<1>6. /\ counts = [s \in ApplicationStatus |-> Cardinality(WithStatus(apps, s))]
      /\ next = [s \in ApplicationStatus |-> Cardinality(WithStatus(apps', s))]
  BY <1>5, CountedRows
<1>7. ASSUME NEW s \in ApplicationStatus
      PROVE  /\ counts[s] \in Nat
             /\ new = s /\ old # s => next[s] = counts[s] + 1
             /\ new # s /\ old = s => next[s] = counts[s] - 1
             /\ (new = s <=> old = s) => next[s] = counts[s]
  <2>1. counts[s] = Cardinality(WithStatus(apps, s)) /\ next[s] = Cardinality(WithStatus(apps', s))
    BY <1>6
  <2>. QED BY <1>1, <1>2, <1>4, <2>1, CountsWritten
<1>8. DOMAIN counts = ApplicationStatus /\ DOMAIN next = ApplicationStatus
  BY <1>6
<1>9. next = [s \in DOMAIN next |-> next[s]] /\ counts = [s \in DOMAIN counts |-> counts[s]]
  BY <1>6
<1>10. counts[old] > 0
  <2>1. Cardinality(WithStatus(apps, old)) # 0
    BY <1>4, FiniteCounts
  <2>2. counts[old] = Cardinality(WithStatus(apps, old)) /\ counts[old] \in Nat
    BY <1>3, <1>6, <1>7
  <2>. QED BY <2>1, <2>2
<1>11. new = old => next = counts
  BY <1>7, <1>8, <1>9
<1>12. new # old => next = [counts EXCEPT ![old] = @ - 1, ![new] = @ + 1]
  BY <1>3, <1>7, <1>8, <1>9
<1>. QED BY <1>2, <1>5, <1>10, <1>11, <1>12

\* The total follows.
Moved(counts, next, s, t) ==
  /\ counts \in Distribution /\ s \in ApplicationStatus /\ t \in ApplicationStatus
  /\ s # t /\ next = [counts EXCEPT ![s] = @ - 1, ![t] = @ + 1]

LEMMA TotalOfMoved ==
  ASSUME NEW counts, NEW next, NEW s, NEW t, Moved(counts, next, s, t)
  PROVE  Total(next) = Total(counts)
BY Counted, OneListOfStatuses DEF Moved, Distribution, Total, SumOverStatuses, Status

LEMMA TotalOfCreated ==
  ASSUME NEW counts \in Distribution, NEW s \in ApplicationStatus
  PROVE  Total([counts EXCEPT ![s] = @ + 1]) = Total(counts) + 1
BY Counted, OneListOfStatuses DEF Distribution, Total, SumOverStatuses, Status

\* What a step writes, as far as the counts go: nothing, a new row, or one row's status.
LEMMA StepCounts ==
  ASSUME TypeOK, [Next]_vars
  PROVE  \/ StatusCounts' = StatusCounts /\ Present' = Present
         \/ \E s \in ApplicationStatus, a \in Application \ Present :
              /\ StatusCounts' = [StatusCounts EXCEPT ![s] = @ + 1]
              /\ Present' = Present \cup {a}
         \/ \E s, t \in ApplicationStatus :
              /\ s # t /\ StatusCounts[s] > 0
              /\ StatusCounts' = [StatusCounts EXCEPT ![s] = @ - 1, ![t] = @ + 1]
              /\ Present' = Present
<1> DEFINE Goal ==
      \/ StatusCounts' = StatusCounts /\ Present' = Present
      \/ \E s \in ApplicationStatus, a \in Application \ Present :
           /\ StatusCounts' = [StatusCounts EXCEPT ![s] = @ + 1]
           /\ Present' = Present \cup {a}
      \/ \E s, t \in ApplicationStatus :
           /\ s # t /\ StatusCounts[s] > 0
           /\ StatusCounts' = [StatusCounts EXCEPT ![s] = @ - 1, ![t] = @ + 1]
           /\ Present' = Present
<1>1. now \in Nat /\ apps \in [Application -> {Absent} \cup StoredApplication]
  BY DEF TypeOK
<1>2. ASSUME apps' = apps PROVE Goal
  BY <1>2, CountedRows DEF Present
<1>3. ASSUME NEW a \in Application, NEW row \in StoredApplication,
             apps[a] = Absent, apps' = [apps EXCEPT ![a] = row]
      PROVE  Goal
  <2>1. StatusCounts' = [StatusCounts EXCEPT ![row.status] = @ + 1]
    BY <1>3, CreationCounts
  <2>2. row # Absent
    BY RowAssumption
  <2>3. Present' = Present \cup {a} /\ a \in Application \ Present
    BY <1>1, <1>3, <2>2 DEF Present
  <2>4. row.status \in ApplicationStatus
    BY DEF StoredApplication
  <2>. QED BY <2>1, <2>3, <2>4
<1>4. ASSUME NEW a \in Application, NEW row \in StoredApplication,
             apps[a] # Absent, apps' = [apps EXCEPT ![a] = row]
      PROVE  Goal
  <2>1. row # Absent
    BY RowAssumption
  <2>2. Present' = Present
    BY <1>1, <1>4, <2>1 DEF Present
  <2>3. apps[a].status \in ApplicationStatus /\ row.status \in ApplicationStatus
    BY <1>1, <1>4 DEF StoredApplication
  <2>4. /\ row.status = apps[a].status => StatusCounts' = StatusCounts
        /\ row.status # apps[a].status =>
             /\ StatusCounts[apps[a].status] > 0
             /\ StatusCounts' = [StatusCounts EXCEPT ![apps[a].status] = @ - 1,
                                                     ![row.status] = @ + 1]
    BY <1>4, MoveCounts
  <2>. QED BY <2>2, <2>3, <2>4
<1>5. ASSUME NEW a \in Application, applicationsCreate(a) PROVE Goal
  <2>1. PICK row \in NewRows(a) : apps' = [apps EXCEPT ![a] = Row(row)]
    BY <1>5 DEF applicationsCreate
  <2>2. Row(row) \in StoredApplication
    BY <1>1, CreatedRow
  <2>3. apps[a] = Absent
    BY <1>5 DEF applicationsCreate
  <2>. QED BY <1>3, <2>1, <2>2, <2>3
<1>6. ASSUME NEW a \in Application, applicationsUpdateStatus(a) PROVE Goal
  <2>1. PICK form \in StatusForms(a) : apps' = [apps EXCEPT ![a] = Row(PostStatus(apps[a], form))]
    BY <1>6 DEF applicationsUpdateStatus
  <2>2. apps[a] # Absent
    BY <1>6 DEF applicationsUpdateStatus
  <2>3. Row(PostStatus(apps[a], form)) \in StoredApplication
    BY <1>1, <2>2, StatusFormStored
  <2>. QED BY <1>4, <2>1, <2>2, <2>3
<1>7. ASSUME NEW a \in Application, applicationsUpdatePosting(a) PROVE Goal
  <2>1. apps[a] # Absent /\ apps' = [apps EXCEPT ![a] = [apps[a] EXCEPT !.updated = now]]
    BY <1>1, <1>7 DEF applicationsUpdatePosting
  <2>2. [apps[a] EXCEPT !.updated = now] \in StoredApplication
    <3>1. apps[a] \in StoredApplication
      BY <1>1, <2>1
    <3>. QED BY <1>1, <3>1 DEF StoredApplication
  <2>. QED BY <1>4, <2>1, <2>2
<1>8. CASE Tick \/ UNCHANGED vars
  BY <1>2, <1>8 DEF Tick, vars
<1>. QED BY <1>5, <1>6, <1>7, <1>8 DEF Next

\* Every stored application is counted under one status, and so once in the total of
\* the dashboard (dashboardPipelineCounts).
THEOREM TotalCorrect == Spec => [](Total(StatusCounts) = Cardinality(Present))
<1> DEFINE EachCounted == Total(StatusCounts) = Cardinality(Present)
<1>1. Init => EachCounted
  <2> SUFFICES ASSUME Init PROVE EachCounted
    OBVIOUS
  <2>1. Present = {} /\ \A s : WithStatus(apps, s) = {}
    BY DEF Init, Present, WithStatus
  <2>2. StatusCounts = [s \in ApplicationStatus |-> 0] /\ Cardinality(Present) = 0
    BY <2>1, CountedRows, FS_EmptySet
  <2>. QED BY <2>2 DEF Total, SumOverStatuses, ApplicationStatus
<1>2. TypeOK /\ EachCounted /\ [Next]_vars => EachCounted'
  <2> SUFFICES ASSUME TypeOK, EachCounted, [Next]_vars PROVE EachCounted'
    OBVIOUS
  <2>1. Present \in SUBSET Application /\ IsFiniteSet(Present)
    <3>1. Present \in SUBSET Application
      BY DEF Present
    <3>. QED BY <3>1, RowAssumption, FS_Subset
  <2>2. PICK counts \in Distribution : counts = StatusCounts
    BY CountsAreDistribution
  <2>3. CASE StatusCounts' = StatusCounts /\ Present' = Present
    BY <2>3 DEF Total, SumOverStatuses
  <2>4. ASSUME NEW s \in ApplicationStatus, NEW a \in Application \ Present,
               StatusCounts' = [StatusCounts EXCEPT ![s] = @ + 1], Present' = Present \cup {a}
        PROVE  EachCounted'
    <3>1. Cardinality(Present') = Cardinality(Present) + 1
      BY <2>1, <2>4, FS_AddElement
    <3>2. Total(StatusCounts') = Total(StatusCounts) + 1
      BY <2>2, <2>4, TotalOfCreated
    <3>. QED BY <3>1, <3>2
  <2>5. ASSUME NEW s \in ApplicationStatus, NEW t \in ApplicationStatus, s # t,
               StatusCounts' = [StatusCounts EXCEPT ![s] = @ - 1, ![t] = @ + 1],
               Present' = Present
        PROVE  EachCounted'
    <3>1. Moved(StatusCounts, StatusCounts', s, t)
      BY <2>2, <2>5 DEF Moved
    <3>2. Total(StatusCounts') = Total(StatusCounts)
      BY <3>1, TotalOfMoved, Zenon
    <3>. QED BY <2>5, <3>2
  <2>. QED BY <2>3, <2>4, <2>5, StepCounts
<1>. QED BY <1>1, <1>2, TypeCorrect, PTL DEF Spec

\* The applications of the store go through the pipeline one at a time: a form creates
\* one under a status or moves one between two, and nothing else moves the figures
\* (applicationsCreate, applicationsUpdateStatus against PipelineFlow).
THEOREM PipelineImplemented == Spec => Pipeline!PipelineSpec
<1>1. Init => Pipeline!PipelineInit
  <2> SUFFICES ASSUME Init PROVE Pipeline!PipelineInit
    OBVIOUS
  <2>1. \A s : WithStatus(apps, s) = {}
    BY DEF Init, WithStatus
  <2>2. StatusCounts = [s \in ApplicationStatus |-> 0]
    BY <2>1, CountedRows, FS_EmptySet
  <2>. QED BY <2>2 DEF Pipeline!PipelineInit, Pipeline!Status, ApplicationStatus
<1>2. TypeOK /\ Total(StatusCounts) = Cardinality(Present) /\ [Next]_vars
      => [Pipeline!PipelineNext]_StatusCounts
  <2> SUFFICES ASSUME TypeOK, Total(StatusCounts) = Cardinality(Present), [Next]_vars
               PROVE  [Pipeline!PipelineNext]_StatusCounts
    OBVIOUS
  <2>1. /\ Pipeline!Status = ApplicationStatus
        /\ Pipeline!Total(StatusCounts) = Total(StatusCounts)
    BY DEF Pipeline!Status, ApplicationStatus, Pipeline!Total, Pipeline!SumOverStatuses,
           Total, SumOverStatuses
  <2>2. ASSUME NEW s \in ApplicationStatus, NEW a \in Application \ Present,
               StatusCounts' = [StatusCounts EXCEPT ![s] = @ + 1]
        PROVE  Pipeline!PipelineNext
    <3>1. Present \in SUBSET Application /\ Present \cup {a} \in SUBSET Application
      BY DEF Present
    <3>2. IsFiniteSet(Present) /\ Cardinality(Present) \in Nat
      BY <3>1, RowAssumption, FS_Subset, FS_CardinalityType
    <3>3. Cardinality(Present \cup {a}) = Cardinality(Present) + 1
      BY <2>2, <3>2, FS_AddElement
    <3>4. Cardinality(Present \cup {a}) <= Cardinality(Application)
          /\ Cardinality(Application) \in Nat
      BY <3>1, RowAssumption, FS_Subset, FS_CardinalityType
    <3>5. Pipeline!Total(StatusCounts) < Cardinality(Application)
      BY <2>1, <3>2, <3>3, <3>4
    <3>. QED BY <2>1, <2>2, <3>5 DEF Pipeline!PipelineNext, Pipeline!CreateUnder
  <2>3. ASSUME NEW s \in ApplicationStatus, NEW t \in ApplicationStatus, s # t,
               StatusCounts[s] > 0,
               StatusCounts' = [StatusCounts EXCEPT ![s] = @ - 1, ![t] = @ + 1]
        PROVE  Pipeline!PipelineNext
    BY <2>1, <2>3 DEF Pipeline!PipelineNext, Pipeline!MoveBetween
  <2>. QED BY <2>2, <2>3, StepCounts
<1>. QED BY <1>1, <1>2, TypeCorrect, TotalCorrect, PTL DEF Spec, Pipeline!PipelineSpec

\* The figures of the stored applications are in order, whatever forms have made of them
\* (the handlers of the dashboard and of the applications page).
THEOREM FiguresCorrect ==
  Spec => [](/\ GroupsPartition(StatusCounts) /\ FlowConserved(StatusCounts)
             /\ RibbonsFit(StatusCounts) /\ LinksLead(StatusCounts))
<1>1. GroupsPartition(StatusCounts)
  BY CountsAreDistribution, GroupsFor, Zenon
<1>2. FlowConserved(StatusCounts)
  BY CountsAreDistribution, FlowFor, Zenon
<1>3. RibbonsFit(StatusCounts)
  BY CountsAreDistribution, RibbonsFor, Zenon
<1>4. LinksLead(StatusCounts)
  BY CountsAreDistribution, LinksFor, Zenon
<1>. QED BY <1>1, <1>2, <1>3, <1>4, PTL

-------------------------------------------------------------------------------
(* The pipeline by itself *)

\* An application leaves a status only if the status has one: no count goes below zero
\* (applicationsUpdateStatus).
THEOREM CountsCorrect == PipelineSpec => [](statusCounts \in Distribution)
<1> DEFINE Counts == statusCounts \in Distribution
<1>1. PipelineInit => Counts
  BY DEF PipelineInit, Distribution
<1>2. Counts /\ [PipelineNext]_statusCounts => Counts'
  <2> SUFFICES ASSUME Counts, [PipelineNext]_statusCounts PROVE Counts'
    OBVIOUS
  <2>1. ASSUME NEW s \in Status, CreateUnder(s) PROVE Counts'
    BY <2>1 DEF CreateUnder, Distribution
  <2>2. ASSUME NEW s \in Status, NEW t \in Status, MoveBetween(s, t) PROVE Counts'
    <3>1. statusCounts[s] \in Nat /\ statusCounts[s] - 1 \in Nat /\ statusCounts[t] + 1 \in Nat
      BY <2>2 DEF MoveBetween, Distribution
    <3>. QED BY <2>2, <3>1 DEF MoveBetween, Distribution
  <2>. QED BY <2>1, <2>2 DEF PipelineNext
<1>. QED BY <1>1, <1>2, PTL DEF PipelineSpec

\* The groups of both pages partition whatever the pipeline holds, and their shares add up
\* (dashboardPipelinePulseGroups, applicationsFlowFor, percentageShare).
THEOREM GroupsCorrect == PipelineSpec => []GroupsPartitionTheApplications
<1>1. statusCounts \in Distribution => GroupsPartitionTheApplications
  BY GroupsFor, Zenon DEF GroupsPartitionTheApplications
<1>. QED BY <1>1, CountsCorrect, PTL

\* The page behind the link of a group with one status, or of an outcome, lists what is
\* counted beside it (filterApplications).
THEOREM LinksCorrect == PipelineSpec => []LinksLeadToWhatTheyCount
<1>1. statusCounts \in Distribution => LinksLeadToWhatTheyCount
  BY LinksFor, Zenon DEF LinksLeadToWhatTheyCount
<1>. QED BY <1>1, CountsCorrect, PTL

\* The graph of the pipeline loses no application (applicationsSankeyFor).
THEOREM FlowCorrect == PipelineSpec => []FlowIsConserved
<1>1. statusCounts \in Distribution => FlowIsConserved
  BY FlowFor, Zenon DEF FlowIsConserved
<1>. QED BY <1>1, CountsCorrect, PTL

\* The ribbons of the pipeline fit their nodes (applicationsSankeyLinkWidth,
\* applicationsSankeyNodeHeight).
THEOREM RibbonsCorrect == PipelineSpec => []RibbonsFitTheirNodes
<1>1. statusCounts \in Distribution => RibbonsFitTheirNodes
  BY RibbonsFor, Zenon DEF RibbonsFitTheirNodes
<1>. QED BY <1>1, CountsCorrect, PTL

\* What the page behind the closed node lists too many is exactly the accepted ones: the
\* link keeps its word only while none is accepted (filterApplications).
THEOREM ClosedLinkListsTheAcceptedToo ==
  PipelineSpec => [](ClosedLinkListsTheClosed <=> statusCounts["accepted"] = 0)
<1>1. ASSUME NEW counts \in Distribution
      PROVE  Listed(counts, "closed") = GroupCount(counts, "closed") <=> counts["accepted"] = 0
  BY ListedAsClosed, GroupFigures, Counted
<1>2. statusCounts \in Distribution =>
        (ClosedLinkListsTheClosed <=> statusCounts["accepted"] = 0)
  BY <1>1, Zenon DEF ClosedLinkListsTheClosed
<1>. QED BY <1>2, CountsCorrect, PTL
===============================================================================
