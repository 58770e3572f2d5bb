-------------------------------- MODULE Forms ---------------------------------
(***************************************************************************)
(* What becomes of a posted form: internal/server/forms.go and the         *)
(* ...FromForm functions of server.go check it field by field, the store   *)
(* checks it again with internal/model, and the schema a third time.  Each *)
(* layer keeps lists of its own of the names a status, a priority or a     *)
(* type may have.                                                          *)
(*                                                                         *)
(* A text is empty, blank, or something with or without space around it; a *)
(* name that is in no list is "unknown".  A date is a number of days, the  *)
(* one that time.Time takes for none (0001-01-01) being 0.  Free texts     *)
(* that no check looks at are one field, notes.  Compensation is left out: *)
(* no form has it.                                                         *)
(***************************************************************************)
EXTENDS Integers

CONSTANTS
  Dates,      \* calendar dates typed, apart from 0
  NoDate,     \* an empty date
  BadDate,    \* a date that time.Parse refuses
  DayLength,  \* ticks of a day
  Invalid,    \* a form shown again with an error at one of its fields
  Refused     \* a form that the store or the schema turned down

ASSUME DateAssumption ==
  /\ Dates \subseteq Int \ {0} /\ DayLength \in Nat \ {0}
  /\ NoDate \notin Int /\ BadDate \notin Int /\ NoDate # BadDate

-------------------------------------------------------------------------------
(* The names: options of a select, what Valid accepts, the CHECK of the schema *)

\* Mutant: one option was forgotten.
ApplicationStatusOptions_NoArchived ==
  {"prospect", "applied", "interviewing", "offer", "accepted",
   "declined", "rejected", "withdrawn"}

applicationStatusOptions ==
  {"prospect", "applied", "interviewing", "offer", "accepted",
   "declined", "rejected", "withdrawn", "archived"}
ApplicationStatus ==
  {"prospect", "applied", "interviewing", "offer", "accepted",
   "declined", "rejected", "withdrawn", "archived"}
StatusCheck ==
  {"prospect", "applied", "interviewing", "offer", "accepted",
   "declined", "rejected", "withdrawn", "archived"}

applicationPriorityOptions == {"low", "normal", "high"}
Priority == {"low", "normal", "high"}
PriorityCheck == {"low", "normal", "high"}

applicationEventTypeOptions ==
  {"note", "applied", "recruiter_screen", "phone_screen", "interview", "onsite",
   "take_home", "follow_up", "deadline", "offer", "decision", "other"}
EventType ==
  {"applied", "recruiter_screen", "phone_screen", "interview", "onsite", "take_home",
   "follow_up", "deadline", "offer", "decision", "note", "other"}
EventTypeCheck ==
  {"applied", "recruiter_screen", "phone_screen", "interview", "onsite", "take_home",
   "follow_up", "deadline", "offer", "decision", "note", "other"}

\* Mutant: the schema before migration 2.
DocumentTypeCheck_Initial ==
  {"resume", "cover_letter", "work_sample", "snippet", "portfolio", "other"}

documentTypeOptions ==
  {"resume", "cover_letter", "work_sample", "snippet", "portfolio", "job_posting", "other"}
DocumentType ==
  {"resume", "cover_letter", "work_sample", "snippet", "portfolio", "job_posting", "other"}
DocumentTypeCheck ==
  {"resume", "cover_letter", "work_sample", "snippet", "portfolio", "job_posting", "other"}

AttachmentType ==
  {"resume", "cover_letter", "work_sample", "portfolio", "job_posting", "other"}
AttachmentTypeCheck ==
  {"resume", "cover_letter", "work_sample", "portfolio", "job_posting", "other"}

-------------------------------------------------------------------------------
(* Fields *)

Text == {"", " ", "text", " text"}
Link == {"", " ", "http", "relative"}
Choice(options) == options \cup {"", "unknown"}
DateField == Dates \cup {0, NoDate, BadDate}

Trim(text) == CASE text = " " -> "" [] text = " text" -> "text" [] OTHER -> text

\* parseLimitedForm trims every value; a date with space around it is the date.
trimmedValues(form) ==
  [field \in DOMAIN form |-> IF field = "date" THEN form[field] ELSE Trim(form[field])]

RequiredString(value) == value # ""
ValidHTTPURL(link) == link = "http"

\* OptionalDate and RequiredDate: midnight in UTC.
DateOf(date) == IF date = NoDate THEN NoDate ELSE date * DayLength
IsZero(instant) == instant = 0

\* The text a time is stored as, in UTC to the millisecond, and back.
formatTime(instant) == [day |-> instant \div DayLength, time |-> instant % DayLength]
parseSQLiteTime(text) == text.day * DayLength + text.time
Stored(instant) == IF instant = NoDate THEN NoDate ELSE parseSQLiteTime(formatTime(instant))

-------------------------------------------------------------------------------
(* Applications *)

ApplicationForm ==
  [company : Text, role : Text, status : Choice(applicationStatusOptions),
   priority : Choice(applicationPriorityOptions), link : Link, summary : Text,
   date : DateField, notes : Text]

NewApplication ==
  [company : Text, role : Text, status : Choice(applicationStatusOptions),
   priority : Choice(applicationPriorityOptions), link : Link, summary : Text,
   due : Int \cup {NoDate}, notes : Text]

\* What the handler takes from the form, with the due date in due.
ApplicationOf(f) ==
  [company |-> f.company, role |-> f.role, status |-> f.status, priority |-> f.priority,
   link |-> f.link, summary |-> f.summary, due |-> DateOf(f.date), notes |-> f.notes]

applicationFromForm(f) ==
  IF /\ RequiredString(f.company) /\ RequiredString(f.role)
     /\ RequiredString(f.status) /\ f.status \in ApplicationStatus
     /\ RequiredString(f.priority) /\ f.priority \in Priority
     /\ f.link = "" \/ ValidHTTPURL(f.link)
     /\ f.date # BadDate
  THEN ApplicationOf(f)
  ELSE Invalid

normalizeApplicationForCreate(app) ==
  [app EXCEPT !.company = Trim(@), !.role = Trim(@), !.link = Trim(@), !.notes = Trim(@),
              !.summary = Trim(@),
              !.status = IF @ = "" THEN "prospect" ELSE @,
              !.priority = IF @ = "" THEN "normal" ELSE @]

validateApplicationForCreate(app) ==
  /\ app.company # "" /\ app.role # ""
  /\ app.status \in ApplicationStatus /\ app.priority \in Priority
  /\ app.link = "" \/ ValidHTTPURL(app.link)

CreateApplication(app) ==
  LET new == normalizeApplicationForCreate(app) IN
  IF /\ validateApplicationForCreate(new)
     /\ new.status \in StatusCheck /\ new.priority \in PriorityCheck
  THEN [new EXCEPT !.due = Stored(@)]
  ELSE Refused

\* createApplicationFromForm, as called by applicationsCreate.
PostApplication(form) ==
  LET app == applicationFromForm(trimmedValues(form)) IN
  IF app = Invalid THEN Invalid ELSE CreateApplication(app)

\* The rows that such forms leave.
ApplicationRow ==
  [company : {"text"}, role : {"text"}, status : StatusCheck, priority : PriorityCheck,
   link : {"", "http"}, summary : {"", "text"},
   due : {NoDate} \cup {day * DayLength : day \in Dates \cup {0}}, notes : {"", "text"}]

StatusForm == [status : Choice(applicationStatusOptions), summary : Text, date : DateField]

\* applicationStatusUpdateFromForm, then UpdateApplicationStatusAndNextAction: the row,
\* and the event it generates, a note.
PostStatus(row, form) ==
  LET f == trimmedValues(form) IN
  IF ~RequiredString(f.status) \/ f.status \notin ApplicationStatus \/ f.date = BadDate
  THEN Invalid
  ELSE IF f.status \notin StatusCheck \/ "note" \notin EventTypeCheck
  THEN Refused
  ELSE [row EXCEPT !.status = f.status, !.summary = Trim(f.summary),
                   !.due = Stored(DateOf(f.date))]

\* validatePostingUpdate without a file, then UpdateApplicationPostingURL.
PostLink(row, link) ==
  LET url == Trim(link) IN
  IF (url # "" /\ ~ValidHTTPURL(url)) \/ url = row.link THEN Invalid
  ELSE [row EXCEPT !.link = url]

-------------------------------------------------------------------------------
(* Forms a page prefills, as a browser posts them when nothing is changed *)

\* A select without the value to preselect posts its first option.
Selected(value, options, first) == IF value \in options THEN value ELSE first

inputDate(due) == IF due = NoDate \/ IsZero(due) THEN NoDate ELSE due \div DayLength

applicationStatusFormValues(row) ==
  [status |-> Selected(row.status, applicationStatusOptions, "prospect"),
   summary |-> row.summary, date |-> inputDate(row.due)]

-------------------------------------------------------------------------------
(* Timeline events, documents, contacts *)

EventForm ==
  [type : Choice(applicationEventTypeOptions), summary : Text, date : DateField, notes : Text]

NewEvent ==
  [type : Choice(applicationEventTypeOptions), summary : Text, at : Int, notes : Text]

applicationEventFromForm(f) ==
  IF /\ RequiredString(f.type) /\ f.type \in EventType
     /\ RequiredString(f.summary)
     /\ f.date \notin {NoDate, BadDate}
  THEN [type |-> f.type, summary |-> f.summary, at |-> DateOf(f.date), notes |-> f.notes]
  ELSE Invalid

\* AddApplicationEvent
AddEvent(event) ==
  IF /\ event.type \in EventType /\ ~IsZero(event.at) /\ Trim(event.summary) # ""
     /\ event.type \in EventTypeCheck
  THEN [event EXCEPT !.at = Stored(@)]
  ELSE Refused

PostEvent(form) ==
  LET event == applicationEventFromForm(trimmedValues(form)) IN
  IF event = Invalid THEN Invalid ELSE AddEvent(event)

DocumentForm == [name : Text, type : Choice(documentTypeOptions), notes : Text]

documentFromUploadForm(f) ==
  IF RequiredString(f.name) /\ RequiredString(f.type) /\ f.type \in DocumentType
  THEN [name |-> f.name, type |-> f.type, notes |-> f.notes]
  ELSE Invalid

\* The path is the handler's own, and never empty.
CreateDocument(document) ==
  LET type == IF document.type = "" THEN "other" ELSE document.type IN
  IF /\ Trim(document.name) # "" /\ type \in DocumentType
     /\ type \in DocumentTypeCheck
  THEN [document EXCEPT !.type = type]
  ELSE Refused

PostDocument(form) ==
  LET document == documentFromUploadForm(trimmedValues(form)) IN
  IF document = Invalid THEN Invalid ELSE CreateDocument(document)

\* savePostingPDF names the document itself.
AttachPosting(type, attachment) ==
  LET document == CreateDocument([name |-> "text", type |-> type, notes |-> "text"]) IN
  IF attachment \in AttachmentType /\ attachment \in AttachmentTypeCheck
  THEN document ELSE Refused

ContactForm == [name : Text, notes : Text]

ASSUME ResultAssumption ==
  /\ Invalid # Refused
  /\ \A result \in {Invalid, Refused} :
       result \notin NewApplication \cup NewEvent \cup DocumentForm \cup ContactForm

PostContact(form) ==
  LET f == trimmedValues(form) IN
  IF ~RequiredString(f.name) THEN Invalid
  ELSE IF Trim(f.name) = "" THEN Refused
  ELSE f

-------------------------------------------------------------------------------
(* Properties *)

Typed(text) == Trim(text) # ""

\* No form gets past its own checks and is then turned down by the store or the
\* schema with nothing said of the field ("Could not save ..."), except an event
\* dated 0001-01-01; and whatever the selects offer is stored, with the rows that
\* the handlers make themselves (the note of a status update, a posting's PDF).
FormsAreStored ==
  /\ \A form \in ApplicationForm :
       /\ PostApplication(form) # Refused
       /\ /\ form.status \in applicationStatusOptions
          /\ form.priority \in applicationPriorityOptions
          /\ Typed(form.company) /\ Typed(form.role)
          /\ Trim(form.link) # "relative" /\ form.date # BadDate
          => PostApplication(form) \in ApplicationRow
  /\ \A form \in StatusForm, row \in ApplicationRow :
       /\ PostStatus(row, form) # Refused
       /\ form.status \in applicationStatusOptions /\ form.date # BadDate
          => PostStatus(row, form) \in ApplicationRow
  /\ \A form \in EventForm :
       /\ PostEvent(form) = Refused => form.date = 0
       /\ /\ form.type \in applicationEventTypeOptions /\ Typed(form.summary)
          /\ form.date \in Dates
          => PostEvent(form) \notin {Invalid, Refused}
  /\ \A form \in DocumentForm :
       /\ PostDocument(form) # Refused
       /\ form.type \in documentTypeOptions /\ Typed(form.name)
          => PostDocument(form) # Invalid
  /\ AttachPosting("job_posting", "job_posting") # Refused
  /\ \A form \in ContactForm : PostContact(form) # Refused

\* Posting a prefilled form as it was shown changes nothing: the status is among
\* the options, the due date survives the way into the form and back, and the
\* posting form is shown again.  A due date of 0001-01-01 is lost.
UntouchedFormsKeepRows ==
  \A row \in ApplicationRow :
    /\ ~IsZero(row.due) => PostStatus(row, applicationStatusFormValues(row)) = row
    /\ PostLink(row, row.link) = Invalid
===============================================================================
