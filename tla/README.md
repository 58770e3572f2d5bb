# JobHunt OS: specifications and proofs

TLA+ modules for JobHunt OS, a self-hosted job application tracker (one Go
binary, one SQLite database, one directory of files). Each module models one
part of the program from its source; TLC checks it on small instances, and TLAPS
proves every safety property that the passing runs check, for every size.
`PROJECT.json` ties every definition to the lines of source it stands for, every run
to its properties, and every hazard to the properties that would catch it.

Contents: [inventory](#inventory) · [modules](#modules) · [runs](#runs-and-bounds)
· [fairness](#fairness) · [proofs](#proofs) · [findings](#findings)
· [not modelled](#not-modelled) · [plan](#plan).

## Inventory

Every HTTP request is a goroutine of its own. There is no lock around a handler:
requests meet in the database, in the files, in the login limiter's mutex and in
the browser's cookies.

| Part | State | Operations | Meets | What is hard | What makes it correct |
|---|---|---|---|---|---|
| Session store (`store/sqlite/session_store.go`) | `sessions` rows | create, lookup, touch, revoke, sweep | login gate, SQLite | a touch is four statements, with an instant captured before them; clients leave, clocks step back | logout is final, two limits hold, a grant implies a touch |
| Login limiter (`server.go` 137-160, 763-895) | buckets per username, client and pair, under a mutex | `Check`, `RecordFailure`, `RecordSuccess` | `loginPost` | the mutex is released while the password is verified; instants arrive out of order | guesses and waits are bounded, a lockout neither grows nor ends early |
| Login gate, cookies, CSRF tokens (`server.go` 651-1170, `csrf.go`) | process secret; browser cookies | issue, verify, set and clear cookies | every page and form | answers for several tabs overtake each other; restarts change secret and cookie name | the latest page works, a login grants access, logout clears the browser |
| Document upload (`server.go` 2283-3312, `supporting_store.go`) | files; `documents`, `application_documents` | upload, attach, posting form, new application | file system, SQLite | two stores without a common transaction, rollback by removal, crashes | attached postings have whole files, acknowledged uploads stay, no orphans |
| Applications and timeline (`application_store.go`) | `applications`, `application_events` | create, update status, add event, read page, export | SQLite | update and generated event, reads in several statements | the timeline tells the row's state; a page explains what it shows |
| Contacts (`supporting_store.go`) | `contacts` | create, list | forms, SQLite | insert and read-back | an accepted form is stored |
| Forms and model validation (`forms.go`, `server.go` 3408-3694, `model/`) | none | parse, check, normalise, store, prefill | every handler that changes something, the stores, the schema | the same names in three places; dates on the way to text and back | an accepted form is stored, a prefilled form posted as shown changes nothing |
| Migrations (`migrate.go`, `main.go`) | schema, `schema_migrations` | check, apply, record | other processes over the same data | the check is outside the transaction; tables are rebuilt under foreign keys; restarts | schema follows the record, nothing is lost, everyone comes to serve |
| Pipeline figures (`server.go` 1505-1724, 1907-2264, 3752-3785) | none (derived) | group, share, draw, filter | applications | six tables and switches that must agree; integer rounding | counts, shares and ribbons agree, and so do the links but for the closed one (finding 3) |
| Follow-ups (`server.go` 1302-1320, 1467-1852, 3730-3835) | none (derived from rows and the clock) | rank, select, sort, label | applications, clock | local days against UTC dates; three selections, three orders, lists cut to five, a tie-break by names that may go in a circle | what is due is listed unless the list is full of what is as urgent, orders are sound but for those names and agree, urgency only grows |
| Configuration (`config.go`, the bounds of `auth.go`) | none | load, validate | main, server, session store | day counts that overflow; a table of mode, credentials, address and overrides; bounds checked in three places | what is accepted works, and is not open to the network by accident |
| Process (`main.go`) | configuration, database handle, listener, connections | start, listen, signal, shut down, exit | net/http, the restart policy | a select over two channels, a shutdown with a deadline, deferred calls that `os.Exit` skips | answers outlive the shutdown, the database closes last, a signal ends it, it comes up again |
| Themes, redirects, templates, the cryptography of passwords | none | | | | not modelled |

The list of hazards, each at its line, is in `PROJECT.json` under `hazards`.

## Modules

| Module | Models | State and actions |
|---|---|---|
| `SessionContract` | what a session promises, every operation atomic | `phase`, `cap`, `granted`; issue, end, grant, release |
| `SessionStore` | the session store and the handlers that call it | `row` is the table, `req` the goroutines with the instant each captured; one action per SQL statement, plus `Fail` (an error or a client that left), `Restart`, `Tick`, `StepBack`. `delivered`, `seen`, `latest`, `out` are history |
| `LoginLimiter` | the limiter and `loginPost` | `bucket`, `attempt`; `Begin` (reads the clock), `Check`, `Verify`, `RecordFailure`, `RecordSuccess`, `Restart`. Instants are seconds; the policy is the program's, including its replacement of unusable values. `tried` is history |
| `DocumentContract` | what an uploaded PDF is promised, every upload atomic | `docs`, `attached`, `told`, `readable`; a posting filed, attached and confirmed in one step, a library document filed, then confirmed or without its file |
| `DocumentUpload` | the three forms that accept a PDF | `disk` (each file none, partial or whole), `docs`, `attached`, `apps`, `upload`; `told` and `stray` are history; one action per file operation and statement, each of which may fail; `Crash` between any two |
| `ApplicationTimeline` | creating, updating and showing applications | `apps`, `events`, `writer` (SQLite's write lock), `req`; a transaction's writes become visible at `CommitUpdate`; pages read row and events in separate actions |
| `AuthFlow` | cookies and tokens of one browser with several tabs | `jar`, `tab` (what a request carried, what its answer sets), `minted`, `live`, `process`; requests and answers are delivered in any order or lost |
| `MigrationContract` | what an upgrade promises to whoever shares the data | `version`, `documents`, `links`, `serving`; upgrade by one version in one step, serve, stop, store |
| `Migrations` | processes that start over one database | `table`, `applied`, `proc` with the transaction's own copy of the tables; `Migration` lists the statements of migrations 1 to 3 that create, copy, rename or drop |
| `PipelineFigures` | the dashboard's groups, shares, links and the graph | no state: every function of the pages is an operator on the number of applications of each status (the code has two tables of groups, `Group` and `Stage`), and what must hold of the figures is a predicate of those numbers |
| `PipelineFlow` | the numbers as applications are created and moved | `statusCounts`; `CreateUnder`, `MoveBetween` |
| `Forms` | every form from its fields to the row | no state: the handlers' checks, the store's and the schema's as operators, and the forms a page prefills |
| `FollowUps` | due dates, queues, labels, staleness | `apps`, `now`; the forms of `Forms`, and passing time; the three orders, and the lists a page may show (`NextActionsShown`, `FollowUpsShown`), cut to `ListLimit`; `StatusCounts` counts its rows under each status |
| `Configuration` | `config.Load` over an environment, the bounds of password hashes, the server's own reading of the same options | no state: operators on records of classes of values; durations wrap as 64-bit words do |
| `Startup` | one process from `main` to its exit, and started again | `main` (where the main goroutine is), `listener` (the goroutine of `ListenAndServe` and its channel), `db`, `conn`, `timer`; `Signal`, `Crash`, `Restart`, `Tick` |

Composition. Three modules are the detail below a contract, each by
`INSTANCE ... WITH` and a property of its run: `SessionStore` below `SessionContract`
(`ImplementsContract`), `DocumentUpload` below `DocumentContract`
(`ImplementsDocumentContract`), `Migrations` below `MigrationContract`
(`ImplementsMigrationContract`). `AuthFlow` uses sessions as their contract presents
them: live until ended once and for all. `DocumentUpload` starts where `AuthFlow` ends,
with a form whose token was accepted. `FollowUps` extends `Forms`, so its rows are the
ones the forms leave, and reads one committed set of them, which is what a single
`ListApplications` returns; it extends `PipelineFigures` and is the detail below
`PipelineFlow`, instantiated with the number of its rows under each status (`Pipeline`):
the figures of the dashboard are those of the same applications. `Startup` extends
`Configuration` and stops where `ServeHTTP` begins; its step `Migrate` stands for the
whole of `Migrations`. `MC...` modules only give constants to TLC, and `...Proofs`
modules only hold proofs. Names ending in a suffix after an underscore,
such as `Active_CapInclusive`, are mutants: plausible mistakes that TLC must catch.

Names follow the source where TLA+ allows; where an action stands for a part of a
function, its comment says which.

### Abstractions worth knowing

- Payloads (names, notes, hashes) are model values or absent. Company and role of an
  application, which no form edits, are kept in `FollowUps` as its comparisons see them
  (`Name`): the place of the text byte by byte, the place of its lower-case form, and
  the texts it equals under case folding, the last two in no relation to each other.
- SQLite is modelled as the code uses it: every statement outside a transaction
  commits by itself; a transaction takes the write lock with its first write;
  readers see committed rows. `db.go` turns on foreign keys and a busy timeout and
  nothing else; waiting that reaches the timeout is a failing statement.
- Random ids and tokens: `SessionStore` and `AuthFlow` never repeat one (256 random
  bits); `DocumentUpload` lets two uploads draw the same id, which the code
  defends against by `O_EXCL` and the primary key.
- Signatures cannot be forged: a token is valid in the process that minted it.
- `Forms` has a text empty, blank, or something with or without space around it, and
  a name that is in no list as `"unknown"`. Dates are days, 0 being 0001-01-01, which
  `time.Time` takes for none.
- `Configuration` has an address that is loopback or not, flags that are true, false,
  unset or no boolean, durations in units of which a day has `Day`.
- Of net/http, `Startup` assumes what the version in `go.mod` does: `Shutdown` closes
  the listener, waits for its accept loop, closes idle connections again and again,
  and leaves running handlers alone; a connection counts as active before the
  handler looks at whether the server is shutting down. Time is in units of five
  seconds: the read timeout is one, the write timeout and the shutdown's two.
- A client that leaves cancels the request's context, so any statement may fail.

## Runs and bounds

| Run | Bounds | What it shows |
|---|---|---|
| `session_store` | 1 session, 3 requests, limits of 2 and 3 seconds, a clock to 3 that may step back | `LogoutIsFinal`, `LifetimeBounded`, `NoIdleGap`, `GrantedWasTouched`, `EndedRowsAreFrozen`, `ImplementsContract` |
| `login_limiter` | 2 usernames from one client, 2 attempts in flight, one free failure, lockout at the fourth, delays of a second (their cap), clock to 2 | `BucketsAgree`, `WaitBounded`, `GuessesBounded`, `LockoutNotExtended`, `EarlyUnlockNeedsPassword` |
| `document_upload` | 2 uploads, 2 ids, one application, every failure and crashes | `PostingsHaveFiles`, `SavedLinkWasStored`, `NoOrphans`, `ImplementsDocumentContract` |
| `document_read_back`, `document_limit` | one property each | findings 1 and 2 |
| `application_timeline` | 2 requests, one application, events up to `MaxEvents`, clock up to `MaxClock` | `TimelineTellsStatus`, `PageExplainsStatus` |
| `auth_flow` | 2 tabs, 2 tokens, 2 sessions, one restart, a token lifetime of 3 ticks, 2 ticks to the second | `LastPageWorks`, `LoginGrantsAccess`, `LogoutClearsBrowser` |
| `migrations` | one process of the first release, two of the present one, 2 documents, 2 crashes | `SchemaMatchesRecord`, `ImplementsMigrationContract`, `AllServe` |
| `pipeline_flow` | all distributions of up to 6 applications over the 9 statuses | `GroupsPartitionTheApplications`, `FlowIsConserved`, `RibbonsFitTheirNodes`, `LinksLeadToWhatTheyCount` |
| `pipeline_closed` | 2 applications | finding 3 |
| `follow_ups` | 3 applications (comparisons are judged on triples) of the companies s, t and the long s, lists of 2 in place of 5, 2 due dates, half days, stale after a day, a clock of four half days, a server half a day east of UTC; every form over its classes of values | `AcceptedFormsAreStored`, `UntouchedFormKeepsRow`, `DueFollowUpsAreListed`, `ListOrdersAreSound`, `PagesAgreeOnUrgency`, `LabelsFollowTheCalendar`, `UrgencyOnlyGrows` |
| `startup` | about two hundred environments: the table of address, overrides, mode, user name, hash and password file in full, every other variable one at a time; 2 connections, one failing step or crash, words that overflow at 32 days | `ProtectedOnNetwork`, `AcceptedConfigWorks`, `DatabaseClosedQuietly`, `AnswersOutliveShutdown`, `SignalStops`, `ComesUpAgain` |

Type invariants (`TypeOK`) are checked by no run: each is proved instead (`TypeCorrect`).
`AcknowledgedKept` (a confirmed upload keeps its row and file) and `NothingLost` (so does
every upload across an upgrade) are part of what the contracts of their modules promise;
the runs check them as that, and they are proved as invariants too.

What `Forms` says of all forms and of all rows they can leave (`FormsAreStored`, `UntouchedFormsKeepRows`) does not depend
on a state; `FollowUps`, which extends it and posts the same forms, checks it together
with what holds of the rows stored so far. Its three applications have the three
companies of `NamesCycle`, so the circle that `ListOrdersAreSound` excepts is reached;
only the first and the third are tried as closed, and only the third with two priorities.
The run uses no symmetry, since names tell the
three apart.

Why these bounds are enough to be interesting: every race in these parts is between
two requests (or processes), so two of each reach it; clocks reach every limit
that a property mentions; ids are few enough to collide. The state a counter or
list may reach is cut off by a guard whose bound is a constant named in the module
(`MaxClock`, `MaxEvents`, `MaxFailures`, `MaxCrashes`, `MaxFaults`, `MaxProcess`,
`MaxApplications`, `LastTick`). The proofs below do not depend on any of the sizes.

`CHECK_DEADLOCK FALSE` appears only in `MCMigrations.cfg`: once every process
serves and no crash is left to spend, nothing need happen any more.

Each property of a passing run has a mutant in `PROJECT.json`: a changed definition
under which TLC finds the property violated in the same run.

## Fairness

`Migrations` and `Startup` have liveness properties.

`AllServe` assumes weak fairness of each process's own steps (`WF_vars(Run(p))`): a
started process keeps running, and one that exits is started again, which is what
`restart: unless-stopped` in `deploy/docker-compose.yml:19` arranges. Crashes are not
fair and are bounded; after the last one every process comes to serve and stays.

`SignalStops` and `ComesUpAgain` assume weak fairness of the main goroutine (`Main`,
which with the same restart policy includes `Start`, but not of a program that the
operator stopped), of the listener's goroutine, of the clock, and of the server's own
timers on connections (`CloseIdle`, `ReadTimesOut`). Handlers and clients get none: a
handler may hang for ever, and it is the deadline of the shutdown that ends the
process then. Signals, faults and crashes are not fair.

The request handlers are not given fairness: a client may leave, so nothing
promises that a request completes, and no property claims it.

## Proofs

Checked by TLAPS, for every value of the constants that the named assumptions admit.

- `SessionStoreProofs`: `TypeCorrect`, `LogoutCorrect`, `LifetimeCorrect`,
  `IdleCorrect`, `GrantedCorrect`, `EndedRowsCorrect`, `StoreImplementsContract`.
  The properties are not inductive. The invariant adds what each step of a touch
  has established: a request past the lookup started before the limits as they
  were stored; a request past the update has its instant among those written to
  the row; an answered logout left no live row; and a request marked as started
  before a logout is the only one that may still run. The refinement maps a row to
  its phase and a granted or revoking request to a grant; the final re-check is
  the abstract grant, and logout is end and release in one step.
- `LoginLimiterProofs`: `TypeCorrect`, `BucketsCorrect`, `WaitCorrect`,
  `GuessesCorrect`, `LockoutCorrect`, `EarlyUnlockCorrect`. The invariant for
  guesses counts the attempts still verifying under a key together with those
  tried; the cardinality of that set is what lets a burst exceed the threshold by
  no more than the requests in flight. Early unlocks need that no attempt's
  captured instant lies in the future.
- `StartupProofs`: `TypeCorrect`, `ProtectedCorrect`, `AcceptedCorrect`,
  `DatabaseCorrect`, `AnswersCorrect`, from `WidthAssumption`,
  `EnvironmentAssumption` and `FaultAssumption`. Two lemmas say what an accepted
  configuration is good for, for any word width (`AcceptedLemma`: a count of days
  that wraps never exceeds what was typed, and a hash that parses can be verified) and
  for any environment (`ProtectedLemma`). The invariant adds what the properties
  leave out: the configuration is the one `Load` gave, connections exist only while
  the process serves or drains and the database closes after that (`Lifecycle`), a
  connection is open only if its configuration allows it (`Connections`), and a
  request that was running when the shutdown began is at least as old as the
  shutdown (`Aged`), so that at the deadline it is past the write timeout.
- `DocumentUploadProofs`: `TypeCorrect`, `PostingsCorrect`, `AcknowledgedCorrect`,
  `LinkCorrect`, `NoOrphansCorrect`, `ContractImplemented`. The invariant says whose
  file each file is: an upload that is writing owns its path alone, and no row points
  at a path still being written. That a file without a row was left by a crash or a
  failing removal is inductive relative to it (`OrphansStep`). The refinement takes a
  document for readable when the file that its row names is whole; files appear and
  disappear unseen until a row names them. It needs two facts more (`Filed`): every row
  is filed under a path of its own id, and one under an application was confirmed;
  finding 1 is a legal step of the contract (`LoseFile`), which allows it only for a
  document of the library that nobody was told is saved.
- `AuthFlowProofs`: `TypeCorrect`, `LastPageCorrect`, `LoginCorrect`, `LogoutCorrect`,
  from `FlowAssumption` and `MintAssumption`. The invariant says that every form in a tab
  carries a token that was minted (`FormsMinted`), that the token of the newest form is
  the one in the CSRF cookie (`CookieOfNewest`), and that the cookie the current
  process reads holds the session of the last login (`CookieOfLogin`). The rest is the
  arithmetic of a lifetime that is cut off to whole seconds (`UnixBounds`).
- `ApplicationTimelineProofs`: `TypeCorrect`, `TimelineCorrect`, `PageCorrect`, from
  `TimelineAssumption`. The timeline explains the row (`RowExplained`), no event is
  stamped later than the clock (`StampedBy`) and none belongs to a row that does not
  exist; the holder of the write lock has a list that explains the row it has written
  (`RequestOK`). A page that has read its rows is explained by what it will show: each
  row by the list it has read, or, while that is still to be read, by the timeline as
  it stands (`ViewOK`), which can only grow.
- `MigrationsProofs`: `TypeCorrect`, `SchemaCorrect`, `UploadsCorrect`, `StartedCorrect`,
  `ContractImplemented`, from `MigrationsAssumption`. Between two statements of a migration the invariant
  describes the tables that exist (`Present`) and those that hold every row already
  copied (`Filled`); a process under the lock has the committed tables taken that far
  (`Stage`), everyone else sees them committed at the version on record (`Committed`).
  A process whose check is stale fails at its first statement (`AppliedFails`), and
  one that holds the lock never fails for the schema's sake (`StartedCorrect`). The
  refinement counts the recorded versions and reads the documents and links from the
  committed tables, absent ones being empty; by the invariant those are the uploads at
  every moment (`Abstraction`), so only `Commit` shows as an upgrade, and all that
  leads up to it, or breaks off, is not seen.
- `FollowUpsProofs`, from `DateAssumption`, `ResultAssumption`, `TimeAssumption` and
  `RowAssumption`:
  - the forms, over all fields: `EveryFormIsStored`, `EveryUntouchedFormKeepsItsRow`, and
    for the rows of a reachable state `TypeCorrect` (inductive by itself), `FormsCorrect`,
    `UntouchedCorrect`;
  - the queues: `ListedCorrect`, `AgreeCorrect`, `OrdersCorrect`, `UrgencyCorrect`. The more
    urgent of two rows comes first in both orders (`UrgentFirst`), so a list that is cut
    to `ListLimit` drops no more urgent row than it shows. The dashboard's orders compare
    keys lexicographically (`KeyOrder`, `RowOrder`) and break ties by names; that is
    asymmetric, and a strict weak order but for tied rows among whose companies case
    folding and lower case disagree (`NameOrder`). Without such companies it is one
    throughout (`PlainNamesOrder`), with them it need not be (`NamesCycle`). Urgency grows
    since the start of the local day never steps back (`DaysPass`);
  - the labels: `LabelsCorrect` for a server at UTC or east of it, a hypothesis of the
    theorem since the property fails elsewhere, and `LabelsWestOfUTC`, which says how:
    there every label is exactly one day early;
  - the figures, over any distribution of applications over the statuses: `GroupsFor`,
    `LinksFor` (of groups with one status, and of outcomes), `FlowFor`, `RibbonsFor`. Rounded shares add up to 97..103 and ribbons fit
    their nodes for any number of applications, from the bounds of each division
    (`Quotient`, `ShareBounds`, `WidthBounds`). `PipelineFlow` by itself: `CountsCorrect`
    (no count goes below zero), and with it `GroupsCorrect`, `LinksCorrect`, `FlowCorrect`,
    `RibbonsCorrect`;
  - the refinement: every application is counted under one status (`TotalCorrect`), and
    each step of `FollowUps` creates one application, moves one, or leaves the counts
    alone, so `FollowUps` implements `PipelineFlow` (`PipelineImplemented`) and the
    figures of its rows are in order (`FiguresCorrect`);
  - the extent of finding 3: the page behind the closed link lists the accepted
    applications, all of them, besides what its node counts, and nothing else
    (`ClosedLinkListsTheAcceptedToo`).

Only model-checked: `AllServe`, `SignalStops` and `ComesUpAgain`, since liveness under
fairness is out of this prover's reach. The three findings are counterexamples, which TLC
finds; how far a divergence goes is proved of three, the third finding
(`ClosedLinkListsTheAcceptedToo`), the labels west of UTC (`LabelsWestOfUTC`) and the
names that break ties (`OrdersCorrect`, `NamesCycle`). That a list of the `ListLimit` first rows
exists is left to TLC: it is an induction over the rows.

What the proofs assume is what the modules name: sets of values and markers that are not
among them, bounds of clocks and counters that are natural numbers, finitely many
applications. None bounds the number of requests, tabs, processes, rows or files.

## Findings

Places where the program and what it says of itself part:

1. **A document reported as not saved is saved, without its file**
   (`server.go:3166`). The insert commits, the read-back fails, the file is removed
   and the row stays.
2. **The documents page takes no PDF above 1 MiB** (`server.go:3128`), although
   `docs/SECURITY.md:121` and the form's message say 20 MB.
3. **The closed link lists accepted applications** (`server.go:3776`), which
   `docs/PIPELINE_FLOW_PLAN.md:36-43` puts in a group of their own.

Remarks without a run of their own:

- `AddApplicationEvent` (`application_store.go:242`) has the shape of finding 1: when
  only the read-back after the insert fails, the page asks the user to save an event
  again that is on the timeline. Applications and contacts are created the same way.
- The dashboard breaks its last ties by names (`server.go:1739`): companies that
  `strings.EqualFold` holds equal are told apart by role, others by `strings.ToLower`.
  The two disagree on some letters. Companies s (role b), t, and the long s (U+017F,
  role a), tied in everything else, go in a circle: s before t before the long s before
  s (`NamesCycle`). `sort.SliceStable` is then handed something that is no strict weak
  order, and how it lists these rows depends on the order in which the database
  returns them (by company, `application_store.go:504`). Only rows tied in due rank,
  status, priority and instant of update are touched, so what is more urgent still
  comes first; `ListOrdersAreSound` excepts exactly these rows. No document of the
  repository says how names are ordered, so there is no run of its own.
- Both lists of next actions show five (`server.go:1263`, `server.go:1878`): a sixth due
  follow-up is counted and on neither list. `DueFollowUpsAreListed` says that the five
  are then no less urgent than it, by due rank.
- West of UTC an action is labelled overdue on its own date (`server.go:1841`,
  `forms.go:66`): a date is stored as its midnight in UTC and compared with the local
  day. With `TZ` unset, or at or east of UTC, the labels are right (`LabelsCorrect`);
  west of it all of them are a day early (`LabelsWestOfUTC`).
- A touch writes the instant it captured on entry, unconditionally
  (`session_store.go:80`): of two overlapping requests the older may write last, and
  the idle window that `docs/CONFIGURATION.md:261` says a request refreshes ends a
  little early. The limits hold all the same (`NoIdleGap`), and every granted request
  has had its instant written (`GrantedWasTouched`).
- `JOBHUNT_ADDR` may lack its host or its port (`:8080`, `127.0.0.1:`), although
  `docs/CONFIGURATION.md:18` asks for both; an empty host counts as the network.
- A negative count of days beyond about -106752 overflows to a positive timeout and is
  accepted (`config.go:187`); `AcceptedConfigWorks` promises nothing of it.
- With the mode unset, one credential alone selects basic authentication and is then
  refused for what is missing (`config.go:195`).
- A date of 0001-01-01 is no date to `time.Time`: as a due date it is stored, is
  unscheduled on the dashboard and first on the applications page, and comes
  back empty in the status form; as an event's date it passes the form and is refused by the
  store, with nothing said of the field. `UntouchedFormKeepsRow` and
  `AcceptedFormsAreStored` name the case, and `FollowUps` leaves it out of `Dates`.
- The status form carries the whole next action, as it was when the page was
  loaded (`server.go:2689`): an older tab puts back an older one.
- The week's activity (`server.go:1486`) counts a status change as an update and as an
  event, and holds events dated at midnight UTC against a week of local days.
- `docs/CONFIGURATION.md:275` mentions a logout form, and no
  template contains one; `logoutPost` is modelled as the route it is.

## Not modelled

- Money values (`forms.go:90-118`, `150-198`): only tests call them. Compensation: it is in
  the model and the schema, and no form fills it.
- The cryptography of passwords. The limiter's model takes the verdict as input;
  `Configuration` has the bounds a hash must meet.
- Themes, redirect targets, proxy headers, rendering: text handling without state.
- Downloads, lists and settings: they read and change nothing.
- The commands `version` and `hash-password`, which print and exit.
- This week's activity on the dashboard: no document says what its counts must be.

## Plan

Done: every module is modelled and checked, its safety properties are proved, and the
sessions, the uploads, the migrations and the counts of the pipeline are proved to
implement a contract each.

Next, in this order:

1. `SqliteLock`: deferred transactions that upgrade from reading to writing, to
   replace the single lock of `ApplicationTimeline` and `Migrations` by what the
   driver does under a busy timeout.
2. The week's activity on the dashboard, once a document says what it should count.
