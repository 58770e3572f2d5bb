------------------------------ MODULE Migrations ------------------------------
(***************************************************************************)
(* Database migrations at startup: internal/store/sqlite/migrate.go, run   *)
(* by cmd/jobhunt-os/main.go before it serves, over the SQL of migrations/.*)
(*                                                                         *)
(* Several processes, of older and newer releases, may share one data      *)
(* directory while an upgrade is under way.  Whether a version has been    *)
(* applied is read outside the transaction that applies it.  A transaction *)
(* holds the database's write lock from its first statement, works on its  *)
(* own copy and publishes it when it commits; a process that exits or dies *)
(* releases the lock and leaves nothing.                                   *)
(***************************************************************************)
EXTENDS Naturals, Sequences, FiniteSets

CONSTANTS
  Process,
  Known,      \* Known[p]: how many migrations the binary of p embeds
  Doc,        \* documents that may be uploaded
  Missing,    \* no such table
  MaxCrashes  \* bound: processes that die at an arbitrary point

\* Objects of the schema.  "base" stands for the tables that no migration
\* rebuilds, "posting_url" for the column added to one of them.
Object == {"schema_migrations", "base", "posting_url", "documents", "attached",
           "documents_new", "attached_new", "attached_copy", "sessions"}

Statement ==
  [op : {"create", "drop"}, object : Object] \cup
  [op : {"copy", "rename", "create as"}, from : Object, object : Object]

\* Mutant: in 0002 the links are copied after the documents are dropped.
Migration_CopyLate ==
  << << [op |-> "create", object |-> "base"],
        [op |-> "create", object |-> "documents"],
        [op |-> "create", object |-> "attached"] >>,
     << [op |-> "create", object |-> "posting_url"],
        [op |-> "create", object |-> "documents_new"],
        [op |-> "copy", from |-> "documents", object |-> "documents_new"],
        [op |-> "drop", object |-> "documents"],
        [op |-> "create as", from |-> "attached", object |-> "attached_copy"],
        [op |-> "drop", object |-> "attached"],
        [op |-> "rename", from |-> "documents_new", object |-> "documents"],
        [op |-> "create", object |-> "attached_new"],
        [op |-> "copy", from |-> "attached_copy", object |-> "attached_new"],
        [op |-> "rename", from |-> "attached_new", object |-> "attached"],
        [op |-> "drop", object |-> "attached_copy"] >>,
     << [op |-> "create", object |-> "sessions"] >> >>

\* 0001_init, 0002_application_posting_documents and 0003_sessions.
Migration ==
  << << [op |-> "create", object |-> "base"],
        [op |-> "create", object |-> "documents"],
        [op |-> "create", object |-> "attached"] >>,
     << [op |-> "create", object |-> "posting_url"],
        [op |-> "create", object |-> "documents_new"],
        [op |-> "copy", from |-> "documents", object |-> "documents_new"],
        [op |-> "create as", from |-> "attached", object |-> "attached_copy"],
        [op |-> "drop", object |-> "attached"],
        [op |-> "drop", object |-> "documents"],
        [op |-> "rename", from |-> "documents_new", object |-> "documents"],
        [op |-> "create", object |-> "attached_new"],
        [op |-> "copy", from |-> "attached_copy", object |-> "attached_new"],
        [op |-> "rename", from |-> "attached_new", object |-> "attached"],
        [op |-> "drop", object |-> "attached_copy"] >>,
     << [op |-> "create", object |-> "sessions"] >> >>

Version == 1..Len(Migration)

ASSUME MigrationsAssumption ==
  /\ Known \in [Process -> Version]
  /\ MaxCrashes \in Nat
  /\ Missing \notin Process
  /\ \A D \in SUBSET Doc : Missing # D

VARIABLES
  table,    \* the committed tables: the rows of each, or Missing
  applied,  \* the committed rows of schema_migrations
  writer,   \* the process whose transaction holds the write lock, or Missing
  proc,     \* the processes
  uploaded, \* history: documents whose upload committed
  crashes   \* bound: see MaxCrashes

vars == <<table, applied, writer, proc, uploaded, crashes>>

Tables == [Object -> {Missing} \cup SUBSET Doc]

\* version is the migration in hand, next its next statement, work the tables
\* as its transaction sees them.
Proc == [step : {"down", "up", "checking", "applying", "serving"},
         version : 1..(Len(Migration) + 1), next : Nat, work : Tables]

NoTables == [o \in Object |-> Missing]

Down == [step |-> "down", version |-> 1, next |-> 1, work |-> NoTables]

TypeOK ==
  /\ table \in Tables
  /\ applied \subseteq Version
  /\ proc \in [Process -> Proc]
  /\ writer \in Process \cup {Missing}
  /\ writer \in Process => proc[writer].step = "applying"
  /\ uploaded \subseteq Doc
  /\ crashes \in 0..MaxCrashes

Init ==
  /\ table = NoTables
  /\ applied = {}
  /\ writer = Missing
  /\ proc = [p \in Process |-> Down]
  /\ uploaded = {}
  /\ crashes = 0

------------------------------------------------------------------------------
(* Statements *)

\* A statement that names a table which is there already, or is not, fails.
Runs(s, t) ==
  /\ s.op \in {"create", "create as", "rename"} => t[s.object] = Missing
  /\ s.op \in {"copy", "rename", "create as"} => t[s.from] # Missing
  /\ s.op \in {"copy", "drop"} => t[s.object] # Missing

\* Dropping a table deletes its rows first, and foreign keys are enforced: the
\* links to a dropped document go with it.
Cascade(o, t) ==
  IF o = "documents"
  THEN [u \in Object |-> IF u \in {"attached", "attached_new"} /\ t[u] # Missing
                         THEN {} ELSE t[u]]
  ELSE t

Result(s, t) ==
  CASE s.op = "create" -> [t EXCEPT ![s.object] = {}]
    [] s.op = "create as" -> [t EXCEPT ![s.object] = t[s.from]]
    [] s.op = "copy" -> [t EXCEPT ![s.object] = @ \cup t[s.from]]
    [] s.op = "rename" -> [t EXCEPT ![s.object] = t[s.from], ![s.from] = Missing]
    [] s.op = "drop" -> [Cascade(s.object, t) EXCEPT ![s.object] = Missing]

------------------------------------------------------------------------------
(* One process *)

Become(p, step) == proc' = [proc EXCEPT ![p].step = step]

\* os.Exit(1): whatever failed, the process ends and its transaction with it.
Exit(p) ==
  /\ proc' = [proc EXCEPT ![p] = Down]
  /\ writer' = IF writer = p THEN Missing ELSE writer
  /\ UNCHANGED <<table, applied, uploaded>>

Start(p) ==
  /\ proc[p].step = "down"
  /\ Become(p, "up")
  /\ UNCHANGED <<table, applied, writer, uploaded, crashes>>

\* Mutant: without IF NOT EXISTS.
CreateSchemaMigrations_Always(p) ==
  /\ proc[p].step = "up"
  /\ \/ /\ writer = Missing /\ table["schema_migrations"] = Missing
        /\ table' = [table EXCEPT !["schema_migrations"] = {}]
        /\ Become(p, "checking")
        /\ UNCHANGED <<applied, writer, uploaded>>
     \/ /\ writer # Missing \/ table["schema_migrations"] # Missing
        /\ Exit(p)
  /\ UNCHANGED crashes

\* CREATE TABLE IF NOT EXISTS: it writes only if the table is missing, and
\* then gives up if the lock is not free within the busy timeout.
CreateSchemaMigrations(p) ==
  LET there == table["schema_migrations"] # Missing IN
  /\ proc[p].step = "up"
  /\ \/ /\ there \/ writer = Missing
        /\ table' = IF there THEN table
                    ELSE [table EXCEPT !["schema_migrations"] = {}]
        /\ Become(p, "checking")
        /\ UNCHANGED <<applied, writer, uploaded>>
     \/ ~there /\ writer # Missing /\ Exit(p)
  /\ UNCHANGED crashes

\* migrationApplied, for one name after the other; after the last the server
\* starts.
CheckApplied(p) ==
  LET v == proc[p].version IN
  /\ proc[p].step = "checking"
  /\ \/ v > Known[p] /\ Become(p, "serving")
     \/ /\ v <= Known[p] /\ v \in applied
        /\ proc' = [proc EXCEPT ![p].version = v + 1]
     \/ v <= Known[p] /\ v \notin applied /\ Become(p, "applying")
  /\ UNCHANGED <<table, applied, writer, uploaded, crashes>>

\* applyMigration: the next statement, the first of which takes the lock.  It
\* fails when its tables are not as expected, or the lock is not to be had.
RunStatement(p) ==
  LET s == Migration[proc[p].version][proc[p].next]
      t == IF writer = p THEN proc[p].work ELSE table
  IN
  /\ proc[p].step = "applying"
  /\ proc[p].next <= Len(Migration[proc[p].version])
  /\ \/ /\ writer \in {p, Missing} /\ Runs(s, t)
        /\ writer' = p
        /\ proc' = [proc EXCEPT ![p].next = @ + 1, ![p].work = Result(s, t)]
        /\ UNCHANGED <<table, applied, uploaded>>
     \/ /\ ~(writer \in {p, Missing} /\ Runs(s, t))
        /\ Exit(p)
  /\ UNCHANGED crashes

\* Mutant: the version is recorded on its own, after the commit.
Commit_NotRecorded(p) ==
  LET v == proc[p].version IN
  /\ proc[p].step = "applying"
  /\ proc[p].next > Len(Migration[v])
  /\ table' = proc[p].work
  /\ applied' \in {applied, applied \cup {v}}
  /\ writer' = Missing
  /\ proc' = [proc EXCEPT ![p] = [Down EXCEPT !.step = "checking", !.version = v + 1]]
  /\ UNCHANGED <<uploaded, crashes>>

\* The version is inserted, and tables and version commit together.
Commit(p) ==
  LET v == proc[p].version IN
  /\ proc[p].step = "applying"
  /\ proc[p].next > Len(Migration[v])
  /\ table' = proc[p].work
  /\ applied' = applied \cup {v}
  /\ writer' = Missing
  /\ proc' = [proc EXCEPT ![p] = [Down EXCEPT !.step = "checking", !.version = v + 1]]
  /\ UNCHANGED <<uploaded, crashes>>

\* A server of any release stores a PDF and its link (AttachDocumentToApplication,
\* module DocumentUpload); it waits for the lock or fails.
Attach(p, d) ==
  /\ proc[p].step = "serving"
  /\ writer = Missing
  /\ d \notin uploaded
  /\ table' = [table EXCEPT !["documents"] = @ \cup {d}, !["attached"] = @ \cup {d}]
  /\ uploaded' = uploaded \cup {d}
  /\ UNCHANGED <<applied, writer, proc, crashes>>

\* The process is killed, or the machine stops.
Crash(p) ==
  /\ proc[p].step # "down" /\ crashes < MaxCrashes
  /\ crashes' = crashes + 1
  /\ Exit(p)

Run(p) ==
  \/ Start(p) \/ CreateSchemaMigrations(p)
  \/ CheckApplied(p) \/ RunStatement(p) \/ Commit(p)

Next ==
  \/ \E p \in Process : Run(p) \/ Crash(p) \/ (\E d \in Doc : Attach(p, d))

\* A process that is down is started again (docker-compose.yml: restart:
\* unless-stopped), and one that runs gets on with its startup.
Fairness == \A p \in Process : WF_vars(Run(p))

Spec == Init /\ [][Next]_vars /\ Fairness

------------------------------------------------------------------------------
(* Properties *)

\* The tables that the first k migrations leave, next to schema_migrations.
Schema(k) ==
  (IF k >= 1 THEN {"base", "documents", "attached"} ELSE {})
    \cup (IF k >= 2 THEN {"posting_url"} ELSE {})
    \cup (IF k >= 3 THEN {"sessions"} ELSE {})

\* What is recorded is what the schema is: the versions recorded are the first
\* k, and the tables exactly those that k migrations leave, with no half-built
\* table of another run, although two processes may both have seen a version
\* as missing; and a process serves only on a schema with all that it knows.
SchemaMatchesRecord ==
  LET k == Cardinality(applied) IN
  /\ applied = 1..k
  /\ {o \in Object \ {"schema_migrations"} : table[o] # Missing} = Schema(k)
  /\ \A p \in Process : proc[p].step = "serving" => Known[p] <= k

\* No document and no link is lost while tables are rebuilt, whoever writes
\* meanwhile and whenever a process dies.
NothingLost ==
  uploaded # {} => /\ table["documents"] = uploaded
                   /\ table["attached"] = uploaded

\* The rows of a table; one that is not there has none.
Rows(o) == IF table[o] = Missing THEN {} ELSE table[o]

InService == {p \in Process : proc[p].step = "serving"}

Contract == INSTANCE MigrationContract WITH
  Last <- Len(Migration), version <- Cardinality(applied),
  documents <- Rows("documents"), links <- Rows("attached"),
  serving <- InService

\* To whoever shares the data an upgrade is one step that touches no document
\* and no link, whoever writes meanwhile and whenever a process dies half-way
\* through rebuilding their tables; and no server meets a schema older than it.
ImplementsMigrationContract == Contract!Spec

\* However the processes race each other through the migrations, once they
\* stop being killed all of them come up.
AllServe == <>[](\A p \in Process : proc[p].step = "serving")
==============================================================================
