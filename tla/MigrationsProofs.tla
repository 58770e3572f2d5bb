--------------------------- MODULE MigrationsProofs ---------------------------
(***************************************************************************)
(* Theorems about Migrations, for any number of processes of any releases, *)
(* any documents and any number of crashes.  The inductive invariant says  *)
(* which tables a transaction sees after each of its statements.           *)
(***************************************************************************)
EXTENDS Migrations, FiniteSetTheorems, TLAPS

\* The objects that are there before statement n of migration v.
Present(v, n, o) ==
  \/ o = "base" /\ (v > 1 \/ n > 1)
  \/ o = "documents" /\ (v = 1 => n > 2) /\ ~(v = 2 /\ n = 7)
  \/ o = "attached" /\ (v = 1 => n > 3) /\ ~(v = 2 /\ n \in 6..10)
  \/ o = "posting_url" /\ v > 1 /\ (v = 2 => n > 1)
  \/ o = "sessions" /\ v > 2 /\ (v = 3 => n > 1)
  \/ v = 2 /\ \/ o = "documents_new" /\ n \in 3..7
              \/ o = "attached_copy" /\ n \in 5..11
              \/ o = "attached_new" /\ n \in 9..10

\* The tables that hold uploads; a rebuilt one does once it has been copied to.
Holder == {"documents", "attached", "documents_new", "attached_copy", "attached_new"}

Filled(v, n, o) ==
  /\ Present(v, n, o) /\ o \in Holder
  /\ ~(v = 2 /\ o = "documents_new" /\ n = 3)
  /\ ~(v = 2 /\ o = "attached_new" /\ n = 9)

\* t are the tables before statement n of migration v, with the uploads docs.
Stage(v, n, t, docs) ==
  /\ t \in Tables
  /\ t["schema_migrations"] # Missing
  /\ \A o \in Object \ {"schema_migrations"} : t[o] # Missing <=> Present(v, n, o)
  /\ \A o \in Holder : Present(v, n, o) => t[o] = IF Filled(v, n, o) THEN docs ELSE {}

\* What is committed after the first k migrations.
Committed(k) ==
  /\ applied = 1..k
  /\ table \in Tables
  /\ \A o \in Object \ {"schema_migrations"} : table[o] # Missing <=> Present(k + 1, 1, o)
  /\ \A o \in Holder : Present(k + 1, 1, o) => table[o] = uploaded
  /\ k = 0 => uploaded = {}

\* A process has seen the versions before its own applied; only the one that
\* holds the lock is within a migration, the next one, and sees its stage.
ProcessOK(p, k) ==
  LET q == proc[p] IN
  /\ q.version - 1 <= k
  /\ q.step = "serving" => Known[p] <= k
  /\ q.step \in {"checking", "applying", "serving"} => table["schema_migrations"] # Missing
  /\ q.step = "applying" => q.version \in Version
  /\ IF writer = p
     THEN /\ q.step = "applying" /\ q.version = k + 1
          /\ q.next \in 2..(Len(Migration[q.version]) + 1)
          /\ Stage(q.version, q.next, q.work, uploaded)
     ELSE q.next = 1

IInv ==
  /\ TypeOK
  /\ \E k \in 0..Len(Migration) :
       Committed(k) /\ \A p \in Process : ProcessOK(p, k)

-------------------------------------------------------------------------------
(* The statements *)

LEMMA MigrationFacts ==
  /\ Len(Migration) = 3
  /\ Len(Migration[1]) = 3 /\ Len(Migration[2]) = 11 /\ Len(Migration[3]) = 1
  /\ Migration[1][1] = [op |-> "create", object |-> "base"]
  /\ Migration[1][2] = [op |-> "create", object |-> "documents"]
  /\ Migration[1][3] = [op |-> "create", object |-> "attached"]
  /\ Migration[2][1] = [op |-> "create", object |-> "posting_url"]
  /\ Migration[2][2] = [op |-> "create", object |-> "documents_new"]
  /\ Migration[2][3] = [op |-> "copy", from |-> "documents", object |-> "documents_new"]
  /\ Migration[2][4] = [op |-> "create as", from |-> "attached", object |-> "attached_copy"]
  /\ Migration[2][5] = [op |-> "drop", object |-> "attached"]
  /\ Migration[2][6] = [op |-> "drop", object |-> "documents"]
  /\ Migration[2][7] = [op |-> "rename", from |-> "documents_new", object |-> "documents"]
  /\ Migration[2][8] = [op |-> "create", object |-> "attached_new"]
  /\ Migration[2][9] = [op |-> "copy", from |-> "attached_copy", object |-> "attached_new"]
  /\ Migration[2][10] = [op |-> "rename", from |-> "attached_new", object |-> "attached"]
  /\ Migration[2][11] = [op |-> "drop", object |-> "attached_copy"]
  /\ Migration[3][1] = [op |-> "create", object |-> "sessions"]
BY DEF Migration

LEMMA Lengths ==
  /\ Len(Migration) = 3 /\ Version = 1..3
  /\ \A v \in Version : \/ v = 1 /\ Len(Migration[v]) = 3
                        \/ v = 2 /\ Len(Migration[v]) = 11
                        \/ v = 3 /\ Len(Migration[v]) = 1
  /\ \A v \in Version : Len(Migration[v]) \in Nat \ {0}
<1>1. Len(Migration) = 3 /\ Version = 1..3
  BY MigrationFacts DEF Version
<1>2. /\ Len(Migration[1]) = 3 /\ Len(Migration[2]) = 11 /\ Len(Migration[3]) = 1
  BY MigrationFacts
<1>3. ASSUME NEW v \in 1..3 PROVE v = 1 \/ v = 2 \/ v = 3
  OBVIOUS
<1>. QED BY <1>1, <1>2, <1>3

\* Statement n of migration v touches the objects C and no other.
Touches(v, n, C) ==
  /\ "schema_migrations" \notin C
  /\ \A o \in Object \ C : /\ Present(v, n + 1, o) <=> Present(v, n, o)
                           /\ Filled(v, n + 1, o) <=> Filled(v, n, o)

LEMMA StageNext ==
  ASSUME NEW v, NEW n, NEW t, NEW docs, Stage(v, n, t, docs),
         NEW r \in Tables, NEW C \in SUBSET Object, Touches(v, n, C),
         \A o \in Object \ C : r[o] = t[o],
         \A o \in C : /\ r[o] # Missing <=> Present(v, n + 1, o)
                      /\ o \in Holder /\ Present(v, n + 1, o) =>
                           r[o] = IF Filled(v, n + 1, o) THEN docs ELSE {}
  PROVE  Stage(v, n + 1, r, docs)
<1>1. "schema_migrations" \in Object /\ Holder \subseteq Object
  BY DEF Object, Holder
<1>2. \A o \in Object \ {"schema_migrations"} : r[o] # Missing <=> Present(v, n + 1, o)
  BY DEF Stage, Touches
<1>3. \A o \in Holder : Present(v, n + 1, o) => r[o] = IF Filled(v, n + 1, o) THEN docs ELSE {}
  BY <1>1 DEF Stage, Touches
<1>. QED BY <1>1, <1>2, <1>3 DEF Stage, Touches

\* What each kind of statement needs, and what it makes of a stage.
LEMMA CreateStage ==
  ASSUME NEW v, NEW n, NEW t, NEW docs \in SUBSET Doc, Stage(v, n, t, docs),
         NEW o \in Object, NEW s, s = [op |-> "create", object |-> o],
         Touches(v, n, {o}), ~Present(v, n, o), Present(v, n + 1, o),
         Filled(v, n + 1, o) => docs = {}
  PROVE  Runs(s, t) /\ Stage(v, n + 1, Result(s, t), docs)
<1>1. Runs(s, t)
  BY DEF Runs, Stage, Touches
<1>2. /\ Result(s, t) \in Tables /\ Result(s, t)[o] = {}
      /\ \A u \in Object \ {o} : Result(s, t)[u] = t[u]
  BY DEF Result, Stage, Tables
<1>3. Missing # {}
  BY MigrationsAssumption
<1>4. \A u \in {o} :
        /\ Result(s, t)[u] # Missing <=> Present(v, n + 1, u)
        /\ u \in Holder /\ Present(v, n + 1, u) =>
             Result(s, t)[u] = IF Filled(v, n + 1, u) THEN docs ELSE {}
  BY <1>2, <1>3
<1>. QED BY <1>1, <1>2, <1>4, StageNext

LEMMA CreateAsStage ==
  ASSUME NEW v, NEW n, NEW t, NEW docs \in SUBSET Doc, Stage(v, n, t, docs),
         NEW f \in Object, NEW o \in Object,
         NEW s, s = [op |-> "create as", from |-> f, object |-> o],
         Touches(v, n, {o}), Filled(v, n, f), ~Present(v, n, o), Filled(v, n + 1, o)
  PROVE  Runs(s, t) /\ Stage(v, n + 1, Result(s, t), docs)
<1>1. t[f] = docs /\ t[o] = Missing
  BY DEF Stage, Filled, Touches
<1>2. Runs(s, t)
  BY <1>1, MigrationsAssumption DEF Runs
<1>3. /\ Result(s, t) \in Tables /\ Result(s, t)[o] = docs
      /\ \A u \in Object \ {o} : Result(s, t)[u] = t[u]
  BY <1>1 DEF Result, Stage, Tables
<1>4. docs # Missing
  BY MigrationsAssumption
<1>5. Present(v, n + 1, o)
  BY DEF Filled
<1>6. \A u \in {o} :
        /\ Result(s, t)[u] # Missing <=> Present(v, n + 1, u)
        /\ u \in Holder /\ Present(v, n + 1, u) =>
             Result(s, t)[u] = IF Filled(v, n + 1, u) THEN docs ELSE {}
  BY <1>3, <1>4, <1>5
<1>7. {o} \in SUBSET Object /\ Result(s, t) \in Tables
  BY <1>3
<1>8. \A u \in Object \ {o} : Result(s, t)[u] = t[u]
  BY <1>3
<1>9. Stage(v, n + 1, Result(s, t), docs)
  BY <1>6, <1>7, <1>8, StageNext, Zenon
<1>. QED BY <1>2, <1>9

LEMMA CopyStage ==
  ASSUME NEW v, NEW n, NEW t, NEW docs \in SUBSET Doc, Stage(v, n, t, docs),
         NEW f \in Object, NEW o \in Object,
         NEW s, s = [op |-> "copy", from |-> f, object |-> o],
         Touches(v, n, {o}), Filled(v, n, f), Present(v, n, o), Filled(v, n + 1, o)
  PROVE  Runs(s, t) /\ Stage(v, n + 1, Result(s, t), docs)
<1>1. t[f] = docs /\ t[o] \in {{}, docs}
  BY DEF Stage, Filled
<1>2. Runs(s, t)
  BY <1>1, MigrationsAssumption DEF Runs
<1>3. /\ Result(s, t) \in Tables /\ Result(s, t)[o] = docs
      /\ \A u \in Object \ {o} : Result(s, t)[u] = t[u]
  <2>1. Result(s, t) = [t EXCEPT ![o] = t[o] \cup t[f]]
    BY DEF Result
  <2>2. t[o] \cup t[f] = docs
    BY <1>1
  <2>. QED BY <2>1, <2>2 DEF Stage, Tables
<1>. QED BY <1>2, <1>3, StageNext, MigrationsAssumption DEF Filled

LEMMA RenameStage ==
  ASSUME NEW v, NEW n, NEW t, NEW docs \in SUBSET Doc, Stage(v, n, t, docs),
         NEW f \in Object, NEW o \in Object, f # o,
         NEW s, s = [op |-> "rename", from |-> f, object |-> o],
         Touches(v, n, {f, o}), Filled(v, n, f), ~Present(v, n, o),
         Filled(v, n + 1, o), ~Present(v, n + 1, f)
  PROVE  Runs(s, t) /\ Stage(v, n + 1, Result(s, t), docs)
<1>1. t[f] = docs /\ t[o] = Missing
  BY DEF Stage, Filled, Touches
<1>2. Runs(s, t)
  BY <1>1, MigrationsAssumption DEF Runs
<1>3. /\ Result(s, t) \in Tables /\ Result(s, t)[o] = docs /\ Result(s, t)[f] = Missing
      /\ \A u \in Object \ {f, o} : Result(s, t)[u] = t[u]
  BY <1>1 DEF Result, Stage, Tables
<1>. QED BY <1>2, <1>3, StageNext, MigrationsAssumption DEF Filled

\* No link is left to be deleted with the documents when they are dropped.
LEMMA DropStage ==
  ASSUME NEW v, NEW n, NEW t, NEW docs \in SUBSET Doc, Stage(v, n, t, docs),
         NEW o \in Object, NEW s, s = [op |-> "drop", object |-> o],
         Touches(v, n, {o}), Present(v, n, o), ~Present(v, n + 1, o),
         o = "documents" => ~Present(v, n, "attached") /\ ~Present(v, n, "attached_new")
  PROVE  Runs(s, t) /\ Stage(v, n + 1, Result(s, t), docs)
<1>1. t[o] # Missing
  BY DEF Stage, Touches
<1>2. Runs(s, t)
  BY <1>1 DEF Runs
<1>3. Cascade(o, t) = t
  BY DEF Cascade, Stage, Tables, Object
<1>4. /\ Result(s, t) \in Tables /\ Result(s, t)[o] = Missing
      /\ \A u \in Object \ {o} : Result(s, t)[u] = t[u]
  BY <1>3 DEF Result, Stage, Tables
<1>. QED BY <1>2, <1>4, StageNext, MigrationsAssumption

\* Every statement runs on the tables that those before it leave, and no upload
\* is missing from a table that should have it.
LEMMA StatementRuns ==
  ASSUME NEW v \in Version, NEW n \in 1..Len(Migration[v]),
         NEW t, NEW docs \in SUBSET Doc, v = 1 => docs = {}, Stage(v, n, t, docs)
  PROVE  /\ Runs(Migration[v][n], t)
         /\ Stage(v, n + 1, Result(Migration[v][n], t), docs)
<1>1. CASE v = 1 /\ n = 1
  <2>1. Migration[v][n] = [op |-> "create", object |-> "base"]
    BY <1>1, MigrationFacts
  <2>2. /\ ~Present(v, n, "base") /\ Present(v, n + 1, "base")
        /\ Filled(v, n + 1, "base") => docs = {}
    BY <1>1 DEF Present, Filled, Holder
  <2>3. Touches(v, n, {"base"}) /\ {"base"} \subseteq Object
    BY <1>1 DEF Touches, Present, Filled, Object
  <2>. QED BY <2>1, <2>2, <2>3, CreateStage
<1>2. CASE v = 1 /\ n = 2
  <2>1. Migration[v][n] = [op |-> "create", object |-> "documents"]
    BY <1>2, MigrationFacts
  <2>2. /\ ~Present(v, n, "documents") /\ Present(v, n + 1, "documents")
        /\ Filled(v, n + 1, "documents") => docs = {}
    BY <1>2 DEF Present, Filled, Holder
  <2>3. Touches(v, n, {"documents"}) /\ {"documents"} \subseteq Object
    BY <1>2 DEF Touches, Present, Filled, Object
  <2>. QED BY <2>1, <2>2, <2>3, CreateStage
<1>3. CASE v = 1 /\ n = 3
  <2>1. Migration[v][n] = [op |-> "create", object |-> "attached"]
    BY <1>3, MigrationFacts
  <2>2. /\ ~Present(v, n, "attached") /\ Present(v, n + 1, "attached")
        /\ Filled(v, n + 1, "attached") => docs = {}
    BY <1>3 DEF Present, Filled, Holder
  <2>3. Touches(v, n, {"attached"}) /\ {"attached"} \subseteq Object
    BY <1>3 DEF Touches, Present, Filled, Object
  <2>. QED BY <2>1, <2>2, <2>3, CreateStage
<1>4. CASE v = 2 /\ n = 1
  <2>1. Migration[v][n] = [op |-> "create", object |-> "posting_url"]
    BY <1>4, MigrationFacts
  <2>2. /\ ~Present(v, n, "posting_url") /\ Present(v, n + 1, "posting_url")
        /\ Filled(v, n + 1, "posting_url") => docs = {}
    BY <1>4 DEF Present, Filled, Holder
  <2>3. Touches(v, n, {"posting_url"}) /\ {"posting_url"} \subseteq Object
    BY <1>4 DEF Touches, Present, Filled, Object
  <2>. QED BY <2>1, <2>2, <2>3, CreateStage
<1>5. CASE v = 2 /\ n = 2
  <2>1. Migration[v][n] = [op |-> "create", object |-> "documents_new"]
    BY <1>5, MigrationFacts
  <2>2. /\ ~Present(v, n, "documents_new") /\ Present(v, n + 1, "documents_new")
        /\ Filled(v, n + 1, "documents_new") => docs = {}
    BY <1>5 DEF Present, Filled, Holder
  <2>3. Touches(v, n, {"documents_new"}) /\ {"documents_new"} \subseteq Object
    BY <1>5 DEF Touches, Present, Filled, Object
  <2>. QED BY <2>1, <2>2, <2>3, CreateStage
<1>6. CASE v = 2 /\ n = 3
  <2>1. Migration[v][n] = [op |-> "copy", from |-> "documents", object |-> "documents_new"]
    BY <1>6, MigrationFacts
  <2>2. /\ Filled(v, n, "documents") /\ Present(v, n, "documents_new") /\ Filled(v, n + 1, "documents_new")
    BY <1>6 DEF Present, Filled, Holder
  <2>3. Touches(v, n, {"documents_new"}) /\ {"documents", "documents_new"} \subseteq Object
    BY <1>6 DEF Touches, Present, Filled, Object
  <2>. QED BY <2>1, <2>2, <2>3, CopyStage
<1>7. CASE v = 2 /\ n = 4
  <2>1. Migration[v][n] = [op |-> "create as", from |-> "attached", object |-> "attached_copy"]
    BY <1>7, MigrationFacts
  <2>2. /\ Filled(v, n, "attached") /\ ~Present(v, n, "attached_copy") /\ Filled(v, n + 1, "attached_copy")
    BY <1>7 DEF Present, Filled, Holder
  <2>3. Touches(v, n, {"attached_copy"}) /\ {"attached", "attached_copy"} \subseteq Object
    BY <1>7 DEF Touches, Present, Filled, Object
  <2>. QED BY <2>1, <2>2, <2>3, CreateAsStage
<1>8. CASE v = 2 /\ n = 5
  <2>1. Migration[v][n] = [op |-> "drop", object |-> "attached"]
    BY <1>8, MigrationFacts
  <2>2. /\ Present(v, n, "attached") /\ ~Present(v, n + 1, "attached")
    BY <1>8 DEF Present, Filled, Holder
  <2>3. Touches(v, n, {"attached"}) /\ {"attached"} \subseteq Object
    BY <1>8 DEF Touches, Present, Filled, Object
  <2>. QED BY <2>1, <2>2, <2>3, DropStage
<1>9. CASE v = 2 /\ n = 6
  <2>1. Migration[v][n] = [op |-> "drop", object |-> "documents"]
    BY <1>9, MigrationFacts
  <2>2. /\ Present(v, n, "documents") /\ ~Present(v, n + 1, "documents")
        /\ ~Present(v, n, "attached") /\ ~Present(v, n, "attached_new")
    BY <1>9 DEF Present, Filled, Holder
  <2>3. Touches(v, n, {"documents"}) /\ {"documents"} \subseteq Object
    BY <1>9 DEF Touches, Present, Filled, Object
  <2>. QED BY <2>1, <2>2, <2>3, DropStage
<1>10. CASE v = 2 /\ n = 7
  <2>1. Migration[v][n] = [op |-> "rename", from |-> "documents_new", object |-> "documents"]
    BY <1>10, MigrationFacts
  <2>2. /\ Filled(v, n, "documents_new") /\ ~Present(v, n, "documents")
        /\ Filled(v, n + 1, "documents") /\ ~Present(v, n + 1, "documents_new")
    BY <1>10 DEF Present, Filled, Holder
  <2>3. Touches(v, n, {"documents_new", "documents"}) /\ {"documents_new", "documents"} \subseteq Object
    BY <1>10 DEF Touches, Present, Filled, Object
  <2>. QED BY <2>1, <2>2, <2>3, RenameStage
<1>11. CASE v = 2 /\ n = 8
  <2>1. Migration[v][n] = [op |-> "create", object |-> "attached_new"]
    BY <1>11, MigrationFacts
  <2>2. /\ ~Present(v, n, "attached_new") /\ Present(v, n + 1, "attached_new")
        /\ Filled(v, n + 1, "attached_new") => docs = {}
    BY <1>11 DEF Present, Filled, Holder
  <2>3. Touches(v, n, {"attached_new"}) /\ {"attached_new"} \subseteq Object
    BY <1>11 DEF Touches, Present, Filled, Object
  <2>. QED BY <2>1, <2>2, <2>3, CreateStage
<1>12. CASE v = 2 /\ n = 9
  <2>1. Migration[v][n] = [op |-> "copy", from |-> "attached_copy", object |-> "attached_new"]
    BY <1>12, MigrationFacts
  <2>2. /\ Filled(v, n, "attached_copy") /\ Present(v, n, "attached_new") /\ Filled(v, n + 1, "attached_new")
    BY <1>12 DEF Present, Filled, Holder
  <2>3. Touches(v, n, {"attached_new"}) /\ {"attached_copy", "attached_new"} \subseteq Object
    BY <1>12 DEF Touches, Present, Filled, Object
  <2>. QED BY <2>1, <2>2, <2>3, CopyStage
<1>13. CASE v = 2 /\ n = 10
  <2>1. Migration[v][n] = [op |-> "rename", from |-> "attached_new", object |-> "attached"]
    BY <1>13, MigrationFacts
  <2>2. /\ Filled(v, n, "attached_new") /\ ~Present(v, n, "attached")
        /\ Filled(v, n + 1, "attached") /\ ~Present(v, n + 1, "attached_new")
    BY <1>13 DEF Present, Filled, Holder
  <2>3. Touches(v, n, {"attached_new", "attached"}) /\ {"attached_new", "attached"} \subseteq Object
    BY <1>13 DEF Touches, Present, Filled, Object
  <2>. QED BY <2>1, <2>2, <2>3, RenameStage
<1>14. CASE v = 2 /\ n = 11
  <2>1. Migration[v][n] = [op |-> "drop", object |-> "attached_copy"]
    BY <1>14, MigrationFacts
  <2>2. /\ Present(v, n, "attached_copy") /\ ~Present(v, n + 1, "attached_copy")
    BY <1>14 DEF Present, Filled, Holder
  <2>3. Touches(v, n, {"attached_copy"}) /\ {"attached_copy"} \subseteq Object
    BY <1>14 DEF Touches, Present, Filled, Object
  <2>. QED BY <2>1, <2>2, <2>3, DropStage
<1>15. CASE v = 3 /\ n = 1
  <2>1. Migration[v][n] = [op |-> "create", object |-> "sessions"]
    BY <1>15, MigrationFacts
  <2>2. /\ ~Present(v, n, "sessions") /\ Present(v, n + 1, "sessions")
        /\ Filled(v, n + 1, "sessions") => docs = {}
    BY <1>15 DEF Present, Filled, Holder
  <2>3. Touches(v, n, {"sessions"}) /\ {"sessions"} \subseteq Object
    BY <1>15 DEF Touches, Present, Filled, Object
  <2>. QED BY <2>1, <2>2, <2>3, CreateStage
<1>16. CASE v = 1
  <2>1. n \in 1..3
    BY <1>16, MigrationFacts
  <2>2. n = 1 \/ n = 2 \/ n = 3
    BY <2>1
  <2>. QED BY <1>16, <2>2, <1>1, <1>2, <1>3
<1>17. CASE v = 2
  <2>1. n \in 1..11
    BY <1>17, MigrationFacts
  <2>. QED BY <1>17, <2>1, <1>4, <1>5, <1>6, <1>7, <1>8, <1>9, <1>10, <1>11, <1>12, <1>13, <1>14
<1>18. CASE v = 3
  <2>1. n \in 1..1
    BY <1>18, MigrationFacts
  <2>2. n = 1
    BY <2>1
  <2>. QED BY <1>18, <2>2, <1>15
<1>19. v \in 1..3
  BY MigrationFacts DEF Version
<1>. QED BY <1>16, <1>17, <1>18, <1>19

\* After its last statement a migration leaves what the next one starts from.
LEMMA LastStage ==
  ASSUME NEW v \in Version, NEW t, NEW docs, Stage(v, Len(Migration[v]) + 1, t, docs)
  PROVE  Stage(v + 1, 1, t, docs)
<1>1. \A o \in Object : /\ Present(v, Len(Migration[v]) + 1, o) <=> Present(v + 1, 1, o)
                        /\ Filled(v, Len(Migration[v]) + 1, o) <=> Filled(v + 1, 1, o)
  <2>1. CASE v = 1 /\ Len(Migration[v]) = 3
    BY <2>1 DEF Present, Filled
  <2>2. CASE v = 2 /\ Len(Migration[v]) = 11
    BY <2>2 DEF Present, Filled
  <2>3. CASE v = 3 /\ Len(Migration[v]) = 1
    BY <2>3 DEF Present, Filled
  <2>. QED BY <2>1, <2>2, <2>3, Lengths
<1>2. Holder \subseteq Object
  BY DEF Holder, Object
<1>. QED BY <1>1, <1>2 DEF Stage

LEMMA FirstStage ==
  ASSUME NEW v, NEW o \in Holder, Present(v, 1, o)
  PROVE  Filled(v, 1, o)
BY DEF Filled

\* Between migrations a new transaction sees the first stage of the next one.
LEMMA CommittedStage ==
  ASSUME NEW k \in Nat, Committed(k), table["schema_migrations"] # Missing
  PROVE  Stage(k + 1, 1, table, uploaded)
BY FirstStage DEF Committed, Stage

\* A migration that another process has applied fails at its first statement.
LEMMA AppliedFails ==
  ASSUME NEW k \in 0..Len(Migration), Committed(k), NEW v \in 1..k
  PROVE  ~Runs(Migration[v][1], table)
<1>1. k \in 1..3 /\ (v = 1 \/ v = 2 \/ v = 3)
  BY Lengths
<1>2. CASE v = 1
  <2>1. Migration[v][1] = [op |-> "create", object |-> "base"]
    BY <1>2, MigrationFacts
  <2>2. table["base"] # Missing
    BY <1>1, <1>2 DEF Committed, Present, Object
  <2>. QED BY <2>1, <2>2 DEF Runs
<1>3. CASE v = 2
  <2>1. Migration[v][1] = [op |-> "create", object |-> "posting_url"]
    BY <1>3, MigrationFacts
  <2>2. table["posting_url"] # Missing
    BY <1>1, <1>3 DEF Committed, Present, Object
  <2>. QED BY <2>1, <2>2 DEF Runs
<1>4. CASE v = 3
  <2>1. Migration[v][1] = [op |-> "create", object |-> "sessions"]
    BY <1>4, MigrationFacts
  <2>2. table["sessions"] # Missing
    BY <1>1, <1>4 DEF Committed, Present, Object
  <2>. QED BY <2>1, <2>2 DEF Runs
<1>. QED BY <1>1, <1>2, <1>3, <1>4

-------------------------------------------------------------------------------
(* The steps *)

LEMMA DownTyped == Down \in Proc /\ Down.step = "down" /\ Down.version = 1 /\ Down.next = 1
<1>1. NoTables \in Tables
  BY DEF NoTables, Tables
<1>. QED BY <1>1 DEF Down, Proc

\* A step of one process, which leaves m migrations committed: as many as before,
\* or one more if it held the lock.
LEMMA OneProcess ==
  ASSUME TypeOK, NEW k \in 0..Len(Migration), NEW m \in 0..Len(Migration),
         Committed(m)', \A u \in Process : ProcessOK(u, k),
         NEW p \in Process, NEW q \in Proc, proc' = [proc EXCEPT ![p] = q],
         m = k \/ (m = k + 1 /\ writer = p),
         UNCHANGED uploaded, crashes' \in 0..MaxCrashes,
         table["schema_migrations"] # Missing => table'["schema_migrations"] # Missing,
         writer' \in Process \cup {Missing}, writer' = p => q.step = "applying",
         \A u \in Process \ {p} : writer' = u <=> writer = u,
         ProcessOK(p, m)'
  PROVE  IInv'
<1>1. proc' \in [Process -> Proc] /\ proc'[p] = q /\ \A u \in Process \ {p} : proc'[u] = proc[u]
  BY DEF TypeOK
<1>2. TypeOK'
  <2>1. table' \in Tables /\ applied' \subseteq Version
    BY DEF Committed, Version
  <2>2. writer' \in Process => proc'[writer'].step = "applying"
    BY <1>1 DEF TypeOK
  <2>. QED BY <1>1, <2>1, <2>2 DEF TypeOK
<1>3. ASSUME NEW u \in Process \ {p} PROVE ProcessOK(u, m)'
  <2>1. ProcessOK(u, k) /\ proc'[u] = proc[u] /\ (writer' = u <=> writer = u)
    BY <1>1
  <2>2. proc[u].version \in Nat /\ Known[u] \in Nat
    <3>1. proc[u] \in Proc
      BY DEF TypeOK
    <3>. QED BY <3>1, MigrationsAssumption, Lengths DEF Proc
  <2>3. CASE m = k
    BY <2>1, <2>3 DEF ProcessOK
  <2>4. CASE m = k + 1 /\ writer = p
    BY <2>1, <2>2, <2>4 DEF ProcessOK
  <2>. QED BY <2>3, <2>4
<1>. QED BY <1>2, <1>3 DEF IInv

\* A step that leaves the database as it is.
LEMMA CommittedKeeps ==
  ASSUME NEW k, Committed(k), UNCHANGED <<table, applied, uploaded>>
  PROVE  Committed(k)'
BY DEF Committed

LEMMA ExitIInv ==
  ASSUME IInv, NEW p \in Process, Exit(p), crashes' \in 0..MaxCrashes
  PROVE  IInv'
<1>1. PICK k \in 0..Len(Migration) : Committed(k) /\ \A u \in Process : ProcessOK(u, k)
  BY DEF IInv
<1>2. /\ proc' = [proc EXCEPT ![p] = Down]
      /\ writer' = IF writer = p THEN Missing ELSE writer
      /\ UNCHANGED <<table, applied, uploaded>>
  BY DEF Exit
<1>3. TypeOK /\ Missing \notin Process
  BY MigrationsAssumption DEF IInv
<1>4. ProcessOK(p, k)'
  <2>1. proc'[p] = Down /\ writer' # p
    BY <1>2, <1>3 DEF TypeOK
  <2>. QED BY <2>1, DownTyped, Lengths DEF ProcessOK
<1>5. Committed(k)'
  BY <1>1, <1>2, CommittedKeeps
<1>6. writer' \in Process \cup {Missing} /\ writer' # p
      /\ \A u \in Process \ {p} : writer' = u <=> writer = u
  BY <1>2, <1>3 DEF TypeOK
<1>. QED BY <1>1, <1>2, <1>3, <1>4, <1>5, <1>6, DownTyped, OneProcess

LEMMA StartIInv ==
  ASSUME IInv, NEW p \in Process, Start(p)
  PROVE  IInv'
<1>1. PICK k \in 0..Len(Migration) : Committed(k) /\ \A u \in Process : ProcessOK(u, k)
  BY DEF IInv
<1>2. PICK q : q = [proc[p] EXCEPT !.step = "up"]
  OBVIOUS
<1>3. /\ proc[p].step = "down" /\ proc' = [proc EXCEPT ![p] = q]
      /\ UNCHANGED <<table, applied, writer, uploaded, crashes>>
  BY <1>2 DEF Start, Become
<1>4. TypeOK /\ proc[p] \in Proc /\ proc \in [Process -> Proc]
  BY DEF IInv, TypeOK
<1>5. q \in Proc /\ q.step = "up" /\ q.version = proc[p].version /\ q.next = proc[p].next
  BY <1>2, <1>4 DEF Proc
<1>6. writer # p /\ q.version - 1 <= k /\ q.next = 1
  BY <1>1, <1>3, <1>5 DEF ProcessOK
<1>7. ProcessOK(p, k)'
  BY <1>3, <1>4, <1>5, <1>6 DEF ProcessOK
<1>8. Committed(k)'
  BY <1>1, <1>3, CommittedKeeps
<1>. QED BY <1>1, <1>3, <1>4, <1>5, <1>6, <1>7, <1>8, OneProcess DEF TypeOK

LEMMA CreateSchemaMigrationsIInv ==
  ASSUME IInv, NEW p \in Process, CreateSchemaMigrations(p)
  PROVE  IInv'
<1>1. PICK k \in 0..Len(Migration) : Committed(k) /\ \A u \in Process : ProcessOK(u, k)
  BY DEF IInv
<1>2. TypeOK /\ proc[p] \in Proc /\ proc \in [Process -> Proc] /\ crashes' \in 0..MaxCrashes
  BY DEF IInv, TypeOK, CreateSchemaMigrations
<1>3. CASE Exit(p)
  BY <1>2, <1>3, ExitIInv
<1>4. CASE /\ table' = IF table["schema_migrations"] # Missing THEN table
                       ELSE [table EXCEPT !["schema_migrations"] = {}]
           /\ Become(p, "checking")
           /\ UNCHANGED <<applied, writer, uploaded>>
  <2>1. PICK q : q = [proc[p] EXCEPT !.step = "checking"]
    OBVIOUS
  <2>2. proc[p].step = "up" /\ proc' = [proc EXCEPT ![p] = q]
    BY <1>4, <2>1 DEF CreateSchemaMigrations, Become
  <2>3. q \in Proc /\ q.step = "checking" /\ q.version = proc[p].version /\ q.next = proc[p].next
    BY <1>2, <2>1 DEF Proc
  <2>4. writer # p /\ q.version - 1 <= k /\ q.next = 1
    BY <1>1, <2>2, <2>3 DEF ProcessOK
  <2>5. /\ table' \in Tables /\ table'["schema_migrations"] # Missing
        /\ \A o \in Object \ {"schema_migrations"} : table'[o] = table[o]
    <3>1. table \in Tables /\ "schema_migrations" \in Object /\ {} # Missing
      BY <1>2, MigrationsAssumption DEF TypeOK, Object
    <3>. QED BY <1>4, <3>1 DEF Tables
  <2>6. ProcessOK(p, k)'
    BY <1>2, <1>4, <2>2, <2>3, <2>4, <2>5 DEF ProcessOK
  <2>7. Committed(k)'
    BY <1>1, <1>4, <2>5 DEF Committed, Holder, Object
  <2>. QED BY <1>1, <1>2, <1>4, <2>2, <2>3, <2>4, <2>5, <2>6, <2>7, OneProcess DEF TypeOK
<1>. QED BY <1>3, <1>4 DEF CreateSchemaMigrations

LEMMA CheckAppliedIInv ==
  ASSUME IInv, NEW p \in Process, CheckApplied(p)
  PROVE  IInv'
<1>. DEFINE v == proc[p].version
<1>1. PICK k \in 0..Len(Migration) : Committed(k) /\ \A u \in Process : ProcessOK(u, k)
  BY DEF IInv
<1>2. /\ TypeOK /\ proc[p] \in Proc /\ proc \in [Process -> Proc]
      /\ Known[p] \in Version /\ k \in 0..3 /\ v \in 1..4 /\ applied = 1..k
  <2>1. TypeOK /\ proc[p] \in Proc /\ proc \in [Process -> Proc] /\ applied = 1..k
    BY <1>1 DEF IInv, TypeOK, Committed
  <2>. QED BY <1>1, <2>1, MigrationsAssumption, Lengths DEF Proc
<1>3. /\ proc[p].step = "checking"
      /\ UNCHANGED <<table, applied, writer, uploaded, crashes>>
  BY DEF CheckApplied
<1>4. /\ writer # p /\ v - 1 <= k /\ proc[p].next = 1 /\ table["schema_migrations"] # Missing
  BY <1>1, <1>3 DEF ProcessOK
<1>5. Committed(k)'
  BY <1>1, <1>3, CommittedKeeps
<1>6. CASE v > Known[p] /\ Become(p, "serving")
  <2>1. PICK q : q = [proc[p] EXCEPT !.step = "serving"]
    OBVIOUS
  <2>2. proc' = [proc EXCEPT ![p] = q]
    BY <1>6, <2>1 DEF Become
  <2>3. q \in Proc /\ q.step = "serving" /\ q.version = v /\ q.next = 1
    BY <1>2, <1>4, <2>1 DEF Proc
  <2>4. Known[p] <= k
    BY <1>2, <1>4, <1>6, Lengths
  <2>5. ProcessOK(p, k)'
    BY <1>2, <1>3, <1>4, <2>2, <2>3, <2>4 DEF ProcessOK
  <2>. QED BY <1>1, <1>2, <1>3, <1>4, <1>5, <2>2, <2>3, <2>5, OneProcess DEF TypeOK
<1>7. CASE v \in applied /\ proc' = [proc EXCEPT ![p].version = v + 1]
  <2>1. PICK q : q = [proc[p] EXCEPT !.version = v + 1]
    OBVIOUS
  <2>2. proc' = [proc EXCEPT ![p] = q]
    BY <1>7, <2>1
  <2>3. v + 1 \in 1..(Len(Migration) + 1) /\ v + 1 - 1 <= k
    BY <1>2, <1>7, Lengths
  <2>4. q \in Proc /\ q.step = "checking" /\ q.version = v + 1 /\ q.next = 1
    BY <1>2, <1>3, <1>4, <2>1, <2>3 DEF Proc
  <2>5. ProcessOK(p, k)'
    BY <1>2, <1>3, <1>4, <2>2, <2>3, <2>4 DEF ProcessOK
  <2>. QED BY <1>1, <1>2, <1>3, <1>4, <1>5, <2>2, <2>4, <2>5, OneProcess DEF TypeOK
<1>8. CASE v <= Known[p] /\ Become(p, "applying")
  <2>1. PICK q : q = [proc[p] EXCEPT !.step = "applying"]
    OBVIOUS
  <2>2. proc' = [proc EXCEPT ![p] = q]
    BY <1>8, <2>1 DEF Become
  <2>3. v \in Version
    BY <1>2, <1>8, Lengths
  <2>4. q \in Proc /\ q.step = "applying" /\ q.version = v /\ q.next = 1
    BY <1>2, <1>4, <2>1 DEF Proc
  <2>5. ProcessOK(p, k)'
    BY <1>2, <1>3, <1>4, <2>2, <2>3, <2>4 DEF ProcessOK
  <2>. QED BY <1>1, <1>2, <1>3, <1>4, <1>5, <2>2, <2>4, <2>5, OneProcess DEF TypeOK
<1>. QED BY <1>6, <1>7, <1>8 DEF CheckApplied

\* The next statement of the process that holds the lock, or that gets it: the
\* migration is the next one, and the tables are at its stage.
LEMMA HolderRuns ==
  ASSUME IInv, NEW p \in Process, NEW k \in 0..Len(Migration),
         Committed(k), ProcessOK(p, k),
         proc[p].step = "applying", proc[p].next <= Len(Migration[proc[p].version]),
         NEW t, t = IF writer = p THEN proc[p].work ELSE table,
         NEW s, s = Migration[proc[p].version][proc[p].next],
         writer = p \/ Runs(s, t)
  PROVE  /\ proc[p].version = k + 1 /\ proc[p].next \in 1..Len(Migration[proc[p].version])
         /\ Runs(s, t) /\ Stage(proc[p].version, proc[p].next + 1, Result(s, t), uploaded)
<1>. DEFINE v == proc[p].version
            n == proc[p].next
<1>1. v \in Version /\ v - 1 <= k /\ table["schema_migrations"] # Missing /\ k \in 0..3
      /\ uploaded \in SUBSET Doc /\ (k = 0 => uploaded = {}) /\ Len(Migration[v]) \in Nat
  <2>1. v \in Version /\ v - 1 <= k /\ table["schema_migrations"] # Missing
    BY DEF ProcessOK
  <2>. QED BY <2>1, Lengths DEF IInv, TypeOK, Committed
<1>2. v = k + 1 /\ n \in 1..Len(Migration[v]) /\ Stage(v, n, t, uploaded)
  <2>1. CASE writer = p
    BY <1>1, <2>1 DEF ProcessOK
  <2>2. CASE writer # p
    <3>1. n = 1 /\ t = table
      BY <2>2 DEF ProcessOK
    <3>2. v \notin 1..k
      BY <2>2, <3>1, AppliedFails
    <3>3. v = k + 1
      BY <1>1, <3>2, Lengths
    <3>4. Stage(k + 1, 1, table, uploaded)
      BY <1>1, CommittedStage
    <3>. QED BY <1>1, <3>1, <3>3, <3>4
  <2>. QED BY <2>1, <2>2
<1>3. v = 1 => uploaded = {}
  BY <1>1, <1>2
<1>. HIDE DEF v, n
<1>4. Runs(Migration[v][n], t) /\ Stage(v, n + 1, Result(Migration[v][n], t), uploaded)
  BY <1>1, <1>2, <1>3, StatementRuns
<1>. QED BY <1>2, <1>4 DEF v, n

LEMMA RunStatementIInv ==
  ASSUME IInv, NEW p \in Process, RunStatement(p)
  PROVE  IInv'
<1>. DEFINE s == Migration[proc[p].version][proc[p].next]
            t == IF writer = p THEN proc[p].work ELSE table
<1>. HIDE DEF s, t
<1>1. PICK k \in 0..Len(Migration) : Committed(k) /\ \A u \in Process : ProcessOK(u, k)
  BY DEF IInv
<1>2. TypeOK /\ proc[p] \in Proc /\ proc \in [Process -> Proc] /\ crashes' \in 0..MaxCrashes
  BY DEF IInv, TypeOK, RunStatement
<1>3. proc[p].step = "applying" /\ proc[p].next <= Len(Migration[proc[p].version])
  BY DEF RunStatement
<1>4. CASE Exit(p)
  BY <1>2, <1>4, ExitIInv
<1>5. CASE /\ writer \in {p, Missing} /\ Runs(s, t)
           /\ writer' = p
           /\ proc' = [proc EXCEPT ![p].next = @ + 1, ![p].work = Result(s, t)]
           /\ UNCHANGED <<table, applied, uploaded>>
  <2>1. /\ proc[p].version = k + 1 /\ proc[p].next \in 1..Len(Migration[proc[p].version])
        /\ Stage(proc[p].version, proc[p].next + 1, Result(s, t), uploaded)
    BY <1>1, <1>3, <1>5, HolderRuns DEF s, t
  <2>2. PICK q : q = [proc[p] EXCEPT !.next = proc[p].next + 1, !.work = Result(s, t)]
    OBVIOUS
  <2>3. proc' = [proc EXCEPT ![p] = q]
    BY <1>5, <2>2
  <2>4. Result(s, t) \in Tables /\ proc[p].next + 1 \in Nat
    BY <1>2, <2>1 DEF Stage, Proc
  <2>5. /\ q \in Proc /\ q.step = "applying" /\ q.version = proc[p].version
        /\ q.next = proc[p].next + 1 /\ q.work = Result(s, t)
    BY <1>2, <1>3, <2>2, <2>4 DEF Proc
  <2>6. q.next \in 2..(Len(Migration[q.version]) + 1)
    <3>1. proc[p].version \in Version
      BY <1>1, <1>3 DEF ProcessOK
    <3>2. Len(Migration[proc[p].version]) \in Nat
      BY <3>1, Lengths
    <3>. QED BY <2>1, <2>5, <3>2
  <2>7. ProcessOK(p, k)'
    <3>1. proc'[p] = q
      BY <1>2, <2>3
    <3>2. table["schema_migrations"] # Missing /\ q.version \in Version /\ q.version - 1 <= k
      BY <1>1, <1>3, <2>5 DEF ProcessOK
    <3>. QED BY <1>5, <2>1, <2>5, <2>6, <3>1, <3>2 DEF ProcessOK
  <2>8. Committed(k)'
    BY <1>1, <1>5, CommittedKeeps
  <2>9. \A u \in Process \ {p} : writer' = u <=> writer = u
    BY <1>5, MigrationsAssumption
  <2>. QED BY <1>1, <1>2, <1>5, <2>3, <2>5, <2>7, <2>8, <2>9, OneProcess
<1>. QED BY <1>4, <1>5 DEF RunStatement, s, t

LEMMA CommitIInv ==
  ASSUME IInv, NEW p \in Process, Commit(p)
  PROVE  IInv'
<1>. DEFINE v == proc[p].version
<1>1. PICK k \in 0..Len(Migration) : Committed(k) /\ \A u \in Process : ProcessOK(u, k)
  BY DEF IInv
<1>2. TypeOK /\ proc[p] \in Proc /\ proc \in [Process -> Proc]
  BY DEF IInv, TypeOK
<1>3. PICK q : q = [Down EXCEPT !.step = "checking", !.version = v + 1]
  OBVIOUS
<1>4. /\ proc[p].step = "applying" /\ proc[p].next > Len(Migration[v])
      /\ table' = proc[p].work /\ applied' = applied \cup {v} /\ writer' = Missing
      /\ proc' = [proc EXCEPT ![p] = q] /\ UNCHANGED <<uploaded, crashes>>
  BY <1>3 DEF Commit
<1>5. v \in Version /\ Len(Migration[v]) \in Nat \ {0} /\ k \in 0..3
  <2>1. v \in Version
    BY <1>1, <1>4 DEF ProcessOK
  <2>2. Len(Migration[v]) \in Nat \ {0}
    BY <2>1, Lengths
  <2>3. k \in 0..3
    BY <1>1, Lengths
  <2>. QED BY <2>1, <2>2, <2>3
<1>6. writer = p
  BY <1>1, <1>4, <1>5 DEF ProcessOK
<1>7. v = k + 1 /\ Stage(v, Len(Migration[v]) + 1, proc[p].work, uploaded)
  <2>1. v = k + 1 /\ Stage(v, proc[p].next, proc[p].work, uploaded)
        /\ proc[p].next \in 2..(Len(Migration[v]) + 1)
    BY <1>1, <1>6 DEF ProcessOK
  <2>2. proc[p].next = Len(Migration[v]) + 1
    BY <1>4, <1>5, <2>1
  <2>. QED BY <2>1, <2>2
<1>8. Stage(k + 2, 1, table', uploaded)
  <2>1. Stage(v + 1, 1, proc[p].work, uploaded)
    BY <1>5, <1>7, LastStage
  <2>2. v + 1 = k + 2
    BY <1>5, <1>7
  <2>. QED BY <1>4, <2>1, <2>2
<1>9. Committed(k + 1)'
  <2>1. applied' = 1..(k + 1)
    BY <1>1, <1>4, <1>5, <1>7 DEF Committed
  <2>2. (k + 1) + 1 = k + 2 /\ k + 1 # 0
    BY <1>5
  <2>3. /\ table' \in Tables
        /\ \A o \in Object \ {"schema_migrations"} : table'[o] # Missing <=> Present(k + 2, 1, o)
        /\ \A o \in Holder : Present(k + 2, 1, o) => table'[o] = uploaded
    BY <1>8, FirstStage DEF Stage
  <2>. QED BY <1>4, <2>1, <2>2, <2>3 DEF Committed
<1>10. q \in Proc /\ q.step = "checking" /\ q.version = v + 1 /\ q.next = 1
  <2>1. v + 1 \in 1..(Len(Migration) + 1)
    BY <1>5, Lengths
  <2>. QED BY <1>3, <2>1, DownTyped DEF Proc
<1>11. ProcessOK(p, k + 1)'
  <2>1. proc'[p] = q /\ writer' # p
    BY <1>2, <1>4, MigrationsAssumption
  <2>2. q.version - 1 <= k + 1 /\ table'["schema_migrations"] # Missing
    BY <1>5, <1>7, <1>8, <1>10 DEF Stage
  <2>. QED BY <1>10, <2>1, <2>2 DEF ProcessOK
<1>12. k + 1 \in 0..Len(Migration)
  BY <1>5, <1>7, Lengths
<1>13. \A u \in Process \ {p} : writer' = u <=> writer = u
  BY <1>4, <1>6, MigrationsAssumption
<1>14. table'["schema_migrations"] # Missing /\ writer' \in Process \cup {Missing} /\ writer' # p
       /\ crashes' \in 0..MaxCrashes
  BY <1>2, <1>4, <1>8, MigrationsAssumption DEF Stage, TypeOK
<1>. QED BY <1>1, <1>2, <1>4, <1>6, <1>9, <1>10, <1>11, <1>12, <1>13, <1>14, OneProcess

LEMMA AttachIInv ==
  ASSUME IInv, NEW p \in Process, NEW d \in Doc, Attach(p, d)
  PROVE  IInv'
<1>1. PICK k \in 0..Len(Migration) : Committed(k) /\ \A u \in Process : ProcessOK(u, k)
  BY DEF IInv
<1>2. /\ proc[p].step = "serving" /\ writer = Missing
      /\ table' = [table EXCEPT !["documents"] = @ \cup {d}, !["attached"] = @ \cup {d}]
      /\ uploaded' = uploaded \cup {d}
      /\ UNCHANGED <<applied, writer, proc, crashes>>
  BY DEF Attach
<1>3. k \in 1..3
  <2>1. Known[p] <= k /\ Known[p] \in Version
    BY <1>1, <1>2, MigrationsAssumption DEF ProcessOK
  <2>. QED BY <1>1, <2>1, Lengths
<1>4. /\ Present(k + 1, 1, "documents") /\ Present(k + 1, 1, "attached")
      /\ \A o \in Holder : Present(k + 1, 1, o) => o \in {"documents", "attached"}
  BY <1>3 DEF Present, Holder
<1>5. /\ table \in Tables /\ table["documents"] = uploaded /\ table["attached"] = uploaded
      /\ uploaded \in SUBSET Doc
  BY <1>1, <1>4 DEF Committed, Holder, IInv, TypeOK
<1>6. /\ table' \in Tables /\ table'["documents"] = uploaded' /\ table'["attached"] = uploaded'
      /\ \A o \in Object \ {"documents", "attached"} : table'[o] = table[o]
      /\ uploaded' \in SUBSET Doc /\ uploaded' # Missing
  <2>1. uploaded' \in SUBSET Doc /\ uploaded' # Missing
    BY <1>2, <1>5, MigrationsAssumption
  <2>. QED BY <1>2, <1>5, <2>1 DEF Tables, Object
<1>7. Committed(k)'
  <2>1. \A o \in Object \ {"schema_migrations"} : table'[o] # Missing <=> Present(k + 1, 1, o)
    BY <1>1, <1>4, <1>6 DEF Committed
  <2>2. \A o \in Holder : Present(k + 1, 1, o) => table'[o] = uploaded'
    BY <1>4, <1>6
  <2>3. k # 0 /\ applied' = 1..k
    BY <1>1, <1>2, <1>3 DEF Committed
  <2>. QED BY <1>6, <2>1, <2>2, <2>3 DEF Committed
<1>8. ASSUME NEW u \in Process PROVE ProcessOK(u, k)'
  <2>1. ProcessOK(u, k) /\ writer # u
    BY <1>1, <1>2, MigrationsAssumption
  <2>2. table'["schema_migrations"] = table["schema_migrations"]
    BY <1>6 DEF Object
  <2>. QED BY <1>2, <2>1, <2>2 DEF ProcessOK
<1>9. TypeOK'
  BY <1>2, <1>6 DEF IInv, TypeOK
<1>. QED BY <1>7, <1>8, <1>9 DEF IInv

-------------------------------------------------------------------------------
(* The invariant *)

LEMMA InitIInv == Init => IInv
<1>. SUFFICES ASSUME Init PROVE IInv
  OBVIOUS
<1>1. NoTables \in Tables /\ \A o \in Object : NoTables[o] = Missing
  BY DEF NoTables, Tables
<1>2. TypeOK
  BY <1>1, DownTyped, MigrationsAssumption DEF Init, TypeOK
<1>3. 0 \in 0..Len(Migration) /\ 0 + 1 = 1
  BY Lengths
<1>4. Committed(0)
  <2>1. applied = 1..0
    BY DEF Init
  <2>2. \A o \in Object : ~Present(1, 1, o)
    BY DEF Present
  <2>3. Holder \subseteq Object
    BY DEF Holder, Object
  <2>. QED BY <1>1, <1>3, <2>1, <2>2, <2>3 DEF Init, Committed
<1>5. ASSUME NEW p \in Process PROVE ProcessOK(p, 0)
  <2>1. proc[p] = Down /\ writer # p
    BY MigrationsAssumption DEF Init
  <2>. QED BY <2>1, DownTyped DEF ProcessOK
<1>. QED BY <1>2, <1>3, <1>4, <1>5 DEF IInv

LEMMA NextIInv == IInv /\ [Next]_vars => IInv'
<1>. SUFFICES ASSUME IInv, [Next]_vars PROVE IInv'
  OBVIOUS
<1>1. ASSUME NEW p \in Process, Run(p) PROVE IInv'
  BY <1>1, StartIInv, CreateSchemaMigrationsIInv, CheckAppliedIInv, RunStatementIInv, CommitIInv
     DEF Run
<1>2. ASSUME NEW p \in Process, Crash(p) PROVE IInv'
  <2>1. crashes' \in 0..MaxCrashes
    BY <1>2, MigrationsAssumption DEF Crash, IInv, TypeOK
  <2>. QED BY <1>2, <2>1, ExitIInv DEF Crash
<1>3. ASSUME NEW p \in Process, NEW d \in Doc, Attach(p, d) PROVE IInv'
  BY <1>3, AttachIInv
<1>4. CASE UNCHANGED vars
  BY <1>4 DEF vars, IInv, TypeOK, Committed, ProcessOK
<1>. QED BY <1>1, <1>2, <1>3, <1>4 DEF Next

LEMMA Inductive == Spec => []IInv
<1>. QED BY InitIInv, NextIInv, PTL DEF Spec

-------------------------------------------------------------------------------
(* The theorems *)

\* Tables, the record of versions, the write lock and the processes keep their types.
THEOREM TypeCorrect == Spec => []TypeOK
<1>1. IInv => TypeOK
  BY DEF IInv
<1>. QED BY <1>1, Inductive, PTL

\* The versions recorded are the first k, and the schema is that of k migrations.
THEOREM SchemaCorrect == Spec => []SchemaMatchesRecord
<1>1. IInv => SchemaMatchesRecord
  <2>. SUFFICES ASSUME IInv PROVE SchemaMatchesRecord
    OBVIOUS
  <2>1. PICK k \in 0..Len(Migration) : Committed(k) /\ \A p \in Process : ProcessOK(p, k)
    BY DEF IInv
  <2>2. k \in 0..3 /\ applied = 1..k
    BY <2>1, Lengths DEF Committed
  <2>3. Cardinality(applied) = k
    BY <2>2, FS_Interval
  <2>4. \A o \in Object \ {"schema_migrations"} : table[o] # Missing <=> o \in Schema(k)
    BY <2>1, <2>2 DEF Committed, Present, Schema, Object
  <2>5. Schema(k) \subseteq Object \ {"schema_migrations"}
    BY DEF Schema, Object
  <2>6. \A p \in Process : proc[p].step = "serving" => Known[p] <= k
    BY <2>1 DEF ProcessOK
  <2>. QED BY <2>2, <2>3, <2>4, <2>5, <2>6 DEF SchemaMatchesRecord
<1>. QED BY <1>1, Inductive, PTL

\* No upload and no link is lost while 0002 rebuilds the tables that hold them.
THEOREM UploadsCorrect == Spec => []NothingLost
<1>1. IInv => NothingLost
  <2>. SUFFICES ASSUME IInv, uploaded # {}
                PROVE  table["documents"] = uploaded /\ table["attached"] = uploaded
    BY DEF NothingLost
  <2>1. PICK k \in 0..Len(Migration) : Committed(k)
    BY DEF IInv
  <2>2. k \in 1..3
    BY <2>1, Lengths DEF Committed
  <2>. QED BY <2>1, <2>2 DEF Committed, Present, Holder
<1>. QED BY <1>1, Inductive, PTL

\* The SQL of every migration fits every database it can meet: once a process has
\* the lock, each statement left of its migration runs.
StartedMigrationsRun ==
  \A p \in Process :
    writer = p /\ proc[p].next <= Len(Migration[proc[p].version]) =>
      Runs(Migration[proc[p].version][proc[p].next], proc[p].work)

\* A migration fails only while it waits for the lock or finds another process's
\* work done; it never stops half-way because of the data or the tables it meets.
THEOREM StartedCorrect == Spec => []StartedMigrationsRun
<1>1. IInv => StartedMigrationsRun
  <2>. SUFFICES ASSUME IInv, NEW p \in Process, writer = p,
                       proc[p].next <= Len(Migration[proc[p].version])
                PROVE  Runs(Migration[proc[p].version][proc[p].next], proc[p].work)
    BY DEF StartedMigrationsRun
  <2>1. PICK k \in 0..Len(Migration) : Committed(k) /\ ProcessOK(p, k)
    BY DEF IInv
  <2>2. proc[p].step = "applying"
    BY <2>1 DEF ProcessOK
  <2>. QED BY <2>1, <2>2, HolderRuns
<1>. QED BY <1>1, Inductive, PTL

-------------------------------------------------------------------------------
(* The contract *)

\* What the contract sees of the data: the versions, and twice the uploads.
Abstracted ==
  /\ Cardinality(applied) \in 0..Len(Migration)
  /\ applied = 1..Cardinality(applied)
  /\ Rows("documents") = uploaded /\ Rows("attached") = uploaded

LEMMA Abstraction == IInv => Abstracted
<1>. SUFFICES ASSUME IInv PROVE Abstracted
  OBVIOUS
<1>1. PICK k \in 0..Len(Migration) : Committed(k)
  BY DEF IInv
<1>2. k \in 0..3 /\ applied = 1..k
  BY <1>1, Lengths DEF Committed
<1>3. Cardinality(applied) = k
  BY <1>2, FS_Interval
<1>4. CASE k = 0
  <2>1. ~Present(k + 1, 1, "documents") /\ ~Present(k + 1, 1, "attached")
    BY <1>4 DEF Present
  <2>2. table["documents"] = Missing /\ table["attached"] = Missing /\ uploaded = {}
    BY <1>1, <1>4, <2>1 DEF Committed, Object
  <2>. QED BY <1>2, <1>3, <2>2, Lengths DEF Abstracted, Rows
<1>5. CASE k \in 1..3
  <2>1. Present(k + 1, 1, "documents") /\ Present(k + 1, 1, "attached")
    BY <1>5 DEF Present
  <2>2. /\ table["documents"] = uploaded /\ table["attached"] = uploaded
        /\ table["documents"] # Missing /\ table["attached"] # Missing
    BY <1>1, <2>1 DEF Committed, Holder, Object
  <2>. QED BY <1>2, <1>3, <2>2, Lengths DEF Abstracted, Rows
<1>. QED BY <1>2, <1>4, <1>5

\* A step that leaves the data alone is seen only if a process comes into or goes
\* out of service.
LEMMA DataKept ==
  ASSUME Abstracted, Abstracted', UNCHANGED <<applied, uploaded>>
  PROVE  /\ Cardinality(applied)' = Cardinality(applied)
         /\ Rows("documents")' = Rows("documents") /\ Rows("attached")' = Rows("attached")
  BY DEF Abstracted

LEMMA Unseen ==
  ASSUME Abstracted, Abstracted', UNCHANGED <<applied, uploaded>>, InService' = InService
  PROVE  UNCHANGED Contract!vars
  BY DataKept DEF Contract!vars

\* One process moves from one step of its startup to another.
LEMMA Moves ==
  ASSUME TypeOK, NEW p \in Process, NEW q, proc' = [proc EXCEPT ![p] = q]
  PROVE  /\ q.step = "serving" => InService' = InService \cup {p}
         /\ q.step # "serving" => InService' = InService \ {p}
<1>1. proc'[p] = q /\ \A u \in Process \ {p} : proc'[u] = proc[u]
  BY DEF TypeOK
<1>. QED BY <1>1 DEF InService

\* A process that ends releases what nobody else has seen.
LEMMA ExitMaps ==
  ASSUME TypeOK, Abstracted, Abstracted', NEW p \in Process, Exit(p)
  PROVE  [Contract!Next]_(Contract!vars)
<1>1. proc' = [proc EXCEPT ![p] = Down] /\ UNCHANGED <<applied, uploaded>>
  BY DEF Exit
<1>2. InService' = InService \ {p}
  BY <1>1, Moves, DownTyped
<1>3. CASE p \in InService
  <2>1. Contract!Stop(p)
    BY <1>1, <1>2, <1>3, DataKept DEF Contract!Stop
  <2>. QED BY <2>1 DEF Contract!Next
<1>4. CASE p \notin InService
  <2>1. InService' = InService
    BY <1>2, <1>4
  <2>. QED BY <1>1, <2>1, Unseen
<1>. QED BY <1>3, <1>4

LEMMA StartupMaps ==
  ASSUME TypeOK, Abstracted, Abstracted', NEW p \in Process,
         Start(p) \/ CreateSchemaMigrations(p) \/ RunStatement(p)
  PROVE  [Contract!Next]_(Contract!vars)
<1>1. CASE Exit(p)
  BY <1>1, ExitMaps
<1>2. CASE ~Exit(p)
  <2>1. UNCHANGED <<applied, uploaded>> /\ p \notin InService
    BY <1>2 DEF Start, CreateSchemaMigrations, RunStatement, InService
  <2>2. PICK q : q.step # "serving" /\ proc' = [proc EXCEPT ![p] = q]
    <3>1. proc[p] \in Proc
      BY DEF TypeOK
    <3>2. CASE Start(p)
      <4>1. PICK q : q = [proc[p] EXCEPT !.step = "up"]
        OBVIOUS
      <4>. QED BY <3>1, <3>2, <4>1 DEF Start, Become, Proc
    <3>3. CASE CreateSchemaMigrations(p)
      <4>1. PICK q : q = [proc[p] EXCEPT !.step = "checking"]
        OBVIOUS
      <4>. QED BY <1>2, <3>1, <3>3, <4>1 DEF CreateSchemaMigrations, Become, Proc
    <3>4. CASE RunStatement(p)
      <4>1. PICK n, w : proc' = [proc EXCEPT ![p].next = n, ![p].work = w]
        BY <1>2, <3>4 DEF RunStatement
      <4>2. PICK q : q = [proc[p] EXCEPT !.next = n, !.work = w]
        OBVIOUS
      <4>3. proc[p].step = "applying"
        BY <3>4 DEF RunStatement
      <4>4. proc' = [proc EXCEPT ![p] = q]
        BY <4>1, <4>2
      <4>5. q.step = proc[p].step
        BY <3>1, <4>2 DEF Proc
      <4>. QED BY <4>3, <4>4, <4>5
    <3>. QED BY <3>2, <3>3, <3>4
  <2>3. InService' = InService
    BY <2>1, <2>2, Moves
  <2>. QED BY <2>1, <2>3, Unseen
<1>. QED BY <1>1, <1>2

\* A process serves only once it has seen all it knows applied.
LEMMA CheckAppliedMaps ==
  ASSUME IInv, Abstracted, Abstracted', NEW p \in Process, CheckApplied(p)
  PROVE  [Contract!Next]_(Contract!vars)
<1>1. PICK k \in 0..Len(Migration) : Committed(k) /\ ProcessOK(p, k)
  BY DEF IInv
<1>2. /\ TypeOK /\ proc[p] \in Proc /\ Known[p] \in 1..3 /\ k \in 0..3
      /\ proc[p].version \in 1..4 /\ proc[p].version - 1 <= k
  <2>1. TypeOK /\ proc[p] \in Proc
    BY DEF IInv, TypeOK
  <2>. QED BY <1>1, <2>1, MigrationsAssumption, Lengths DEF Proc, ProcessOK
<1>3. Cardinality(applied) = k
  <2>1. applied = 1..k
    BY <1>1 DEF Committed
  <2>. QED BY <1>2, <2>1, FS_Interval
<1>4. /\ proc[p].step = "checking" /\ p \notin InService
      /\ UNCHANGED <<applied, uploaded>>
  BY DEF CheckApplied, InService
<1>5. CASE proc[p].version > Known[p] /\ Become(p, "serving")
  <2>1. PICK q : q = [proc[p] EXCEPT !.step = "serving"]
    OBVIOUS
  <2>2. proc' = [proc EXCEPT ![p] = q] /\ q.step = "serving"
    BY <1>2, <1>5, <2>1 DEF Become, Proc
  <2>3. InService' = InService \cup {p}
    BY <1>2, <2>2, Moves
  <2>4. Known[p] <= Cardinality(applied)
    BY <1>2, <1>3, <1>5
  <2>5. Contract!Serve(p)
    BY <1>4, <2>3, <2>4, DataKept DEF Contract!Serve
  <2>. QED BY <2>5 DEF Contract!Next
<1>6. CASE proc' = [proc EXCEPT ![p].version = proc[p].version + 1]
  <2>1. PICK q : q = [proc[p] EXCEPT !.version = proc[p].version + 1]
    OBVIOUS
  <2>2. proc' = [proc EXCEPT ![p] = q] /\ q.step = "checking"
    BY <1>2, <1>4, <1>6, <2>1 DEF Proc
  <2>3. InService' = InService
    BY <1>2, <1>4, <2>2, Moves
  <2>. QED BY <1>4, <2>3, Unseen
<1>7. CASE Become(p, "applying")
  <2>1. PICK q : q = [proc[p] EXCEPT !.step = "applying"]
    OBVIOUS
  <2>2. proc' = [proc EXCEPT ![p] = q] /\ q.step = "applying"
    BY <1>2, <1>7, <2>1 DEF Become, Proc
  <2>3. InService' = InService
    BY <1>2, <1>4, <2>2, Moves
  <2>. QED BY <1>4, <2>3, Unseen
<1>. QED BY <1>5, <1>6, <1>7 DEF CheckApplied

\* The statements of a whole migration take effect here, at once, and the rebuilt
\* tables hold what the old ones did.
LEMMA CommitMaps ==
  ASSUME IInv, Abstracted, Abstracted', NEW p \in Process, Commit(p)
  PROVE  Contract!Upgrade
<1>1. PICK k \in 0..Len(Migration) : Committed(k) /\ ProcessOK(p, k)
  BY DEF IInv
<1>2. PICK q : q = [Down EXCEPT !.step = "checking", !.version = proc[p].version + 1]
  OBVIOUS
<1>3. /\ proc[p].step = "applying" /\ proc[p].next > Len(Migration[proc[p].version])
      /\ applied' = applied \cup {proc[p].version} /\ uploaded' = uploaded
      /\ proc' = [proc EXCEPT ![p] = q]
  BY <1>2 DEF Commit
<1>4. proc[p].version = k + 1 /\ k \in 0..2
  <2>1. proc[p].version \in Version
    BY <1>1, <1>3 DEF ProcessOK
  <2>2. Len(Migration[proc[p].version]) \in Nat \ {0} /\ proc[p].version \in 1..3 /\ k \in 0..3
    BY <1>1, <2>1, Lengths
  <2>3. writer = p
    BY <1>1, <1>3, <2>2 DEF ProcessOK
  <2>4. proc[p].version = k + 1
    BY <1>1, <2>3 DEF ProcessOK
  <2>. QED BY <2>2, <2>4
<1>5. Cardinality(applied) = k /\ Cardinality(applied)' = k + 1
  <2>1. applied = 1..k
    BY <1>1 DEF Committed
  <2>2. applied' = 1..(k + 1)
    BY <1>3, <1>4, <2>1
  <2>3. Cardinality(applied) = k
    BY <1>4, <2>1, FS_Interval
  <2>4. Cardinality(applied') = k + 1
    BY <1>4, <2>2, FS_Interval
  <2>. QED BY <2>3, <2>4
<1>6. InService' = InService
  <2>1. q.step = "checking" /\ p \notin InService
    BY <1>2, <1>3, DownTyped DEF Proc, InService
  <2>2. TypeOK
    BY DEF IInv
  <2>. QED BY <1>3, <2>1, <2>2, Moves
<1>7. Rows("documents")' = Rows("documents") /\ Rows("attached")' = Rows("attached")
  BY <1>3 DEF Abstracted
<1>8. Cardinality(applied) < Len(Migration)
  BY <1>4, <1>5, Lengths
<1>. QED BY <1>4, <1>5, <1>6, <1>7, <1>8 DEF Contract!Upgrade

LEMMA AttachMaps ==
  ASSUME Abstracted, Abstracted', NEW p \in Process, NEW d \in Doc, Attach(p, d)
  PROVE  Contract!Store(d)
<1>1. /\ p \in InService /\ d \notin uploaded /\ uploaded' = uploaded \cup {d}
      /\ applied' = applied /\ InService' = InService
  BY DEF Attach, InService
<1>2. /\ Rows("documents") = uploaded /\ Rows("attached") = uploaded
      /\ Rows("documents")' = uploaded' /\ Rows("attached")' = uploaded'
  BY DEF Abstracted
<1>3. Cardinality(applied)' = Cardinality(applied)
  BY <1>1
<1>. QED BY <1>1, <1>2, <1>3 DEF Contract!Store

LEMMA ContractStep ==
  ASSUME IInv, Abstracted, Abstracted', [Next]_vars
  PROVE  [Contract!Next]_(Contract!vars)
<1>1. TypeOK
  BY DEF IInv
<1>2. CASE UNCHANGED vars
  <2>1. InService' = InService
    BY <1>2 DEF vars, InService
  <2>. QED BY <1>2, <2>1, Unseen DEF vars
<1>3. ASSUME NEW p \in Process, Run(p) PROVE [Contract!Next]_(Contract!vars)
  BY <1>1, <1>3, StartupMaps, CheckAppliedMaps, CommitMaps DEF Run, Contract!Next
<1>4. ASSUME NEW p \in Process, Crash(p) PROVE [Contract!Next]_(Contract!vars)
  BY <1>1, <1>4, ExitMaps DEF Crash
<1>5. ASSUME NEW p \in Process, NEW d \in Doc, Attach(p, d)
      PROVE  [Contract!Next]_(Contract!vars)
  BY <1>5, AttachMaps DEF Contract!Next
<1>. QED BY <1>2, <1>3, <1>4, <1>5 DEF Next

\* Whatever races, failures and crashes there are, an upgrade is one step to whoever
\* shares the data, and it touches no document and no link (applyMigration).
THEOREM ContractImplemented == Spec => ImplementsMigrationContract
<1>1. Init => Contract!Init
  <2>. SUFFICES ASSUME Init PROVE Contract!Init
    OBVIOUS
  <2>1. Cardinality(applied) = 0
    BY FS_EmptySet DEF Init
  <2>2. Rows("documents") = {} /\ Rows("attached") = {}
    BY DEF Init, Rows, NoTables, Object
  <2>3. InService = {}
    BY DownTyped DEF Init, InService
  <2>. QED BY <2>1, <2>2, <2>3 DEF Contract!Init
<1>2. IInv /\ Abstracted /\ Abstracted' /\ [Next]_vars => [Contract!Next]_(Contract!vars)
  BY ContractStep
<1>. QED
  BY <1>1, <1>2, Inductive, Abstraction, PTL DEF Spec, ImplementsMigrationContract, Contract!Spec
===============================================================================
