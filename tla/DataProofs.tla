----------------------------- MODULE DataProofs -----------------------------
(***************************************************************************)
(* Proofs about what is left in the database and the file store: first by  *)
(* the importers, for any number of tasks, users, edits and imports; then  *)
(* by administrators, scripts and dumps, for any database to begin with,   *)
(* any rows that can be added and any number of requests.                  *)
(***************************************************************************)
EXTENDS Importers, AdminServer, TLAPS, FiniteSetTheorems, WellFoundedInduction

(* The inductive invariant. What is in the database says nothing of what a *)
(* script will commit: its own copy has the tasks listed so far, numbered  *)
(* from 0, no dataset less than the database, and a task that was never    *)
(* imported is in no contest and has no dataset.                           *)

IsTask(r) ==
    /\ r = [version |-> r.version, contest |-> r.contest, num |-> r.num, datasets |-> r.datasets]
    /\ r.version \in Nat
    /\ r.version = 0 => r.contest # "here" /\ DOMAIN r.datasets = {}

IsDatabase(db) ==
    /\ db = [contest |-> db.contest, tasks |-> db.tasks, users |-> db.users,
             participations |-> db.participations]
    /\ db.tasks = [t \in ImportedTasks |-> db.tasks[t]]
    /\ \A t \in ImportedTasks : IsTask(db.tasks[t])

NumberedFromZero(db) ==
    {db.tasks[t].num : t \in InContest(db)} = 0 .. (Cardinality(InContest(db)) - 1)

KeepsDatasets(db, db2) ==
    \A t \in ImportedTasks : DOMAIN db.tasks[t].datasets \subseteq DOMAIN db2.tasks[t].datasets

IsContestScript(s) ==
    /\ s = [kind |-> "contest", update |-> s.update, import |-> s.import,
            delete_stale |-> s.delete_stale, num |-> s.num, tasks |-> s.tasks,
            users |-> s.users, db |-> s.db]
    /\ s.tasks \in Seq(ImportedTasks) /\ IsInjective(s.tasks)
    /\ s.num \in 0 .. Len(s.tasks)
    /\ IsDatabase(s.db)

ListedSoFar(s) ==
    /\ InContest(s.db) = {s.tasks[i] : i \in 1 .. s.num}
    /\ Cardinality(InContest(s.db)) = s.num
    /\ \A i \in 1 .. s.num : s.db.tasks[s.tasks[i]].num = i - 1

ContestScript(s, db) ==
    /\ IsContestScript(s) /\ ListedSoFar(s)
    /\ KeepsDatasets(db, s.db) /\ s.db.participations = db.participations

TaskScript(s) == s.task \in ImportedTasks /\ s.version \in Nat \ {0}

ImportInv ==
    /\ files \in [ImportedTasks -> Nat \ {0}]
    /\ listing.tasks \in Seq(ImportedTasks) /\ IsInjective(listing.tasks)
    /\ IsDatabase(database) /\ NumberedFromZero(database)
    /\ Running("contest") => ContestScript(script, database)
    /\ Running("task") \/ Running("dataset") => TaskScript(script)

-----------------------------------------------------------------------------
ATask(v, c, n, d) == [version |-> v, contest |-> c, num |-> n, datasets |-> d]

LEMMA TaskFields ==
    ASSUME NEW r, NEW v, NEW c, NEW n, NEW d, r = ATask(v, c, n, d)
    PROVE  /\ r.version = v /\ r.contest = c /\ r.num = n /\ r.datasets = d
           /\ \A x : [r EXCEPT !.version = x] = ATask(x, c, n, d)
           /\ \A x : [r EXCEPT !.contest = x] = ATask(v, x, n, d)
           /\ \A x : [r EXCEPT !.num = x] = ATask(v, c, x, d)
           /\ \A x : [r EXCEPT !.datasets = x] = ATask(v, c, n, x)
  <1>1. r.version = v /\ r.contest = c /\ r.num = n /\ r.datasets = d
    BY DEF ATask
  <1>2. ASSUME NEW x PROVE [r EXCEPT !.version = x] = ATask(x, c, n, d)
    BY DEF ATask
  <1>3. ASSUME NEW x PROVE [r EXCEPT !.contest = x] = ATask(v, x, n, d)
    BY DEF ATask
  <1>4. ASSUME NEW x PROVE [r EXCEPT !.num = x] = ATask(v, c, x, d)
    BY DEF ATask
  <1>5. ASSUME NEW x PROVE [r EXCEPT !.datasets = x] = ATask(v, c, n, x)
    BY DEF ATask
  <1> QED  BY <1>1, <1>2, <1>3, <1>4, <1>5

LEMMA TaskShape ==
    ASSUME NEW r
    PROVE  IsTask(r) <=> /\ r = ATask(r.version, r.contest, r.num, r.datasets)
                         /\ r.version \in Nat
                         /\ r.version = 0 => r.contest # "here" /\ DOMAIN r.datasets = {}
  BY DEF ATask, IsTask

LEMMA NewTaskSound ==
    ASSUME NEW v \in Nat \ {0}
    PROVE  IsTask(NewTask(v)) /\ NewTask(v).contest = "none" /\ NewTask(v).version = v
  <1> DEFINE r == [NotImported EXCEPT !.version = v]
             u == [r EXCEPT !.datasets = LoadedDatasets(v)]
  <1>1. NotImported = ATask(0, "none", 0, <<>>)
    BY DEF NotImported, ATask
  <1>2. NewTask(v) = u
    BY DEF NewTask
  <1>3. r = ATask(v, "none", 0, <<>>)
    BY <1>1, TaskFields
  <1> HIDE DEF r
  <1>4. u = ATask(v, "none", 0, LoadedDatasets(v))
    BY <1>3, TaskFields
  <1> HIDE DEF u
  <1>5. u.version = v /\ u.contest = "none" /\ u.num = 0 /\ u.datasets = LoadedDatasets(v)
    BY <1>4, TaskFields
  <1>6. IsTask(u)
    BY <1>4, <1>5, TaskShape
  <1> QED  BY <1>2, <1>5, <1>6

LEMMA UpdateTaskSound ==
    ASSUME NEW r, IsTask(r), NEW v \in Nat \ {0}
    PROVE  LET u == UpdateTask(r, v) IN
           /\ IsTask(u) /\ u.contest = r.contest /\ u.num = r.num /\ u.version = v
           /\ DOMAIN r.datasets \subseteq DOMAIN u.datasets
  <1> DEFINE ds == UpdateListWithKey(r.datasets, LoadedDatasets(v), TRUE)
             c == UpdateColumns(r, v)
             u == [c EXCEPT !.datasets = ds]
  <1>1. DOMAIN r.datasets \subseteq DOMAIN ds
    BY DEF UpdateListWithKey
  <1>2. c = ATask(v, r.contest, r.num, r.datasets)
    BY TaskShape, TaskFields DEF UpdateColumns
  <1>3. UpdateTask(r, v) = u
    <2>1. UpdateTask(r, v) = [c EXCEPT !.datasets = UpdateListWithKey(c.datasets, LoadedDatasets(v), TRUE)]
      BY DEF UpdateTask
    <2>2. c.datasets = r.datasets
      BY <1>2, TaskFields
    <2> HIDE DEF c
    <2> QED  BY <2>1, <2>2
  <1> HIDE DEF ds, c
  <1>4. u = ATask(v, r.contest, r.num, ds)
    BY <1>2, TaskFields
  <1> HIDE DEF u
  <1>5. u.version = v /\ u.contest = r.contest /\ u.num = r.num /\ u.datasets = ds
    BY <1>4, TaskFields
  <1>6. IsTask(u)
    BY <1>4, <1>5, TaskShape
  <1> QED  BY <1>1, <1>3, <1>5, <1>6

LEMMA TiedTaskSound ==
    ASSUME NEW r, IsTask(r), r.version # 0, NEW n
    PROVE  LET u == [r EXCEPT !.contest = "here", !.num = n] IN
           /\ IsTask(u) /\ u.contest = "here" /\ u.num = n /\ u.datasets = r.datasets
  <1> DEFINE s == [r EXCEPT !.contest = "here"]
             u == [s EXCEPT !.num = n]
  <1>1. [r EXCEPT !.contest = "here", !.num = n] = u
    OBVIOUS
  <1>2. s = ATask(r.version, "here", r.num, r.datasets)
    BY TaskShape, TaskFields
  <1> HIDE DEF s
  <1>3. u = ATask(r.version, "here", n, r.datasets)
    BY <1>2, TaskFields
  <1> HIDE DEF u
  <1>4. u.version = r.version /\ u.contest = "here" /\ u.num = n /\ u.datasets = r.datasets
    BY <1>3, TaskFields
  <1>5. IsTask(u)
    BY <1>3, <1>4, TaskShape
  <1> QED  BY <1>1, <1>4, <1>5

LEMMA UntiedTaskSound ==
    ASSUME NEW r, IsTask(r), NEW c, c # "here"
    PROVE  LET u == [r EXCEPT !.contest = c] IN
           /\ IsTask(u) /\ u.contest = c /\ u.num = r.num /\ u.datasets = r.datasets
  <1> DEFINE u == [r EXCEPT !.contest = c]
  <1>1. u = ATask(r.version, c, r.num, r.datasets)
    BY TaskShape, TaskFields
  <1> HIDE DEF u
  <1>2. u.version = r.version /\ u.contest = c /\ u.num = r.num /\ u.datasets = r.datasets
    BY <1>1, TaskFields
  <1>3. IsTask(u)
    BY <1>1, <1>2, TaskShape
  <1> QED  BY <1>2, <1>3 DEF u

LEMMA WithTask ==
    ASSUME NEW db, IsDatabase(db), NEW t \in ImportedTasks, NEW r, IsTask(r)
    PROVE  LET db2 == [db EXCEPT !.tasks[t] = r] IN
           /\ IsDatabase(db2) /\ db2.tasks[t] = r
           /\ \A u \in ImportedTasks : u # t => db2.tasks[u] = db.tasks[u]
           /\ db2.participations = db.participations
  BY DEF IsDatabase

LEMMA DetachedSound ==
    ASSUME NEW db, IsDatabase(db)
    PROVE  /\ IsDatabase(Detached(db)) /\ InContest(Detached(db)) = {}
           /\ KeepsDatasets(db, Detached(db)) /\ Detached(db).participations = db.participations
  <1> DEFINE ts == [t \in ImportedTasks |->
                        IF db.tasks[t].contest = "here" THEN [db.tasks[t] EXCEPT !.contest = "none"]
                        ELSE db.tasks[t]]
  <1>1. Detached(db) = [contest |-> db.contest, tasks |-> ts, users |-> db.users,
                        participations |-> db.participations]
    BY DEF Detached, IsDatabase
  <1>2. \A t \in ImportedTasks : /\ IsTask(ts[t]) /\ ts[t].contest # "here"
                                 /\ ts[t].datasets = db.tasks[t].datasets
    <2>1. \A t \in ImportedTasks : IsTask(db.tasks[t])
      BY DEF IsDatabase
    <2> QED  BY <2>1, UntiedTaskSound
  <1>3. ts = [t \in ImportedTasks |-> ts[t]]
    OBVIOUS
  <1> HIDE DEF ts
  <1> QED  BY <1>1, <1>2, <1>3 DEF IsDatabase, InContest, KeepsDatasets

LEMMA InContestFinite ==
    ASSUME NEW db
    PROVE  IsFiniteSet(InContest(db)) /\ Cardinality(InContest(db)) \in Nat
  <1>1. InContest(db) \in SUBSET ImportedTasks
    BY DEF InContest
  <1> QED  BY <1>1, ImportersAssumption, FS_Subset, FS_CardinalityType

(* The contest and the numbers of its tasks stay as they are.              *)
LEMMA SameContest ==
    ASSUME NEW db, NEW db2, NumberedFromZero(db),
           \A t \in ImportedTasks : /\ db2.tasks[t].contest = "here" <=> db.tasks[t].contest = "here"
                                    /\ db2.tasks[t].num = db.tasks[t].num
    PROVE  NumberedFromZero(db2)
  <1>1. InContest(db2) = InContest(db)
    BY DEF InContest
  <1>2. {db2.tasks[t].num : t \in InContest(db)} = {db.tasks[t].num : t \in InContest(db)}
    BY DEF InContest
  <1> QED  BY <1>1, <1>2 DEF NumberedFromZero

-----------------------------------------------------------------------------
(* What ContestAsListed and NothingDeleted say of a step.                  *)

ListedStep ==
    /\ (Running("contest") /\ database' # database) =>
          /\ InContest(database') = Range(script.tasks)
          /\ \A i \in DOMAIN script.tasks : database'.tasks[script.tasks[i]].num = i - 1
    /\ {database'.tasks[t].num : t \in InContest(database')}
       = 0 .. (Cardinality(InContest(database')) - 1)

KeepingStep ==
    /\ \A t \in ImportedTasks :
          DOMAIN database.tasks[t].datasets \subseteq DOMAIN database'.tasks[t].datasets
    /\ database.participations \subseteq database'.participations
          \/ (Running("contest") /\ script.delete_stale)

SoundStep == ImportInv' /\ ListedStep /\ KeepingStep

LEMMA DatabaseStays ==
    ASSUME ImportInv, database' = database,
           files' \in [ImportedTasks -> Nat \ {0}],
           listing'.tasks \in Seq(ImportedTasks), IsInjective(listing'.tasks),
           Running("contest")' => ContestScript(script', database),
           (Running("task") \/ Running("dataset"))' => TaskScript(script')
    PROVE  SoundStep
  <1>1. ImportInv'
    BY DEF ImportInv
  <1>2. ListedStep
    BY DEF ImportInv, ListedStep, NumberedFromZero
  <1>3. KeepingStep
    BY DEF KeepingStep
  <1> QED  BY <1>1, <1>2, <1>3 DEF SoundStep

LEMMA ScriptAborts ==
    ASSUME ImportInv, Abort, UNCHANGED <<files, listing>>
    PROVE  SoundStep
  <1>1. script' = NoScript /\ database' = database
    BY DEF Abort
  <1>2. script'.kind = "none"
    BY <1>1 DEF NoScript
  <1>3. ~Running("contest")' /\ ~Running("task")' /\ ~Running("dataset")'
    BY <1>2 DEF Running
  <1> QED  BY <1>1, <1>3, DatabaseStays DEF ImportInv

LEMMA DatabaseChanges ==
    ASSUME ImportInv, UNCHANGED <<files, listing>>, script' = NoScript,
           IsDatabase(database'), NumberedFromZero(database'), KeepsDatasets(database, database'),
           Running("contest") => /\ InContest(database') = Range(script.tasks)
                                 /\ \A i \in DOMAIN script.tasks :
                                       database'.tasks[script.tasks[i]].num = i - 1,
           database.participations \subseteq database'.participations
              \/ (Running("contest") /\ script.delete_stale)
    PROVE  SoundStep
  <1>2. script'.kind = "none"
    BY DEF NoScript
  <1>3. ~Running("contest")' /\ ~Running("task")' /\ ~Running("dataset")'
    BY <1>2 DEF Running
  <1>4. ImportInv'
    BY <1>3 DEF ImportInv
  <1>5. ListedStep
    BY DEF ListedStep, NumberedFromZero
  <1>6. KeepingStep
    BY DEF KeepingStep, KeepsDatasets
  <1> QED  BY <1>4, <1>5, <1>6 DEF SoundStep

-----------------------------------------------------------------------------
LEMMA ListingsInjective ==
    ASSUME NEW l \in Listings
    PROVE  l \in Seq(ImportedTasks) /\ IsInjective(l)
  <1>1. l \in SeqOf(ImportedTasks, 2) /\ IsInjective(l)
    BY DEF Listings, BoundedSeq
  <1>2. l \in Seq(ImportedTasks)
    <2>1. PICK m \in 0 .. 2 : l \in [1 .. m -> ImportedTasks]
      BY <1>1 DEF SeqOf
    <2> QED  BY <2>1
  <1> QED  BY <1>1, <1>2

LEMMA EditSound ==
    ASSUME ImportInv, Edit
    PROVE  SoundStep
  <1>1. database' = database /\ script' = script
    BY DEF Edit
  <1>2. Running("contest")' => ContestScript(script', database)
    BY <1>1 DEF ImportInv, Running
  <1>3. (Running("task") \/ Running("dataset"))' => TaskScript(script')
    BY <1>1 DEF ImportInv, Running
  <1>4. /\ files' \in [ImportedTasks -> Nat \ {0}]
        /\ listing'.tasks \in Seq(ImportedTasks) /\ IsInjective(listing'.tasks)
    <2>1. CASE \E t \in ImportedTasks : files' = [files EXCEPT ![t] = @ + 1] /\ UNCHANGED listing
      BY <2>1 DEF ImportInv
    <2>2. CASE \E l \in Listings, us \in SUBSET ImportedUsers :
                  /\ listing' = [version |-> listing.version + 1, tasks |-> l, users |-> us]
                  /\ UNCHANGED files
      <3>1. listing'.tasks \in Listings
        BY <2>2
      <3> QED  BY <2>2, <3>1, ListingsInjective DEF ImportInv
    <2> QED  BY <2>1, <2>2 DEF Edit
  <1> QED  BY <1>1, <1>2, <1>3, <1>4, DatabaseStays

LEMMA TieElsewhereSound ==
    ASSUME ImportInv, NEW t \in ImportedTasks, TieElsewhere(t)
    PROVE  SoundStep
  <1> DEFINE r == [database.tasks[t] EXCEPT !.contest = "elsewhere"]
  <1>1. /\ script = NoScript /\ script' = script /\ UNCHANGED <<files, listing>>
        /\ database.tasks[t].contest = "none"
        /\ database' = [database EXCEPT !.tasks[t].contest = "elsewhere"]
    BY DEF TieElsewhere
  <1>2. database' = [database EXCEPT !.tasks[t] = r]
    BY <1>1
  <1>3. IsDatabase(database) /\ IsTask(database.tasks[t]) /\ NumberedFromZero(database)
    BY DEF ImportInv, IsDatabase
  <1>4. /\ IsTask(r) /\ r.contest = "elsewhere" /\ r.num = database.tasks[t].num
        /\ r.datasets = database.tasks[t].datasets
    BY <1>3, UntiedTaskSound
  <1> HIDE DEF r
  <1>5. /\ IsDatabase(database') /\ database'.tasks[t] = r
        /\ \A u \in ImportedTasks : u # t => database'.tasks[u] = database.tasks[u]
        /\ database'.participations = database.participations
    BY <1>2, <1>3, <1>4, WithTask
  <1>6. NumberedFromZero(database')
    <2>1. \A u \in ImportedTasks :
             /\ database'.tasks[u].contest = "here" <=> database.tasks[u].contest = "here"
             /\ database'.tasks[u].num = database.tasks[u].num
      BY <1>1, <1>4, <1>5
    <2> QED  BY <2>1, <1>3, SameContest
  <1>7. KeepsDatasets(database, database')
    BY <1>4, <1>5 DEF KeepsDatasets
  <1>8. ~Running("contest")
    BY <1>1 DEF Running, NoScript
  <1> QED  BY <1>1, <1>5, <1>6, <1>7, <1>8, DatabaseChanges

LEMMA ImportContestSound ==
    ASSUME ImportInv, NEW uc, NEW ut, NEW it, NEW ds, ImportContest(uc, ut, it, ds)
    PROVE  SoundStep
  <1>1. UNCHANGED <<files, listing>>
    BY DEF ImportContest, Begin
  <1>2. CASE Abort
    BY <1>1, <1>2, ScriptAborts
  <1>3. CASE ~Abort
    <2> DEFINE updated == database.contest = 0 \/ (uc /\ ContestHasChanged)
               version == IF updated THEN listing.version ELSE database.contest
               base == [database EXCEPT !.contest = version]
               db == Detached(base)
    <2>1. /\ script' = [kind |-> "contest", update |-> ut, import |-> it, delete_stale |-> ds,
                        num |-> 0, tasks |-> listing.tasks, users |-> listing.users, db |-> db]
          /\ database' = database
      BY <1>3 DEF ImportContest
    <2>2. IsDatabase(database)
      BY DEF ImportInv
    <2> HIDE DEF version
    <2>3. /\ IsDatabase(base) /\ base.tasks = database.tasks
          /\ base.participations = database.participations
      BY <2>2 DEF IsDatabase
    <2> HIDE DEF base
    <2>4. /\ IsDatabase(db) /\ InContest(db) = {}
          /\ KeepsDatasets(base, db) /\ db.participations = base.participations
      BY <2>3, DetachedSound
    <2>5. KeepsDatasets(database, db)
      BY <2>3, <2>4 DEF KeepsDatasets
    <2> HIDE DEF db
    <2>6. /\ script'.kind = "contest" /\ script'.num = 0 /\ script'.tasks = listing.tasks
          /\ script'.db = db
      BY <2>1
    <2>7. IsContestScript(script')
      <3>1. script' = [kind |-> "contest", update |-> script'.update, import |-> script'.import,
                       delete_stale |-> script'.delete_stale, num |-> script'.num,
                       tasks |-> script'.tasks, users |-> script'.users, db |-> script'.db]
        BY <2>1
      <3>2. listing.tasks \in Seq(ImportedTasks) /\ IsInjective(listing.tasks)
        BY DEF ImportInv
      <3>3. 0 \in 0 .. Len(listing.tasks)
        BY <3>2
      <3> QED  BY <3>1, <3>2, <3>3, <2>4, <2>6 DEF IsContestScript
    <2>8. ListedSoFar(script')
      BY <2>4, <2>6, FS_EmptySet DEF ListedSoFar
    <2>9. ContestScript(script', database)
      BY <2>3, <2>4, <2>5, <2>6, <2>7, <2>8 DEF ContestScript
    <2>10. ~Running("task")' /\ ~Running("dataset")'
      BY <2>6 DEF Running
    <2> QED  BY <1>1, <2>1, <2>9, <2>10, DatabaseStays DEF ImportInv
  <1> QED  BY <1>2, <1>3

(* The next listed task is tied to the contest.                            *)
LEMMA TiedSound ==
    ASSUME ImportInv, Running("contest"), script.num < Len(script.tasks),
           NEW task, IsTask(task), task.version # 0,
           DOMAIN script.db.tasks[script.tasks[script.num + 1]].datasets \subseteq DOMAIN task.datasets,
           Tied(task), UNCHANGED <<files, listing>>
    PROVE  SoundStep
  <1>1. CASE Abort
    BY <1>1, ScriptAborts
  <1>2. CASE ~Abort
    <2> DEFINE n == script.num
               t == script.tasks[n + 1]
               r == [task EXCEPT !.contest = "here", !.num = n]
               db == [script.db EXCEPT !.tasks[t] = r]
    <2>1. ContestScript(script, database)
      BY DEF ImportInv
    <2>2. /\ script.tasks \in Seq(ImportedTasks) /\ IsInjective(script.tasks)
          /\ n \in 0 .. Len(script.tasks) /\ IsDatabase(script.db)
          /\ script = [kind |-> "contest", update |-> script.update, import |-> script.import,
                       delete_stale |-> script.delete_stale, num |-> n, tasks |-> script.tasks,
                       users |-> script.users, db |-> script.db]
      BY <2>1 DEF ContestScript, IsContestScript
    <2>3. n \in Nat /\ n + 1 \in 1 .. Len(script.tasks) /\ t \in ImportedTasks
      BY <2>2
    <2>4. /\ database' = database
          /\ script' = [script EXCEPT !.db.tasks[t] = r, !.num = n + 1]
      BY <1>2 DEF Tied
    <2>5. /\ IsTask(r) /\ r.contest = "here" /\ r.num = n /\ r.datasets = task.datasets
      BY TiedTaskSound
    <2> HIDE DEF r
    <2>6. /\ IsDatabase(db) /\ db.tasks[t] = r
          /\ \A u \in ImportedTasks : u # t => db.tasks[u] = script.db.tasks[u]
          /\ db.participations = script.db.participations
      BY <2>2, <2>3, <2>5, WithTask
    <2>7. script' = [kind |-> "contest", update |-> script.update, import |-> script.import,
                     delete_stale |-> script.delete_stale, num |-> n + 1, tasks |-> script.tasks,
                     users |-> script.users, db |-> db]
      <3> HIDE DEF t, n
      <3>1. script' = [[script EXCEPT !.db = db] EXCEPT !.num = n + 1]
        BY <2>4
      <3> HIDE DEF db
      <3> DEFINE s == [script EXCEPT !.db = db]
      <3>2. s = [kind |-> "contest", update |-> script.update, import |-> script.import,
                 delete_stale |-> script.delete_stale, num |-> n, tasks |-> script.tasks,
                 users |-> script.users, db |-> db]
        BY <2>2
      <3> HIDE DEF s
      <3> QED  BY <3>1, <3>2 DEF s
    <2>8. /\ script'.kind = "contest" /\ script'.num = n + 1 /\ script'.tasks = script.tasks
          /\ script'.db = db
      BY <2>7
    <2>9. IsContestScript(script')
      <3>1. script' = [kind |-> "contest", update |-> script'.update, import |-> script'.import,
                       delete_stale |-> script'.delete_stale, num |-> script'.num,
                       tasks |-> script'.tasks, users |-> script'.users, db |-> script'.db]
        <4> HIDE DEF db, n
        <4> QED  BY <2>7
      <3> HIDE DEF db
      <3>2. n + 1 \in 0 .. Len(script.tasks)
        BY <2>3
      <3> QED  BY <3>1, <3>2, <2>2, <2>6, <2>8 DEF IsContestScript
    <2>10. ListedSoFar(script')
      <3> DEFINE before == InContest(script.db)
      <3>1. /\ before = {script.tasks[i] : i \in 1 .. n} /\ Cardinality(before) = n
            /\ \A i \in 1 .. n : script.db.tasks[script.tasks[i]].num = i - 1
        BY <2>1 DEF ContestScript, ListedSoFar
      <3>2. \A i \in 1 .. n : script.tasks[i] \in ImportedTasks /\ script.tasks[i] # t
        <4>1. \A i \in 1 .. n : i \in 1 .. Len(script.tasks) /\ i # n + 1
          BY <2>2, <2>3
        <4>2. DOMAIN script.tasks = 1 .. Len(script.tasks)
          BY <2>2
        <4> QED  BY <4>1, <4>2, <2>2, <2>3 DEF IsInjective
      <3>3. InContest(db) = before \cup {t}
        <4> HIDE DEF db, t, n
        <4> QED  BY <2>3, <2>5, <2>6 DEF InContest
      <3>4. t \notin before
        BY <3>1, <3>2
      <3>5. Cardinality(InContest(db)) = n + 1
        <4>1. IsFiniteSet(before)
          BY InContestFinite
        <4> HIDE DEF before, db, t, n
        <4> QED  BY <4>1, <3>1, <3>3, <3>4, FS_AddElement
      <3>6. InContest(db) = {script.tasks[i] : i \in 1 .. (n + 1)}
        <4>1. \A i : i \in 1 .. (n + 1) <=> i \in 1 .. n \/ i = n + 1
          BY <2>3
        <4> HIDE DEF before, db, n
        <4> QED  BY <4>1, <3>1, <3>3
      <3>7. \A i \in 1 .. (n + 1) : db.tasks[script.tasks[i]].num = i - 1
        <4> SUFFICES ASSUME NEW i \in 1 .. (n + 1) PROVE db.tasks[script.tasks[i]].num = i - 1
          OBVIOUS
        <4> HIDE DEF db, r
        <4>1. CASE i = n + 1
          BY <4>1, <2>3, <2>5, <2>6
        <4>2. CASE i # n + 1
          <5>1. i \in 1 .. n
            BY <4>2, <2>3
          <5> QED  BY <5>1, <3>1, <3>2, <2>6
        <4> QED  BY <4>1, <4>2
      <3> HIDE DEF db, n
      <3> QED  BY <2>8, <3>5, <3>6, <3>7 DEF ListedSoFar
    <2>11. KeepsDatasets(database, db)
      <3>1. KeepsDatasets(database, script.db)
        BY <2>1 DEF ContestScript
      <3> HIDE DEF db
      <3> QED  BY <3>1, <2>5, <2>6 DEF KeepsDatasets
    <2>12. ContestScript(script', database)
      <3>1. script.db.participations = database.participations
        BY <2>1 DEF ContestScript
      <3> HIDE DEF db
      <3> QED  BY <3>1, <2>6, <2>8, <2>9, <2>10, <2>11 DEF ContestScript
    <2>13. ~Running("task")' /\ ~Running("dataset")'
      BY <2>8 DEF Running
    <2> QED  BY <2>4, <2>12, <2>13, DatabaseStays DEF ImportInv
  <1> QED  BY <1>1, <1>2

LEMMA TaskToDbSound ==
    ASSUME ImportInv, TaskToDb
    PROVE  SoundStep
  <1> DEFINE t == script.tasks[script.num + 1]
             task == script.db.tasks[t]
  <1>1. Running("contest") /\ script.num < Len(script.tasks) /\ UNCHANGED <<files, listing>>
    BY DEF TaskToDb
  <1>2. CASE Abort
    BY <1>1, <1>2, ScriptAborts
  <1>3. ContestScript(script, database)
    BY <1>1 DEF ImportInv
  <1>4. t \in ImportedTasks /\ IsTask(task)
    <2>1. /\ script.tasks \in Seq(ImportedTasks) /\ script.num \in 0 .. Len(script.tasks)
          /\ IsDatabase(script.db)
      BY <1>3 DEF ContestScript, IsContestScript
    <2>2. script.num + 1 \in 1 .. Len(script.tasks)
      BY <1>1, <2>1
    <2>3. t \in ImportedTasks
      BY <2>1, <2>2
    <2> QED  BY <2>1, <2>3 DEF IsDatabase
  <1>5. files[t] \in Nat \ {0}
    BY <1>4 DEF ImportInv
  <1>6. CASE ~Abort
    <2>1. CASE task.version = 0 /\ Tied(NewTask(files[t]))
      <3>1. IsTask(NewTask(files[t])) /\ NewTask(files[t]).version # 0
        BY <1>5, NewTaskSound
      <3>2. DOMAIN task.datasets = {}
        BY <2>1, <1>4 DEF IsTask
      <3>3. PICK new : new = NewTask(files[t])
        OBVIOUS
      <3> QED  BY <3>1, <3>2, <3>3, <2>1, <1>1, TiedSound
    <2>2. CASE task.version > 0 /\ Tied(task)
      <3>1. task.version # 0
        BY <2>2
      <3>2. PICK new : new = task
        OBVIOUS
      <3> QED  BY <3>1, <3>2, <2>2, <1>1, <1>4, TiedSound
    <2>3. CASE task.version > 0 /\ Tied(UpdateTask(task, files[t]))
      <3>1. PICK new : new = UpdateTask(task, files[t])
        OBVIOUS
      <3>2. IsTask(new) /\ new.version # 0 /\ DOMAIN task.datasets \subseteq DOMAIN new.datasets
        BY <3>1, <1>4, <1>5, UpdateTaskSound
      <3> QED  BY <3>1, <3>2, <2>3, <1>1, TiedSound
    <2> QED  BY <1>6, <2>1, <2>2, <2>3 DEF TaskToDb
  <1> QED  BY <1>2, <1>6

LEMMA FinishContestSound ==
    ASSUME ImportInv, FinishContest
    PROVE  SoundStep
  <1>1. Running("contest") /\ script.num = Len(script.tasks) /\ UNCHANGED <<files, listing>>
    BY DEF FinishContest
  <1>2. CASE Abort
    BY <1>1, <1>2, ScriptAborts
  <1>3. CASE ~Abort
    <2> DEFINE stays == (script.db.participations \ Stale(script.db)) \cup script.users
    <2>1. script' = NoScript /\ database' = [script.db EXCEPT !.participations = stays]
      BY <1>3 DEF FinishContest, CommitImport
    <2>2. ContestScript(script, database)
      BY <1>1 DEF ImportInv
    <2>3. /\ IsDatabase(script.db) /\ script.tasks \in Seq(ImportedTasks)
          /\ script.num \in 0 .. Len(script.tasks)
      BY <2>2 DEF ContestScript, IsContestScript
    <2> HIDE DEF stays
    <2>4. /\ IsDatabase(database') /\ database'.tasks = script.db.tasks
          /\ database'.participations = stays
      BY <2>1, <2>3 DEF IsDatabase
    <2>5. InContest(database') = InContest(script.db)
      BY <2>4 DEF InContest
    <2>6. /\ InContest(script.db) = {script.tasks[i] : i \in 1 .. script.num}
          /\ Cardinality(InContest(script.db)) = script.num
          /\ \A i \in 1 .. script.num : script.db.tasks[script.tasks[i]].num = i - 1
      BY <2>2 DEF ContestScript, ListedSoFar
    <2>7. DOMAIN script.tasks = 1 .. script.num /\ script.num \in Nat
      BY <1>1, <2>3
    <2>8. /\ InContest(database') = Range(script.tasks)
          /\ \A i \in DOMAIN script.tasks : database'.tasks[script.tasks[i]].num = i - 1
      BY <2>4, <2>5, <2>6, <2>7 DEF Range
    <2>9. NumberedFromZero(database')
      <3>1. \A x \in 0 .. (script.num - 1) : x + 1 \in 1 .. script.num /\ (x + 1) - 1 = x
        BY <2>7
      <3>2. \A i \in 1 .. script.num : i - 1 \in 0 .. (script.num - 1)
        BY <2>7
      <3>3. {database'.tasks[t].num : t \in InContest(database')} = 0 .. (script.num - 1)
        <4>1. ASSUME NEW x \in 0 .. (script.num - 1)
              PROVE  x \in {database'.tasks[t].num : t \in InContest(database')}
          <5>1. PICK i \in 1 .. script.num : i - 1 = x
            BY <3>1
          <5>2. script.tasks[i] \in InContest(database') /\ database'.tasks[script.tasks[i]].num = x
            BY <5>1, <2>5, <2>6, <2>7, <2>8
          <5> QED  BY <5>2
        <4>2. ASSUME NEW t \in InContest(database')
              PROVE  database'.tasks[t].num \in 0 .. (script.num - 1)
          <5>1. PICK i \in 1 .. script.num : t = script.tasks[i]
            BY <2>5, <2>6
          <5> QED  BY <5>1, <3>2, <2>7, <2>8
        <4> QED  BY <4>1, <4>2
      <3> QED  BY <3>3, <2>5, <2>6 DEF NumberedFromZero
    <2>10. KeepsDatasets(database, database')
      BY <2>2, <2>4 DEF ContestScript, KeepsDatasets
    <2>11. database.participations \subseteq database'.participations \/ script.delete_stale
      <3>1. script.db.participations = database.participations
        BY <2>2 DEF ContestScript
      <3> QED  BY <3>1, <2>4 DEF stays, Stale
    <2> QED  BY <1>1, <2>1, <2>4, <2>8, <2>9, <2>10, <2>11, DatabaseChanges
  <1> QED  BY <1>2, <1>3

(* TaskImporter and DatasetImporter have loaded the files.                 *)
LEMMA ScriptLoads ==
    ASSUME ImportInv, UNCHANGED <<files, listing>>, database' = database,
           script'.kind \in {"task", "dataset"}, TaskScript(script')
    PROVE  SoundStep
  <1>1. ~Running("contest")'
    BY DEF Running
  <1> QED  BY <1>1, DatabaseStays DEF ImportInv

LEMMA ImportTaskSound ==
    ASSUME ImportInv, NEW t \in ImportedTasks, NEW update, NEW tied, ImportTask(t, update, tied)
    PROVE  SoundStep
  <1>1. UNCHANGED <<files, listing>>
    BY DEF ImportTask, Begin
  <1>2. CASE Abort
    BY <1>1, <1>2, ScriptAborts
  <1>3. CASE ~Abort
    <2>1. /\ database' = database
          /\ script' = [kind |-> "task", task |-> t, update |-> update,
                        changed |-> update /\ HasChanged(t), tied |-> tied, version |-> files[t]]
      BY <1>3 DEF ImportTask
    <2>2. script'.kind = "task" /\ script'.task = t /\ script'.version = files[t]
      BY <2>1
    <2>3. TaskScript(script')
      BY <2>2 DEF ImportInv, TaskScript
    <2> QED  BY <1>1, <2>1, <2>2, <2>3, ScriptLoads
  <1> QED  BY <1>2, <1>3

LEMMA ImportDatasetSound ==
    ASSUME ImportInv, NEW t \in ImportedTasks, ImportDataset(t)
    PROVE  SoundStep
  <1>1. UNCHANGED <<files, listing>>
    BY DEF ImportDataset, Begin
  <1>2. CASE Abort
    BY <1>1, <1>2, ScriptAborts
  <1>3. CASE ~Abort
    <2>1. /\ database' = database
          /\ script' = [kind |-> "dataset", task |-> t, version |-> files[t]]
      BY <1>3 DEF ImportDataset
    <2>2. script'.kind = "dataset" /\ script'.task = t /\ script'.version = files[t]
      BY <2>1
    <2>3. TaskScript(script')
      BY <2>2 DEF ImportInv, TaskScript
    <2> QED  BY <1>1, <2>1, <2>2, <2>3, ScriptLoads
  <1> QED  BY <1>2, <1>3

(* A task is replaced by one that is in the contest if it was, and has its *)
(* datasets and its number.                                                *)
LEMMA TaskReplaced ==
    ASSUME ImportInv, ~Running("contest"), UNCHANGED <<files, listing>>, script' = NoScript,
           NEW t \in ImportedTasks, NEW r, IsTask(r),
           database' = [database EXCEPT !.tasks[t] = r],
           r.contest = "here" <=> database.tasks[t].contest = "here",
           database.tasks[t].contest = "here" => r.num = database.tasks[t].num,
           DOMAIN database.tasks[t].datasets \subseteq DOMAIN r.datasets
    PROVE  SoundStep
  <1>1. IsDatabase(database) /\ NumberedFromZero(database)
    BY DEF ImportInv
  <1>2. /\ IsDatabase(database') /\ database'.tasks[t] = r
        /\ \A u \in ImportedTasks : u # t => database'.tasks[u] = database.tasks[u]
        /\ database'.participations = database.participations
    BY <1>1, WithTask
  <1>3. InContest(database') = InContest(database)
    BY <1>2 DEF InContest
  <1>4. NumberedFromZero(database')
    <2>1. \A u \in InContest(database) : database'.tasks[u].num = database.tasks[u].num
      BY <1>2 DEF InContest
    <2>2. {database'.tasks[u].num : u \in InContest(database)}
          = {database.tasks[u].num : u \in InContest(database)}
      BY <2>1
    <2> QED  BY <1>1, <1>3, <2>2 DEF NumberedFromZero
  <1>5. KeepsDatasets(database, database')
    BY <1>2 DEF KeepsDatasets
  <1> QED  BY <1>2, <1>4, <1>5, DatabaseChanges

(* A new task is added at the end of the contest.                          *)
LEMMA TaskAdded ==
    ASSUME ImportInv, ~Running("contest"), UNCHANGED <<files, listing>>, script' = NoScript,
           NEW t \in ImportedTasks, NEW r, IsTask(r),
           database' = [database EXCEPT !.tasks[t] = r],
           database.tasks[t].version = 0,
           r.contest = "here", r.num = Cardinality(InContest(database))
    PROVE  SoundStep
  <1>1. IsDatabase(database) /\ NumberedFromZero(database)
    BY DEF ImportInv
  <1>2. /\ IsDatabase(database') /\ database'.tasks[t] = r
        /\ \A u \in ImportedTasks : u # t => database'.tasks[u] = database.tasks[u]
        /\ database'.participations = database.participations
    BY <1>1, WithTask
  <1>3. IsTask(database.tasks[t])
    BY <1>1 DEF IsDatabase
  <1>4. database.tasks[t].contest # "here" /\ DOMAIN database.tasks[t].datasets = {}
    BY <1>3 DEF IsTask
  <1>5. InContest(database') = InContest(database) \cup {t} /\ t \notin InContest(database)
    BY <1>2, <1>4 DEF InContest
  <1> DEFINE n == Cardinality(InContest(database))
  <1>6. n \in Nat /\ Cardinality(InContest(database')) = n + 1
    BY <1>5, InContestFinite, FS_AddElement
  <1>7. NumberedFromZero(database')
    <2>1. {database.tasks[u].num : u \in InContest(database)} = 0 .. (n - 1)
      BY <1>1 DEF NumberedFromZero
    <2>2. \A u \in InContest(database) : database'.tasks[u] = database.tasks[u]
      BY <1>2, <1>5 DEF InContest
    <2>3. {database'.tasks[u].num : u \in InContest(database')}
          = {database.tasks[u].num : u \in InContest(database)} \cup {n}
      BY <1>2, <1>5, <2>2
    <2>4. (0 .. (n - 1)) \cup {n} = 0 .. ((n + 1) - 1)
      BY <1>6
    <2> QED  BY <1>6, <2>1, <2>3, <2>4 DEF NumberedFromZero
  <1>8. KeepsDatasets(database, database')
    BY <1>2, <1>4 DEF KeepsDatasets
  <1> QED  BY <1>2, <1>7, <1>8, DatabaseChanges

LEMMA StoreTaskSound ==
    ASSUME ImportInv, StoreTask
    PROVE  SoundStep
  <1>1. Running("task") /\ ~Running("contest") /\ UNCHANGED <<files, listing>>
    BY DEF StoreTask, Running
  <1>2. CASE Abort
    BY <1>1, <1>2, ScriptAborts
  <1>3. CASE ~Abort
    <2> DEFINE t == script.task
               task == database.tasks[t]
               new == NewTask(script.version)
               first == [new EXCEPT !.contest = "here", !.num = Cardinality(InContest(database))]
               added == IF script.tied THEN first ELSE new
               r == CASE task.version = 0 -> added
                      [] task.version > 0 /\ script.changed -> UpdateTask(task, script.version)
                      [] OTHER -> task
    <2>1. t \in ImportedTasks /\ script.version \in Nat \ {0}
      BY <1>1 DEF ImportInv, TaskScript
    <2>2. IsTask(task) /\ task.version \in Nat
      BY <2>1 DEF ImportInv, IsDatabase, IsTask
    <2>3. script' = NoScript /\ database' = [database EXCEPT !.tasks[t] = r]
      BY <1>3 DEF StoreTask, CommitImport, InContest
    <2>4. IsTask(new) /\ new.contest = "none" /\ new.version # 0
      BY <2>1, NewTaskSound
    <2>5. IsTask(first) /\ first.contest = "here" /\ first.num = Cardinality(InContest(database))
      <3> HIDE DEF new
      <3> QED  BY <2>4, TiedTaskSound
    <2> HIDE DEF new, first
    <2>6. CASE task.version = 0 /\ script.tied
      <3>1. r = first
        BY <2>6
      <3>2. PICK x : x = first
        OBVIOUS
      <3> HIDE DEF r
      <3> QED  BY <3>1, <3>2, <1>1, <2>1, <2>3, <2>5, <2>6, TaskAdded
    <2>7. CASE task.version = 0 /\ ~script.tied
      <3>1. r = new
        BY <2>7
      <3>2. task.contest # "here" /\ DOMAIN task.datasets = {}
        BY <2>2, <2>7 DEF IsTask
      <3>3. PICK x : x = new
        OBVIOUS
      <3> HIDE DEF r
      <3> QED  BY <3>1, <3>2, <3>3, <1>1, <2>1, <2>3, <2>4, TaskReplaced
    <2>8. CASE task.version # 0 /\ script.changed
      <3>1. r = UpdateTask(task, script.version)
        BY <2>2, <2>8
      <3>2. PICK x : x = UpdateTask(task, script.version)
        OBVIOUS
      <3>3. /\ IsTask(x) /\ x.contest = task.contest /\ x.num = task.num
            /\ DOMAIN task.datasets \subseteq DOMAIN x.datasets
        BY <3>2, <2>1, <2>2, UpdateTaskSound
      <3> HIDE DEF r
      <3> QED  BY <3>1, <3>2, <3>3, <1>1, <2>1, <2>3, TaskReplaced
    <2>9. CASE task.version # 0 /\ ~script.changed
      <3>1. r = task
        BY <2>2, <2>9
      <3>2. PICK x : x = task
        OBVIOUS
      <3> HIDE DEF r
      <3> QED  BY <3>1, <3>2, <1>1, <2>1, <2>2, <2>3, TaskReplaced
    <2> QED  BY <2>6, <2>7, <2>8, <2>9
  <1> QED  BY <1>2, <1>3

LEMMA StoreDatasetSound ==
    ASSUME ImportInv, StoreDataset
    PROVE  SoundStep
  <1>1. Running("dataset") /\ ~Running("contest") /\ UNCHANGED <<files, listing>>
    BY DEF StoreDataset, Running
  <1>2. CASE Abort
    BY <1>1, <1>2, ScriptAborts
  <1>3. CASE ~Abort
    <2> DEFINE t == script.task
               task == database.tasks[t]
               ds == [d \in DOMAIN task.datasets \cup {"imported"} |->
                         IF d = "imported" THEN script.version ELSE task.datasets[d]]
               r == [task EXCEPT !.datasets = ds]
    <2>1. t \in ImportedTasks
      BY <1>1 DEF ImportInv, TaskScript
    <2>2. IsTask(task) /\ task.version \in Nat
      BY <2>1 DEF ImportInv, IsDatabase, IsTask
    <2>3. task.version # 0
      BY <1>3 DEF StoreDataset
    <2>4. script' = NoScript /\ database' = [database EXCEPT !.tasks[t] = r]
      BY <1>3 DEF StoreDataset, CommitImport
    <2>5. DOMAIN task.datasets \subseteq DOMAIN ds
      OBVIOUS
    <2> HIDE DEF ds
    <2>6. r = ATask(task.version, task.contest, task.num, ds)
      <3>1. task = ATask(task.version, task.contest, task.num, task.datasets)
        BY <2>2, TaskShape
      <3> HIDE DEF task
      <3> QED  BY <3>1, TaskFields
    <2>7. PICK x : x = r
      OBVIOUS
    <2> HIDE DEF r
    <2>8. x.version = task.version /\ x.contest = task.contest /\ x.num = task.num /\ x.datasets = ds
      BY <2>6, <2>7, TaskFields
    <2>9. IsTask(x)
      BY <2>2, <2>3, <2>6, <2>7, <2>8, TaskShape
    <2> QED  BY <1>1, <2>1, <2>4, <2>5, <2>7, <2>8, <2>9, TaskReplaced
  <1> QED  BY <1>2, <1>3

LEMMA ImportUserSound ==
    ASSUME ImportInv, NEW u, NEW tied, ImportUser(u, tied)
    PROVE  SoundStep
  <1> DEFINE ps == IF tied THEN database.participations \cup {u} ELSE database.participations
             us == database.users \cup {u}
  <1>1. /\ script = NoScript /\ UNCHANGED <<files, listing>> /\ script' = NoScript
        /\ database' = [database EXCEPT !.users = us, !.participations = ps]
    BY DEF ImportUser, Begin, CommitImport
  <1>2. ~Running("contest")
    BY <1>1 DEF Running, NoScript
  <1>3. database.participations \subseteq ps
    OBVIOUS
  <1>4. IsDatabase(database) /\ NumberedFromZero(database)
    BY DEF ImportInv
  <1> HIDE DEF ps, us
  <1>5. database' = [contest |-> database.contest, tasks |-> database.tasks, users |-> us,
                     participations |-> ps]
    <2> DEFINE a == [database EXCEPT !.users = us]
    <2>1. database' = [a EXCEPT !.participations = ps]
      BY <1>1
    <2>2. a = [contest |-> database.contest, tasks |-> database.tasks, users |-> us,
               participations |-> database.participations]
      BY <1>4 DEF IsDatabase
    <2> HIDE DEF a
    <2> QED  BY <2>1, <2>2
  <1>6. database'.tasks = database.tasks /\ database'.participations = ps
    BY <1>5
  <1>7. IsDatabase(database')
    BY <1>4, <1>5, <1>6 DEF IsDatabase
  <1>8. NumberedFromZero(database') /\ KeepsDatasets(database, database')
    <2>1. InContest(database') = InContest(database)
      BY <1>6 DEF InContest
    <2> QED  BY <2>1, <1>4, <1>6 DEF NumberedFromZero, KeepsDatasets
  <1> QED  BY <1>1, <1>2, <1>3, <1>6, <1>7, <1>8, DatabaseChanges

LEMMA ImportStep ==
    ASSUME ImportInv, [ImportNext]_importVars
    PROVE  SoundStep
  <1>1. CASE UNCHANGED importVars
    <2>1. UNCHANGED <<files, listing, script, database>>
      BY <1>1 DEF importVars
    <2>2. /\ Running("contest")' => ContestScript(script', database)
          /\ (Running("task") \/ Running("dataset"))' => TaskScript(script')
      BY <2>1 DEF ImportInv, Running
    <2> QED  BY <2>1, <2>2, DatabaseStays DEF ImportInv
  <1>2. CASE Kill
    BY <1>2, ScriptAborts DEF Kill
  <1> QED
    BY <1>1, <1>2, EditSound, TaskToDbSound, FinishContestSound, StoreTaskSound, StoreDatasetSound,
       ImportContestSound, TieElsewhereSound, ImportDatasetSound, ImportTaskSound, ImportUserSound
       DEF ImportNext

LEMMA ImportInitially ==
    ImportInit => ImportInv
  <1> SUFFICES ASSUME ImportInit PROVE ImportInv
    OBVIOUS
  <1>1. files \in [ImportedTasks -> Nat \ {0}]
    BY DEF ImportInit
  <1>2. listing.tasks \in Seq(ImportedTasks) /\ IsInjective(listing.tasks)
    <2>1. listing.tasks \in Listings
      BY DEF ImportInit
    <2> QED  BY <2>1, ListingsInjective
  <1>3. database = [contest |-> 0, tasks |-> [t \in ImportedTasks |-> NotImported],
                    users |-> {}, participations |-> {}]
    BY DEF ImportInit
  <1>4. IsTask(NotImported) /\ NotImported.contest # "here"
    BY DEF IsTask, NotImported
  <1>5. IsDatabase(database) /\ InContest(database) = {}
    BY <1>3, <1>4 DEF IsDatabase, InContest
  <1>6. NumberedFromZero(database)
    BY <1>5, FS_EmptySet DEF NumberedFromZero
  <1>7. ~Running("contest") /\ ~Running("task") /\ ~Running("dataset")
    BY DEF ImportInit, NoScript, Running
  <1> QED  BY <1>1, <1>2, <1>5, <1>6, <1>7 DEF ImportInv

(* Whenever a script has imported a contest its tasks are the listed ones, *)
(* in that order and numbered from 0 without gaps, whatever imports were   *)
(* interrupted before and whatever the administrators moved in between; no *)
(* import takes a dataset from a task, or a participation from a user      *)
(* unless told to delete the stale ones.                                   *)
THEOREM ImportsStaySound == ImportSpec => ImportsSound
  <1>1. ImportInv /\ [ImportNext]_importVars => ImportInv'
    BY ImportStep DEF SoundStep
  <1>2. ImportInv /\ [ImportNext]_importVars => [ListedStep]_importVars
    BY ImportStep DEF SoundStep
  <1>3. ImportInv /\ [ImportNext]_importVars => [KeepingStep]_importVars
    BY ImportStep DEF SoundStep
  <1>4. ImportSpec => [][ListedStep]_importVars
    BY <1>1, <1>2, ImportInitially, PTL DEF ImportSpec
  <1>5. ImportSpec => [][KeepingStep]_importVars
    BY <1>1, <1>3, ImportInitially, PTL DEF ImportSpec
  <1> QED
    BY <1>4, <1>5, PTL DEF ImportsSound, ContestAsListed, NothingDeleted, ListedStep, KeepingStep

-----------------------------------------------------------------------------
(* Administration. A closure is reached by seven rounds of a function      *)
(* defined on 0..7; what it contains is proved by induction over a set of  *)
(* numbers.                                                                *)

LEMMA SetInduction ==
    ASSUME NEW S, 0 \in S, \A n \in Nat : n \in S => n + 1 \in S
    PROVE  Nat \subseteq S
  <1> DEFINE T == Nat \ S
             Less == {ss \in Nat \X Nat : ss[1] < ss[2]}
  <1> SUFFICES ASSUME T # {} PROVE FALSE
    OBVIOUS
  <1>1. T \subseteq Nat
    OBVIOUS
  <1>2. IsWellFoundedOn(Less, Nat)
    BY NatLessThanWellFounded DEF OpToRel
  <1> HIDE DEF T, Less
  <1>3. PICK n \in T : \A m \in T : <<m, n>> \notin Less
    BY <1>1, <1>2, WFMin
  <1>4. n # 0 /\ n - 1 \in Nat
    BY <1>1, <1>3 DEF T
  <1>5. <<n - 1, n>> \in Less
    BY <1>1, <1>4 DEF Less
  <1> QED  BY <1>3, <1>4, <1>5 DEF T

-----------------------------------------------------------------------------
(* What a closure reaches.                                                 *)

Grown(leads, S) == S \cup UNION {leads[q] : q \in S}

LEMMA ClosureLoop ==
    ASSUME NEW leads, NEW start
    PROVE  \E f : /\ f[0] = start
                  /\ \A n \in 0 .. 6 : f[n + 1] = Grown(leads, f[n])
                  /\ Closure(leads, start) = f[7]
  <1> DEFINE Body(f, m) == [n \in 0 .. m |-> IF n = 0 THEN start ELSE Grown(leads, f[n - 1])]
             T == {m \in Nat : \E f : f = Body(f, m)}
  <1>1. 0 \in T
    <2> DEFINE f == [n \in 0 .. 0 |-> start]
    <2>1. f = Body(f, 0)
      OBVIOUS
    <2> HIDE DEF f, Body
    <2> QED  BY <2>1
  <1>2. ASSUME NEW m \in Nat, m \in T PROVE m + 1 \in T
    <2>1. PICK g : g = Body(g, m)
      BY <1>2
    <2> DEFINE f == Body(g, m + 1)
    <2>2. \A n \in 0 .. m : f[n] = g[n]
      <3>1. \A n \in 0 .. m : g[n] = IF n = 0 THEN start ELSE Grown(leads, g[n - 1])
        BY <2>1
      <3> QED  BY <3>1
    <2>3. f = Body(f, m + 1)
      <3>1. \A n \in 0 .. (m + 1) : n # 0 => n - 1 \in 0 .. m
        OBVIOUS
      <3>2. \A n \in 0 .. (m + 1) : n # 0 => Grown(leads, g[n - 1]) = Grown(leads, f[n - 1])
        <4> HIDE DEF f
        <4> QED  BY <2>2, <3>1
      <3> QED  BY <3>2, Zenon
    <2> HIDE DEF f, Body
    <2> QED  BY <2>3
  <1>3. 7 \in T
    <2> HIDE DEF T
    <2>1. Nat \subseteq T
      BY <1>1, <1>2, SetInduction
    <2> QED  BY <2>1
  <1> DEFINE after == CHOOSE f : f = Body(f, 7)
  <1>4. after = Body(after, 7)
    <2> HIDE DEF Body
    <2> QED  BY <1>3, Zenon
  <1>5. Closure(leads, start) = after[7]
    BY DEF Closure, Longest, Grown
  <1>6. after[0] = start /\ \A n \in 0 .. 6 : after[n + 1] = Grown(leads, after[n])
    <2>1. \A n \in 0 .. 7 : after[n] = IF n = 0 THEN start ELSE Grown(leads, after[n - 1])
      <3> HIDE DEF after
      <3> QED  BY <1>4
    <2>2. \A n \in 0 .. 6 : n + 1 \in 0 .. 7 /\ n + 1 # 0 /\ (n + 1) - 1 = n
      OBVIOUS
    <2> HIDE DEF after
    <2> QED  BY <2>1, <2>2
  <1> HIDE DEF after
  <1> QED  BY <1>5, <1>6

Leads(R, leads, start) == leads \in [R -> SUBSET R] /\ start \subseteq R

(* A set that has the start and is left by no step has the closure.        *)
LEMMA ClosureWithin ==
    ASSUME NEW leads, NEW start, NEW P, start \subseteq P, \A q \in P : leads[q] \subseteq P
    PROVE  start \subseteq Closure(leads, start) /\ Closure(leads, start) \subseteq P
  <1>1. PICK f : /\ f[0] = start
                 /\ \A n \in 0 .. 6 : f[n + 1] = Grown(leads, f[n])
                 /\ Closure(leads, start) = f[7]
    BY ClosureLoop
  <1> DEFINE T == {n \in Nat : n \in 0 .. 7 => start \subseteq f[n] /\ f[n] \subseteq P}
  <1>2. 0 \in T
    BY <1>1
  <1>3. ASSUME NEW n \in Nat, n \in T PROVE n + 1 \in T
    <2> SUFFICES ASSUME n + 1 \in 0 .. 7 PROVE start \subseteq f[n + 1] /\ f[n + 1] \subseteq P
      OBVIOUS
    <2>1. n \in 0 .. 6 /\ n \in 0 .. 7
      OBVIOUS
    <2>2. start \subseteq f[n] /\ f[n] \subseteq P
      BY <1>3, <2>1
    <2>3. f[n + 1] = Grown(leads, f[n])
      BY <1>1, <2>1
    <2> QED  BY <2>2, <2>3 DEF Grown
  <1> HIDE DEF T
  <1>4. Nat \subseteq T
    BY <1>2, <1>3, SetInduction
  <1>5. 7 \in T
    BY <1>4
  <1> QED  BY <1>1, <1>5 DEF T

(* What is reached is at the start or one step from what is reached.       *)
LEMMA ClosureParents ==
    ASSUME NEW leads, NEW start, NEW r \in Closure(leads, start), r \notin start
    PROVE  \E q \in Closure(leads, start) : r \in leads[q]
  <1>1. PICK f : /\ f[0] = start
                 /\ \A n \in 0 .. 6 : f[n + 1] = Grown(leads, f[n])
                 /\ Closure(leads, start) = f[7]
    BY ClosureLoop
  <1> DEFINE T == {n \in Nat : n \in 0 .. 7 =>
                      \A x \in f[n] : x \in start \/ \E q \in f[n] : x \in leads[q]}
  <1>2. 0 \in T
    BY <1>1
  <1>3. ASSUME NEW n \in Nat, n \in T PROVE n + 1 \in T
    <2> SUFFICES ASSUME n + 1 \in 0 .. 7, NEW x \in f[n + 1]
                 PROVE x \in start \/ \E q \in f[n + 1] : x \in leads[q]
      OBVIOUS
    <2>1. n \in 0 .. 6 /\ n \in 0 .. 7
      OBVIOUS
    <2>2. f[n + 1] = Grown(leads, f[n])
      BY <1>1, <2>1
    <2>3. f[n] \subseteq f[n + 1]
      BY <2>2 DEF Grown
    <2>4. CASE x \in f[n]
      BY <1>3, <2>1, <2>3, <2>4
    <2>5. CASE x \notin f[n]
      <3>1. PICK q \in f[n] : x \in leads[q]
        BY <2>2, <2>5 DEF Grown
      <3> QED  BY <2>3, <3>1
    <2> QED  BY <2>4, <2>5
  <1> HIDE DEF T
  <1>4. Nat \subseteq T
    BY <1>2, <1>3, SetInduction
  <1>5. 7 \in T
    BY <1>4
  <1> QED  BY <1>1, <1>5 DEF T

(* If every step leads to a higher level, and no level is above 6, nothing *)
(* is left to reach.                                                       *)
LEMMA ClosureComplete ==
    ASSUME NEW R, NEW leads, NEW start, Leads(R, leads, start),
           NEW level, \A q \in R : level[q] \in 0 .. 6,
           \A q \in R : \A r \in leads[q] : level[q] < level[r],
           NEW q \in Closure(leads, start)
    PROVE  leads[q] \subseteq Closure(leads, start)
  <1>1. PICK f : /\ f[0] = start
                 /\ \A n \in 0 .. 6 : f[n + 1] = Grown(leads, f[n])
                 /\ Closure(leads, start) = f[7]
    BY ClosureLoop
  <1>a. start \subseteq R /\ \A x \in R : leads[x] \subseteq R
    BY DEF Leads
  <1> DEFINE Young(n) == \A x \in f[n + 1] \ f[n] : level[x] \in Nat /\ level[x] > n
             T == {n \in Nat : n \in 0 .. 6 => f[n] \subseteq R /\ Young(n)}
  <1>2. 0 \in T
    <2>1. f[1] = Grown(leads, start)
      BY <1>1
    <2> SUFFICES ASSUME NEW x \in f[1] \ f[0] PROVE level[x] \in Nat /\ level[x] > 0
      BY <1>1, <1>a
    <2>2. PICK y \in start : x \in leads[y]
      BY <1>1, <2>1 DEF Grown
    <2>3. level[y] \in 0 .. 6 /\ level[x] \in 0 .. 6 /\ level[y] < level[x]
      BY <1>a, <2>2
    <2> QED  BY <2>3
  <1>3. ASSUME NEW n \in Nat, n \in T PROVE n + 1 \in T
    <2> SUFFICES ASSUME n + 1 \in 0 .. 6 PROVE f[n + 1] \subseteq R /\ Young(n + 1)
      OBVIOUS
    <2>1. n \in 0 .. 6 /\ (n + 1) + 1 = n + 2
      OBVIOUS
    <2>2. f[n + 1] = Grown(leads, f[n]) /\ f[(n + 1) + 1] = Grown(leads, f[n + 1])
      BY <1>1, <2>1
    <2>3. f[n] \subseteq R /\ Young(n)
      BY <1>3, <2>1
    <2>4. f[n + 1] \subseteq R
      BY <1>a, <2>2, <2>3 DEF Grown
    <2>5. ASSUME NEW x \in f[(n + 1) + 1] \ f[n + 1] PROVE level[x] \in Nat /\ level[x] > n + 1
      <3>1. PICK y \in f[n + 1] : x \in leads[y]
        BY <2>2, <2>5 DEF Grown
      <3>2. y \notin f[n]
        BY <2>2, <2>5, <3>1 DEF Grown
      <3>3. level[y] \in Nat /\ level[y] > n
        BY <2>3, <3>1, <3>2
      <3>4. level[x] \in 0 .. 6 /\ level[y] < level[x]
        BY <1>a, <2>4, <3>1
      <3> QED  BY <3>3, <3>4
    <2> QED  BY <2>4, <2>5
  <1> HIDE DEF T
  <1>4. Nat \subseteq T
    BY <1>2, <1>3, SetInduction
  <1>5. f[6] \subseteq R /\ Young(6)
    <2>1. 6 \in T
      BY <1>4
    <2> QED  BY <2>1 DEF T
  <1>6. f[7] = Grown(leads, f[6])
    <2>1. 6 \in 0 .. 6 /\ 6 + 1 = 7
      OBVIOUS
    <2> QED  BY <1>1, <2>1
  <1>7. f[7] \subseteq R
    BY <1>a, <1>5, <1>6 DEF Grown
  <1>8. f[7] \subseteq f[6]
    <2> SUFFICES ASSUME NEW x \in f[7], x \notin f[6] PROVE FALSE
      OBVIOUS
    <2>1. 6 + 1 = 7
      OBVIOUS
    <2>2. level[x] > 6
      BY <1>5, <2>1
    <2>3. level[x] \in 0 .. 6
      BY <1>7
    <2> QED  BY <2>2, <2>3
  <1> QED  BY <1>1, <1>6, <1>8 DEF Grown

(* Two steps from the start.                                               *)
LEMMA ClosureNear ==
    ASSUME NEW leads, NEW start
    PROVE  \A q \in start : \A r \in leads[q] :
               /\ r \in Closure(leads, start)
               /\ leads[r] \subseteq Closure(leads, start)
  <1>1. PICK f : /\ f[0] = start
                 /\ \A n \in 0 .. 6 : f[n + 1] = Grown(leads, f[n])
                 /\ Closure(leads, start) = f[7]
    BY ClosureLoop
  <1>2. \A n \in 0 .. 6 : f[n] \subseteq f[n + 1]
    BY <1>1 DEF Grown
  <1>3. f[2] \subseteq f[7]
    <2>1. f[2] \subseteq f[3] /\ f[3] \subseteq f[4]
      BY <1>2
    <2>2. f[4] \subseteq f[5] /\ f[5] \subseteq f[6]
      BY <1>2
    <2>3. f[6] \subseteq f[7]
      BY <1>2
    <2> QED  BY <2>1, <2>2, <2>3
  <1>4. f[1] = Grown(leads, start) /\ f[2] = Grown(leads, f[1])
    BY <1>1
  <1> QED  BY <1>1, <1>3, <1>4 DEF Grown
-----------------------------------------------------------------------------
(* The tables: a row refers to rows of a lower level.                      *)

TableNames ==
    {"Admin", "Contest", "Announcement", "User", "Team", "Participation", "Message",
     "Question", "PrintJob", "Task", "Statement", "Attachment", "Dataset", "Manager",
     "Testcase", "Submission", "File", "Token", "SubmissionResult", "Executable",
     "Evaluation", "UserTest", "UserTestFile", "UserTestManager", "UserTestResult",
     "UserTestExecutable", "Batch", "Match", "MatchResult", "Matching"}

Level ==
    [Admin |-> 0, Contest |-> 0, Announcement |-> 1, User |-> 0, Team |-> 0,
     Participation |-> 1, Message |-> 2, Question |-> 2, PrintJob |-> 2, Task |-> 1,
     Statement |-> 2, Attachment |-> 2, Dataset |-> 2, Manager |-> 3, Testcase |-> 3,
     Submission |-> 2, File |-> 3, Token |-> 3, SubmissionResult |-> 3,
     Executable |-> 4, Evaluation |-> 4, UserTest |-> 2, UserTestFile |-> 3,
     UserTestManager |-> 3, UserTestResult |-> 3, UserTestExecutable |-> 4, Batch |-> 2,
     Match |-> 4, MatchResult |-> 5, Matching |-> 6]

LEMMA TablesAre ==
    /\ DOMAIN Tables = TableNames /\ DOMAIN Level = TableNames
    /\ \A T \in TableNames : Level[T] \in 0 .. 6
    /\ Tables["Admin"] = Admin /\ Level["Admin"] = 0
    /\ Tables["Contest"] = Contest /\ Level["Contest"] = 0
    /\ Tables["Announcement"] = Announcement /\ Level["Announcement"] = 1
    /\ Tables["User"] = User /\ Level["User"] = 0
    /\ Tables["Team"] = Team /\ Level["Team"] = 0
    /\ Tables["Participation"] = Participation /\ Level["Participation"] = 1
    /\ Tables["Message"] = Message /\ Level["Message"] = 2
    /\ Tables["Question"] = Question /\ Level["Question"] = 2
    /\ Tables["PrintJob"] = PrintJob /\ Level["PrintJob"] = 2
    /\ Tables["Task"] = Task /\ Level["Task"] = 1
    /\ Tables["Statement"] = Statement /\ Level["Statement"] = 2
    /\ Tables["Attachment"] = Attachment /\ Level["Attachment"] = 2
    /\ Tables["Dataset"] = Dataset /\ Level["Dataset"] = 2
    /\ Tables["Manager"] = Manager /\ Level["Manager"] = 3
    /\ Tables["Testcase"] = Testcase /\ Level["Testcase"] = 3
    /\ Tables["Submission"] = Submission /\ Level["Submission"] = 2
    /\ Tables["File"] = File /\ Level["File"] = 3
    /\ Tables["Token"] = Token /\ Level["Token"] = 3
    /\ Tables["SubmissionResult"] = SubmissionResult /\ Level["SubmissionResult"] = 3
    /\ Tables["Executable"] = Executable /\ Level["Executable"] = 4
    /\ Tables["Evaluation"] = Evaluation /\ Level["Evaluation"] = 4
    /\ Tables["UserTest"] = UserTest /\ Level["UserTest"] = 2
    /\ Tables["UserTestFile"] = UserTestFile /\ Level["UserTestFile"] = 3
    /\ Tables["UserTestManager"] = UserTestManager /\ Level["UserTestManager"] = 3
    /\ Tables["UserTestResult"] = UserTestResult /\ Level["UserTestResult"] = 3
    /\ Tables["UserTestExecutable"] = UserTestExecutable /\ Level["UserTestExecutable"] = 4
    /\ Tables["Batch"] = Batch /\ Level["Batch"] = 2
    /\ Tables["Match"] = Match /\ Level["Match"] = 4
    /\ Tables["MatchResult"] = MatchResult /\ Level["MatchResult"] = 5
    /\ Tables["Matching"] = Matching /\ Level["Matching"] = 6
  <1>1. DOMAIN Tables = TableNames /\ DOMAIN Level = TableNames
    BY DEF Tables, Level, TableNames
  <1>2. \A T \in TableNames : Level[T] \in 0 .. 6
    BY DEF Level, TableNames
  <1>t0. Tables["Admin"] = Admin /\ Level["Admin"] = 0
    BY DEF Tables, Level
  <1>t1. Tables["Contest"] = Contest /\ Level["Contest"] = 0
    BY DEF Tables, Level
  <1>t2. Tables["Announcement"] = Announcement /\ Level["Announcement"] = 1
    BY DEF Tables, Level
  <1>t3. Tables["User"] = User /\ Level["User"] = 0
    BY DEF Tables, Level
  <1>t4. Tables["Team"] = Team /\ Level["Team"] = 0
    BY DEF Tables, Level
  <1>t5. Tables["Participation"] = Participation /\ Level["Participation"] = 1
    BY DEF Tables, Level
  <1>t6. Tables["Message"] = Message /\ Level["Message"] = 2
    BY DEF Tables, Level
  <1>t7. Tables["Question"] = Question /\ Level["Question"] = 2
    BY DEF Tables, Level
  <1>t8. Tables["PrintJob"] = PrintJob /\ Level["PrintJob"] = 2
    BY DEF Tables, Level
  <1>t9. Tables["Task"] = Task /\ Level["Task"] = 1
    BY DEF Tables, Level
  <1>t10. Tables["Statement"] = Statement /\ Level["Statement"] = 2
    BY DEF Tables, Level
  <1>t11. Tables["Attachment"] = Attachment /\ Level["Attachment"] = 2
    BY DEF Tables, Level
  <1>t12. Tables["Dataset"] = Dataset /\ Level["Dataset"] = 2
    BY DEF Tables, Level
  <1>t13. Tables["Manager"] = Manager /\ Level["Manager"] = 3
    BY DEF Tables, Level
  <1>t14. Tables["Testcase"] = Testcase /\ Level["Testcase"] = 3
    BY DEF Tables, Level
  <1>t15. Tables["Submission"] = Submission /\ Level["Submission"] = 2
    BY DEF Tables, Level
  <1>t16. Tables["File"] = File /\ Level["File"] = 3
    BY DEF Tables, Level
  <1>t17. Tables["Token"] = Token /\ Level["Token"] = 3
    BY DEF Tables, Level
  <1>t18. Tables["SubmissionResult"] = SubmissionResult /\ Level["SubmissionResult"] = 3
    BY DEF Tables, Level
  <1>t19. Tables["Executable"] = Executable /\ Level["Executable"] = 4
    BY DEF Tables, Level
  <1>t20. Tables["Evaluation"] = Evaluation /\ Level["Evaluation"] = 4
    BY DEF Tables, Level
  <1>t21. Tables["UserTest"] = UserTest /\ Level["UserTest"] = 2
    BY DEF Tables, Level
  <1>t22. Tables["UserTestFile"] = UserTestFile /\ Level["UserTestFile"] = 3
    BY DEF Tables, Level
  <1>t23. Tables["UserTestManager"] = UserTestManager /\ Level["UserTestManager"] = 3
    BY DEF Tables, Level
  <1>t24. Tables["UserTestResult"] = UserTestResult /\ Level["UserTestResult"] = 3
    BY DEF Tables, Level
  <1>t25. Tables["UserTestExecutable"] = UserTestExecutable /\ Level["UserTestExecutable"] = 4
    BY DEF Tables, Level
  <1>t26. Tables["Batch"] = Batch /\ Level["Batch"] = 2
    BY DEF Tables, Level
  <1>t27. Tables["Match"] = Match /\ Level["Match"] = 4
    BY DEF Tables, Level
  <1>t28. Tables["MatchResult"] = MatchResult /\ Level["MatchResult"] = 5
    BY DEF Tables, Level
  <1>t29. Tables["Matching"] = Matching /\ Level["Matching"] = 6
    BY DEF Tables, Level
  <1> QED  BY <1>1, <1>2,
        <1>t0, <1>t1, <1>t2, <1>t3, <1>t4, <1>t5, <1>t6, <1>t7, <1>t8, <1>t9, <1>t10,
        <1>t11, <1>t12, <1>t13, <1>t14, <1>t15, <1>t16, <1>t17, <1>t18, <1>t19, <1>t20,
        <1>t21, <1>t22, <1>t23, <1>t24, <1>t25, <1>t26, <1>t27, <1>t28, <1>t29

KeyFact(T, k) ==
    /\ k.table \in TableNames /\ k.table # "Statement"
    /\ k.ondelete = "CASCADE" => Level[k.table] < Level[T]
    /\ k.ondelete # "CASCADE" /\ (k.ondelete = "RESTRICT" \/ k.null = "NOT_NULL") =>
          \/ T = "Participation" /\ k.table = "Team"
          \/ T = "Task" /\ k.column = "active_dataset" /\ k.table = "Dataset"
    /\ k.ondelete # "CASCADE" /\ k.ondelete # "RESTRICT" /\ k.null # "NOT_NULL" =>
          k.null = "NULL" /\ k.table = "Admin" /\ T \in {"Announcement", "Message", "Question"}

(* A key is known by its column.                                           *)
LEMMA KeysFactual ==
    ASSUME NEW T \in TableNames
    PROVE  /\ \A k \in Tables[T].keys : KeyFact(T, k)
           /\ \A k, j \in Tables[T].keys : k.column = j.column => k = j
           /\ \A S \in Tables[T].collections : S \in TableNames /\ Level[T] < Level[S]
  <1>1. CASE T = "Admin"
    BY <1>1, TablesAre DEF KeyFact, Admin, Table, Part, Key, TableNames
  <1>2. CASE T = "Contest"
    BY <1>2, TablesAre DEF KeyFact, Contest, Table, Part, Key, TableNames
  <1>3. CASE T = "Announcement"
    BY <1>3, TablesAre DEF KeyFact, Announcement, Table, Part, Key, TableNames
  <1>4. CASE T = "User"
    BY <1>4, TablesAre DEF KeyFact, User, Table, Part, Key, TableNames
  <1>5. CASE T = "Team"
    BY <1>5, TablesAre DEF KeyFact, Team, Table, Part, Key, TableNames
  <1>6. CASE T = "Participation"
    BY <1>6, TablesAre DEF KeyFact, Participation, Table, Part, Key, TableNames
  <1>7. CASE T = "Message"
    BY <1>7, TablesAre DEF KeyFact, Message, Table, Part, Key, TableNames
  <1>8. CASE T = "Question"
    BY <1>8, TablesAre DEF KeyFact, Question, Table, Part, Key, TableNames
  <1>9. CASE T = "PrintJob"
    BY <1>9, TablesAre DEF KeyFact, PrintJob, Table, Part, Key, TableNames
  <1>10. CASE T = "Task"
    BY <1>10, TablesAre DEF KeyFact, Task, Table, Part, Key, TableNames
  <1>11. CASE T = "Statement"
    BY <1>11, TablesAre DEF KeyFact, Statement, Table, Part, Key, TableNames
  <1>12. CASE T = "Attachment"
    BY <1>12, TablesAre DEF KeyFact, Attachment, Table, Part, Key, TableNames
  <1>13. CASE T = "Dataset"
    BY <1>13, TablesAre DEF KeyFact, Dataset, Table, Part, Key, TableNames
  <1>14. CASE T = "Manager"
    BY <1>14, TablesAre DEF KeyFact, Manager, Table, Part, Key, TableNames
  <1>15. CASE T = "Testcase"
    BY <1>15, TablesAre DEF KeyFact, Testcase, Table, Part, Key, TableNames
  <1>16. CASE T = "Submission"
    BY <1>16, TablesAre DEF KeyFact, Submission, Table, Part, Key, TableNames
  <1>17. CASE T = "File"
    BY <1>17, TablesAre DEF KeyFact, File, Table, Part, Key, TableNames
  <1>18. CASE T = "Token"
    BY <1>18, TablesAre DEF KeyFact, Token, Table, Part, Key, TableNames
  <1>19. CASE T = "SubmissionResult"
    BY <1>19, TablesAre DEF KeyFact, SubmissionResult, Table, Part, Key, TableNames
  <1>20. CASE T = "Executable"
    BY <1>20, TablesAre DEF KeyFact, Executable, Table, Part, Key, TableNames
  <1>21. CASE T = "Evaluation"
    BY <1>21, TablesAre DEF KeyFact, Evaluation, Table, Part, Key, TableNames
  <1>22. CASE T = "UserTest"
    BY <1>22, TablesAre DEF KeyFact, UserTest, Table, Part, Key, TableNames
  <1>23. CASE T = "UserTestFile"
    BY <1>23, TablesAre DEF KeyFact, UserTestFile, Table, Part, Key, TableNames
  <1>24. CASE T = "UserTestManager"
    BY <1>24, TablesAre DEF KeyFact, UserTestManager, Table, Part, Key, TableNames
  <1>25. CASE T = "UserTestResult"
    BY <1>25, TablesAre DEF KeyFact, UserTestResult, Table, Part, Key, TableNames
  <1>26. CASE T = "UserTestExecutable"
    BY <1>26, TablesAre DEF KeyFact, UserTestExecutable, Table, Part, Key, TableNames
  <1>27. CASE T = "Batch"
    BY <1>27, TablesAre DEF KeyFact, Batch, Table, Part, Key, TableNames
  <1>28. CASE T = "Match"
    BY <1>28, TablesAre DEF KeyFact, Match, Table, Part, Key, TableNames
  <1>29. CASE T = "MatchResult"
    BY <1>29, TablesAre DEF KeyFact, MatchResult, Table, Part, Key, TableNames
  <1>30. CASE T = "Matching"
    BY <1>30, TablesAre DEF KeyFact, Matching, Table, Part, Key, TableNames
  <1> QED  BY TablesAre,
        <1>1, <1>2, <1>3, <1>4, <1>5, <1>6, <1>7, <1>8, <1>9, <1>10, <1>11, <1>12,
        <1>13, <1>14, <1>15, <1>16, <1>17, <1>18, <1>19, <1>20, <1>21, <1>22, <1>23,
        <1>24, <1>25, <1>26, <1>27, <1>28, <1>29, <1>30
        DEF TableNames
-----------------------------------------------------------------------------
(* Rows.                                                                   *)

Fields == {"table", "id", "ref", "digests", "num", "data"}

ColumnsOf(T) == {k.column : k \in Tables[T].keys}

ARow(t, i, f, g, n, d) ==
    [table |-> t, id |-> i, ref |-> f, digests |-> g, num |-> n, data |-> d]

LEMMA ARowFields ==
    ASSUME NEW t, NEW i, NEW f, NEW g, NEW n, NEW d, NEW r, r = ARow(t, i, f, g, n, d)
    PROVE  /\ r.table = t /\ r.id = i /\ r.ref = f /\ r.digests = g /\ r.num = n /\ r.data = d
           /\ r = [x \in Fields |-> r[x]]
  BY DEF ARow, Fields

LEMMA ARowIsRow ==
    ASSUME NEW t \in TableNames, NEW i \in Seq(STRING), NEW f, f = [c \in ColumnsOf(t) |-> f[c]],
           NEW g, g # {} => t \in FileTables, NEW n, NEW d
    PROVE  IsRow(ARow(t, i, f, g, n, d))
  <1> DEFINE r == ARow(t, i, f, g, n, d)
  <1>1. /\ r.table = t /\ r.id = i /\ r.ref = f /\ r.digests = g
        /\ r = [x \in Fields |-> r[x]]
    BY ARowFields
  <1>2. DOMAIN Tables = TableNames
    BY TablesAre
  <1> HIDE DEF r
  <1>3. IsRow(r)
    BY <1>1, <1>2 DEF IsRow, Fields, ColumnsOf, Keys
  <1> QED  BY <1>3 DEF r

LEMMA RowIs ==
    ASSUME NEW r, IsRow(r)
    PROVE  /\ r = ARow(r.table, r.id, r.ref, r.digests, r.num, r.data)
           /\ DOMAIN r = Fields
           /\ r.table \in TableNames /\ r.id \in Seq(STRING)
           /\ DOMAIN r.ref = ColumnsOf(r.table)
           /\ r.ref = [c \in ColumnsOf(r.table) |-> r.ref[c]]
           /\ r.digests # {} => r.table \in FileTables
  <1>1. r = [x \in Fields |-> r[x]]
    BY DEF IsRow, Fields
  <1>2. r = ARow(r.table, r.id, r.ref, r.digests, r.num, r.data)
    BY <1>1 DEF ARow, Fields
  <1>3. DOMAIN r = Fields
    BY <1>1
  <1>4. r.ref = [c \in ColumnsOf(r.table) |-> r.ref[c]]
    BY DEF IsRow, ColumnsOf, Keys
  <1>5. DOMAIN r.ref = ColumnsOf(r.table)
    BY <1>4
  <1>6. r.table \in TableNames
    BY TablesAre DEF IsRow
  <1> QED  BY <1>2, <1>3, <1>4, <1>5, <1>6 DEF IsRow

(* What the statements that change a row leave.                            *)
LEMMA NumChanged ==
    ASSUME NEW r, IsRow(r), NEW n
    PROVE  [r EXCEPT !.num = n] = ARow(r.table, r.id, r.ref, r.digests, n, r.data)
  <1>1. r = ARow(r.table, r.id, r.ref, r.digests, r.num, r.data)
    BY RowIs
  <1> QED  BY <1>1 DEF ARow

LEMMA DataChanged ==
    ASSUME NEW r, IsRow(r), NEW d
    PROVE  [r EXCEPT !.data = d] = ARow(r.table, r.id, r.ref, r.digests, r.num, d)
  <1>1. r = ARow(r.table, r.id, r.ref, r.digests, r.num, r.data)
    BY RowIs
  <1> QED  BY <1>1 DEF ARow

LEMMA RefChanged ==
    ASSUME NEW r, IsRow(r), NEW f
    PROVE  [r EXCEPT !.ref = f] = ARow(r.table, r.id, f, r.digests, r.num, r.data)
  <1>1. r = ARow(r.table, r.id, r.ref, r.digests, r.num, r.data)
    BY RowIs
  <1> QED  BY <1>1 DEF ARow

(* The same row, but for its number and its descriptive columns.           *)
Retouched(r, q) ==
    IsRow(q) /\ q.table = r.table /\ q.id = r.id /\ q.ref = r.ref /\ q.digests = r.digests

(* The same, but for one foreign key.                                      *)
Repointed(r, q, c, v) ==
    /\ IsRow(q) /\ q.table = r.table /\ q.id = r.id /\ q.digests = r.digests
    /\ q.ref = [r.ref EXCEPT ![c] = v]

LEMMA RetouchedRow ==
    ASSUME NEW r, IsRow(r), NEW n
    PROVE  /\ Retouched(r, [r EXCEPT !.num = n]) /\ [r EXCEPT !.num = n].num = n
           /\ Retouched(r, [r EXCEPT !.data = n]) /\ [r EXCEPT !.data = n].num = r.num
           /\ Retouched(r, Edited(r)) /\ Edited(r).num = r.num
           /\ Retouched(r, Numbered(r, n)) /\ Numbered(r, n).num = n
           /\ Retouched(r, r)
  <1>1. ASSUME NEW m, NEW d
        PROVE  /\ Retouched(r, ARow(r.table, r.id, r.ref, r.digests, m, d))
               /\ ARow(r.table, r.id, r.ref, r.digests, m, d).num = m
    <2> DEFINE q == ARow(r.table, r.id, r.ref, r.digests, m, d)
    <2>1. IsRow(q)
      BY RowIs, ARowIsRow
    <2>2. /\ q.table = r.table /\ q.id = r.id /\ q.ref = r.ref
          /\ q.digests = r.digests /\ q.num = m
      BY ARowFields
    <2> HIDE DEF q
    <2>3. Retouched(r, q) /\ q.num = m
      BY <2>1, <2>2 DEF Retouched
    <2> QED  BY <2>3 DEF q
  <1>2. Retouched(r, [r EXCEPT !.num = n]) /\ [r EXCEPT !.num = n].num = n
    BY <1>1, NumChanged
  <1>3. ASSUME NEW d PROVE Retouched(r, [r EXCEPT !.data = d]) /\ [r EXCEPT !.data = d].num = r.num
    BY <1>1, DataChanged
  <1>4. Edited(r) = [r EXCEPT !.data = 1 - r.data]
    BY DEF Edited
  <1>5. Retouched(r, Edited(r)) /\ Edited(r).num = r.num
    BY <1>3, <1>4
  <1> QED  BY <1>2, <1>3, <1>5 DEF Numbered, Retouched

LEMMA RepointedRow ==
    ASSUME NEW r, IsRow(r), NEW c \in ColumnsOf(r.table), NEW v, NEW n, NEW d
    PROVE  LET q == ARow(r.table, r.id, [r.ref EXCEPT ![c] = v], r.digests, n, d)
           IN  Repointed(r, q, c, v)
  <1> DEFINE f == [r.ref EXCEPT ![c] = v]
             q == ARow(r.table, r.id, f, r.digests, n, d)
  <1>1. r.ref = [x \in ColumnsOf(r.table) |-> r.ref[x]]
    BY RowIs
  <1>2. f = [x \in ColumnsOf(r.table) |-> f[x]]
    BY <1>1
  <1> HIDE DEF f
  <1>3. IsRow(q)
    BY <1>2, RowIs, ARowIsRow
  <1>4. q.table = r.table /\ q.id = r.id /\ q.ref = f /\ q.digests = r.digests
    BY ARowFields
  <1> HIDE DEF q
  <1>5. Repointed(r, q, c, v)
    BY <1>3, <1>4 DEF Repointed, f
  <1> QED  BY <1>5 DEF q, f

(* The statements of the handlers that change a foreign key.               *)
LEMMA ColumnNames ==
    /\ "contest" \in ColumnsOf("Task") /\ "active_dataset" \in ColumnsOf("Task")
    /\ "team" \in ColumnsOf("Participation") /\ "admin" \in ColumnsOf("Question")
  BY TablesAre DEF ColumnsOf, Task, Participation, Question, Table, Part, Key

LEMMA TaskMoved ==
    ASSUME NEW r, IsRow(r), r.table = "Task", NEW v, NEW n
    PROVE  Repointed(r, Assigned(r, v, n), "contest", v) /\ Assigned(r, v, n).num = n
  <1> DEFINE s == [r EXCEPT !.ref.contest = v]
             q == [s EXCEPT !.num = n]
  <1>1. Assigned(r, v, n) = q
    BY DEF Assigned
  <1>2. r = ARow(r.table, r.id, r.ref, r.digests, r.num, r.data)
    BY RowIs
  <1>3. s = ARow(r.table, r.id, [r.ref EXCEPT !["contest"] = v], r.digests, r.num, r.data)
    BY <1>2 DEF ARow
  <1> HIDE DEF s
  <1>4. q = ARow(r.table, r.id, [r.ref EXCEPT !["contest"] = v], r.digests, n, r.data)
    BY <1>3 DEF ARow
  <1> HIDE DEF q
  <1>5. Repointed(r, q, "contest", v)
    BY <1>4, RepointedRow, ColumnNames
  <1>6. q.num = n
    BY <1>4 DEF ARow
  <1> QED  BY <1>1, <1>5, <1>6

LEMMA TaskActivated ==
    ASSUME NEW r, IsRow(r), r.table = "Task", NEW v
    PROVE  LET q == [r EXCEPT !.ref.active_dataset = v]
           IN  Repointed(r, q, "active_dataset", v) /\ q.num = r.num
  <1> DEFINE q == [r EXCEPT !.ref.active_dataset = v]
  <1>1. r = ARow(r.table, r.id, r.ref, r.digests, r.num, r.data)
    BY RowIs
  <1>2. q = ARow(r.table, r.id, [r.ref EXCEPT !["active_dataset"] = v], r.digests, r.num, r.data)
    BY <1>1 DEF ARow
  <1> HIDE DEF q
  <1>3. Repointed(r, q, "active_dataset", v)
    BY <1>2, RepointedRow, ColumnNames
  <1>4. q.num = r.num
    BY <1>2 DEF ARow
  <1> QED  BY <1>3, <1>4 DEF q

LEMMA ParticipationEdited ==
    ASSUME NEW r, IsRow(r), r.table = "Participation", NEW v
    PROVE  Repointed(r, [Edited(r) EXCEPT !.ref.team = v], "team", v)
  <1> DEFINE s == Edited(r)
             q == [s EXCEPT !.ref.team = v]
  <1>1. r = ARow(r.table, r.id, r.ref, r.digests, r.num, r.data)
    BY RowIs
  <1>2. s = ARow(r.table, r.id, r.ref, r.digests, r.num, 1 - r.data)
    BY <1>1 DEF ARow, Edited
  <1> HIDE DEF s
  <1>3. q = ARow(r.table, r.id, [r.ref EXCEPT !["team"] = v], r.digests, r.num, 1 - r.data)
    BY <1>2 DEF ARow
  <1> HIDE DEF q
  <1>4. Repointed(r, q, "team", v)
    BY <1>3, RepointedRow, ColumnNames
  <1> QED  BY <1>4 DEF q, s

LEMMA QuestionAnswered ==
    ASSUME NEW r, IsRow(r), r.table = "Question", NEW v, NEW n
    PROVE  /\ Repointed(r, [r EXCEPT !.data = 1, !.ref.admin = v], "admin", v)
           /\ Repointed(r, [r EXCEPT !.num = n, !.ref.admin = v], "admin", v)
           /\ Repointed(r, [r EXCEPT !.ref.admin = v], "admin", v)
  <1> DEFINE f == [r.ref EXCEPT !["admin"] = v]
             a == [r EXCEPT !.data = 1]
             b == [r EXCEPT !.num = n]
             x == [a EXCEPT !.ref.admin = v]
             y == [b EXCEPT !.ref.admin = v]
             z == [r EXCEPT !.ref.admin = v]
  <1>1. r = ARow(r.table, r.id, r.ref, r.digests, r.num, r.data)
    BY RowIs
  <1>2. /\ [r EXCEPT !.data = 1, !.ref.admin = v] = x
        /\ [r EXCEPT !.num = n, !.ref.admin = v] = y
    OBVIOUS
  <1>3. a = ARow(r.table, r.id, r.ref, r.digests, r.num, 1)
    BY <1>1 DEF ARow
  <1>b. b = ARow(r.table, r.id, r.ref, r.digests, n, r.data)
    BY <1>1 DEF ARow
  <1>z. z = ARow(r.table, r.id, f, r.digests, r.num, r.data)
    BY <1>1 DEF ARow
  <1> HIDE DEF a, b
  <1>4. x = ARow(r.table, r.id, f, r.digests, r.num, 1)
    BY <1>3 DEF ARow
  <1>y. y = ARow(r.table, r.id, f, r.digests, n, r.data)
    BY <1>b DEF ARow
  <1> HIDE DEF x, y, z
  <1>5. Repointed(r, x, "admin", v) /\ Repointed(r, y, "admin", v) /\ Repointed(r, z, "admin", v)
    BY <1>z, <1>y, <1>4, RepointedRow, ColumnNames
  <1>6. z = [r EXCEPT !.ref.admin = v]
    BY DEF z
  <1> QED  BY <1>2, <1>5, <1>6
-----------------------------------------------------------------------------
(* Databases whose rows are changed in place.                              *)

LEMMA RowFacts ==
    ASSUME NEW r, IsRow(r)
    PROVE  /\ Keys(r) = Tables[r.table].keys
           /\ r.table \in TableNames
           /\ \A k \in Keys(r) : KeyFact(r.table, k) /\ k.column \in DOMAIN r.ref
           /\ \A k, j \in Keys(r) : k.column = j.column => k = j
  <1>1. r.table \in TableNames /\ DOMAIN r.ref = ColumnsOf(r.table)
    BY RowIs
  <1> QED  BY <1>1, KeysFactual DEF Keys, ColumnsOf

Reshaped(db, db2, f) ==
    /\ db2 = {f[r] : r \in db}
    /\ \A r \in db : /\ IsRow(f[r]) /\ f[r].table = r.table /\ f[r].id = r.id
                     /\ f[r].digests = r.digests

Pointing(db, r, k) ==
    \/ r.ref[k.column] = Null /\ (k.null = "NULL" \/ k.ondelete = "SET_NULL")
    \/ \E q \in db : Refers(r, k, q)

OwnDataset(db, t) ==
    /\ t.ref.active_dataset # Null
    /\ \E d \in Get(db, "Dataset") : d.id = t.ref.active_dataset /\ d.ref.task = t.id

JudgedTables == {"Dataset", "Testcase", "SubmissionResult", "Evaluation"}

LEMMA ReshapedFiles ==
    ASSUME NEW db, NEW db2, NEW f, Reshaped(db, db2, f)
    PROVE  FilesOf(db2) = FilesOf(db)
  <1>1. ASSUME NEW x \in FilesOf(db2) PROVE x \in FilesOf(db)
    <2>1. PICK q \in db2 : x \in q.digests
      BY DEF FilesOf
    <2>2. PICK r \in db : q = f[r]
      BY DEF Reshaped
    <2>3. x \in r.digests
      BY <2>1, <2>2 DEF Reshaped
    <2> QED  BY <2>3 DEF FilesOf
  <1>2. ASSUME NEW x \in FilesOf(db) PROVE x \in FilesOf(db2)
    <2>1. PICK r \in db : x \in r.digests
      BY DEF FilesOf
    <2>2. f[r] \in db2 /\ x \in f[r].digests
      BY <2>1 DEF Reshaped
    <2> QED  BY <2>2 DEF FilesOf
  <1> QED  BY <1>1, <1>2

LEMMA ReshapedUnique ==
    ASSUME NEW db, NEW db2, NEW f, Reshaped(db, db2, f), UniqueIds(db),
           IsFiniteSet(Get(db, "Task"))
    PROVE  /\ UniqueIds(db2) /\ IsFiniteSet(Get(db2, "Task"))
           /\ \A r \in db2 : IsRow(r)
           /\ \A r, q \in db : f[r] = f[q] => r = q
  <1>1. \A r \in db2 : IsRow(r)
    BY DEF Reshaped
  <1>2. ASSUME NEW r \in db, NEW q \in db, f[r].table = f[q].table, f[r].id = f[q].id
        PROVE  r = q
    BY <1>2 DEF Reshaped, UniqueIds
  <1>3. UniqueIds(db2)
    <2> SUFFICES ASSUME NEW x \in db2, NEW y \in db2, x.table = y.table, x.id = y.id
                 PROVE  x = y
      BY DEF UniqueIds
    <2>1. PICK r \in db, q \in db : x = f[r] /\ y = f[q]
      BY DEF Reshaped
    <2> QED  BY <1>2, <2>1
  <1> DEFINE S == Get(db, "Task")
             g == [t \in S |-> f[t]]
  <1>4. g \in Surjection(S, Get(db2, "Task"))
    <2>1. \A t \in S : f[t] \in Get(db2, "Task")
      BY DEF Reshaped, Get
    <2>2. \A u \in Get(db2, "Task") : \E t \in S : f[t] = u
      BY DEF Reshaped, Get
    <2> HIDE DEF S
    <2> QED  BY <2>1, <2>2 DEF Surjection
  <1>5. IsFiniteSet(Get(db2, "Task"))
    <2> HIDE DEF g
    <2> QED  BY <1>4, FS_Surjection
  <1> QED  BY <1>1, <1>2, <1>3, <1>5

(* Keys may be changed to refer to other rows, but not those of what is    *)
(* judged, and a task may get another dataset of its own.                  *)
LEMMA ReshapedConsistent ==
    ASSUME NEW db, NEW db2, NEW f, Reshaped(db, db2, f), IsConsistent(db),
           \A r \in db : \A k \in Keys(r) :
               f[r].ref[k.column] = r.ref[k.column] \/ Pointing(db, f[r], k),
           \A r \in db : r.table \in JudgedTables => f[r].ref = r.ref,
           \A t \in Get(db, "Task") : OwnDataset(db, f[t])
    PROVE  IsConsistent(db2) /\ FilesOf(db2) = FilesOf(db)
  <1>1. /\ UniqueIds(db2) /\ IsFiniteSet(Get(db2, "Task"))
        /\ \A r \in db2 : IsRow(r)
    BY ReshapedUnique DEF IsConsistent
  <1>2. ReferencesHold(db2)
    <2> SUFFICES ASSUME NEW r2 \in db2, NEW k \in Keys(r2) PROVE Pointing(db2, r2, k)
      BY DEF ReferencesHold, Pointing
    <2>1. PICK r \in db : r2 = f[r]
      BY DEF Reshaped
    <2>2. r2.table = r.table /\ k \in Keys(r)
      BY <2>1 DEF Reshaped, Keys
    <2>3. ASSUME NEW q \in db, Refers(r2, k, q) PROVE Refers(r2, k, f[q]) /\ f[q] \in db2
      BY <2>3 DEF Refers, Reshaped
    <2>4. CASE Pointing(db, r2, k)
      BY <2>3, <2>4 DEF Pointing
    <2>5. CASE r2.ref[k.column] = r.ref[k.column]
      <3>1. Pointing(db, r, k)
        BY <2>2 DEF IsConsistent, ReferencesHold, Pointing
      <3>2. Pointing(db, r2, k)
        BY <2>5, <3>1 DEF Pointing, Refers
      <3> QED  BY <2>4, <3>2
    <2> QED  BY <2>1, <2>2, <2>4, <2>5
  <1>3. ActiveDatasets(db2)
    <2> SUFFICES ASSUME NEW t2 \in Get(db2, "Task") PROVE OwnDataset(db2, t2)
      BY DEF ActiveDatasets, OwnDataset
    <2>1. PICK t \in Get(db, "Task") : t2 = f[t]
      BY DEF Reshaped, Get
    <2>2. OwnDataset(db, t2)
      BY <2>1
    <2>3. PICK d \in Get(db, "Dataset") : d.id = t2.ref.active_dataset /\ d.ref.task = t2.id
      BY <2>2 DEF OwnDataset
    <2>4. f[d] \in Get(db2, "Dataset") /\ f[d].id = d.id /\ f[d].ref = d.ref
      BY DEF Reshaped, Get, JudgedTables
    <2> QED  BY <2>2, <2>3, <2>4 DEF OwnDataset
  <1>4. EvaluationsFit(db2)
    <2> SUFFICES ASSUME NEW e2 \in Get(db2, "Evaluation")
                 PROVE  /\ \E t \in Get(db2, "Testcase") :
                              t.id = e2.ref.testcase /\ t.ref.dataset = e2.ref.dataset
                        /\ \E r \in Get(db2, "SubmissionResult") :
                              r.id = e2.ref.submission_result /\ r.ref.dataset = e2.ref.dataset
      BY DEF EvaluationsFit
    <2>1. PICK e \in Get(db, "Evaluation") : e2 = f[e]
      BY DEF Reshaped, Get
    <2>2. e2.ref = e.ref
      BY <2>1 DEF Get, JudgedTables
    <2>3. PICK t \in Get(db, "Testcase") : t.id = e.ref.testcase /\ t.ref.dataset = e.ref.dataset
      BY DEF IsConsistent, EvaluationsFit
    <2>4. PICK r \in Get(db, "SubmissionResult") :
              r.id = e.ref.submission_result /\ r.ref.dataset = e.ref.dataset
      BY DEF IsConsistent, EvaluationsFit
    <2>5. f[t] \in Get(db2, "Testcase") /\ f[t].id = t.id /\ f[t].ref = t.ref
      BY DEF Reshaped, Get, JudgedTables
    <2>6. f[r] \in Get(db2, "SubmissionResult") /\ f[r].id = r.id /\ f[r].ref = r.ref
      BY DEF Reshaped, Get, JudgedTables
    <2> QED  BY <2>2, <2>3, <2>4, <2>5, <2>6
  <1> QED  BY <1>1, <1>2, <1>3, <1>4, ReshapedFiles DEF IsConsistent

(* Numbers and descriptive columns change nothing of this.                 *)
LEMMA RetouchedConsistent ==
    ASSUME NEW db, NEW db2, NEW f, IsConsistent(db), db2 = {f[r] : r \in db},
           \A r \in db : Retouched(r, f[r])
    PROVE  /\ IsConsistent(db2) /\ FilesOf(db2) = FilesOf(db) /\ Reshaped(db, db2, f)
           /\ \A r, q \in db : f[r] = f[q] => r = q
  <1>1. Reshaped(db, db2, f)
    BY DEF Reshaped, Retouched
  <1>2. \A r \in db : f[r].ref = r.ref /\ f[r].id = r.id
    BY DEF Retouched
  <1>3. \A r \in db : \A k \in Keys(r) : f[r].ref[k.column] = r.ref[k.column]
    BY <1>2
  <1>4. ASSUME NEW t \in Get(db, "Task") PROVE OwnDataset(db, f[t])
    <2>1. OwnDataset(db, t)
      BY DEF IsConsistent, ActiveDatasets, OwnDataset
    <2>2. f[t].ref = t.ref /\ f[t].id = t.id
      BY <1>2 DEF Get
    <2> QED  BY <2>1, <2>2 DEF OwnDataset
  <1>5. IsConsistent(db2) /\ FilesOf(db2) = FilesOf(db)
    BY <1>1, <1>2, <1>3, <1>4, ReshapedConsistent
  <1>6. \A r, q \in db : f[r] = f[q] => r = q
    BY <1>1, ReshapedUnique DEF IsConsistent
  <1> QED  BY <1>1, <1>5, <1>6

Replacing(db, r, q) == [x \in db |-> IF x = r THEN q ELSE x]

LEMMA ReplaceIs ==
    ASSUME NEW db, NEW r \in db, NEW q
    PROVE  Replace(db, r, q) = {Replacing(db, r, q)[x] : x \in db}
  BY DEF Replace, Replacing

LEMMA ReplaceRetouched ==
    ASSUME NEW db, IsConsistent(db), NEW r \in db, NEW q, Retouched(r, q)
    PROVE  /\ IsConsistent(Replace(db, r, q)) /\ FilesOf(Replace(db, r, q)) = FilesOf(db)
           /\ Reshaped(db, Replace(db, r, q), Replacing(db, r, q))
  <1> DEFINE f == Replacing(db, r, q)
  <1>1. \A x \in db : f[x] = IF x = r THEN q ELSE x
    BY DEF Replacing
  <1>2. \A x \in db : Retouched(x, x)
    BY DEF IsConsistent, Retouched
  <1> HIDE DEF f
  <1>3. \A x \in db : Retouched(x, f[x])
    BY <1>1, <1>2
  <1>4. Replace(db, r, q) = {f[x] : x \in db}
    BY ReplaceIs DEF f
  <1> QED  BY <1>3, <1>4, RetouchedConsistent DEF f

(* A row that refers to another one instead.                               *)
LEMMA ReplaceRepointed ==
    ASSUME NEW db, IsConsistent(db), NEW r \in db, NEW q, NEW c, NEW v, Repointed(r, q, c, v),
           r.table \notin JudgedTables,
           \A k \in Keys(r) : k.column = c => Pointing(db, q, k),
           r.table = "Task" => OwnDataset(db, q)
    PROVE  /\ IsConsistent(Replace(db, r, q)) /\ FilesOf(Replace(db, r, q)) = FilesOf(db)
           /\ Reshaped(db, Replace(db, r, q), Replacing(db, r, q))
  <1> DEFINE f == Replacing(db, r, q)
             db2 == Replace(db, r, q)
  <1>1. \A x \in db : f[x] = IF x = r THEN q ELSE x
    BY DEF Replacing
  <1>2. db2 = {f[x] : x \in db}
    BY ReplaceIs
  <1>3. \A x \in db : IsRow(x)
    BY DEF IsConsistent
  <1> HIDE DEF f, db2
  <1>4. Reshaped(db, db2, f)
    BY <1>1, <1>2, <1>3 DEF Reshaped, Repointed
  <1>5. ASSUME NEW x \in db, NEW k \in Keys(x)
        PROVE  f[x].ref[k.column] = x.ref[k.column] \/ Pointing(db, f[x], k)
    <2>1. CASE x # r
      BY <1>1, <2>1
    <2>2. CASE x = r /\ k.column = c
      BY <1>1, <2>2
    <2>3. CASE x = r /\ k.column # c
      <3>1. k.column \in DOMAIN r.ref
        BY <1>3, <2>3, RowFacts
      <3>2. q.ref[k.column] = r.ref[k.column]
        BY <2>3, <3>1 DEF Repointed
      <3> QED  BY <1>1, <2>3, <3>2
    <2> QED  BY <2>1, <2>2, <2>3
  <1>6. \A x \in db : x.table \in JudgedTables => f[x].ref = x.ref
    BY <1>1
  <1>7. ASSUME NEW t \in Get(db, "Task") PROVE OwnDataset(db, f[t])
    <2>1. OwnDataset(db, t) /\ t \in db /\ t.table = "Task"
      BY DEF IsConsistent, ActiveDatasets, OwnDataset, Get
    <2> QED  BY <1>1, <2>1
  <1>8. IsConsistent(db2) /\ FilesOf(db2) = FilesOf(db)
    BY <1>4, <1>5, <1>6, <1>7, ReshapedConsistent
  <1> QED  BY <1>4, <1>8 DEF f, db2

-----------------------------------------------------------------------------
(* Deleting rows.                                                          *)

HasKey(T, c, S, ondelete, null) == Key(c, S, ondelete, null) \in Tables[T].keys

LEMMA SomeKeys ==
    /\ HasKey("Task", "active_dataset", "Dataset", "SET_NULL", "NOT_NULL")
    /\ HasKey("Task", "contest", "Contest", "CASCADE", "NULL")
    /\ HasKey("Evaluation", "testcase", "Testcase", "CASCADE", "NOT_NULL")
    /\ HasKey("Evaluation", "submission_result", "SubmissionResult", "CASCADE", "NOT_NULL")
    /\ HasKey("Evaluation", "dataset", "Dataset", "CASCADE", "NOT_NULL")
    /\ HasKey("Testcase", "dataset", "Dataset", "CASCADE", "NOT_NULL")
    /\ HasKey("SubmissionResult", "dataset", "Dataset", "CASCADE", "NOT_NULL")
    /\ HasKey("Dataset", "task", "Task", "CASCADE", "NOT_NULL")
  BY TablesAre DEF HasKey, Task, Evaluation, Testcase, SubmissionResult, Dataset, Table, Part

LEMMA KeyFields ==
    ASSUME NEW c, NEW S, NEW ondelete, NEW null
    PROVE  /\ Key(c, S, ondelete, null).column = c /\ Key(c, S, ondelete, null).table = S
           /\ Key(c, S, ondelete, null).ondelete = ondelete
           /\ Key(c, S, ondelete, null).null = null
  BY DEF Key

(* What is doomed is all that refers by CASCADE to what is doomed.         *)
LEMMA DoomedFacts ==
    ASSUME NEW db, \A r \in db : IsRow(r), NEW S, S \subseteq db
    PROVE  /\ S \subseteq Doomed(db, S) /\ Doomed(db, S) \subseteq db
           /\ \A q \in Doomed(db, S) : Owned(db, q) \subseteq Doomed(db, S)
           /\ \A r \in Doomed(db, S) : r \in S \/ \E q \in Doomed(db, S) : r \in Owned(db, q)
  <1> DEFINE leads == [q \in db |-> Owned(db, q)]
             level == [q \in db |-> Level[q.table]]
  <1>1. Leads(db, leads, S)
    BY DEF Leads, Owned
  <1>2. \A q \in db : leads[q] = Owned(db, q) /\ level[q] = Level[q.table]
    OBVIOUS
  <1>3. Doomed(db, S) = Closure(leads, S)
    BY DEF Doomed
  <1>4. \A q \in db : level[q] \in 0 .. 6
    BY RowIs, TablesAre
  <1>5. ASSUME NEW q \in db, NEW r \in leads[q] PROVE level[q] < level[r]
    <2>1. r \in db
      BY <1>2 DEF Owned
    <2>2. PICK k \in Keys(r) : k.ondelete = "CASCADE" /\ Refers(r, k, q)
      BY <1>2 DEF Owned
    <2>3. KeyFact(r.table, k)
      BY <2>1, RowFacts
    <2> QED  BY <1>2, <2>1, <2>2, <2>3 DEF KeyFact, Refers
  <1> HIDE DEF leads, level
  <1>6. \A q \in db : leads[q] \subseteq db
    BY <1>2 DEF Owned
  <1>7. S \subseteq Closure(leads, S) /\ Closure(leads, S) \subseteq db
    BY <1>6, ClosureWithin
  <1>8. \A q \in Closure(leads, S) : leads[q] \subseteq Closure(leads, S)
    BY <1>1, <1>4, <1>5, ClosureComplete
  <1>9. \A r \in Closure(leads, S) : r \in S \/ \E q \in Closure(leads, S) : r \in leads[q]
    BY ClosureParents
  <1> QED  BY <1>2, <1>3, <1>7, <1>8, <1>9

(* What the deletion takes away is not below its start.                    *)
LEMMA DoomedAbove ==
    ASSUME NEW db, \A r \in db : IsRow(r), NEW S, S \subseteq db, NEW n \in Nat,
           \A r \in S : Level[r.table] >= n
    PROVE  \A r \in Doomed(db, S) : Level[r.table] >= n
  <1> DEFINE leads == [q \in db |-> Owned(db, q)]
             P == {r \in db : Level[r.table] >= n}
  <1>1. S \subseteq P
    OBVIOUS
  <1>2. ASSUME NEW q \in P, NEW r \in leads[q] PROVE r \in P
    <2>1. q \in db /\ r \in db /\ r \in Owned(db, q)
      BY DEF Owned
    <2>2. PICK k \in Keys(r) : k.ondelete = "CASCADE" /\ Refers(r, k, q)
      BY <2>1 DEF Owned
    <2>3. KeyFact(r.table, k)
      BY <2>1, RowFacts
    <2>4. q.table \in TableNames /\ r.table \in TableNames
      BY <2>1, RowIs
    <2>5. Level[q.table] \in 0 .. 6 /\ Level[r.table] \in 0 .. 6
      BY <2>4, TablesAre
    <2>6. Level[q.table] < Level[r.table]
      BY <2>2, <2>3 DEF KeyFact, Refers
    <2>7. Level[q.table] >= n
      OBVIOUS
    <2> QED  BY <2>1, <2>5, <2>6, <2>7
  <1>3. Closure(leads, S) \subseteq P
    <2> HIDE DEF leads, P
    <2> QED  BY <1>1, <1>2, ClosureWithin
  <1> QED  BY <1>3 DEF Doomed

(* The rows that stay: their keys to what is gone are cleared, and only    *)
(* those to an administrator can be.                                       *)
Answered == {"Announcement", "Message", "Question"}

ClearedRef(gone, r) ==
    [c \in DOMAIN r.ref |->
        IF \E k \in Keys(r), q \in gone : k.column = c /\ Refers(r, k, q)
        THEN Null ELSE r.ref[c]]

Clearing(db, gone) == [r \in db \ gone |-> [r EXCEPT !.ref = ClearedRef(gone, r)]]

LEMMA DeletedIs ==
    ASSUME NEW db, NEW S
    PROVE  Deleted(db, S) = {Clearing(db, Doomed(db, S))[r] : r \in db \ Doomed(db, S)}
  BY DEF Deleted, Clearing, ClearedRef

LEMMA ClearedRows ==
    ASSUME NEW db, IsConsistent(db), NEW S, S \subseteq db, ~Refused(db, S),
           NEW r \in db \ Doomed(db, S)
    PROVE  LET q == Clearing(db, Doomed(db, S))[r]
           IN  /\ IsRow(q) /\ q.table = r.table /\ q.id = r.id /\ q.digests = r.digests
               /\ q.num = r.num /\ q.data = r.data /\ q.ref = ClearedRef(Doomed(db, S), r)
               /\ r.table \notin Answered => q = r
               /\ \A k \in Keys(r) : (\E x \in Doomed(db, S) : Refers(r, k, x)) => k.null = "NULL"
  <1> DEFINE gone == Doomed(db, S)
             q == Clearing(db, gone)[r]
             f == ClearedRef(gone, r)
  <1>1. \A x \in db : IsRow(x)
    BY DEF IsConsistent
  <1>2. q = [r EXCEPT !.ref = f]
    BY DEF Clearing
  <1>3. r.ref = [c \in ColumnsOf(r.table) |-> r.ref[c]] /\ r.table \in TableNames
        /\ DOMAIN r.ref = ColumnsOf(r.table)
    BY <1>1, RowIs
  <1>4. f = [c \in ColumnsOf(r.table) |-> f[c]]
    BY <1>3 DEF ClearedRef
  <1>5. \A k \in Keys(r), x \in gone : Refers(r, k, x) =>
            k.null = "NULL" /\ r.table \in Answered
    <2> SUFFICES ASSUME NEW k \in Keys(r), NEW x \in gone, Refers(r, k, x)
                 PROVE  k.null = "NULL" /\ r.table \in Answered
      OBVIOUS
    <2>1. KeyFact(r.table, k)
      BY <1>1, RowFacts
    <2>2. ~(k.ondelete = "RESTRICT" \/ k.null = "NOT_NULL")
      BY DEF Refused
    <2>3. k.ondelete # "CASCADE"
      <3>1. Owned(db, x) \subseteq gone
        BY <1>1, DoomedFacts
      <3> QED  BY <3>1 DEF Owned
    <2> QED  BY <2>1, <2>2, <2>3 DEF KeyFact, Answered
  <1>6. r.table \notin Answered => f = r.ref
    <2> SUFFICES ASSUME r.table \notin Answered PROVE f = r.ref
      OBVIOUS
    <2>1. ~\E k \in Keys(r), x \in gone : Refers(r, k, x)
      BY <1>5
    <2>2. f = [c \in DOMAIN r.ref |-> r.ref[c]]
      BY <2>1 DEF ClearedRef
    <2> QED  BY <1>3, <2>2
  <1> HIDE DEF f
  <1>7. q = ARow(r.table, r.id, f, r.digests, r.num, r.data)
    BY <1>1, <1>2, RefChanged
  <1>8. r = ARow(r.table, r.id, r.ref, r.digests, r.num, r.data)
    BY <1>1, RowIs
  <1> HIDE DEF q, gone
  <1>9. IsRow(q)
    <2>1. r.id \in Seq(STRING) /\ (r.digests # {} => r.table \in FileTables)
      BY <1>1, RowIs
    <2> QED  BY <1>3, <1>4, <1>7, <2>1, ARowIsRow
  <1>10. /\ q.table = r.table /\ q.id = r.id /\ q.digests = r.digests
         /\ q.num = r.num /\ q.data = r.data /\ q.ref = f
    BY <1>7, ARowFields
  <1>11. r.table \notin Answered => q = r
    BY <1>6, <1>7, <1>8
  <1> QED  BY <1>5, <1>9, <1>10, <1>11 DEF q, gone, f

LEMMA DeletedConsistent ==
    ASSUME NEW db, IsConsistent(db), NEW S, S \subseteq db, ~Refused(db, S)
    PROVE  /\ IsConsistent(Deleted(db, S)) /\ FilesOf(Deleted(db, S)) \subseteq FilesOf(db)
           /\ Reshaped(db \ Doomed(db, S), Deleted(db, S), Clearing(db, Doomed(db, S)))
           /\ \A r \in db \ Doomed(db, S) : r.table \notin Answered => r \in Deleted(db, S)
           /\ \A r \in Deleted(db, S) : r.table \notin Answered => r \in db \ Doomed(db, S)
  <1> DEFINE gone == Doomed(db, S)
             db1 == db \ gone
             f == Clearing(db, gone)
             db2 == Deleted(db, S)
  <1>1. db2 = {f[r] : r \in db1}
    BY DeletedIs
  <1>2. \A r \in db1 :
           /\ IsRow(f[r]) /\ f[r].table = r.table /\ f[r].id = r.id /\ f[r].digests = r.digests
           /\ f[r].ref = ClearedRef(gone, r)
           /\ r.table \notin Answered => f[r] = r
           /\ \A k \in Keys(r) : (\E x \in gone : Refers(r, k, x)) => k.null = "NULL"
    BY ClearedRows
  <1>3. \A r \in db : IsRow(r)
    BY DEF IsConsistent
  <1>4. \A q \in gone : Owned(db, q) \subseteq gone
    BY <1>3, DoomedFacts
  <1> HIDE DEF gone, f, db2
  <1>5. Reshaped(db1, db2, f)
    BY <1>1, <1>2 DEF Reshaped
  <1>6. UniqueIds(db1) /\ IsFiniteSet(Get(db1, "Task"))
    <2>1. Get(db1, "Task") \subseteq Get(db, "Task")
      BY DEF Get
    <2> QED  BY <2>1, FS_Subset DEF IsConsistent, UniqueIds
  <1>7. UniqueIds(db2) /\ IsFiniteSet(Get(db2, "Task")) /\ \A r \in db2 : IsRow(r)
    BY <1>5, <1>6, ReshapedUnique
  <1>8. ReferencesHold(db2)
    <2> SUFFICES ASSUME NEW r2 \in db2, NEW k \in Keys(r2) PROVE Pointing(db2, r2, k)
      BY DEF ReferencesHold, Pointing
    <2>1. PICK r \in db1 : r2 = f[r]
      BY <1>1
    <2>2. k \in Keys(r) /\ k.column \in DOMAIN r.ref
      BY <1>2, <1>3, <2>1, RowFacts DEF Keys
    <2>3. CASE \E x \in gone : Refers(r, k, x)
      <3>1. k.null = "NULL" /\ r2.ref[k.column] = Null
        BY <1>2, <2>1, <2>2, <2>3 DEF ClearedRef
      <3> QED  BY <3>1 DEF Pointing
    <2>4. CASE ~\E x \in gone : Refers(r, k, x)
      <3>1. \A j \in Keys(r) : j.column = k.column => j = k
        BY <1>3, <2>2, RowFacts
      <3>a. ~\E j \in Keys(r), x \in gone : j.column = k.column /\ Refers(r, j, x)
        BY <2>4, <3>1
      <3>b. r2.ref = ClearedRef(gone, r)
        BY <1>2, <2>1
      <3>2. r2.ref[k.column] = r.ref[k.column]
        BY <2>2, <3>a, <3>b DEF ClearedRef
      <3>3. Pointing(db, r, k)
        BY <2>2 DEF IsConsistent, ReferencesHold, Pointing
      <3>4. ASSUME NEW q \in db, Refers(r, k, q) PROVE f[q] \in db2 /\ Refers(r2, k, f[q])
        <4>1. q \in db1
          BY <2>4, <3>4
        <4> QED  BY <1>1, <1>2, <3>2, <3>4, <4>1 DEF Refers
      <3> QED  BY <3>2, <3>3, <3>4 DEF Pointing
    <2> QED  BY <2>3, <2>4
  <1>9. ActiveDatasets(db2)
    <2> SUFFICES ASSUME NEW t \in Get(db2, "Task") PROVE OwnDataset(db2, t)
      BY DEF ActiveDatasets, OwnDataset
    <2>1. PICK x \in db1 : t = f[x]
      BY <1>1 DEF Get
    <2>2. t \in Get(db, "Task") /\ t \in db1
      BY <1>2, <2>1 DEF Get, Answered
    <2>3. PICK d \in Get(db, "Dataset") : d.id = t.ref.active_dataset /\ d.ref.task = t.id
      BY <2>2 DEF IsConsistent, ActiveDatasets
    <2>4. d \in db1
      <3> DEFINE k == Key("active_dataset", "Dataset", "SET_NULL", "NOT_NULL")
      <3>1. k \in Keys(t) /\ k.null = "NOT_NULL" /\ Refers(t, k, d)
        BY <2>2, <2>3, SomeKeys, KeyFields DEF HasKey, Keys, Refers, Get
      <3> HIDE DEF k
      <3>2. ~\E x2 \in gone : Refers(t, k, x2)
        BY <1>2, <2>2, <3>1
      <3> QED  BY <3>1, <3>2 DEF Get
    <2>5. d \in Get(db2, "Dataset")
      <3>1. d.table = "Dataset" /\ f[d] = d
        BY <1>2, <2>4 DEF Get, Answered
      <3> QED  BY <1>1, <2>4, <3>1 DEF Get
    <2> QED  BY <2>2, <2>3, <2>5 DEF OwnDataset, IsConsistent, ActiveDatasets
  <1>10. EvaluationsFit(db2)
    <2> SUFFICES ASSUME NEW e \in Get(db2, "Evaluation")
                 PROVE  /\ \E t \in Get(db2, "Testcase") :
                              t.id = e.ref.testcase /\ t.ref.dataset = e.ref.dataset
                        /\ \E r \in Get(db2, "SubmissionResult") :
                              r.id = e.ref.submission_result /\ r.ref.dataset = e.ref.dataset
      BY DEF EvaluationsFit
    <2>1. PICK x \in db1 : e = f[x]
      BY <1>1 DEF Get
    <2>2. e \in Get(db, "Evaluation") /\ e \in db1
      BY <1>2, <2>1 DEF Get, Answered
    <2>3. PICK t \in Get(db, "Testcase") : t.id = e.ref.testcase /\ t.ref.dataset = e.ref.dataset
      BY <2>2 DEF IsConsistent, EvaluationsFit
    <2>4. PICK r \in Get(db, "SubmissionResult") :
              r.id = e.ref.submission_result /\ r.ref.dataset = e.ref.dataset
      BY <2>2 DEF IsConsistent, EvaluationsFit
    <2>5. ASSUME NEW q \in db, NEW k \in Keys(e), k.ondelete = "CASCADE", Refers(e, k, q)
          PROVE  q \in db1
      BY <1>4, <2>2, <2>5 DEF Owned
    <2>6. t \in db1
      <3> DEFINE k == Key("testcase", "Testcase", "CASCADE", "NOT_NULL")
      <3>1. k \in Keys(e) /\ k.ondelete = "CASCADE" /\ Refers(e, k, t)
        BY <2>2, <2>3, SomeKeys, KeyFields DEF HasKey, Keys, Refers, Get
      <3> HIDE DEF k
      <3> QED  BY <2>5, <3>1 DEF Get
    <2>7. r \in db1
      <3> DEFINE k == Key("submission_result", "SubmissionResult", "CASCADE", "NOT_NULL")
      <3>1. k \in Keys(e) /\ k.ondelete = "CASCADE" /\ Refers(e, k, r)
        BY <2>2, <2>4, SomeKeys, KeyFields DEF HasKey, Keys, Refers, Get
      <3> HIDE DEF k
      <3> QED  BY <2>5, <3>1 DEF Get
    <2>8. t.table = "Testcase" /\ f[t] = t /\ r.table = "SubmissionResult" /\ f[r] = r
      BY <1>2, <2>6, <2>7 DEF Get, Answered
    <2>9. t \in Get(db2, "Testcase") /\ r \in Get(db2, "SubmissionResult")
      BY <1>1, <2>6, <2>7, <2>8 DEF Get
    <2> QED  BY <2>3, <2>4, <2>9
  <1>11. FilesOf(db2) \subseteq FilesOf(db)
    <2>1. FilesOf(db2) = FilesOf(db1)
      BY <1>5, ReshapedFiles
    <2> QED  BY <2>1 DEF FilesOf
  <1>12. \A r \in db1 : r.table \notin Answered => r \in db2
    BY <1>1, <1>2
  <1>13. \A r \in db2 : r.table \notin Answered => r \in db1
    BY <1>1, <1>2
  <1>14. IsConsistent(db2)
    BY <1>7, <1>8, <1>9, <1>10 DEF IsConsistent
  <1> QED  BY <1>5, <1>11, <1>12, <1>13, <1>14 DEF gone, f, db2

LEMMA AfterDeleteConsistent ==
    ASSUME NEW db, IsConsistent(db), NEW S, S \subseteq db
    PROVE  IsConsistent(AfterDelete(db, S)) /\ FilesOf(AfterDelete(db, S)) \subseteq FilesOf(db)
  BY DeletedConsistent DEF AfterDelete

-----------------------------------------------------------------------------
(* Adding rows.                                                            *)

EvaluationFits(db, e) ==
    /\ \E t \in Get(db, "Testcase") : t.id = e.ref.testcase /\ t.ref.dataset = e.ref.dataset
    /\ \E r \in Get(db, "SubmissionResult") :
           r.id = e.ref.submission_result /\ r.ref.dataset = e.ref.dataset

LEMMA UnionConsistent ==
    ASSUME NEW db, IsConsistent(db), NEW new, \A r \in new : IsRow(r), UniqueIds(new),
           ~Taken(db, new), ReferencesHold(db \cup new), IsFiniteSet(Get(new, "Task")),
           \A t \in Get(new, "Task") : OwnDataset(db \cup new, t),
           \A e \in Get(new, "Evaluation") : EvaluationFits(db \cup new, e)
    PROVE  IsConsistent(db \cup new)
  <1> DEFINE db2 == db \cup new
  <1>1. \A r \in db2 : IsRow(r)
    BY DEF IsConsistent
  <1>2. \A T : Get(db2, T) = Get(db, T) \cup Get(new, T)
    BY DEF Get
  <1>3. IsFiniteSet(Get(db2, "Task"))
    <2>1. IsFiniteSet(Get(db, "Task"))
      BY DEF IsConsistent
    <2>2. Get(db2, "Task") = Get(db, "Task") \cup Get(new, "Task")
      BY <1>2
    <2> QED  BY <2>1, <2>2, FS_Union, ZenonT(30)
  <1>4. UniqueIds(db2)
    BY DEF UniqueIds, IsConsistent, Taken
  <1> HIDE DEF db2
  <1>5. ActiveDatasets(db2)
    <2> SUFFICES ASSUME NEW t \in Get(db2, "Task") PROVE OwnDataset(db2, t)
      BY DEF ActiveDatasets, OwnDataset
    <2>1. CASE t \in Get(db, "Task")
      <3>1. OwnDataset(db, t)
        BY <2>1 DEF IsConsistent, ActiveDatasets, OwnDataset
      <3> QED  BY <1>2, <3>1 DEF OwnDataset
    <2> QED  BY <1>2, <2>1 DEF db2
  <1>6. EvaluationsFit(db2)
    <2> SUFFICES ASSUME NEW e \in Get(db2, "Evaluation") PROVE EvaluationFits(db2, e)
      BY DEF EvaluationsFit, EvaluationFits
    <2>1. CASE e \in Get(db, "Evaluation")
      <3>1. EvaluationFits(db, e)
        BY <2>1 DEF IsConsistent, EvaluationsFit, EvaluationFits
      <3> QED  BY <1>2, <3>1 DEF EvaluationFits
    <2> QED  BY <1>2, <2>1 DEF db2
  <1> QED  BY <1>1, <1>3, <1>4, <1>5, <1>6 DEF IsConsistent, db2

(* Rows that are not of the tables with more to them than their keys.      *)
PlainRows(new) ==
    /\ \A r \in new : IsRow(r) /\ r.table \notin {"Task", "Evaluation"}
    /\ UniqueIds(new)

LEMMA InsertFiles ==
    ASSUME NEW db, NEW new
    PROVE  FilesOf(Insert(db, new)) \subseteq FilesOf(db) \cup FilesOf(new)
  BY DEF Insert, FilesOf

LEMMA InsertPlain ==
    ASSUME NEW db, IsConsistent(db), NEW new, PlainRows(new), ReferencesHold(db \cup new)
    PROVE  /\ IsConsistent(Insert(db, new))
           /\ FilesOf(Insert(db, new)) \subseteq FilesOf(db) \cup FilesOf(new)
           /\ Get(Insert(db, new), "Task") = Get(db, "Task")
  <1>1. Get(new, "Task") = {} /\ Get(new, "Evaluation") = {}
    BY DEF Get, PlainRows
  <1>2. IsFiniteSet(Get(new, "Task"))
    BY <1>1, FS_EmptySet
  <1>3. CASE Taken(db, new)
    BY <1>3, InsertFiles DEF Insert
  <1>4. CASE ~Taken(db, new)
    <2>1. IsConsistent(db \cup new)
      BY <1>1, <1>2, <1>4, UnionConsistent DEF PlainRows
    <2>2. Get(db \cup new, "Task") = Get(db, "Task")
      BY <1>1 DEF Get
    <2> QED  BY <1>4, <2>1, <2>2, InsertFiles DEF Insert
  <1> QED  BY <1>3, <1>4

LEMMA NewRow ==
    ASSUME NEW T, NEW r \in New(T)
    PROVE  /\ r.table = T /\ IsRow(r) /\ ReferencesHold(rows \cup {r})
           /\ T \notin {"Task", "Evaluation"} => PlainRows({r})
           /\ FilesOf({r}) = r.digests
  <1>1. r.table = T /\ IsRow(r) /\ ReferencesHold(rows \cup {r})
    BY AdminAssumption DEF New, Get
  <1>2. UniqueIds({r}) /\ FilesOf({r}) = r.digests
    BY DEF UniqueIds, FilesOf
  <1> QED  BY <1>1, <1>2 DEF PlainRows

(* No task is without an active dataset, so none is given to it.           *)
LEMMA MadeActiveNothing ==
    ASSUME NEW db, IsConsistent(db), NEW d
    PROVE  MadeActive(db, d) = db
  <1>1. \A r \in db : r.table = "Task" => r.ref.active_dataset # Null
    BY DEF IsConsistent, ActiveDatasets, Get
  <1> QED  BY <1>1 DEF MadeActive

LEMMA NewTaskFits ==
    ASSUME IsConsistent(rows), NEW t \in Get(Addable, "Task")
    PROVE  LET u == [t EXCEPT !.ref.active_dataset = FirstDataset(t).id]
               db == Insert(rows, {u, FirstDataset(t)})
           IN  /\ IsConsistent(db) /\ FilesOf(db) = FilesOf(rows)
               /\ u.table = "Task" /\ u.id = t.id /\ u.num = t.num /\ u.ref.contest = Null
               /\ FirstDataset(t).table = "Dataset"
  <1> DEFINE d == FirstDataset(t)
             u == [t EXCEPT !.ref.active_dataset = d.id]
             new == {u, d}
  <1>1. IsRow(t) /\ t.table = "Task" /\ t.ref.contest = Null /\ t.id \in Seq(STRING)
    <2>1. IsRow(t) /\ t.table = "Task" /\ t.ref.contest = Null
      BY AdminAssumption DEF Get
    <2> QED  BY <2>1, RowIs
  <1>2. Repointed(t, u, "active_dataset", d.id) /\ u.num = t.num
    BY <1>1, TaskActivated
  <1> DEFINE f == [task |-> t.id]
             i == Append(t.id, "Default")
  <1>3. d = ARow("Dataset", i, f, {}, Null, 0)
    BY DEF FirstDataset, ARow
  <1>a. f = [c \in {"task"} |-> f[c]] /\ f.task = t.id
    OBVIOUS
  <1>b. i \in Seq(STRING)
    <2>1. "Default" \in STRING
      BY AdminAssumption
    <2> QED  BY <1>1, <2>1
  <1> HIDE DEF d, u, f, i
  <1>4. d.table = "Dataset" /\ d.id = i /\ d.digests = {} /\ d.ref = f /\ d.ref.task = t.id
    BY <1>3, <1>a, ARowFields
  <1>5. d.id # Null
    BY <1>b, <1>4, AdminAssumption
  <1>6. ColumnsOf("Dataset") = {"task"} /\ Tables["Dataset"].keys = {Part("task", "Task")}
    BY TablesAre DEF ColumnsOf, Dataset, Table, Part, Key
  <1>7. IsRow(d)
    <2>1. f = [c \in ColumnsOf("Dataset") |-> f[c]]
      BY <1>a, <1>6
    <2>2. "Dataset" \in TableNames
      BY DEF TableNames
    <2> QED  BY <1>3, <1>b, <2>1, <2>2, ARowIsRow
  <1>8. /\ u.table = "Task" /\ u.id = t.id /\ u.digests = t.digests /\ IsRow(u)
        /\ u.ref.contest = Null /\ u.ref.active_dataset = d.id
    <2>1. "contest" \in DOMAIN t.ref /\ "active_dataset" \in DOMAIN t.ref
      BY <1>1, RowIs, ColumnNames
    <2> QED  BY <1>1, <1>2, <2>1 DEF Repointed
  <1>9. u.digests = {} /\ FilesOf(new) = {}
    <2>1. "Task" \notin FileTables
      BY DEF FileTables
    <2>2. u.digests = {}
      BY <1>1, <1>8, <2>1, RowIs
    <2> QED  BY <1>4, <2>2 DEF FilesOf
  <1>10. CASE Taken(rows, new)
    BY <1>10, <1>2, <1>4, <1>8 DEF Insert, u, d
  <1>11. CASE ~Taken(rows, new)
    <2> DEFINE db == rows \cup new
    <2>1. ASSUME NEW r \in db, NEW k \in Keys(r) PROVE Pointing(db, r, k)
      <3>1. CASE r \in rows
        <4>1. Pointing(rows, r, k)
          BY <2>1, <3>1 DEF IsConsistent, ReferencesHold, Pointing
        <4> QED  BY <4>1 DEF Pointing
      <3>2. CASE r = d
        <4>1. k = Part("task", "Task")
          BY <1>4, <1>6, <2>1, <3>2 DEF Keys
        <4>2. k.column = "task" /\ k.table = "Task"
          BY <4>1, KeyFields DEF Part
        <4>3. Refers(d, k, u)
          BY <1>4, <1>8, <4>2 DEF Refers
        <4> QED  BY <3>2, <4>3 DEF Pointing
      <3>3. CASE r = u
        <4>1. \/ k = Key("contest", "Contest", "CASCADE", "NULL")
              \/ k = Key("active_dataset", "Dataset", "SET_NULL", "NOT_NULL")
          BY <1>8, <2>1, <3>3, TablesAre DEF Keys, Task, Table, Key
        <4>2. CASE k = Key("contest", "Contest", "CASCADE", "NULL")
          <5>1. k.column = "contest" /\ k.null = "NULL"
            BY <4>2, KeyFields
          <5> QED  BY <1>8, <3>3, <5>1 DEF Pointing
        <4>3. CASE k = Key("active_dataset", "Dataset", "SET_NULL", "NOT_NULL")
          <5>1. k.column = "active_dataset" /\ k.table = "Dataset"
            BY <4>3, KeyFields
          <5>2. Refers(u, k, d)
            BY <1>4, <1>8, <5>1 DEF Refers
          <5> QED  BY <3>3, <5>2 DEF Pointing
        <4> QED  BY <4>1, <4>2, <4>3
      <3> QED  BY <3>1, <3>2, <3>3
    <2>2. ReferencesHold(db)
      BY <2>1 DEF ReferencesHold, Pointing
    <2>3. Get(new, "Task") = {u} /\ Get(new, "Evaluation") = {} /\ Get(new, "Dataset") = {d}
      BY <1>4, <1>8 DEF Get
    <2>4. IsFiniteSet(Get(new, "Task"))
      <3>1. IsFiniteSet({u})
        BY FS_Singleton
      <3> QED  BY <2>3, <3>1
    <2>5. UniqueIds(new) /\ \A r \in new : IsRow(r)
      BY <1>4, <1>7, <1>8 DEF UniqueIds
    <2>6. OwnDataset(db, u)
      <3>1. d \in Get(db, "Dataset")
        BY <1>4 DEF Get
      <3> QED  BY <1>4, <1>5, <1>8, <3>1 DEF OwnDataset
    <2>7. IsConsistent(db)
      <3>1. ~Taken(rows, new)
        BY <1>11
      <3> HIDE DEF new
      <3> QED  BY <2>2, <2>3, <2>4, <2>5, <2>6, <3>1, UnionConsistent
    <2>8. FilesOf(db) = FilesOf(rows)
      BY <1>9 DEF FilesOf
    <2> QED  BY <1>2, <1>4, <1>8, <1>11, <2>7, <2>8 DEF Insert, u, d
  <1> QED  BY <1>10, <1>11

-----------------------------------------------------------------------------
(* Cloning a dataset.                                                      *)

Originals(d, results) == Cloned(d, results) \cup {d}

ClonedTables == {"Dataset", "Testcase", "Manager", "SubmissionResult", "Executable", "Evaluation"}

CopiedRef(O, r) ==
    [c \in DOMAIN r.ref |->
        IF \E k \in Keys(r), q \in O : k.column = c /\ Refers(r, k, q)
        THEN Append(r.ref[c], "copy") ELSE r.ref[c]]

Copying(O) ==
    [r \in O |-> [r EXCEPT !.id = Append(@, "copy"), !.data = 0, !.ref = CopiedRef(O, r)]]

LEMMA CopiesAre ==
    ASSUME NEW d, NEW results
    PROVE  Copies(d, results) =
               {Copying(Originals(d, results))[r] : r \in Originals(d, results)}
  BY DEF Copies, Copying, Originals, CopiedRef

LEMMA CopyOfRow ==
    ASSUME NEW r, IsRow(r), NEW O, r \in O
    PROVE  LET q == Copying(O)[r]
           IN  /\ IsRow(q) /\ q.table = r.table /\ q.id = Append(r.id, "copy")
               /\ q.digests = r.digests /\ q.ref = CopiedRef(O, r)
  <1> DEFINE f == CopiedRef(O, r)
             i == Append(r.id, "copy")
             a == [r EXCEPT !.id = i]
             b == [a EXCEPT !.data = 0]
             q == [b EXCEPT !.ref = f]
  <1>1. Copying(O)[r] = q
    BY DEF Copying
  <1>2. /\ r = ARow(r.table, r.id, r.ref, r.digests, r.num, r.data)
        /\ r.table \in TableNames /\ r.id \in Seq(STRING) /\ DOMAIN r.ref = ColumnsOf(r.table)
        /\ r.digests # {} => r.table \in FileTables
    BY RowIs
  <1>3. f = [c \in ColumnsOf(r.table) |-> f[c]]
    BY <1>2 DEF CopiedRef
  <1>4. i \in Seq(STRING)
    <2>1. "copy" \in STRING
      BY AdminAssumption
    <2> QED  BY <1>2, <2>1
  <1> HIDE DEF f, i
  <1>5. a = ARow(r.table, i, r.ref, r.digests, r.num, r.data)
    BY <1>2 DEF ARow
  <1> HIDE DEF a
  <1>6. b = ARow(r.table, i, r.ref, r.digests, r.num, 0)
    BY <1>5 DEF ARow
  <1> HIDE DEF b
  <1>7. q = ARow(r.table, i, f, r.digests, r.num, 0)
    BY <1>6 DEF ARow
  <1> HIDE DEF q
  <1>8. IsRow(q)
    BY <1>2, <1>3, <1>4, <1>7, ARowIsRow
  <1>9. q.table = r.table /\ q.id = i /\ q.digests = r.digests /\ q.ref = f
    BY <1>7, ARowFields
  <1> QED  BY <1>1, <1>8, <1>9 DEF i, f

(* The testcases of a dataset, and what is judged on it, refer to it; the  *)
(* copies refer to its copy.                                               *)
LEMMA CopiesFacts ==
    ASSUME IsConsistent(rows), NEW d \in Get(rows, "Dataset"), NEW results \in BOOLEAN
    PROVE  LET O == Originals(d, results)
               g == Copying(O)
           IN  /\ O \subseteq rows
               /\ \A r \in O : /\ IsRow(r) /\ IsRow(g[r]) /\ g[r].table = r.table
                               /\ g[r].id = Append(r.id, "copy")
                               /\ g[r].digests = r.digests /\ g[r].ref = CopiedRef(O, r)
                               /\ r.table \in ClonedTables
                               /\ r.table = "Dataset" => r = d
                               /\ r.table # "Dataset" => r.ref.dataset = d.id
  <1> DEFINE O == Originals(d, results)
             g == Copying(O)
  <1>1. \A r \in rows : IsRow(r)
    BY DEF IsConsistent
  <1>2. O \subseteq rows
    BY DEF Originals, Cloned, Get
  <1>3. \A r \in O : /\ r.table \in ClonedTables
                     /\ r.table = "Dataset" => r = d
                     /\ r.table # "Dataset" => r.ref.dataset = d.id
    BY DEF Originals, Cloned, Get, ClonedTables
  <1>4. \A r \in O : /\ IsRow(g[r]) /\ g[r].table = r.table
                     /\ g[r].id = Append(r.id, "copy")
                     /\ g[r].digests = r.digests /\ g[r].ref = CopiedRef(O, r)
    <2> HIDE DEF O
    <2> QED  BY <1>1, <1>2, CopyOfRow
  <1> QED  BY <1>1, <1>2, <1>3, <1>4

LEMMA CopiedReference ==
    ASSUME NEW r, IsRow(r), NEW O, NEW k \in Keys(r)
    PROVE  /\ \A q \in O : Refers(r, k, q) => CopiedRef(O, r)[k.column] = Append(q.id, "copy")
           /\ (~\E q \in O : Refers(r, k, q)) => CopiedRef(O, r)[k.column] = r.ref[k.column]
  <1>1. k.column \in DOMAIN r.ref /\ \A j \in Keys(r) : j.column = k.column => j = k
    BY RowFacts
  <1>2. ASSUME NEW q \in O, Refers(r, k, q)
        PROVE  CopiedRef(O, r)[k.column] = Append(q.id, "copy")
    <2>1. r.ref[k.column] = q.id
      BY <1>2 DEF Refers
    <2>2. CopiedRef(O, r)[k.column] = Append(r.ref[k.column], "copy")
      BY <1>1, <1>2 DEF CopiedRef
    <2> QED  BY <2>1, <2>2
  <1>3. ASSUME ~\E q \in O : Refers(r, k, q)
        PROVE  CopiedRef(O, r)[k.column] = r.ref[k.column]
    <2>1. ~\E j \in Keys(r), q \in O : j.column = k.column /\ Refers(r, j, q)
      BY <1>1, <1>3
    <2> QED  BY <1>1, <2>1 DEF CopiedRef
  <1> QED  BY <1>2, <1>3

LEMMA CopiesConsistent ==
    ASSUME IsConsistent(rows), NEW d \in Get(rows, "Dataset"), NEW results \in BOOLEAN,
           ~Taken(rows, Copies(d, results))
    PROVE  LET new == Copies(d, results)
           IN  /\ IsConsistent(rows \cup new) /\ FilesOf(rows \cup new) = FilesOf(rows)
               /\ \A q \in new : q.table \in ClonedTables
               /\ \A q \in new : q.table = "Dataset" => q.id = Append(d.id, "copy")
               /\ \A q \in new : q.table = "Testcase" => q.ref.dataset = Append(d.id, "copy")
               /\ \E q \in new : q.table = "Dataset" /\ q.id = Append(d.id, "copy")
  <1> DEFINE O == Originals(d, results)
             g == Copying(O)
             new == Copies(d, results)
             db == rows \cup new
  <1>1. new = {g[r] : r \in O}
    BY CopiesAre
  <1>2. /\ O \subseteq rows
        /\ \A r \in O : /\ IsRow(r) /\ IsRow(g[r]) /\ g[r].table = r.table
                        /\ g[r].id = Append(r.id, "copy")
                        /\ g[r].digests = r.digests /\ g[r].ref = CopiedRef(O, r)
                        /\ r.table \in ClonedTables
                        /\ r.table = "Dataset" => r = d
                        /\ r.table # "Dataset" => r.ref.dataset = d.id
    BY CopiesFacts
  <1>3. d \in O /\ d.table = "Dataset"
    BY DEF Originals, Get
  <1>o. \A r \in rows : results /\ r.table = "SubmissionResult" /\ r.ref.dataset = d.id => r \in O
    BY DEF Originals, Cloned
  <1>p. \A r \in rows : r.table = "Testcase" /\ r.ref.dataset = d.id => r \in O
    BY DEF Originals, Cloned
  <1>q. \A r \in O : r.table = "Evaluation" => results
    BY <1>3 DEF Originals, Cloned
  <1> HIDE DEF O, g, new
  <1>4. \A r \in new : IsRow(r)
    BY <1>1, <1>2
  <1>5. UniqueIds(new)
    <2> SUFFICES ASSUME NEW x \in new, NEW y \in new, x.table = y.table, x.id = y.id PROVE x = y
      BY DEF UniqueIds
    <2>1. PICK r \in O, q \in O : x = g[r] /\ y = g[q]
      BY <1>1
    <2>2. Append(r.id, "copy") = Append(q.id, "copy") /\ r.table = q.table
      BY <1>2, <2>1
    <2>3. r.id \in Seq(STRING) /\ q.id \in Seq(STRING)
      BY <1>2, RowIs
    <2>4. r.id = q.id
      BY <2>2, <2>3
    <2>5. r = q
      BY <1>2, <2>2, <2>4 DEF IsConsistent, UniqueIds
    <2> QED  BY <2>1, <2>5
  <1>6. ReferencesHold(db)
    <2> SUFFICES ASSUME NEW x \in db, NEW k \in Keys(x) PROVE Pointing(db, x, k)
      BY DEF ReferencesHold, Pointing
    <2>1. CASE x \in rows
      <3>1. Pointing(rows, x, k)
        BY <2>1 DEF IsConsistent, ReferencesHold, Pointing
      <3> QED  BY <3>1 DEF Pointing
    <2>2. CASE x \in new
      <3>1. PICK r \in O : x = g[r]
        BY <1>1, <2>2
      <3>2. k \in Keys(r) /\ x.ref = CopiedRef(O, r) /\ IsRow(r) /\ r \in rows
        BY <1>2, <3>1 DEF Keys
      <3>3. CASE \E q \in O : Refers(r, k, q)
        <4>1. PICK q \in O : Refers(r, k, q)
          BY <3>3
        <4>2. x.ref[k.column] = Append(q.id, "copy")
          BY <3>2, <4>1, CopiedReference
        <4>3. Refers(x, k, g[q]) /\ g[q] \in db
          BY <1>1, <1>2, <4>1, <4>2 DEF Refers
        <4> QED  BY <4>3 DEF Pointing
      <3>4. CASE ~\E q \in O : Refers(r, k, q)
        <4>1. x.ref[k.column] = r.ref[k.column]
          BY <3>2, <3>4, CopiedReference
        <4>2. Pointing(rows, r, k)
          BY <3>2 DEF IsConsistent, ReferencesHold, Pointing
        <4> QED  BY <4>1, <4>2 DEF Pointing, Refers
      <3> QED  BY <3>3, <3>4
    <2> QED  BY <2>1, <2>2
  <1>7. Get(new, "Task") = {}
    BY <1>1, <1>2 DEF Get, ClonedTables
  <1>8. ASSUME NEW r \in O, HasKey(r.table, "dataset", "Dataset", "CASCADE", "NOT_NULL"),
               r.table # "Dataset"
        PROVE  g[r].ref.dataset = Append(d.id, "copy")
    <2> DEFINE k == Key("dataset", "Dataset", "CASCADE", "NOT_NULL")
    <2>1. k \in Keys(r) /\ k.column = "dataset" /\ k.table = "Dataset"
      BY <1>8, KeyFields DEF HasKey, Keys
    <2> HIDE DEF k
    <2>2. Refers(r, k, d)
      BY <1>2, <1>3, <1>8, <2>1 DEF Refers
    <2>a. IsRow(r) /\ d \in O /\ k \in Keys(r)
      BY <1>2, <1>3, <2>1
    <2>3. CopiedRef(O, r)[k.column] = Append(d.id, "copy")
      BY <2>2, <2>a, CopiedReference
    <2> QED  BY <1>2, <2>1, <2>3
  <1>9. ASSUME NEW e \in Get(new, "Evaluation") PROVE EvaluationFits(db, e)
    <2>1. PICK r \in O : e = g[r]
      BY <1>1 DEF Get
    <2>2. r.table = "Evaluation" /\ r \in rows /\ IsRow(r) /\ results
      BY <1>2, <1>q, <1>9, <2>1 DEF Get
    <2>3. r.ref.dataset = d.id /\ e.ref.dataset = Append(d.id, "copy")
      BY <1>2, <1>8, <2>1, <2>2, SomeKeys
    <2>4. EvaluationFits(rows, r)
      BY <2>2 DEF IsConsistent, EvaluationsFit, EvaluationFits, Get
    <2>5. PICK t \in Get(rows, "Testcase") : t.id = r.ref.testcase /\ t.ref.dataset = r.ref.dataset
      BY <2>4 DEF EvaluationFits
    <2>6. PICK s \in Get(rows, "SubmissionResult") :
              s.id = r.ref.submission_result /\ s.ref.dataset = r.ref.dataset
      BY <2>4 DEF EvaluationFits
    <2>7. t \in O /\ s \in O /\ t.table = "Testcase" /\ s.table = "SubmissionResult"
      BY <1>o, <1>p, <2>2, <2>3, <2>5, <2>6 DEF Get
    <2>8. /\ g[t].ref.dataset = Append(d.id, "copy") /\ g[s].ref.dataset = Append(d.id, "copy")
          /\ g[t] \in Get(db, "Testcase") /\ g[s] \in Get(db, "SubmissionResult")
      BY <1>1, <1>2, <1>8, <2>7, SomeKeys DEF Get
    <2>9. e.ref.testcase = g[t].id
      <3> DEFINE k == Key("testcase", "Testcase", "CASCADE", "NOT_NULL")
      <3>1. k \in Keys(r) /\ k.column = "testcase" /\ k.table = "Testcase"
        BY <2>2, SomeKeys, KeyFields DEF HasKey, Keys
      <3> HIDE DEF k
      <3>2. Refers(r, k, t)
        BY <2>5, <2>7, <3>1 DEF Refers
      <3>3. CopiedRef(O, r)[k.column] = Append(t.id, "copy")
        BY <2>2, <2>7, <3>1, <3>2, CopiedReference
      <3> QED  BY <1>2, <2>1, <2>7, <3>1, <3>3
    <2>10. e.ref.submission_result = g[s].id
      <3> DEFINE k == Key("submission_result", "SubmissionResult", "CASCADE", "NOT_NULL")
      <3>1. k \in Keys(r) /\ k.column = "submission_result" /\ k.table = "SubmissionResult"
        BY <2>2, SomeKeys, KeyFields DEF HasKey, Keys
      <3> HIDE DEF k
      <3>2. Refers(r, k, s)
        BY <2>6, <2>7, <3>1 DEF Refers
      <3>3. CopiedRef(O, r)[k.column] = Append(s.id, "copy")
        BY <2>2, <2>7, <3>1, <3>2, CopiedReference
      <3> QED  BY <1>2, <2>1, <2>7, <3>1, <3>3
    <2> QED  BY <2>3, <2>8, <2>9, <2>10 DEF EvaluationFits
  <1>10. IsConsistent(db)
    <2>1. IsFiniteSet(Get(new, "Task"))
      BY <1>7, FS_EmptySet
    <2>2. ~Taken(rows, new)
      BY DEF new
    <2> QED  BY <1>4, <1>5, <1>6, <1>7, <1>9, <2>1, <2>2, UnionConsistent
  <1>11. FilesOf(db) = FilesOf(rows)
    <2>1. ASSUME NEW x \in new PROVE x.digests \subseteq FilesOf(rows)
      <3>1. PICK r \in O : x = g[r]
        BY <1>1
      <3> QED  BY <1>2, <3>1 DEF FilesOf
    <2> QED  BY <2>1 DEF FilesOf
  <1>12. \A q \in new : q.table \in ClonedTables
    BY <1>1, <1>2
  <1>13. \A q \in new : q.table = "Dataset" => q.id = Append(d.id, "copy")
    BY <1>1, <1>2
  <1>14. ASSUME NEW q \in new, q.table = "Testcase" PROVE q.ref.dataset = Append(d.id, "copy")
    <2>1. PICK r \in O : q = g[r]
      BY <1>1
    <2> QED  BY <1>2, <1>8, <1>14, <2>1, SomeKeys
  <1>15. g[d] \in new /\ g[d].table = "Dataset" /\ g[d].id = Append(d.id, "copy")
    BY <1>1, <1>2, <1>3
  <1> QED  BY <1>10, <1>11, <1>12, <1>13, <1>14, <1>15 DEF new

-----------------------------------------------------------------------------
(* The numbers of the tasks, told by each task's id, contest and number.   *)

Place(t) == <<t.id, t.ref.contest, t.num>>

Placed(db) == {Place(t) : t \in Get(db, "Task")}

Here(P, c) == {x \in P : x[2] = c}

Given(P) == \A x \in P : IF x[2] = Null THEN x[3] = Null ELSE x[3] \in Int

Differ(P) == \A x, y \in P : x # y /\ x[2] = y[2] /\ x[2] # Null => x[3] # y[3]

InOrder(P) ==
    \A c \in {x[2] : x \in P} \ {Null} :
        {x[3] : x \in Here(P, c)} = 0 .. (Cardinality(Here(P, c)) - 1)

Places(P) ==
    /\ IsFiniteSet(P)
    /\ \A x \in P : x = <<x[1], x[2], x[3]>>
    /\ \A x, y \in P : x[1] = y[1] => x = y

LEMMA PlaceFields ==
    ASSUME NEW t
    PROVE  Place(t)[1] = t.id /\ Place(t)[2] = t.ref.contest /\ Place(t)[3] = t.num
  BY DEF Place

LEMMA PlacedPlaces ==
    ASSUME NEW db, IsConsistent(db)
    PROVE  Places(Placed(db))
  <1> DEFINE S == Get(db, "Task")
             g == [t \in S |-> Place(t)]
  <1>1. g \in Surjection(S, Placed(db))
    <2>1. Placed(db) = {Place(t) : t \in S}
      BY DEF Placed
    <2> HIDE DEF S
    <2> QED  BY <2>1 DEF Surjection
  <1>2. IsFiniteSet(S)
    BY DEF IsConsistent
  <1>3. IsFiniteSet(Placed(db))
    <2> HIDE DEF g, S
    <2> QED  BY <1>1, <1>2, FS_Surjection
  <1>4. \A x \in Placed(db) : x = <<x[1], x[2], x[3]>>
    BY DEF Placed, Place
  <1>5. ASSUME NEW x \in Placed(db), NEW y \in Placed(db), x[1] = y[1] PROVE x = y
    <2>1. PICK t \in S, u \in S : x = Place(t) /\ y = Place(u)
      BY DEF Placed
    <2>2. t.id = u.id /\ t.table = u.table /\ t \in db /\ u \in db
      BY <1>5, <2>1, PlaceFields DEF Get
    <2> QED  BY <2>1, <2>2 DEF IsConsistent, UniqueIds
  <1> QED  BY <1>3, <1>4, <1>5 DEF Places

LEMMA PlacesGiven ==
    ASSUME NEW db
    PROVE  NumsGiven(db) <=> Given(Placed(db))
  <1>1. ASSUME NumsGiven(db) PROVE Given(Placed(db))
    BY <1>1, PlaceFields DEF NumsGiven, Given, Placed
  <1>2. ASSUME Given(Placed(db)) PROVE NumsGiven(db)
    <2> SUFFICES ASSUME NEW t \in Get(db, "Task")
                 PROVE  IF t.ref.contest = Null THEN t.num = Null ELSE t.num \in Int
      BY DEF NumsGiven
    <2>1. Place(t) \in Placed(db)
      BY DEF Placed
    <2> QED  BY <1>2, <2>1, PlaceFields DEF Given
  <1> QED  BY <1>1, <1>2

LEMMA PlacesDiffer ==
    ASSUME NEW db, IsConsistent(db), NumsGiven(db)
    PROVE  NumsDiffer(db) <=> Differ(Placed(db))
  <1>1. ASSUME NumsDiffer(db), NEW x \in Placed(db), NEW y \in Placed(db),
               x # y, x[2] = y[2], x[2] # Null
        PROVE  x[3] # y[3]
    <2>1. PICK t \in Get(db, "Task"), u \in Get(db, "Task") : x = Place(t) /\ y = Place(u)
      BY DEF Placed
    <2>2. t # u /\ t.ref.contest = u.ref.contest /\ t.ref.contest # Null
      BY <1>1, <2>1, PlaceFields
    <2>3. t.num \in Int
      BY <2>2 DEF NumsGiven
    <2>4. t.num # u.num
      BY <1>1, <2>2, <2>3, AdminAssumption DEF NumsDiffer
    <2> QED  BY <2>1, <2>4, PlaceFields
  <1>2. ASSUME Differ(Placed(db)), NEW t \in Get(db, "Task"), NEW u \in Get(db, "Task"),
               t # u, t.ref.contest = u.ref.contest, t.ref.contest # Null
        PROVE  t.num # u.num
    <2>1. Place(t) \in Placed(db) /\ Place(u) \in Placed(db)
      BY DEF Placed
    <2>2. t.id # u.id
      BY <1>2 DEF Get, IsConsistent, UniqueIds
    <2>3. Place(t) # Place(u)
      BY <2>2, PlaceFields
    <2> QED  BY <1>2, <2>1, <2>3, PlaceFields DEF Differ
  <1> QED  BY <1>1, <1>2 DEF NumsDiffer, Differ

LEMMA HereTasks ==
    ASSUME NEW db, IsConsistent(db), NEW c
    PROVE  /\ Cardinality(TasksIn(db, c)) = Cardinality(Here(Placed(db), c))
           /\ {t.num : t \in TasksIn(db, c)} = {x[3] : x \in Here(Placed(db), c)}
           /\ IsFiniteSet(TasksIn(db, c))
  <1> DEFINE S == TasksIn(db, c)
             T == Here(Placed(db), c)
             g == [t \in S |-> Place(t)]
  <1>1. S \subseteq Get(db, "Task") /\ IsFiniteSet(Get(db, "Task"))
    BY DEF TasksIn, IsConsistent
  <1>2. IsFiniteSet(S)
    BY <1>1, FS_Subset
  <1>3. \A t \in S : Place(t) \in T
    BY PlaceFields DEF TasksIn, Here, Placed
  <1>4. \A x \in T : \E t \in S : x = Place(t)
    BY PlaceFields DEF TasksIn, Here, Placed
  <1>5. \A t, u \in S : Place(t) = Place(u) => t = u
    <2> SUFFICES ASSUME NEW t \in S, NEW u \in S, Place(t) = Place(u) PROVE t = u
      OBVIOUS
    <2>1. t.id = u.id
      BY PlaceFields
    <2> QED  BY <1>1, <2>1 DEF Get, IsConsistent, UniqueIds
  <1>6. g \in Bijection(S, T)
    <2> HIDE DEF S, T
    <2> QED  BY <1>3, <1>4, <1>5 DEF Bijection, Injection, Surjection, IsInjective
  <1>7. Cardinality(S) = Cardinality(T)
    <2> HIDE DEF g, S, T
    <2>1. ExistsBijection(S, T)
      BY <1>6 DEF ExistsBijection
    <2> QED  BY <1>2, <2>1, FS_Bijection
  <1>8. {t.num : t \in S} = {x[3] : x \in T}
    <2> HIDE DEF S, T
    <2>1. ASSUME NEW t \in S PROVE t.num \in {x[3] : x \in T}
      BY <1>3, PlaceFields
    <2>2. ASSUME NEW x \in T PROVE x[3] \in {t.num : t \in S}
      BY <1>4, PlaceFields
    <2> QED  BY <2>1, <2>2
  <1> QED  BY <1>2, <1>7, <1>8

LEMMA PlacesInOrder ==
    ASSUME NEW db, IsConsistent(db)
    PROVE  NumsInOrder(db) <=> InOrder(Placed(db))
  <1> DEFINE P == Placed(db)
             Fine(c) == {x[3] : x \in Here(P, c)} = 0 .. (Cardinality(Here(P, c)) - 1)
  <1>1. \A c : Fine(c) <=>
            {t.num : t \in TasksIn(db, c)} = 0 .. (Cardinality(TasksIn(db, c)) - 1)
    <2> TAKE c
    <2> QED  BY HereTasks
  <1>2. ASSUME NumsInOrder(db), NEW c \in {x[2] : x \in P}, c # Null PROVE Fine(c)
    <2>1. PICK x \in P : x[2] = c
      OBVIOUS
    <2>2. PICK t \in Get(db, "Task") : x = Place(t)
      BY DEF Placed
    <2>3. t.ref.contest = c /\ t.table = "Task" /\ t \in db
      BY <2>1, <2>2, PlaceFields DEF Get
    <2> DEFINE k == Key("contest", "Contest", "CASCADE", "NULL")
    <2>4. k \in Keys(t) /\ k.column = "contest" /\ k.table = "Contest"
      BY <2>3, SomeKeys, KeyFields DEF HasKey, Keys
    <2> HIDE DEF k
    <2>5. Pointing(db, t, k)
      BY <2>3, <2>4 DEF IsConsistent, ReferencesHold, Pointing
    <2>6. PICK q \in db : Refers(t, k, q)
      BY <1>2, <2>3, <2>4, <2>5 DEF Pointing
    <2>7. q \in Get(db, "Contest") /\ q.id = c
      BY <2>3, <2>4, <2>6 DEF Refers, Get
    <2> QED  BY <1>1, <1>2, <2>7 DEF NumsInOrder
  <1>3. ASSUME InOrder(P), NEW q \in Get(db, "Contest") PROVE Fine(q.id)
    <2>1. q.id # Null
      <3>1. q.id \in Seq(STRING)
        BY RowIs DEF IsConsistent, Get
      <3> QED  BY <3>1, AdminAssumption
    <2>2. CASE Here(P, q.id) = {}
      <3>1. Cardinality(Here(P, q.id)) = 0
        BY <2>2, FS_EmptySet
      <3> QED  BY <2>2, <3>1
    <2>3. CASE Here(P, q.id) # {}
      <3>1. q.id \in {x[2] : x \in P}
        BY <2>3 DEF Here
      <3> QED  BY <1>3, <2>1, <3>1 DEF InOrder
    <2> QED  BY <2>2, <2>3
  <1> HIDE DEF Fine
  <1>4. ASSUME NumsInOrder(db) PROVE InOrder(P)
    BY <1>2, <1>4 DEF InOrder, Fine
  <1>5. ASSUME InOrder(P) PROVE NumsInOrder(db)
    BY <1>1, <1>3, <1>5 DEF NumsInOrder
  <1> QED  BY <1>4, <1>5

(* Tasks that get another number, or come to or leave the contest c.       *)
OthersInOrder(P, c) ==
    \A b \in {x[2] : x \in P} \ {Null, c} :
        {x[3] : x \in Here(P, b)} = 0 .. (Cardinality(Here(P, b)) - 1)

IsImage(g, P, P2) == (\A x \in P : g[x] \in P2) /\ (\A y \in P2 : \E x \in P : y = g[x])

MovesOnly(g, P, c) ==
    \A x \in P : /\ g[x][1] = x[1]
                 /\ g[x][2] \notin {c, Null} \/ x[2] \notin {c, Null} => g[x] = x

FilledBy(g, H) ==
    /\ \A x \in H : g[x][3] \in 0 .. (Cardinality(H) - 1)
    /\ \A i \in 0 .. (Cardinality(H) - 1) : \E x \in H : g[x][3] = i

LEMMA MovedInOrder ==
    ASSUME NEW P, Places(P), NEW c, c # Null, OthersInOrder(P, c),
           NEW g, NEW P2, IsImage(g, P, P2), MovesOnly(g, P, c),
           NEW H, H \subseteq P, \A x \in P : x \in H <=> g[x][2] = c, FilledBy(g, H)
    PROVE  InOrder(P2)
  <1> SUFFICES ASSUME NEW b \in {x[2] : x \in P2}, b # Null
               PROVE  {x[3] : x \in Here(P2, b)} = 0 .. (Cardinality(Here(P2, b)) - 1)
    BY DEF InOrder
  <1>1. CASE b = c
    <2> DEFINE T == Here(P2, c)
               f == [x \in H |-> g[x]]
    <2>1. \A x \in H : g[x] \in T
      BY DEF Here, IsImage
    <2>2. \A y \in T : \E x \in H : y = g[x]
      BY DEF Here, IsImage
    <2>3. \A x, y \in H : g[x] = g[y] => x = y
      <3> SUFFICES ASSUME NEW x \in H, NEW y \in H, g[x] = g[y] PROVE x = y
        OBVIOUS
      <3>1. x[1] = y[1] /\ x \in P /\ y \in P
        BY DEF MovesOnly
      <3> QED  BY <3>1 DEF Places
    <2>4. f \in Bijection(H, T)
      <3> HIDE DEF T
      <3> QED  BY <2>1, <2>2, <2>3 DEF Bijection, Injection, Surjection, IsInjective
    <2>5. Cardinality(T) = Cardinality(H)
      <3>1. IsFiniteSet(H)
        BY FS_Subset DEF Places
      <3> HIDE DEF f, T
      <3>2. ExistsBijection(H, T)
        BY <2>4 DEF ExistsBijection
      <3> QED  BY <3>1, <3>2, FS_Bijection
    <2>6. {x[3] : x \in T} = 0 .. (Cardinality(H) - 1)
      <3> HIDE DEF T
      <3>1. ASSUME NEW y \in T PROVE y[3] \in 0 .. (Cardinality(H) - 1)
        BY <2>2 DEF FilledBy
      <3>2. ASSUME NEW i \in 0 .. (Cardinality(H) - 1) PROVE i \in {y[3] : y \in T}
        BY <2>1 DEF FilledBy
      <3> QED  BY <3>1, <3>2
    <2> QED  BY <1>1, <2>5, <2>6
  <1>2. CASE b # c
    <2>1. Here(P2, b) = Here(P, b)
      <3>1. ASSUME NEW y \in Here(P2, b) PROVE y \in Here(P, b)
        <4>1. PICK x \in P : y = g[x] /\ y[2] = b
          BY DEF Here, IsImage
        <4>2. g[x] = x
          BY <1>2, <4>1 DEF MovesOnly
        <4> QED  BY <4>1, <4>2 DEF Here
      <3>2. ASSUME NEW x \in Here(P, b) PROVE x \in Here(P2, b)
        <4>1. x \in P /\ x[2] = b /\ g[x] = x
          BY <1>2 DEF Here, MovesOnly
        <4> QED  BY <4>1 DEF Here, IsImage
      <3> QED  BY <3>1, <3>2
    <2>2. b \in {x[2] : x \in P}
      <3>1. PICK y \in P2 : y[2] = b
        OBVIOUS
      <3>2. y \in Here(P, b)
        BY <2>1, <3>1 DEF Here
      <3> QED  BY <3>2 DEF Here
    <2> QED  BY <1>2, <2>1, <2>2 DEF OthersInOrder
  <1> QED  BY <1>1, <1>2

(* The numbers of a contest that is in order.                              *)
LEMMA NumbersHere ==
    ASSUME NEW P, Places(P), InOrder(P), Differ(P), NEW c, c # Null
    PROVE  LET n == Cardinality(Here(P, c))
           IN  /\ n \in Nat /\ IsFiniteSet(Here(P, c))
               /\ \A x \in Here(P, c) : x[3] \in 0 .. (n - 1)
               /\ \A i \in 0 .. (n - 1) : \E x \in Here(P, c) : x[3] = i
               /\ \A x, y \in Here(P, c) : x # y => x[3] # y[3]
  <1> DEFINE h == Here(P, c)
             n == Cardinality(h)
  <1>1. h \subseteq P /\ \A x \in h : x[2] = c
    BY DEF Here
  <1>2. IsFiniteSet(h)
    BY <1>1, FS_Subset DEF Places
  <1>3. n \in Nat
    BY <1>2, FS_CardinalityType
  <1>4. {x[3] : x \in h} = 0 .. (n - 1)
    <2>1. CASE h = {}
      <3>1. n = 0
        BY <2>1, FS_EmptySet
      <3> QED  BY <2>1, <3>1
    <2>2. CASE h # {}
      <3>1. c \in {x[2] : x \in P} \ {Null}
        BY <1>1, <2>2
      <3> QED  BY <3>1 DEF InOrder
    <2> QED  BY <2>1, <2>2
  <1>5. \A x, y \in h : x # y => x[3] # y[3]
    BY <1>1 DEF Differ
  <1> HIDE DEF h, n
  <1>6. \A x \in h : x[3] \in 0 .. (n - 1)
    BY <1>4
  <1>7. \A i \in 0 .. (n - 1) : \E x \in h : x[3] = i
    BY <1>4
  <1> QED  BY <1>2, <1>3, <1>5, <1>6, <1>7 DEF h, n

(* The new number of each task but one, by its old number.                 *)
AfterDown(m) == [n \in Int |-> IF n > m THEN n - 1 ELSE n]
BeforeUp(m) == [n \in Int |-> IF n < m THEN n + 1 ELSE n]
Swapped(m, k) == [n \in Int |-> IF n = k THEN m ELSE n]
Unmoved == [n \in Int |-> n]

Moving(P, c, x, y, v) ==
    [z \in P |-> IF z = x THEN y ELSE IF z[2] = c THEN <<z[1], z[2], v[z[3]]>> ELSE z]

Moved(P, c, x, y, v) == {Moving(P, c, x, y, v)[z] : z \in P}

LEMMA MovingIs ==
    ASSUME NEW P, NEW c, NEW x, NEW y, NEW v, NEW z \in P
    PROVE  LET w == Moving(P, c, x, y, v)[z]
           IN  /\ z = x => w = y
               /\ z # x /\ z[2] = c => w[1] = z[1] /\ w[2] = c /\ w[3] = v[z[3]]
               /\ z # x /\ z[2] # c => w = z
  <1> DEFINE w == Moving(P, c, x, y, v)[z]
             q == <<z[1], z[2], v[z[3]]>>
  <1>1. w = IF z = x THEN y ELSE IF z[2] = c THEN q ELSE z
    BY DEF Moving
  <1>2. q[1] = z[1] /\ q[2] = z[2] /\ q[3] = v[z[3]]
    OBVIOUS
  <1> HIDE DEF w, q
  <1>3. /\ z = x => w = y
        /\ z # x /\ z[2] = c => w[1] = z[1] /\ w[2] = c /\ w[3] = v[z[3]]
        /\ z # x /\ z[2] # c => w = z
    BY <1>1, <1>2
  <1> QED  BY <1>3 DEF w

LEMMA ShiftInOrder ==
    ASSUME NEW P, Places(P), InOrder(P), NEW c, c # Null,
           NEW x \in P, x[2] \in {c, Null}, NEW y, y[1] = x[1], y[2] \in {c, Null}, NEW v,
           NEW H, H = (Here(P, c) \ {x}) \cup (IF y[2] = c THEN {x} ELSE {}),
           \A z \in Here(P, c) \ {x} : v[z[3]] \in 0 .. (Cardinality(H) - 1),
           y[2] = c => y[3] \in 0 .. (Cardinality(H) - 1),
           \A i \in 0 .. (Cardinality(H) - 1) :
               \/ y[2] = c /\ y[3] = i
               \/ \E z \in Here(P, c) \ {x} : v[z[3]] = i
    PROVE  InOrder(Moved(P, c, x, y, v))
  <1> DEFINE g == Moving(P, c, x, y, v)
             P2 == Moved(P, c, x, y, v)
             n == Cardinality(H)
  <1>1. IsImage(g, P, P2)
    BY DEF Moved, IsImage
  <1>2. \A z \in P :
           /\ z = x => g[z] = y
           /\ z # x /\ z[2] = c => g[z][1] = z[1] /\ g[z][2] = c /\ g[z][3] = v[z[3]]
           /\ z # x /\ z[2] # c => g[z] = z
    BY MovingIs
  <1> HIDE DEF g, P2
  <1>3. MovesOnly(g, P, c)
    BY <1>2 DEF MovesOnly
  <1>5. H \subseteq P /\ \A z \in P : z \in H <=> g[z][2] = c
    BY <1>2 DEF Here
  <1>6. FilledBy(g, H)
    <2>1. \A z \in Here(P, c) \ {x} : z \in H /\ g[z][3] = v[z[3]]
      BY <1>2 DEF Here
    <2>2. y[2] = c => x \in H /\ g[x][3] = y[3]
      BY <1>2
    <2>3. ASSUME NEW z \in H PROVE g[z][3] \in 0 .. (n - 1)
      BY <2>1, <2>2
    <2>4. ASSUME NEW i \in 0 .. (n - 1) PROVE \E z \in H : g[z][3] = i
      <3>1. CASE y[2] = c /\ y[3] = i
        BY <2>2, <3>1
      <3>2. CASE \E z \in Here(P, c) \ {x} : v[z[3]] = i
        <4>1. PICK z \in Here(P, c) \ {x} : v[z[3]] = i
          BY <3>2
        <4> QED  BY <2>1, <4>1
      <3> QED  BY <3>1, <3>2
    <2> QED  BY <2>3, <2>4 DEF FilledBy
  <1>7. OthersInOrder(P, c)
    BY DEF InOrder, OthersInOrder
  <1>8. InOrder(P2)
    BY <1>1, <1>3, <1>5, <1>6, <1>7, MovedInOrder
  <1> QED  BY <1>8 DEF P2

LEMMA TopInOrder ==
    ASSUME NEW P, Places(P), InOrder(P), Differ(P), NEW c, c # Null, NEW x \in Here(P, c)
    PROVE  InOrder(Moved(P, c, x, <<x[1], c, 0>>, BeforeUp(x[3])))
  <1> DEFINE h == Here(P, c)
             n == Cardinality(h)
             m == x[3]
             v == BeforeUp(m)
             y == <<x[1], c, 0>>
  <1>1. /\ n \in Nat
        /\ \A z \in h : z[3] \in 0 .. (n - 1)
        /\ \A i \in 0 .. (n - 1) : \E z \in h : z[3] = i
        /\ \A z, w \in h : z # w => z[3] # w[3]
    BY NumbersHere
  <1>2. x \in P /\ x[2] = c /\ h = (h \ {x}) \cup {x}
    BY DEF Here
  <1>3. y[1] = x[1] /\ y[2] = c /\ y[3] = 0
    OBVIOUS
  <1>4. \A i \in Nat : v[i] = IF i < m THEN i + 1 ELSE i
    BY DEF BeforeUp
  <1> HIDE DEF h, n, v, y
  <1>5. m \in 0 .. (n - 1) /\ m \in Nat /\ 0 \in 0 .. (n - 1)
    BY <1>1 DEF h
  <1>6. ASSUME NEW z \in h \ {x} PROVE v[z[3]] \in 0 .. (n - 1)
    <2>1. z[3] \in Nat /\ z[3] \in 0 .. (n - 1) /\ n \in Nat
      BY <1>1
    <2>2. v[z[3]] = IF z[3] < m THEN z[3] + 1 ELSE z[3]
      BY <1>4, <2>1
    <2> QED  BY <1>5, <2>1, <2>2
  <1>7. ASSUME NEW i \in 0 .. (n - 1) PROVE (y[2] = c /\ y[3] = i) \/ \E z \in h \ {x} : v[z[3]] = i
    <2>1. CASE i = 0
      BY <1>3, <2>1
    <2>2. CASE i # 0 /\ i <= m
      <3>1. i - 1 \in 0 .. (n - 1) /\ i - 1 < m /\ i - 1 \in Nat
        BY <1>1, <1>5, <2>2
      <3>2. PICK z \in h : z[3] = i - 1
        BY <1>1, <3>1
      <3>3. z # x
        BY <3>1, <3>2
      <3>4. v[z[3]] = i
        BY <1>4, <3>1, <3>2
      <3> QED  BY <3>3, <3>4
    <2>3. CASE i > m
      <3>1. PICK z \in h : z[3] = i
        BY <1>1
      <3>2. z # x
        BY <1>5, <2>3, <3>1
      <3>3. v[z[3]] = i
        BY <1>4, <1>5, <2>3, <3>1
      <3> QED  BY <3>2, <3>3
    <2> QED  BY <1>1, <1>5, <2>1, <2>2, <2>3
  <1>8. h = (Here(P, c) \ {x}) \cup (IF y[2] = c THEN {x} ELSE {})
    BY <1>2, <1>3 DEF h
  <1>9. InOrder(Moved(P, c, x, y, v))
    BY <1>2, <1>3, <1>5, <1>6, <1>7, <1>8, ShiftInOrder DEF n, h
  <1> QED  BY <1>9 DEF y, v

LEMMA BottomInOrder ==
    ASSUME NEW P, Places(P), InOrder(P), Differ(P), NEW c, c # Null, NEW x \in Here(P, c)
    PROVE  InOrder(Moved(P, c, x, <<x[1], c, Cardinality(Here(P, c)) - 1>>, AfterDown(x[3])))
  <1> DEFINE h == Here(P, c)
             n == Cardinality(h)
             m == x[3]
             v == AfterDown(m)
             y == <<x[1], c, n - 1>>
  <1>1. /\ n \in Nat
        /\ \A z \in h : z[3] \in 0 .. (n - 1)
        /\ \A i \in 0 .. (n - 1) : \E z \in h : z[3] = i
        /\ \A z, w \in h : z # w => z[3] # w[3]
    BY NumbersHere
  <1>2. x \in P /\ x[2] = c /\ h = (h \ {x}) \cup {x}
    BY DEF Here
  <1>3. y[1] = x[1] /\ y[2] = c /\ y[3] = n - 1
    OBVIOUS
  <1>4. \A i \in Nat : v[i] = IF i > m THEN i - 1 ELSE i
    BY DEF AfterDown
  <1> HIDE DEF n, v, y
  <1>a. \A z \in h : z[3] \in 0 .. (n - 1)
    BY <1>1
  <1> HIDE DEF h
  <1>5. m \in 0 .. (n - 1) /\ m \in Nat /\ n - 1 \in 0 .. (n - 1)
    BY <1>1, <1>a DEF h
  <1>6. ASSUME NEW z \in h \ {x} PROVE v[z[3]] \in 0 .. (n - 1)
    <2>1. z[3] \in Nat /\ z[3] \in 0 .. (n - 1)
      BY <1>1
    <2> QED  BY <1>4, <1>5, <2>1
  <1>7. ASSUME NEW i \in 0 .. (n - 1) PROVE (y[2] = c /\ y[3] = i) \/ \E z \in h \ {x} : v[z[3]] = i
    <2>1. CASE i = n - 1
      BY <1>3, <2>1
    <2>2. CASE i # n - 1 /\ i >= m
      <3>1. i + 1 \in 0 .. (n - 1) /\ i + 1 > m /\ i + 1 \in Nat
        BY <1>1, <1>5, <2>2
      <3>2. PICK z \in h : z[3] = i + 1
        BY <1>1, <3>1
      <3>3. z # x
        BY <1>5, <3>1, <3>2
      <3>4. v[z[3]] = i
        BY <1>4, <3>1, <3>2
      <3> QED  BY <3>3, <3>4
    <2>3. CASE i < m
      <3>1. PICK z \in h : z[3] = i
        BY <1>1
      <3>2. z # x
        BY <1>5, <2>3, <3>1
      <3>3. v[z[3]] = i
        BY <1>4, <1>5, <2>3, <3>1
      <3> QED  BY <3>2, <3>3
    <2> QED  BY <1>1, <1>5, <2>1, <2>2, <2>3
  <1>8. h = (Here(P, c) \ {x}) \cup (IF y[2] = c THEN {x} ELSE {})
    BY <1>2, <1>3 DEF h
  <1>9. InOrder(Moved(P, c, x, y, v))
    BY <1>2, <1>3, <1>5, <1>6, <1>7, <1>8, ShiftInOrder DEF n, h
  <1> QED  BY <1>9 DEF y, v, n, h

LEMMA SwapInOrder ==
    ASSUME NEW P, Places(P), InOrder(P), Differ(P), NEW c, c # Null, NEW x \in Here(P, c),
           NEW u \in Here(P, c), u # x
    PROVE  InOrder(Moved(P, c, x, <<x[1], c, u[3]>>, Swapped(x[3], u[3])))
  <1> DEFINE h == Here(P, c)
             n == Cardinality(h)
             m == x[3]
             k == u[3]
             v == Swapped(m, k)
             y == <<x[1], c, k>>
  <1>1. /\ n \in Nat
        /\ \A z \in h : z[3] \in 0 .. (n - 1)
        /\ \A i \in 0 .. (n - 1) : \E z \in h : z[3] = i
        /\ \A z, w \in h : z # w => z[3] # w[3]
    BY NumbersHere
  <1>2. x \in P /\ x[2] = c /\ h = (h \ {x}) \cup {x}
    BY DEF Here
  <1>3. y[1] = x[1] /\ y[2] = c /\ y[3] = k
    OBVIOUS
  <1>4. \A i \in Nat : v[i] = IF i = k THEN m ELSE i
    BY DEF Swapped
  <1> HIDE DEF n, v, y, h
  <1>5. m \in 0 .. (n - 1) /\ k \in 0 .. (n - 1) /\ m # k /\ x \in h /\ u \in h
    BY <1>1 DEF h
  <1>6. ASSUME NEW z \in h \ {x} PROVE v[z[3]] \in 0 .. (n - 1)
    <2>1. z[3] \in Nat /\ z[3] \in 0 .. (n - 1)
      BY <1>1
    <2> QED  BY <1>4, <1>5, <2>1
  <1>7. ASSUME NEW i \in 0 .. (n - 1) PROVE (y[2] = c /\ y[3] = i) \/ \E z \in h \ {x} : v[z[3]] = i
    <2>1. CASE i = k
      BY <1>3, <2>1
    <2>2. CASE i = m
      <3>1. v[u[3]] = m
        BY <1>4, <1>5
      <3> QED  BY <1>5, <2>2, <3>1
    <2>3. CASE i # k /\ i # m
      <3>1. PICK z \in h : z[3] = i
        BY <1>1
      <3>2. v[z[3]] = i
        BY <1>4, <2>3, <3>1
      <3> QED  BY <2>3, <3>1, <3>2
    <2> QED  BY <2>1, <2>2, <2>3
  <1>8. h = (Here(P, c) \ {x}) \cup (IF y[2] = c THEN {x} ELSE {})
    BY <1>2, <1>3 DEF h
  <1>9. InOrder(Moved(P, c, x, y, v))
    BY <1>2, <1>3, <1>5, <1>6, <1>7, <1>8, ShiftInOrder DEF n, h
  <1> QED  BY <1>9 DEF y, v

(* What is left of a contest without one of its tasks.                     *)
LEMMA WithoutOne ==
    ASSUME NEW P, Places(P), InOrder(P), Differ(P), NEW c, c # Null, NEW x \in Here(P, c)
    PROVE  LET h == Here(P, c) \ {x}
               n == Cardinality(h)
               v == AfterDown(x[3])
           IN  /\ \A z \in h : v[z[3]] \in 0 .. (n - 1)
               /\ \A i \in 0 .. (n - 1) : \E z \in h : v[z[3]] = i
  <1> DEFINE h == Here(P, c)
             n == Cardinality(h)
             m == x[3]
             v == AfterDown(m)
  <1>1. /\ n \in Nat /\ IsFiniteSet(h)
        /\ \A z \in h : z[3] \in 0 .. (n - 1)
        /\ \A i \in 0 .. (n - 1) : \E z \in h : z[3] = i
        /\ \A z, w \in h : z # w => z[3] # w[3]
    BY NumbersHere
  <1>2. Cardinality(h \ {x}) = n - 1
    BY <1>1, FS_RemoveElement
  <1>4. \A i \in Nat : v[i] = IF i > m THEN i - 1 ELSE i
    BY DEF AfterDown
  <1> HIDE DEF n, v, h
  <1>5. m \in 0 .. (n - 1) /\ m \in Nat
    BY <1>1 DEF h
  <1>6. ASSUME NEW z \in h \ {x} PROVE v[z[3]] \in 0 .. ((n - 1) - 1)
    <2>1. z[3] \in Nat /\ z[3] \in 0 .. (n - 1) /\ z[3] # m
      BY <1>1 DEF h
    <2> QED  BY <1>1, <1>4, <1>5, <2>1
  <1>7. ASSUME NEW i \in 0 .. ((n - 1) - 1) PROVE \E z \in h \ {x} : v[z[3]] = i
    <2>2. CASE i >= m
      <3>1. i + 1 \in 0 .. (n - 1) /\ i + 1 > m /\ i + 1 \in Nat
        BY <1>1, <1>5, <2>2
      <3>2. PICK z \in h : z[3] = i + 1
        BY <1>1, <3>1
      <3>3. z # x
        BY <1>5, <3>1, <3>2
      <3>4. v[z[3]] = i
        BY <1>4, <3>1, <3>2
      <3> QED  BY <3>3, <3>4
    <2>3. CASE i < m
      <3>a. i \in 0 .. (n - 1)
        BY <1>1
      <3>1. PICK z \in h : z[3] = i
        BY <1>1, <3>a
      <3>2. z # x
        BY <1>5, <2>3, <3>1
      <3>3. v[z[3]] = i
        BY <1>4, <1>5, <2>3, <3>1
      <3> QED  BY <3>2, <3>3
    <2> QED  BY <1>1, <1>5, <2>2, <2>3
  <1> QED  BY <1>2, <1>6, <1>7 DEF n, v, h

LEMMA LeavingInOrder ==
    ASSUME NEW P, Places(P), InOrder(P), Differ(P), NEW c, c # Null, NEW x \in Here(P, c)
    PROVE  InOrder(Moved(P, c, x, <<x[1], Null, Null>>, AfterDown(x[3])))
  <1> DEFINE y == <<x[1], Null, Null>>
             H == Here(P, c) \ {x}
             v == AfterDown(x[3])
  <1>1. x \in P /\ x[2] = c
    BY DEF Here
  <1>2. y[1] = x[1] /\ y[2] = Null
    OBVIOUS
  <1> HIDE DEF y, v, H
  <1>3. /\ \A z \in H : v[z[3]] \in 0 .. (Cardinality(H) - 1)
        /\ \A i \in 0 .. (Cardinality(H) - 1) : \E z \in H : v[z[3]] = i
    BY WithoutOne DEF H, v
  <1>4. H = (Here(P, c) \ {x}) \cup (IF y[2] = c THEN {x} ELSE {})
    BY <1>2 DEF H
  <1>5. Here(P, c) \ {x} = H
    BY DEF H
  <1>6. InOrder(Moved(P, c, x, y, v))
    BY <1>1, <1>2, <1>3, <1>4, <1>5, ShiftInOrder
  <1> QED  BY <1>6 DEF y, v

LEMMA GoneInOrder ==
    ASSUME NEW P, Places(P), InOrder(P), Differ(P), NEW c, c # Null, NEW x \in Here(P, c)
    PROVE  InOrder(Moved(P \ {x}, c, x, x, AfterDown(x[3])))
  <1> DEFINE Q == P \ {x}
             H == Here(P, c) \ {x}
             v == AfterDown(x[3])
             g == Moving(Q, c, x, x, v)
             P2 == Moved(Q, c, x, x, v)
  <1>1. IsImage(g, Q, P2)
    BY DEF Moved, IsImage
  <1>2. \A z \in Q :
           /\ z[2] = c => g[z][1] = z[1] /\ g[z][2] = c /\ g[z][3] = v[z[3]]
           /\ z[2] # c => g[z] = z
    BY MovingIs
  <1>3. x \in P /\ x[2] = c
    BY DEF Here
  <1>4. Places(Q)
    BY FS_Subset DEF Places
  <1>a. Q \subseteq P /\ \A b : b # c => Here(Q, b) = Here(P, b)
    BY <1>3 DEF Here
  <1>5. OthersInOrder(Q, c)
    <2> HIDE DEF Q
    <2> QED  BY <1>a DEF InOrder, OthersInOrder
  <1> HIDE DEF g, P2, v
  <1>6. MovesOnly(g, Q, c)
    BY <1>2 DEF MovesOnly
  <1>8. H \subseteq Q /\ \A z \in Q : z \in H <=> g[z][2] = c
    BY <1>2 DEF Here
  <1>9. FilledBy(g, H)
    <2>1. \A z \in H : g[z][3] = v[z[3]]
      BY <1>2 DEF Here
    <2>2. /\ \A z \in H : v[z[3]] \in 0 .. (Cardinality(H) - 1)
          /\ \A i \in 0 .. (Cardinality(H) - 1) : \E z \in H : v[z[3]] = i
      BY WithoutOne DEF v
    <2> HIDE DEF H
    <2> QED  BY <2>1, <2>2 DEF FilledBy
  <1> HIDE DEF Q, H
  <1>10. InOrder(P2)
    BY <1>1, <1>4, <1>5, <1>6, <1>8, <1>9, MovedInOrder
  <1> QED  BY <1>10 DEF P2, Q, v

LEMMA ComingInOrder ==
    ASSUME NEW P, Places(P), InOrder(P), Differ(P), NEW c, c # Null, NEW x \in P, x[2] = Null
    PROVE  InOrder(Moved(P, c, x, <<x[1], c, Cardinality(Here(P, c))>>, Unmoved))
  <1> DEFINE h == Here(P, c)
             n == Cardinality(h)
             v == Unmoved
             y == <<x[1], c, n>>
             H == h \cup {x}
  <1>1. /\ n \in Nat /\ IsFiniteSet(h)
        /\ \A z \in h : z[3] \in 0 .. (n - 1)
        /\ \A i \in 0 .. (n - 1) : \E z \in h : z[3] = i
        /\ \A z, w \in h : z # w => z[3] # w[3]
    BY NumbersHere
  <1>2. x \notin h /\ h \ {x} = h
    BY DEF Here
  <1>3. y[1] = x[1] /\ y[2] = c /\ y[3] = n
    OBVIOUS
  <1>4. \A i \in Nat : v[i] = i
    BY DEF Unmoved
  <1>5. Cardinality(H) = n + 1
    BY <1>1, <1>2, FS_AddElement
  <1> HIDE DEF n, v, y, h
  <1>6. ASSUME NEW z \in h PROVE v[z[3]] \in 0 .. ((n + 1) - 1)
    BY <1>1, <1>4
  <1>7. ASSUME NEW i \in 0 .. ((n + 1) - 1) PROVE (y[2] = c /\ y[3] = i) \/ \E z \in h : v[z[3]] = i
    <2>1. CASE i = n
      BY <1>3, <2>1
    <2>2. CASE i # n
      <3>1. i \in 0 .. (n - 1)
        BY <1>1, <2>2
      <3>2. PICK z \in h : z[3] = i
        BY <1>1, <3>1
      <3> QED  BY <1>4, <3>2
    <2> QED  BY <2>1, <2>2
  <1>8. H = (Here(P, c) \ {x}) \cup (IF y[2] = c THEN {x} ELSE {})
    BY <1>2, <1>3 DEF h
  <1>9. n \in 0 .. ((n + 1) - 1)
    BY <1>1
  <1>10. Here(P, c) \ {x} = h
    BY <1>2 DEF h
  <1> HIDE DEF H
  <1>11. InOrder(Moved(P, c, x, y, v))
    BY <1>3, <1>5, <1>6, <1>7, <1>8, <1>9, <1>10, ShiftInOrder
  <1> QED  BY <1>11 DEF y, v, n, h

(* The same of the rows: t becomes T, and the other tasks of the contest c *)
(* get new numbers.                                                        *)
Renumbering(db, c, t, T, v) ==
    [r \in db |-> IF r = t THEN T
                  ELSE IF r \in TasksIn(db, c) THEN Numbered(r, v[r.num]) ELSE r]

Renumbered(db, c, t, T, v) == {Renumbering(db, c, t, T, v)[r] : r \in db}

PlacedAnew(db, t, T) ==
    /\ IsRow(T) /\ T.table = "Task" /\ T.id = t.id /\ T.digests = t.digests
    /\ T.ref.active_dataset = t.ref.active_dataset
    /\ \/ T.ref.contest \in {t.ref.contest, Null}
       \/ \E q \in Get(db, "Contest") : q.id = T.ref.contest

LEMMA RenumberingIs ==
    ASSUME NEW db, \A r \in db : IsRow(r), NEW c, NEW t, NEW T, NEW v, NEW r \in db
    PROVE  LET q == Renumbering(db, c, t, T, v)[r]
           IN  /\ r = t => q = T
               /\ r # t => Retouched(r, q)
               /\ r # t /\ r \in TasksIn(db, c) => q.num = v[r.num]
               /\ r # t /\ r \notin TasksIn(db, c) => q = r
  <1> DEFINE q == Renumbering(db, c, t, T, v)[r]
  <1>1. q = IF r = t THEN T ELSE IF r \in TasksIn(db, c) THEN Numbered(r, v[r.num]) ELSE r
    BY DEF Renumbering
  <1>2. /\ Retouched(r, r) /\ Retouched(r, Numbered(r, v[r.num]))
        /\ Numbered(r, v[r.num]).num = v[r.num]
    BY RetouchedRow
  <1> HIDE DEF q
  <1>3. /\ r = t => q = T
        /\ r # t => Retouched(r, q)
        /\ r # t /\ r \in TasksIn(db, c) => q.num = v[r.num]
        /\ r # t /\ r \notin TasksIn(db, c) => q = r
    BY <1>1, <1>2
  <1> QED  BY <1>3 DEF q

LEMMA RenumberedConsistent ==
    ASSUME NEW db, IsConsistent(db), NEW c, NEW t, t \in db => t.table = "Task", NEW T,
           t \in db => PlacedAnew(db, t, T), NEW v
    PROVE  LET db2 == Renumbered(db, c, t, T, v)
           IN  /\ IsConsistent(db2) /\ FilesOf(db2) = FilesOf(db)
               /\ Reshaped(db, db2, Renumbering(db, c, t, T, v))
  <1> DEFINE f == Renumbering(db, c, t, T, v)
             db2 == Renumbered(db, c, t, T, v)
  <1>1. \A r \in db : IsRow(r)
    BY DEF IsConsistent
  <1>2. \A r \in db : (r = t => f[r] = T) /\ (r # t => Retouched(r, f[r]))
    BY <1>1, RenumberingIs
  <1>3. db2 = {f[r] : r \in db}
    BY DEF Renumbered
  <1> HIDE DEF f, db2
  <1>4. Reshaped(db, db2, f)
    BY <1>2, <1>3 DEF Reshaped, Retouched, PlacedAnew
  <1>5. ASSUME NEW r \in db, NEW k \in Keys(r)
        PROVE  f[r].ref[k.column] = r.ref[k.column] \/ Pointing(db, f[r], k)
    <2>1. CASE r # t
      BY <1>2, <2>1 DEF Retouched
    <2>2. CASE r = t
      <3>1. PlacedAnew(db, t, T) /\ f[r] = T /\ t.table = "Task"
        BY <1>2, <2>2
      <3>2. \/ k = Key("contest", "Contest", "CASCADE", "NULL")
            \/ k = Key("active_dataset", "Dataset", "SET_NULL", "NOT_NULL")
        BY <2>2, <3>1, TablesAre DEF Keys, Task, Table, Key
      <3>3. CASE k = Key("active_dataset", "Dataset", "SET_NULL", "NOT_NULL")
        <4>1. k.column = "active_dataset"
          BY <3>3, KeyFields
        <4> QED  BY <2>2, <3>1, <4>1 DEF PlacedAnew
      <3>4. CASE k = Key("contest", "Contest", "CASCADE", "NULL")
        <4>1. k.column = "contest" /\ k.null = "NULL" /\ k.table = "Contest"
          BY <3>4, KeyFields
        <4>2. CASE T.ref.contest = t.ref.contest
          BY <2>2, <3>1, <4>1, <4>2
        <4>3. CASE T.ref.contest = Null
          BY <3>1, <4>1, <4>3 DEF Pointing
        <4>4. CASE \E q \in Get(db, "Contest") : q.id = T.ref.contest
          <5>1. PICK q \in Get(db, "Contest") : q.id = T.ref.contest
            BY <4>4
          <5>2. q \in db /\ Refers(T, k, q)
            BY <4>1, <5>1 DEF Refers, Get
          <5> QED  BY <3>1, <5>2 DEF Pointing
        <4> QED  BY <3>1, <4>2, <4>3, <4>4 DEF PlacedAnew
      <3> QED  BY <3>2, <3>3, <3>4
    <2> QED  BY <2>1, <2>2
  <1>6. \A r \in db : r.table \in JudgedTables => f[r].ref = r.ref
    BY <1>2 DEF JudgedTables, Retouched
  <1>7. ASSUME NEW u \in Get(db, "Task") PROVE OwnDataset(db, f[u])
    <2>1. OwnDataset(db, u) /\ u \in db
      BY DEF IsConsistent, ActiveDatasets, OwnDataset, Get
    <2>2. f[u].ref.active_dataset = u.ref.active_dataset /\ f[u].id = u.id
      BY <1>2, <2>1 DEF Retouched, PlacedAnew
    <2> QED  BY <2>1, <2>2 DEF OwnDataset
  <1>8. IsConsistent(db2) /\ FilesOf(db2) = FilesOf(db)
    BY <1>4, <1>5, <1>6, <1>7, ReshapedConsistent
  <1> QED  BY <1>4, <1>8 DEF f, db2

LEMMA RenumberedPlaces ==
    ASSUME NEW db, \A r \in db : IsRow(r), NEW c, NEW t, NEW T, NEW v,
           \A u \in Get(db, "Task") : u.id = t.id => u = t,
           t \in db => t.table = "Task" /\ T.table = "Task"
    PROVE  Placed(Renumbered(db, c, t, T, v)) = Moved(Placed(db), c, Place(t), Place(T), v)
  <1> DEFINE f == Renumbering(db, c, t, T, v)
             db2 == Renumbered(db, c, t, T, v)
             P == Placed(db)
             g == Moving(P, c, Place(t), Place(T), v)
  <1>1. \A r \in db : /\ r = t => f[r] = T
                      /\ r # t => Retouched(r, f[r])
                      /\ r # t /\ r \in TasksIn(db, c) => f[r].num = v[r.num]
                      /\ r # t /\ r \notin TasksIn(db, c) => f[r] = r
    BY RenumberingIs
  <1>2. db2 = {f[r] : r \in db}
    BY DEF Renumbered
  <1>3. Moved(P, c, Place(t), Place(T), v) = {g[x] : x \in P}
    BY DEF Moved
  <1>4. \A x \in P : g[x] = IF x = Place(t) THEN Place(T)
                            ELSE IF x[2] = c THEN <<x[1], x[2], v[x[3]]>> ELSE x
    BY DEF Moving
  <1> HIDE DEF f, db2, g
  <1>5. ASSUME NEW u \in Get(db, "Task")
        PROVE  Place(u) \in P /\ f[u] \in Get(db2, "Task") /\ Place(f[u]) = g[Place(u)]
    <2>1. Place(u) \in P /\ u \in db /\ u.table = "Task"
      BY DEF Placed, Get
    <2>2. f[u] \in Get(db2, "Task")
      BY <1>1, <1>2, <2>1 DEF Get, Retouched
    <2>3. CASE u = t
      <3>1. f[u] = T /\ g[Place(u)] = Place(T)
        BY <1>1, <1>4, <2>1, <2>3
      <3> QED  BY <2>1, <2>2, <3>1
    <2>4. CASE u # t
      <3>1. Place(u) # Place(t)
        BY <2>4, PlaceFields
      <3>2. f[u].id = u.id /\ f[u].ref = u.ref
        BY <1>1, <2>1, <2>4 DEF Retouched
      <3>3. CASE u \in TasksIn(db, c)
        <4>1. Place(u)[2] = c
          BY <3>3, PlaceFields DEF TasksIn
        <4>2. g[Place(u)] = <<Place(u)[1], Place(u)[2], v[Place(u)[3]]>>
          BY <1>4, <2>1, <3>1, <4>1
        <4>3. g[Place(u)] = <<u.id, u.ref.contest, v[u.num]>>
          BY <4>2, PlaceFields
        <4>4. f[u].num = v[u.num]
          BY <1>1, <2>1, <2>4, <3>3
        <4>5. Place(f[u]) = <<u.id, u.ref.contest, v[u.num]>>
          BY <3>2, <4>4 DEF Place
        <4> QED  BY <2>1, <2>2, <4>3, <4>5
      <3>4. CASE u \notin TasksIn(db, c)
        <4>1. Place(u)[2] # c
          BY <3>4, PlaceFields DEF TasksIn
        <4>2. g[Place(u)] = Place(u)
          BY <1>4, <2>1, <3>1, <4>1
        <4> QED  BY <1>1, <2>1, <2>2, <2>4, <3>4, <4>2
      <3> QED  BY <3>3, <3>4
    <2> QED  BY <2>1, <2>2, <2>3, <2>4
  <1>6. ASSUME NEW y \in Placed(db2) PROVE y \in {g[x] : x \in P}
    <2>1. PICK w \in Get(db2, "Task") : y = Place(w)
      BY DEF Placed
    <2>2. PICK u \in db : w = f[u]
      BY <1>2 DEF Get
    <2>3. u \in Get(db, "Task")
      BY <1>1, <2>1, <2>2 DEF Get, Retouched
    <2> QED  BY <1>5, <2>1, <2>2, <2>3
  <1>7. ASSUME NEW x \in P PROVE g[x] \in Placed(db2)
    <2>1. PICK u \in Get(db, "Task") : x = Place(u)
      BY DEF Placed
    <2>2. f[u] \in Get(db2, "Task") /\ Place(f[u]) = g[x]
      BY <1>5, <2>1
    <2> QED  BY <2>2 DEF Placed
  <1>8. Placed(db2) = {g[x] : x \in P}
    BY <1>6, <1>7
  <1> QED  BY <1>3, <1>8 DEF db2

(* A database as the handlers keep it.                                     *)
GoodDb(db) == IsConsistent(db) /\ NumsGiven(db) /\ NumsDiffer(db)

LEMMA GoodPlaces ==
    ASSUME NEW db, GoodDb(db)
    PROVE  Places(Placed(db)) /\ Given(Placed(db)) /\ Differ(Placed(db))
  BY PlacedPlaces, PlacesGiven, PlacesDiffer DEF GoodDb

LEMMA RenumberedGood ==
    ASSUME NEW db, GoodDb(db), NEW c, c # Null, NEW t,
           \A u \in Get(db, "Task") : u.id = t.id => u = t, NEW T,
           t \in db => /\ t.table = "Task" /\ PlacedAnew(db, t, T)
                      /\ IF T.ref.contest = Null THEN T.num = Null ELSE T.num \in Int,
           NEW v, \A n \in Int : v[n] \in Int,
           NumsDiffer(Renumbered(db, c, t, T, v))
    PROVE  LET db2 == Renumbered(db, c, t, T, v)
           IN  /\ GoodDb(db2) /\ FilesOf(db2) = FilesOf(db)
               /\ Placed(db2) = Moved(Placed(db), c, Place(t), Place(T), v)
  <1> DEFINE f == Renumbering(db, c, t, T, v)
             db2 == Renumbered(db, c, t, T, v)
  <1>1. IsConsistent(db) /\ (\A r \in db : IsRow(r))
    BY DEF GoodDb, IsConsistent
  <1>2. IsConsistent(db2) /\ FilesOf(db2) = FilesOf(db)
    BY <1>1, RenumberedConsistent
  <1>3. \A r \in db : /\ r = t => f[r] = T
                      /\ r # t => Retouched(r, f[r])
                      /\ r # t /\ r \in TasksIn(db, c) => f[r].num = v[r.num]
                      /\ r # t /\ r \notin TasksIn(db, c) => f[r] = r
    BY <1>1, RenumberingIs
  <1>4. db2 = {f[r] : r \in db}
    BY DEF Renumbered
  <1> HIDE DEF f, db2
  <1>5. NumsGiven(db2)
    <2> SUFFICES ASSUME NEW w \in Get(db2, "Task")
                 PROVE  IF w.ref.contest = Null THEN w.num = Null ELSE w.num \in Int
      BY DEF NumsGiven
    <2>1. PICK r \in db : w = f[r]
      BY <1>4 DEF Get
    <2>2. CASE r = t
      BY <1>3, <2>1, <2>2
    <2>3. CASE r # t
      <3>1. w.ref = r.ref /\ r \in Get(db, "Task")
        BY <1>3, <2>1, <2>3 DEF Retouched, Get
      <3>2. IF r.ref.contest = Null THEN r.num = Null ELSE r.num \in Int
        BY <3>1 DEF GoodDb, NumsGiven
      <3>3. CASE r \in TasksIn(db, c)
        <4>1. r.ref.contest = c /\ w.num = v[r.num]
          BY <1>3, <2>1, <2>3, <3>3 DEF TasksIn
        <4> QED  BY <3>1, <3>2, <4>1
      <3>4. CASE r \notin TasksIn(db, c)
        BY <1>3, <2>1, <2>3, <3>2, <3>4
      <3> QED  BY <3>3, <3>4
    <2> QED  BY <2>2, <2>3
  <1>6. Placed(db2) = Moved(Placed(db), c, Place(t), Place(T), v)
    <2>1. t \in db => t.table = "Task" /\ T.table = "Task"
      BY DEF PlacedAnew
    <2> QED  BY <1>1, <2>1, RenumberedPlaces DEF db2
  <1>7. NumsDiffer(db2)
    BY DEF db2
  <1> QED  BY <1>2, <1>5, <1>6, <1>7 DEF GoodDb, db2

-----------------------------------------------------------------------------
(* The handlers that move tasks.                                           *)

LEMMA SameNumber ==
    ASSUME NEW r, IsRow(r)
    PROVE  Numbered(r, r.num) = r
  <1>1. r = ARow(r.table, r.id, r.ref, r.digests, r.num, r.data)
    BY RowIs
  <1> QED  BY <1>1, NumChanged DEF Numbered

LEMMA ShiftsAre ==
    ASSUME GoodDb(rows), NEW c, c # Null, NEW t \in rows, t.num \in Int, NEW T
    PROVE  /\ {IF r \in TasksIn(rows, c) \ {t} /\ r.num > t.num THEN Numbered(r, Down(r.num))
               ELSE r : r \in rows \ {t}} \cup {T}
                 = Renumbered(rows, c, t, T, AfterDown(t.num))
           /\ {IF r \in TasksIn(rows, c) \ {t} /\ r.num < t.num THEN Numbered(r, Up(r.num))
               ELSE r : r \in rows \ {t}} \cup {T}
                 = Renumbered(rows, c, t, T, BeforeUp(t.num))
           /\ Replace(rows, t, T) = Renumbered(rows, c, t, T, Unmoved)
  <1>1. \A r \in rows : IsRow(r)
    BY DEF GoodDb, IsConsistent
  <1>2. \A r \in TasksIn(rows, c) : r.num \in Int
    BY DEF GoodDb, NumsGiven, TasksIn
  <1> DEFINE m == t.num
             fa == Renumbering(rows, c, t, T, AfterDown(m))
             fb == Renumbering(rows, c, t, T, BeforeUp(m))
             fu == Renumbering(rows, c, t, T, Unmoved)
             ea(r) == IF r \in TasksIn(rows, c) \ {t} /\ r.num > m THEN Numbered(r, Down(r.num)) ELSE r
             eb(r) == IF r \in TasksIn(rows, c) \ {t} /\ r.num < m THEN Numbered(r, Up(r.num)) ELSE r
  <1>3. fa[t] = T /\ fb[t] = T /\ fu[t] = T
    BY DEF Renumbering
  <1>4. ASSUME NEW r \in rows \ {t} PROVE fa[r] = ea(r) /\ fb[r] = eb(r) /\ fu[r] = r
    <2>1. CASE r \notin TasksIn(rows, c)
      BY <2>1 DEF Renumbering
    <2>2. CASE r \in TasksIn(rows, c)
      <3>1. r.num \in Int /\ Numbered(r, r.num) = r
        BY <1>1, <1>2, <2>2, SameNumber
      <3>2. /\ AfterDown(m)[r.num] = IF r.num > m THEN r.num - 1 ELSE r.num
            /\ BeforeUp(m)[r.num] = IF r.num < m THEN r.num + 1 ELSE r.num
            /\ Unmoved[r.num] = r.num
        BY <3>1 DEF AfterDown, BeforeUp, Unmoved
      <3>3. /\ fa[r] = Numbered(r, AfterDown(m)[r.num])
            /\ fb[r] = Numbered(r, BeforeUp(m)[r.num])
            /\ fu[r] = Numbered(r, Unmoved[r.num])
        BY <2>2 DEF Renumbering
      <3> QED  BY <2>2, <3>1, <3>2, <3>3 DEF Down, Up
    <2> QED  BY <2>1, <2>2
  <1> HIDE DEF fa, fb, fu, ea, eb
  <1>5. {fa[r] : r \in rows} = {ea(r) : r \in rows \ {t}} \cup {T}
    BY <1>3, <1>4
  <1>6. {fb[r] : r \in rows} = {eb(r) : r \in rows \ {t}} \cup {T}
    BY <1>3, <1>4
  <1>7. {fu[r] : r \in rows} = {r : r \in rows \ {t}} \cup {T}
    BY <1>3, <1>4
  <1>8. /\ Renumbered(rows, c, t, T, AfterDown(m)) = {fa[r] : r \in rows}
        /\ Renumbered(rows, c, t, T, BeforeUp(m)) = {fb[r] : r \in rows}
        /\ Renumbered(rows, c, t, T, Unmoved) = {fu[r] : r \in rows}
    BY DEF Renumbered, fa, fb, fu
  <1>9. Replace(rows, t, T) = {r : r \in rows \ {t}} \cup {T}
    BY DEF Replace
  <1> QED  BY <1>5, <1>6, <1>7, <1>8, <1>9 DEF ea, eb

(* What the database allows of it.                                         *)
LEMMA AllowedGood ==
    ASSUME GoodDb(rows), NEW c, c # Null, NEW t \in Get(rows, "Task"), NEW T,
           PlacedAnew(rows, t, T), IF T.ref.contest = Null THEN T.num = Null ELSE T.num \in Int,
           NEW v, \A n \in Int : v[n] \in Int
    PROVE  LET db == IfAllowed(Renumbered(rows, c, t, T, v))
           IN  /\ GoodDb(db) /\ FilesOf(db) = FilesOf(rows)
               /\ NumsInOrder(rows) /\ InOrder(Moved(Placed(rows), c, Place(t), Place(T), v))
                      => NumsInOrder(db)
  <1> DEFINE R == Renumbered(rows, c, t, T, v)
  <1>1. CASE ~NumsDiffer(R)
    BY <1>1 DEF IfAllowed
  <1>2. CASE NumsDiffer(R)
    <2>1. /\ GoodDb(R) /\ FilesOf(R) = FilesOf(rows)
          /\ Placed(R) = Moved(Placed(rows), c, Place(t), Place(T), v)
      <3>1. t.table = "Task" /\ \A u \in Get(rows, "Task") : u.id = t.id => u = t
        BY DEF Get, GoodDb, IsConsistent, UniqueIds
      <3> QED  BY <1>2, <3>1, RenumberedGood
    <2>2. NumsInOrder(R) <=> InOrder(Placed(R))
      BY <2>1, PlacesInOrder DEF GoodDb
    <2>3. IfAllowed(R) = R
      BY <1>2 DEF IfAllowed
    <2> QED  BY <2>1, <2>2, <2>3
  <1> QED  BY <1>1, <1>2

LEMMA NumbersInNat ==
    ASSUME NEW m \in Int, NEW k \in Int, NEW n \in Int
    PROVE  /\ AfterDown(m)[n] \in Int /\ BeforeUp(m)[n] \in Int /\ Swapped(m, k)[n] \in Int
           /\ Unmoved[n] \in Int
  BY DEF AfterDown, BeforeUp, Swapped, Unmoved

LEMMA MovedRow ==
    ASSUME NEW db, NEW t, IsRow(t), t.table = "Task", NEW n, NEW b,
           b = Null \/ \E q \in Get(db, "Contest") : q.id = b
    PROVE  LET T == Assigned(t, b, n)
           IN  /\ PlacedAnew(db, t, T) /\ Place(T) = <<t.id, b, n>>
               /\ T.ref.contest = b /\ T.num = n
  <1> DEFINE T == Assigned(t, b, n)
  <1>1. Repointed(t, T, "contest", b) /\ T.num = n
    BY TaskMoved
  <1> HIDE DEF T
  <1>2. "contest" \in DOMAIN t.ref /\ "active_dataset" \in DOMAIN t.ref
    BY RowIs, ColumnNames
  <1>3. T.ref = [t.ref EXCEPT !["contest"] = b]
    BY <1>1 DEF Repointed
  <1>4. T.ref.contest = b /\ T.ref.active_dataset = t.ref.active_dataset
    BY <1>2, <1>3
  <1>5. PlacedAnew(db, t, T)
    BY <1>1, <1>4 DEF PlacedAnew, Repointed
  <1>6. Place(T) = <<t.id, b, n>>
    BY <1>1, <1>4 DEF Place, Repointed
  <1> QED  BY <1>1, <1>4, <1>5, <1>6 DEF T

LEMMA NumberedRow ==
    ASSUME NEW db, NEW t, IsRow(t), t.table = "Task", NEW n
    PROVE  LET T == Numbered(t, n)
           IN  /\ PlacedAnew(db, t, T) /\ Place(T) = <<t.id, t.ref.contest, n>>
               /\ T.ref.contest = t.ref.contest /\ T.num = n
  <1> DEFINE T == Numbered(t, n)
  <1>1. Retouched(t, T) /\ T.num = n
    BY RetouchedRow
  <1> HIDE DEF T
  <1>2. PlacedAnew(db, t, T) /\ T.ref = t.ref /\ T.id = t.id
    BY <1>1 DEF PlacedAnew, Retouched
  <1>3. Place(T) = <<t.id, t.ref.contest, n>>
    BY <1>1, <1>2 DEF Place
  <1> QED  BY <1>1, <1>2, <1>3 DEF T

(* What the handlers know of the task and the contest.                     *)
LEMMA TaskFacts ==
    ASSUME GoodDb(rows), NEW c \in Get(rows, "Contest"), NEW t \in Get(rows, "Task")
    PROVE  /\ c.id # Null /\ IsRow(t) /\ t.table = "Task" /\ t \in rows
           /\ t.num # Null => t.num \in Int /\ t.ref.contest # Null
           /\ t.ref.contest # Null => t.num \in Int
           /\ Place(t) \in Placed(rows)
           /\ t.ref.contest = c.id => Place(t) \in Here(Placed(rows), c.id)
           /\ NumsInOrder(rows) => InOrder(Placed(rows))
           /\ Places(Placed(rows)) /\ Differ(Placed(rows))
           /\ Place(t)[1] = t.id /\ Place(t)[2] = t.ref.contest /\ Place(t)[3] = t.num
  <1>1. c.id # Null
    <2>1. c.id \in Seq(STRING)
      BY RowIs DEF GoodDb, IsConsistent, Get
    <2> QED  BY <2>1, AdminAssumption
  <1>2. IsRow(t) /\ t.table = "Task" /\ t \in rows
    BY DEF GoodDb, IsConsistent, Get
  <1>3. IF t.ref.contest = Null THEN t.num = Null ELSE t.num \in Int
    BY DEF GoodDb, NumsGiven
  <1>4. Place(t) \in Placed(rows)
    BY DEF Placed
  <1>5. Place(t)[1] = t.id /\ Place(t)[2] = t.ref.contest /\ Place(t)[3] = t.num
    BY PlaceFields
  <1>6. t.ref.contest = c.id => Place(t) \in Here(Placed(rows), c.id)
    BY <1>4, <1>5 DEF Here
  <1>7. NumsInOrder(rows) => InOrder(Placed(rows))
    BY PlacesInOrder DEF GoodDb
  <1> QED  BY <1>1, <1>2, <1>3, <1>4, <1>5, <1>6, <1>7, GoodPlaces

KeepsTasks(db, c, t) ==
    /\ GoodDb(db) /\ FilesOf(db) = FilesOf(rows)
    /\ t.ref.contest = c /\ NumsInOrder(rows) => NumsInOrder(db)

LEMMA RemoveFromContestGood ==
    ASSUME GoodDb(rows), NEW c \in Get(rows, "Contest"), NEW t \in Get(rows, "Task"),
           t.num # Null
    PROVE  KeepsTasks(RemoveFromContest(c.id, t), c.id, t)
  <1> DEFINE T == Assigned(t, Null, Null)
             v == AfterDown(t.num)
             P == Placed(rows)
  <1>1. /\ c.id # Null /\ t \in rows /\ t.num \in Int /\ IsRow(t) /\ t.table = "Task"
        /\ t.ref.contest = c.id => Place(t) \in Here(P, c.id)
        /\ NumsInOrder(rows) => InOrder(P)
        /\ Places(P) /\ Differ(P) /\ Place(t)[1] = t.id /\ Place(t)[3] = t.num
    BY TaskFacts
  <1>2. /\ PlacedAnew(rows, t, T) /\ Place(T) = <<t.id, Null, Null>>
        /\ T.ref.contest = Null /\ T.num = Null
    BY <1>1, MovedRow
  <1>3. RemoveFromContest(c.id, t) =
          IfAllowed({IF r \in TasksIn(rows, c.id) \ {t} /\ r.num > t.num
                     THEN Numbered(r, Down(r.num)) ELSE r : r \in rows \ {t}} \cup {T})
    BY DEF RemoveFromContest, Shifted
  <1> HIDE DEF T, v
  <1>4. RemoveFromContest(c.id, t) = IfAllowed(Renumbered(rows, c.id, t, T, v))
    BY <1>1, <1>3, ShiftsAre DEF v
  <1>5. \A n \in Int : v[n] \in Int
    BY <1>1, NumbersInNat DEF v
  <1>6. t.ref.contest = c.id /\ NumsInOrder(rows) =>
            InOrder(Moved(P, c.id, Place(t), Place(T), v))
    <2> SUFFICES ASSUME t.ref.contest = c.id, NumsInOrder(rows)
                 PROVE  InOrder(Moved(P, c.id, Place(t), Place(T), v))
      OBVIOUS
    <2>1. InOrder(Moved(P, c.id, Place(t), <<Place(t)[1], Null, Null>>, AfterDown(Place(t)[3])))
      BY <1>1, LeavingInOrder
    <2> QED  BY <1>1, <1>2, <2>1 DEF v
  <1> HIDE DEF P
  <1>7. LET db == IfAllowed(Renumbered(rows, c.id, t, T, v))
        IN  /\ GoodDb(db) /\ FilesOf(db) = FilesOf(rows)
            /\ NumsInOrder(rows) /\ InOrder(Moved(Placed(rows), c.id, Place(t), Place(T), v))
                      => NumsInOrder(db)
    BY <1>1, <1>2, <1>5, AllowedGood
  <1> QED  BY <1>4, <1>6, <1>7 DEF KeepsTasks, P

LEMMA MoveTopGood ==
    ASSUME GoodDb(rows), NEW c \in Get(rows, "Contest"), NEW t \in Get(rows, "Task"),
           t.num # Null
    PROVE  KeepsTasks(MoveTop(c.id, t), c.id, t)
  <1> DEFINE T == Numbered(t, 0)
             v == BeforeUp(t.num)
             P == Placed(rows)
  <1>1. /\ c.id # Null /\ t \in rows /\ t.num \in Int /\ IsRow(t) /\ t.table = "Task"
        /\ t.ref.contest # Null
        /\ t.ref.contest = c.id => Place(t) \in Here(P, c.id)
        /\ NumsInOrder(rows) => InOrder(P)
        /\ Places(P) /\ Differ(P) /\ Place(t)[1] = t.id /\ Place(t)[3] = t.num
    BY TaskFacts
  <1>2. /\ PlacedAnew(rows, t, T) /\ Place(T) = <<t.id, t.ref.contest, 0>>
        /\ T.ref.contest = t.ref.contest /\ T.num = 0
    BY <1>1, NumberedRow
  <1>3. MoveTop(c.id, t) =
          IfAllowed({IF r \in TasksIn(rows, c.id) \ {t} /\ r.num < t.num
                     THEN Numbered(r, Up(r.num)) ELSE r : r \in rows \ {t}} \cup {T})
    BY DEF MoveTop, Shifted
  <1> HIDE DEF T, v
  <1>4. MoveTop(c.id, t) = IfAllowed(Renumbered(rows, c.id, t, T, v))
    BY <1>1, <1>3, ShiftsAre DEF v
  <1>5. \A n \in Int : v[n] \in Int
    BY <1>1, NumbersInNat DEF v
  <1>6. t.ref.contest = c.id /\ NumsInOrder(rows) =>
            InOrder(Moved(P, c.id, Place(t), Place(T), v))
    <2> SUFFICES ASSUME t.ref.contest = c.id, NumsInOrder(rows)
                 PROVE  InOrder(Moved(P, c.id, Place(t), Place(T), v))
      OBVIOUS
    <2>1. InOrder(Moved(P, c.id, Place(t), <<Place(t)[1], c.id, 0>>, BeforeUp(Place(t)[3])))
      BY <1>1, TopInOrder
    <2> QED  BY <1>1, <1>2, <2>1 DEF v
  <1> HIDE DEF P
  <1>7. LET db == IfAllowed(Renumbered(rows, c.id, t, T, v))
        IN  /\ GoodDb(db) /\ FilesOf(db) = FilesOf(rows)
            /\ NumsInOrder(rows) /\ InOrder(Moved(Placed(rows), c.id, Place(t), Place(T), v))
                      => NumsInOrder(db)
    BY <1>1, <1>2, <1>5, AllowedGood
  <1> QED  BY <1>4, <1>6, <1>7 DEF KeepsTasks, P
LEMMA MoveBottomGood ==
    ASSUME GoodDb(rows), NEW c \in Get(rows, "Contest"), NEW t \in Get(rows, "Task"),
           t.num # Null
    PROVE  KeepsTasks(MoveBottom(c.id, t), c.id, t)
  <1> DEFINE P == Placed(rows)
             n == Cardinality(TasksIn(rows, c.id))
             T == Numbered(t, n - 1)
             v == AfterDown(t.num)
  <1>1. /\ c.id # Null /\ t \in rows /\ t.num \in Int /\ IsRow(t) /\ t.table = "Task"
        /\ t.ref.contest # Null
        /\ t.ref.contest = c.id => Place(t) \in Here(P, c.id)
        /\ NumsInOrder(rows) => InOrder(P)
        /\ Places(P) /\ Differ(P) /\ Place(t)[1] = t.id /\ Place(t)[3] = t.num
    BY TaskFacts
  <1>a. n = Cardinality(Here(P, c.id)) /\ n \in Nat
    <2>1. n = Cardinality(Here(P, c.id)) /\ IsFiniteSet(TasksIn(rows, c.id))
      BY HereTasks DEF GoodDb
    <2>2. n \in Nat
      BY <2>1, FS_CardinalityType
    <2> QED  BY <2>1, <2>2
  <1>3. MoveBottom(c.id, t) =
          IfAllowed({IF r \in TasksIn(rows, c.id) \ {t} /\ r.num > t.num
                     THEN Numbered(r, Down(r.num)) ELSE r : r \in rows \ {t}} \cup {T})
    BY DEF MoveBottom, Shifted
  <1> HIDE DEF n
  <1>2. /\ PlacedAnew(rows, t, T) /\ Place(T) = <<t.id, t.ref.contest, n - 1>>
        /\ T.ref.contest = t.ref.contest /\ T.num = n - 1
    BY <1>1, NumberedRow
  <1>b. n - 1 \in Int
    BY <1>a
  <1> HIDE DEF T, v
  <1>4. MoveBottom(c.id, t) = IfAllowed(Renumbered(rows, c.id, t, T, v))
    BY <1>1, <1>3, ShiftsAre DEF v
  <1>5. \A i \in Int : v[i] \in Int
    BY <1>1, NumbersInNat DEF v
  <1>6. t.ref.contest = c.id /\ NumsInOrder(rows) =>
            InOrder(Moved(P, c.id, Place(t), Place(T), v))
    <2> SUFFICES ASSUME t.ref.contest = c.id, NumsInOrder(rows)
                 PROVE  InOrder(Moved(P, c.id, Place(t), Place(T), v))
      OBVIOUS
    <2>1. InOrder(Moved(P, c.id, Place(t), <<Place(t)[1], c.id, Cardinality(Here(P, c.id)) - 1>>,
                        AfterDown(Place(t)[3])))
      BY <1>1, BottomInOrder
    <2> QED  BY <1>1, <1>2, <1>a, <2>1 DEF v
  <1> HIDE DEF P
  <1>7. LET db == IfAllowed(Renumbered(rows, c.id, t, T, v))
        IN  /\ GoodDb(db) /\ FilesOf(db) = FilesOf(rows)
            /\ NumsInOrder(rows) /\ InOrder(Moved(Placed(rows), c.id, Place(t), Place(T), v))
                      => NumsInOrder(db)
    BY <1>1, <1>2, <1>b, <1>5, AllowedGood
  <1> QED  BY <1>4, <1>6, <1>7 DEF KeepsTasks, P

(* Only one task has the number of the place that t goes to.               *)
LEMMA ExchangeIs ==
    ASSUME GoodDb(rows), NEW c, c # Null, NEW t \in rows, t.num \in Int, NEW n \in Int,
           n # t.num, NEW u \in TasksIn(rows, c), u.num = n
    PROVE  Exchange(c, t, n) =
               IfAllowed(Renumbered(rows, c, t, Numbered(t, n), Swapped(t.num, n)))
  <1> DEFINE m == t.num
             T == Numbered(t, n)
             v == Swapped(m, n)
             f == Renumbering(rows, c, t, T, v)
             S == {r \in TasksIn(rows, c) : r.num = n}
             E(w) == {Numbered(t, w.num), Numbered(w, m)} \cup (rows \ {t, w})
  <1>1. \A r \in rows : IsRow(r)
    BY DEF GoodDb, IsConsistent
  <1>2. \A r \in TasksIn(rows, c) : r.num \in Int /\ r \in rows
    BY DEF GoodDb, NumsGiven, TasksIn, Get
  <1>3. S = {u}
    <2>1. ASSUME NEW r \in TasksIn(rows, c), r.num = n PROVE r = u
      <3>1. r \in Get(rows, "Task") /\ u \in Get(rows, "Task")
            /\ r.ref.contest = c /\ u.ref.contest = c
        BY DEF TasksIn
      <3>2. r.num # Null
        BY <1>2, AdminAssumption
      <3> QED  BY <2>1, <3>1, <3>2 DEF GoodDb, NumsDiffer
    <2> QED  BY <2>1
  <1>4. u # t
    OBVIOUS
  <1>5. Exchange(c, t, n) = IfAllowed(UNION {E(w) : w \in S})
    BY <1>3 DEF Exchange
  <1>6. f[t] = T /\ f[u] = Numbered(u, m)
    <2>1. v[n] = m
      BY DEF Swapped
    <2>2. f[t] = T /\ f[u] = Numbered(u, v[u.num])
      <3> HIDE DEF v, T
      <3> QED  BY <1>2, <1>4 DEF Renumbering
    <2> QED  BY <2>1, <2>2
  <1>7. ASSUME NEW r \in rows \ {t, u} PROVE f[r] = r
    <2>1. CASE r \notin TasksIn(rows, c)
      BY <2>1 DEF Renumbering
    <2>2. CASE r \in TasksIn(rows, c)
      <3>1. r.num \in Int /\ r.num # n /\ Numbered(r, r.num) = r
        BY <1>1, <1>2, <1>3, <2>2, SameNumber
      <3>2. v[r.num] = r.num
        BY <3>1 DEF Swapped
      <3>3. f[r] = Numbered(r, v[r.num])
        <4> HIDE DEF v, T
        <4> QED  BY <2>2 DEF Renumbering
      <3> QED  BY <3>1, <3>2, <3>3
    <2> QED  BY <2>1, <2>2
  <1>8. Renumbered(rows, c, t, T, v) = {f[r] : r \in rows}
    BY DEF Renumbered
  <1>9. UNION {E(w) : w \in S} = E(u)
    <2> HIDE DEF E, S
    <2>1. UNION {E(w) : w \in {u}} = E(u)
      OBVIOUS
    <2> QED  BY <1>3, <2>1
  <1>10. E(u) = {T, Numbered(u, m)} \cup (rows \ {t, u})
    OBVIOUS
  <1> HIDE DEF f, T, v, E, S
  <1>11. {f[r] : r \in rows} = {T, Numbered(u, m)} \cup (rows \ {t, u})
    <2>1. u \in rows
      BY <1>2
    <2> HIDE DEF m
    <2> QED  BY <1>6, <1>7, <2>1
  <1> QED  BY <1>5, <1>8, <1>9, <1>10, <1>11 DEF T, v

LEMMA ExchangeGood ==
    ASSUME GoodDb(rows), NEW c \in Get(rows, "Contest"), NEW t \in Get(rows, "Task"),
           t.num # Null, NEW n, n = t.num - 1 \/ n = t.num + 1
    PROVE  KeepsTasks(Exchange(c.id, t, n), c.id, t)
  <1> DEFINE P == Placed(rows)
             T == Numbered(t, n)
             v == Swapped(t.num, n)
  <1>1. /\ c.id # Null /\ t \in rows /\ t.num \in Int /\ IsRow(t) /\ t.table = "Task"
        /\ t.ref.contest # Null
        /\ t.ref.contest = c.id => Place(t) \in Here(P, c.id)
        /\ NumsInOrder(rows) => InOrder(P)
        /\ Places(P) /\ Differ(P) /\ Place(t)[1] = t.id /\ Place(t)[3] = t.num
    BY TaskFacts
  <1>2. n \in Int /\ n # t.num
    BY <1>1
  <1>3. CASE ~\E u \in TasksIn(rows, c.id) : u.num = n
    <2>1. Exchange(c.id, t, n) = rows
      <3>1. {r \in TasksIn(rows, c.id) : r.num = n} = {}
        BY <1>3
      <3> QED  BY <3>1 DEF Exchange
    <2> QED  BY <2>1 DEF KeepsTasks
  <1>4. CASE \E u \in TasksIn(rows, c.id) : u.num = n
    <2>1. PICK u \in TasksIn(rows, c.id) : u.num = n
      BY <1>4
    <2>2. Exchange(c.id, t, n) = IfAllowed(Renumbered(rows, c.id, t, T, v))
      BY <1>1, <1>2, <2>1, ExchangeIs
    <2>3. /\ PlacedAnew(rows, t, T) /\ Place(T) = <<t.id, t.ref.contest, n>>
          /\ T.ref.contest = t.ref.contest /\ T.num = n
      BY <1>1, NumberedRow
    <2> HIDE DEF T, v
    <2>4. \A i \in Int : v[i] \in Int
      BY <1>1, <1>2, NumbersInNat DEF v
    <2>5. t.ref.contest = c.id /\ NumsInOrder(rows) =>
              InOrder(Moved(P, c.id, Place(t), Place(T), v))
      <3> SUFFICES ASSUME t.ref.contest = c.id, NumsInOrder(rows)
                   PROVE  InOrder(Moved(P, c.id, Place(t), Place(T), v))
        OBVIOUS
      <3>1. Place(u)[3] = n /\ Place(u)[2] = c.id /\ Place(u) \in P
        BY <2>1, PlaceFields DEF TasksIn, Placed
      <3>2. Place(u) \in Here(P, c.id) /\ Place(u) # Place(t)
        BY <1>1, <1>2, <3>1 DEF Here
      <3>3. InOrder(Moved(P, c.id, Place(t), <<Place(t)[1], c.id, Place(u)[3]>>,
                          Swapped(Place(t)[3], Place(u)[3])))
        BY <1>1, <3>2, SwapInOrder
      <3> QED  BY <1>1, <2>3, <3>1, <3>3 DEF v
    <2> HIDE DEF P
    <2>6. LET db == IfAllowed(Renumbered(rows, c.id, t, T, v))
          IN  /\ GoodDb(db) /\ FilesOf(db) = FilesOf(rows)
              /\ NumsInOrder(rows) /\ InOrder(Moved(Placed(rows), c.id, Place(t), Place(T), v))
                        => NumsInOrder(db)
      BY <1>1, <1>2, <2>3, <2>4, AllowedGood
    <2> QED  BY <2>2, <2>5, <2>6 DEF KeepsTasks, P
  <1> QED  BY <1>3, <1>4

LEMMA AddToContestGood ==
    ASSUME GoodDb(rows), NEW c \in Get(rows, "Contest"), NEW t \in Get(rows, "Task")
    PROVE  LET db == IfAllowed(Replace(rows, t,
                                   Assigned(t, c.id, Cardinality(TasksIn(rows, c.id)))))
           IN  /\ GoodDb(db) /\ FilesOf(db) = FilesOf(rows)
               /\ t.ref.contest = Null /\ NumsInOrder(rows) => NumsInOrder(db)
  <1> DEFINE P == Placed(rows)
             n == Cardinality(TasksIn(rows, c.id))
             T == Assigned(t, c.id, n)
             v == Unmoved
             R == Renumbered(rows, c.id, t, T, v)
  <1>1. /\ c.id # Null /\ t \in rows /\ IsRow(t) /\ t.table = "Task"
        /\ Place(t) \in P
        /\ NumsInOrder(rows) => InOrder(P)
        /\ Places(P) /\ Differ(P) /\ Place(t)[1] = t.id /\ Place(t)[2] = t.ref.contest
    BY TaskFacts
  <1>2. n = Cardinality(Here(P, c.id)) /\ n \in Nat
    <2>1. n = Cardinality(Here(P, c.id)) /\ IsFiniteSet(TasksIn(rows, c.id))
      BY HereTasks DEF GoodDb
    <2>2. n \in Nat
      BY <2>1, FS_CardinalityType
    <2> QED  BY <2>1, <2>2
  <1> HIDE DEF n
  <1>3. /\ PlacedAnew(rows, t, T) /\ Place(T) = <<t.id, c.id, n>>
        /\ T.ref.contest = c.id /\ T.num = n
    BY <1>1, MovedRow
  <1> HIDE DEF T, v
  <1>4. Replace(rows, t, T) = R
    <2> DEFINE f == Renumbering(rows, c.id, t, T, v)
    <2>1. \A r \in rows : IsRow(r)
      BY DEF GoodDb, IsConsistent
    <2>2. \A r \in TasksIn(rows, c.id) : r.num \in Int
      BY <1>1 DEF GoodDb, NumsGiven, TasksIn
    <2>3. f[t] = T
      BY <1>1 DEF Renumbering
    <2>4. ASSUME NEW r \in rows \ {t} PROVE f[r] = r
      <3>1. CASE r \notin TasksIn(rows, c.id)
        BY <3>1 DEF Renumbering
      <3>2. CASE r \in TasksIn(rows, c.id)
        <4>1. Numbered(r, r.num) = r /\ v[r.num] = r.num
          BY <2>1, <2>2, <3>2, SameNumber DEF v, Unmoved
        <4>2. f[r] = Numbered(r, v[r.num])
          BY <3>2 DEF Renumbering
        <4> QED  BY <4>1, <4>2
      <3> QED  BY <3>1, <3>2
    <2>5. R = {f[r] : r \in rows}
      BY DEF Renumbered
    <2> HIDE DEF f, R
    <2>6. {f[r] : r \in rows} = (rows \ {t}) \cup {T}
      BY <1>1, <2>3, <2>4
    <2> QED  BY <2>5, <2>6 DEF Replace
  <1>5. \A i \in Int : v[i] \in Int
    BY NumbersInNat DEF v, Unmoved
  <1>6. t.ref.contest = Null /\ NumsInOrder(rows) =>
            InOrder(Moved(P, c.id, Place(t), Place(T), v))
    <2> SUFFICES ASSUME t.ref.contest = Null, NumsInOrder(rows)
                 PROVE  InOrder(Moved(P, c.id, Place(t), Place(T), v))
      OBVIOUS
    <2>1. InOrder(Moved(P, c.id, Place(t), <<Place(t)[1], c.id, Cardinality(Here(P, c.id))>>,
                        Unmoved))
      BY <1>1, ComingInOrder
    <2> QED  BY <1>1, <1>2, <1>3, <2>1 DEF v
  <1> HIDE DEF P
  <1>7. LET db == IfAllowed(R)
        IN  /\ GoodDb(db) /\ FilesOf(db) = FilesOf(rows)
            /\ NumsInOrder(rows) /\ InOrder(Moved(Placed(rows), c.id, Place(t), Place(T), v))
                      => NumsInOrder(db)
    BY <1>1, <1>2, <1>3, <1>5, AllowedGood
  <1>8. LET db == IfAllowed(Replace(rows, t, T))
        IN  /\ GoodDb(db) /\ FilesOf(db) = FilesOf(rows)
            /\ t.ref.contest = Null /\ NumsInOrder(rows) => NumsInOrder(db)
    BY <1>4, <1>6, <1>7 DEF P
  <1> QED  BY <1>8 DEF T, n

-----------------------------------------------------------------------------
(* The numbers of the tasks that a deletion leaves.                        *)

LEMMA SubPlaces ==
    ASSUME NEW P, Places(P), Given(P), Differ(P), NEW P2, P2 \subseteq P
    PROVE  /\ Places(P2) /\ Given(P2) /\ Differ(P2)
           /\ InOrder(P) /\ (\A x \in P, y \in P2 : x[2] = y[2] /\ x[2] # Null => x \in P2)
                  => InOrder(P2)
  <1>1. Places(P2)
    BY FS_Subset DEF Places
  <1>2. Given(P2) /\ Differ(P2)
    BY DEF Given, Differ
  <1>3. ASSUME InOrder(P), \A x \in P, y \in P2 : x[2] = y[2] /\ x[2] # Null => x \in P2
        PROVE  InOrder(P2)
    <2> SUFFICES ASSUME NEW b \in {x[2] : x \in P2}, b # Null
                 PROVE  {x[3] : x \in Here(P2, b)} = 0 .. (Cardinality(Here(P2, b)) - 1)
      BY DEF InOrder
    <2>1. Here(P2, b) = Here(P, b)
      BY <1>3 DEF Here
    <2>2. b \in {x[2] : x \in P} \ {Null}
      OBVIOUS
    <2> QED  BY <1>3, <2>1, <2>2 DEF InOrder
  <1> QED  BY <1>1, <1>2, <1>3

LEMMA DoomedTasks ==
    ASSUME NEW db, \A r \in db : IsRow(r), NEW S, S \subseteq db, NEW u \in Get(db, "Task")
    PROVE  u \in Doomed(db, S) <=>
               u \in S \/ \E q \in S : q.table = "Contest" /\ u.ref.contest = q.id
  <1> DEFINE k == Key("contest", "Contest", "CASCADE", "NULL")
             gone == Doomed(db, S)
  <1>1. /\ S \subseteq gone /\ gone \subseteq db
        /\ \A q \in gone : Owned(db, q) \subseteq gone
        /\ \A r \in gone : r \in S \/ \E q \in gone : r \in Owned(db, q)
    BY DoomedFacts
  <1>2. u \in db /\ u.table = "Task"
    BY DEF Get
  <1>3. k \in Keys(u) /\ k.column = "contest" /\ k.table = "Contest" /\ k.ondelete = "CASCADE"
    BY <1>2, SomeKeys, KeyFields DEF HasKey, Keys
  <1>4. \A j \in Keys(u) : j.ondelete = "CASCADE" => j = k
    <2>1. ASSUME NEW j \in Keys(u)
          PROVE  j = k \/ j = Key("active_dataset", "Dataset", "SET_NULL", "NOT_NULL")
      BY <1>2, TablesAre DEF Keys, Task, Table, Key
    <2>2. Key("active_dataset", "Dataset", "SET_NULL", "NOT_NULL").ondelete # "CASCADE"
      BY KeyFields
    <2> QED  BY <2>1, <2>2
  <1> HIDE DEF k, gone
  <1>5. ASSUME u \in gone, u \notin S
        PROVE  \E q \in S : q.table = "Contest" /\ u.ref.contest = q.id
    <2>1. PICK q \in gone : u \in Owned(db, q)
      BY <1>1, <1>5
    <2>2. Refers(u, k, q)
      BY <1>4, <2>1 DEF Owned
    <2>3. q.table = "Contest" /\ u.ref.contest = q.id
      BY <1>3, <2>2 DEF Refers
    <2>4. Keys(q) = {}
      BY <2>3, TablesAre DEF Keys, Contest, Table
    <2>5. ~\E x \in gone : q \in Owned(db, x)
      BY <2>4 DEF Owned
    <2> QED  BY <1>1, <2>3, <2>5
  <1>6. ASSUME NEW q \in S, q.table = "Contest", u.ref.contest = q.id PROVE u \in gone
    <2>1. Refers(u, k, q)
      BY <1>3, <1>6 DEF Refers
    <2> QED  BY <1>1, <1>2, <1>3, <2>1 DEF Owned
  <1> QED  BY <1>1, <1>5, <1>6 DEF gone

LEMMA DeletedTasks ==
    ASSUME NEW db, IsConsistent(db), NEW S, S \subseteq db, ~Refused(db, S)
    PROVE  Get(Deleted(db, S), "Task") = Get(db, "Task") \ Doomed(db, S)
  <1>1. "Task" \notin Answered
    BY DEF Answered
  <1>2. /\ \A r \in db \ Doomed(db, S) : r.table \notin Answered => r \in Deleted(db, S)
        /\ \A r \in Deleted(db, S) : r.table \notin Answered => r \in db \ Doomed(db, S)
    BY DeletedConsistent
  <1> QED  BY <1>1, <1>2 DEF Get

(* All rows that are deleted are tasks of no contest, or no tasks.         *)
LEMMA DeletedGood ==
    ASSUME NEW db, GoodDb(db), NEW S, S \subseteq db, ~Refused(db, S)
    PROVE  /\ GoodDb(Deleted(db, S)) /\ FilesOf(Deleted(db, S)) \subseteq FilesOf(db)
           /\ NumsInOrder(db) /\ (\A t \in Get(S, "Task") : t.ref.contest = Null)
                  => NumsInOrder(Deleted(db, S))
  <1> DEFINE D == Deleted(db, S)
             P == Placed(db)
             P2 == Placed(D)
  <1>1. IsConsistent(db) /\ \A r \in db : IsRow(r)
    BY DEF GoodDb, IsConsistent
  <1>2. IsConsistent(D) /\ FilesOf(D) \subseteq FilesOf(db)
    BY <1>1, DeletedConsistent
  <1>3. Get(D, "Task") = Get(db, "Task") \ Doomed(db, S)
    BY <1>1, DeletedTasks
  <1>4. Places(P) /\ Given(P) /\ Differ(P)
    BY GoodPlaces
  <1> HIDE DEF D
  <1>5. P2 \subseteq P
    BY <1>3 DEF Placed
  <1>6. /\ Given(P2) /\ Differ(P2)
        /\ InOrder(P) /\ (\A x \in P, y \in P2 : x[2] = y[2] /\ x[2] # Null => x \in P2)
                  => InOrder(P2)
    BY <1>4, <1>5, SubPlaces
  <1>7. GoodDb(D)
    BY <1>2, <1>6, PlacesGiven, PlacesDiffer DEF GoodDb
  <1>8. ASSUME NumsInOrder(db), \A t \in Get(S, "Task") : t.ref.contest = Null
        PROVE  NumsInOrder(D)
    <2>1. InOrder(P)
      BY <1>1, <1>8, PlacesInOrder
    <2>2. ASSUME NEW x \in P, NEW y \in P2, x[2] = y[2], x[2] # Null PROVE x \in P2
      <3>1. PICK u \in Get(db, "Task") : x = Place(u)
        BY DEF Placed
      <3>2. PICK w \in Get(D, "Task") : y = Place(w)
        BY DEF Placed
      <3>3. w \in Get(db, "Task") /\ w \notin Doomed(db, S)
        BY <1>3
      <3>4. u.ref.contest = w.ref.contest /\ u.ref.contest # Null
        BY <2>2, <3>1, <3>2, PlaceFields
      <3>5. u \notin S
        BY <1>8, <3>4 DEF Get
      <3>6. u \notin Doomed(db, S)
        BY <1>1, <3>3, <3>4, <3>5, DoomedTasks
      <3> QED  BY <1>3, <3>1, <3>6 DEF Placed
    <2>3. InOrder(P2)
      BY <1>6, <2>1, <2>2
    <2> QED  BY <1>2, <2>3, PlacesInOrder
  <1> QED  BY <1>2, <1>7, <1>8 DEF D

LEMMA AfterDeleteGood ==
    ASSUME NEW db, GoodDb(db), NEW S, S \subseteq db
    PROVE  /\ GoodDb(AfterDelete(db, S)) /\ FilesOf(AfterDelete(db, S)) \subseteq FilesOf(db)
           /\ NumsInOrder(db) /\ (\A t \in Get(S, "Task") : t.ref.contest = Null)
                  => NumsInOrder(AfterDelete(db, S))
  BY DeletedGood DEF AfterDelete

LEMMA GoneDiffer ==
    ASSUME NEW P, Given(P), Differ(P), Places(P), NEW c, c # Null, NEW x \in Here(P, c)
    PROVE  Differ(Moved(P \ {x}, c, x, x, AfterDown(x[3])))
  <1> DEFINE Q == P \ {x}
             m == x[3]
             v == AfterDown(m)
             g == Moving(Q, c, x, x, v)
  <1>1. Moved(Q, c, x, x, v) = {g[z] : z \in Q}
    BY DEF Moved
  <1>2. \A z \in Q : /\ z[2] = c => g[z][1] = z[1] /\ g[z][2] = c /\ g[z][3] = v[z[3]]
                     /\ z[2] # c => g[z] = z
    BY MovingIs
  <1>3. \A n \in Int : v[n] = IF n > m THEN n - 1 ELSE n
    BY DEF AfterDown
  <1>4. x \in P /\ x[2] = c /\ m \in Int
    BY DEF Here, Given
  <1> HIDE DEF g, v
  <1>5. ASSUME NEW z \in Q, NEW w \in Q, z # w, g[z][2] = g[w][2], g[z][2] # Null
        PROVE  g[z][3] # g[w][3]
    <2>1. CASE z[2] = c
      <3>1. w[2] = c
        BY <1>2, <1>5, <2>1
      <3>2. z[3] # w[3] /\ z[3] # m /\ w[3] # m
        BY <1>4, <1>5, <2>1, <3>1 DEF Differ
      <3>3. z[3] \in Int /\ w[3] \in Int
        BY <2>1, <3>1 DEF Given
      <3>4. v[z[3]] # v[w[3]]
        BY <1>3, <1>4, <3>2, <3>3
      <3> QED  BY <1>2, <2>1, <3>1, <3>4
    <2>2. CASE z[2] # c
      <3>1. g[z] = z /\ w[2] # c
        BY <1>2, <1>5, <2>2
      <3>2. g[w] = w
        BY <1>2, <3>1
      <3> QED  BY <1>5, <3>1, <3>2 DEF Differ
    <2> QED  BY <2>1, <2>2
  <1> HIDE DEF Q
  <1>6. Differ({g[z] : z \in Q})
    BY <1>5 DEF Differ
  <1> QED  BY <1>1, <1>6 DEF Q, v

LEMMA WithoutTaskGood ==
    ASSUME GoodDb(rows), NEW t \in Get(rows, "Task")
    PROVE  /\ GoodDb(WithoutTask(t)) /\ FilesOf(WithoutTask(t)) \subseteq FilesOf(rows)
           /\ NumsInOrder(rows) => NumsInOrder(WithoutTask(t))
  <1> DEFINE D == Deleted(rows, {t})
             c == t.ref.contest
             m == t.num
             v == AfterDown(m)
             R == Renumbered(D, c, t, t, v)
             P == Placed(rows)
  <1>1. IsConsistent(rows) /\ (\A r \in rows : IsRow(r)) /\ t \in rows /\ t.table = "Task"
    BY DEF GoodDb, IsConsistent, Get
  <1>2. CASE Refused(rows, {t}) \/ (c # Null /\ MovesCollide(t))
    BY <1>2 DEF WithoutTask
  <1>3. CASE ~Refused(rows, {t}) /\ c = Null
    <2>1. WithoutTask(t) = D
      BY <1>3 DEF WithoutTask
    <2>2. \A u \in Get({t}, "Task") : u.ref.contest = Null
      BY <1>3 DEF Get
    <2> QED  BY <1>1, <1>3, <2>1, <2>2, DeletedGood
  <1>4. CASE ~Refused(rows, {t}) /\ c # Null /\ ~MovesCollide(t)
    <2>1. GoodDb(D) /\ FilesOf(D) \subseteq FilesOf(rows)
      BY <1>1, <1>4, DeletedGood
    <2>2. Get(D, "Task") = Get(rows, "Task") \ {t}
      <3>1. Get(D, "Task") = Get(rows, "Task") \ Doomed(rows, {t})
        BY <1>1, <1>4, DeletedTasks
      <3>2. \A u \in Get(rows, "Task") : u \in Doomed(rows, {t}) <=> u = t
        BY <1>1, DoomedTasks
      <3> QED  BY <3>1, <3>2
    <2>3. t \notin D
      BY <1>1, <2>2 DEF Get
    <2>4. m \in Int
      BY <1>4 DEF GoodDb, NumsGiven
    <2>5. WithoutTask(t) = {IF r \in Following(t) THEN Numbered(r, r.num - 1) ELSE r : r \in D}
      BY <1>4 DEF WithoutTask
    <2> HIDE DEF D
    <2>6. ASSUME NEW r \in D
          PROVE  Renumbering(D, c, t, t, v)[r] =
                     IF r \in Following(t) THEN Numbered(r, r.num - 1) ELSE r
      <3>1. r # t /\ IsRow(r)
        BY <2>1, <2>3 DEF GoodDb, IsConsistent
      <3>2. Renumbering(D, c, t, t, v)[r] =
                IF r \in TasksIn(D, c) THEN Numbered(r, v[r.num]) ELSE r
        <4> HIDE DEF v, c
        <4> QED  BY <3>1 DEF Renumbering
      <3>3. r \in TasksIn(D, c) <=> r \in TasksIn(rows, c)
        BY <2>2, <3>1 DEF TasksIn, Get
      <3>4. CASE r \notin TasksIn(rows, c)
        BY <3>2, <3>3, <3>4 DEF Following
      <3>5. CASE r \in TasksIn(rows, c)
        <4>1. r.num \in Int
          BY <1>4, <3>5 DEF TasksIn, GoodDb, NumsGiven
        <4>2. v[r.num] = IF r.num > m THEN r.num - 1 ELSE r.num
          BY <4>1 DEF AfterDown
        <4>3. r \in Following(t) <=> r.num > m
          BY <3>5 DEF Following
        <4>4. Numbered(r, r.num) = r
          BY <3>1, SameNumber
        <4> HIDE DEF v
        <4> QED  BY <3>2, <3>3, <3>5, <4>2, <4>3, <4>4
      <3> QED  BY <3>4, <3>5
    <2>7. WithoutTask(t) = R
      <3> DEFINE f == Renumbering(D, c, t, t, v)
      <3>1. R = {f[r] : r \in D}
        BY DEF Renumbered
      <3>2. \A r \in D : f[r] = IF r \in Following(t) THEN Numbered(r, r.num - 1) ELSE r
        BY <2>6
      <3> HIDE DEF f, R
      <3> QED  BY <2>5, <3>1, <3>2
    <2>8. \A u \in Get(D, "Task") : u.id = t.id => u = t
      BY <1>1, <2>2 DEF IsConsistent, UniqueIds, Get
    <2>9. Placed(D) = P \ {Place(t)}
      <3>1. \A u \in Get(D, "Task") : Place(u) # Place(t)
        BY <2>2, <2>8, PlaceFields
      <3> QED  BY <2>2, <3>1 DEF Placed
    <2>10. Placed(R) = Moved(P \ {Place(t)}, c, Place(t), Place(t), v)
      <3>1. \A r \in D : IsRow(r)
        BY <2>1 DEF GoodDb, IsConsistent
      <3> HIDE DEF v, c
      <3> QED  BY <2>3, <2>8, <2>9, <3>1, RenumberedPlaces
    <2>11. /\ Places(P) /\ Given(P) /\ Differ(P) /\ Place(t) \in Here(P, c)
           /\ Place(t)[3] = m
      BY GoodPlaces, PlaceFields DEF Here, Placed
    <2>12. Differ(Placed(R))
      <3>1. Differ(Moved(P \ {Place(t)}, c, Place(t), Place(t), AfterDown(Place(t)[3])))
        BY <1>4, <2>11, GoneDiffer
      <3> QED  BY <2>10, <2>11, <3>1
    <2>13. NumsInOrder(rows) => InOrder(Placed(R))
      <3> SUFFICES ASSUME NumsInOrder(rows) PROVE InOrder(Placed(R))
        OBVIOUS
      <3>1. InOrder(P)
        BY <1>1, PlacesInOrder
      <3>2. InOrder(Moved(P \ {Place(t)}, c, Place(t), Place(t), AfterDown(Place(t)[3])))
        BY <1>4, <2>11, <3>1, GoneInOrder
      <3> QED  BY <2>10, <2>11, <3>2
    <2>14. IsConsistent(R) /\ FilesOf(R) = FilesOf(D)
      <3> HIDE DEF v, c
      <3> QED  BY <2>1, <2>3, RenumberedConsistent DEF GoodDb
    <2>15. NumsGiven(R)
      <3>1. Given(Moved(P \ {Place(t)}, c, Place(t), Place(t), v))
        <4> DEFINE Q == P \ {Place(t)}
                   g == Moving(Q, c, Place(t), Place(t), v)
        <4>1. \A z \in Q : /\ z[2] = c => g[z][1] = z[1] /\ g[z][2] = c /\ g[z][3] = v[z[3]]
                           /\ z[2] # c => g[z] = z
          BY MovingIs
        <4>2. \A i \in Int : v[i] \in Int
          BY <2>4, NumbersInNat
        <4>3. \A z \in Q : IF z[2] = Null THEN z[3] = Null ELSE z[3] \in Int
          BY <2>11 DEF Given
        <4> HIDE DEF g, Q, v, c
        <4>4. \A z \in Q : IF g[z][2] = Null THEN g[z][3] = Null ELSE g[z][3] \in Int
          BY <1>4, <4>1, <4>2, <4>3
        <4>5. Moved(Q, c, Place(t), Place(t), v) = {g[z] : z \in Q}
          BY DEF Moved, g
        <4>6. Given({g[z] : z \in Q})
          BY <4>4 DEF Given
        <4> QED  BY <4>5, <4>6 DEF Q
      <3> QED  BY <2>10, <3>1, PlacesGiven
    <2> HIDE DEF R
    <2>16. NumsDiffer(R)
      BY <2>12, <2>14, <2>15, PlacesDiffer
    <2>17. NumsInOrder(rows) => NumsInOrder(R)
      BY <2>13, <2>14, PlacesInOrder
    <2> QED  BY <2>1, <2>7, <2>14, <2>15, <2>16, <2>17 DEF GoodDb
  <1> QED  BY <1>2, <1>3, <1>4

-----------------------------------------------------------------------------
(* What a transaction leaves of the database, when it brings these files.  *)

Serves(db, digests) ==
    /\ GoodDb(db) /\ FilesOf(db) \subseteq FilesOf(rows) \cup digests
    /\ NumsInOrder(rows) => NumsInOrder(db)

LEMMA SamePlaces ==
    ASSUME NEW db, GoodDb(db), NEW db2, IsConsistent(db2), Placed(db2) = Placed(db)
    PROVE  GoodDb(db2) /\ (NumsInOrder(db) => NumsInOrder(db2))
  <1>1. Given(Placed(db)) /\ Differ(Placed(db))
    BY GoodPlaces
  <1>2. NumsGiven(db2)
    BY <1>1, PlacesGiven
  <1>3. NumsDiffer(db2)
    BY <1>1, <1>2, PlacesDiffer
  <1>4. NumsInOrder(db) => NumsInOrder(db2)
    BY PlacesInOrder DEF GoodDb
  <1> QED  BY <1>2, <1>3, <1>4 DEF GoodDb

LEMMA SameTasks ==
    ASSUME NEW db, GoodDb(db), NEW db2, IsConsistent(db2), Get(db2, "Task") = Get(db, "Task")
    PROVE  GoodDb(db2) /\ (NumsInOrder(db) => NumsInOrder(db2))
  <1>1. Placed(db2) = Placed(db)
    BY DEF Placed
  <1> QED  BY <1>1, SamePlaces

LEMMA ReshapedServes ==
    ASSUME GoodDb(rows), NEW db, NEW f, Reshaped(rows, db, f), IsConsistent(db),
           \A t \in Get(rows, "Task") :
               f[t].num = t.num /\ f[t].ref.contest = t.ref.contest
    PROVE  Serves(db, {})
  <1>1. ASSUME NEW t \in Get(rows, "Task") PROVE f[t] \in Get(db, "Task") /\ Place(f[t]) = Place(t)
    <2>1. f[t].id = t.id /\ f[t].table = "Task" /\ f[t] \in db
      BY DEF Reshaped, Get
    <2>2. f[t].num = t.num /\ f[t].ref.contest = t.ref.contest
      OBVIOUS
    <2> QED  BY <2>1, <2>2 DEF Place, Get
  <1>2. ASSUME NEW u \in Get(db, "Task") PROVE \E t \in Get(rows, "Task") : u = f[t]
    BY DEF Reshaped, Get
  <1>3. Placed(db) = Placed(rows)
    <2>1. ASSUME NEW x \in Placed(db) PROVE x \in Placed(rows)
      <3>1. PICK u \in Get(db, "Task") : x = Place(u)
        BY DEF Placed
      <3>2. PICK t \in Get(rows, "Task") : u = f[t]
        BY <1>2
      <3> QED  BY <1>1, <3>1, <3>2 DEF Placed
    <2>2. ASSUME NEW x \in Placed(rows) PROVE x \in Placed(db)
      <3>1. PICK t \in Get(rows, "Task") : x = Place(t)
        BY DEF Placed
      <3> QED  BY <1>1, <3>1 DEF Placed
    <2> QED  BY <2>1, <2>2
  <1>4. FilesOf(db) = FilesOf(rows)
    BY ReshapedFiles
  <1> QED  BY <1>3, <1>4, SamePlaces DEF Serves

LEMMA ReplaceServes ==
    ASSUME GoodDb(rows), NEW r \in rows, NEW q, IsConsistent(Replace(rows, r, q)),
           Reshaped(rows, Replace(rows, r, q), Replacing(rows, r, q)),
           r.table = "Task" => q.num = r.num /\ q.ref.contest = r.ref.contest
    PROVE  Serves(Replace(rows, r, q), {})
  <1> DEFINE f == Replacing(rows, r, q)
  <1>1. \A x \in rows : f[x] = IF x = r THEN q ELSE x
    BY DEF Replacing
  <1> HIDE DEF f
  <1>2. \A t \in Get(rows, "Task") : f[t].num = t.num /\ f[t].ref.contest = t.ref.contest
    BY <1>1 DEF Get
  <1>3. Reshaped(rows, Replace(rows, r, q), f)
    BY DEF f
  <1> QED  BY <1>2, <1>3, ReshapedServes

(* Descriptive columns and the number of a row that is no task.            *)
LEMMA EditServes ==
    ASSUME GoodDb(rows), NEW r \in rows
    PROVE  /\ Serves(Replace(rows, r, Edited(r)), {})
           /\ \A n : r.table # "Task" => Serves(Replace(rows, r, [r EXCEPT !.num = n]), {})
  <1>1. IsConsistent(rows) /\ IsRow(r)
    BY DEF GoodDb, IsConsistent
  <1>2. Serves(Replace(rows, r, Edited(r)), {})
    <2> DEFINE q == Edited(r)
    <2>1. Retouched(r, q) /\ q.num = r.num
      BY <1>1, RetouchedRow
    <2>2. q.ref = r.ref
      BY <2>1 DEF Retouched
    <2> HIDE DEF q
    <2>3. Serves(Replace(rows, r, q), {})
      BY <1>1, <2>1, <2>2, ReplaceRetouched, ReplaceServes
    <2> QED  BY <2>3 DEF q
  <1>3. ASSUME NEW n, r.table # "Task" PROVE Serves(Replace(rows, r, [r EXCEPT !.num = n]), {})
    <2> DEFINE q == [r EXCEPT !.num = n]
    <2>1. Retouched(r, q)
      BY <1>1, RetouchedRow
    <2> HIDE DEF q
    <2>2. Serves(Replace(rows, r, q), {})
      BY <1>1, <1>3, <2>1, ReplaceRetouched, ReplaceServes
    <2> QED  BY <2>2 DEF q
  <1> QED  BY <1>2, <1>3

(* A row that is no task refers to another row, or to none.                *)
LEMMA RepointServes ==
    ASSUME GoodDb(rows), NEW r \in rows, NEW q, NEW c, NEW v, Repointed(r, q, c, v),
           r.table \notin JudgedTables \cup {"Task"},
           \A k \in Keys(r) : k.column = c => Pointing(rows, q, k)
    PROVE  Serves(Replace(rows, r, q), {})
  <1>1. IsConsistent(rows)
    BY DEF GoodDb
  <1>2. /\ IsConsistent(Replace(rows, r, q))
        /\ Reshaped(rows, Replace(rows, r, q), Replacing(rows, r, q))
    BY <1>1, ReplaceRepointed
  <1> QED  BY <1>2, ReplaceServes

LEMMA ParticipationServes ==
    ASSUME GoodDb(rows), NEW p \in Get(rows, "Participation"),
           NEW team \in {m.id : m \in Get(rows, "Team")} \cup {Null}
    PROVE  Serves(Replace(rows, p, [Edited(p) EXCEPT !.ref.team = team]), {})
  <1> DEFINE q == [Edited(p) EXCEPT !.ref.team = team]
             k == Key("team", "Team", "RESTRICT", "NULL")
  <1>1. p \in rows /\ p.table = "Participation" /\ IsRow(p)
    BY DEF GoodDb, IsConsistent, Get
  <1>2. Repointed(p, q, "team", team)
    BY <1>1, ParticipationEdited
  <1>3. k \in Keys(p) /\ k.column = "team" /\ k.table = "Team" /\ k.null = "NULL"
    BY <1>1, TablesAre DEF Keys, Participation, Table, Key
  <1> HIDE DEF q, k
  <1>4. q.ref["team"] = team
    BY <1>1, <1>2, RowIs, ColumnNames DEF Repointed
  <1>5. \A j \in Keys(p) : j.column = "team" => j = k
    BY <1>1, <1>3, RowFacts
  <1>6. Pointing(rows, q, k)
    BY <1>3, <1>4 DEF Pointing, Refers, Get
  <1>7. Serves(Replace(rows, p, q), {})
    BY <1>1, <1>2, <1>5, <1>6, RepointServes DEF JudgedTables
  <1> QED  BY <1>7 DEF q

LEMMA QuestionServes ==
    ASSUME GoodDb(rows), NEW r \in Get(rows, "Question"),
           NEW a \in {x.id : x \in Get(rows, "Admin")} \cup {Null}, NEW q,
           Repointed(r, q, "admin", a)
    PROVE  Serves(Replace(rows, r, q), {})
  <1> DEFINE k == Key("admin", "Admin", "SET_NULL", "NULL")
  <1>1. r \in rows /\ r.table = "Question" /\ IsRow(r)
    BY DEF GoodDb, IsConsistent, Get
  <1>3. k \in Keys(r) /\ k.column = "admin" /\ k.table = "Admin" /\ k.null = "NULL"
    BY <1>1, TablesAre DEF Keys, Question, Table, Key
  <1> HIDE DEF k
  <1>4. q.ref["admin"] = a
    BY <1>1, RowIs, ColumnNames DEF Repointed
  <1>5. \A j \in Keys(r) : j.column = "admin" => j = k
    BY <1>1, <1>3, RowFacts
  <1>6. Pointing(rows, q, k)
    BY <1>3, <1>4 DEF Pointing, Refers, Get
  <1> QED  BY <1>1, <1>5, <1>6, RepointServes DEF JudgedTables

LEMMA InsertServes ==
    ASSUME GoodDb(rows), NEW new, PlainRows(new), ReferencesHold(rows \cup new)
    PROVE  Serves(Insert(rows, new), FilesOf(new))
  BY InsertPlain, SameTasks DEF Serves, GoodDb

LEMMA NewServes ==
    ASSUME GoodDb(rows), NEW T, T \notin {"Task", "Evaluation"}, NEW r \in New(T)
    PROVE  /\ Serves(Insert(rows, {r}), r.digests)
           /\ T \notin FileTables => Serves(Insert(rows, {r}), {})
  <1>1. /\ r.table = T /\ IsRow(r) /\ ReferencesHold(rows \cup {r}) /\ PlainRows({r})
        /\ FilesOf({r}) = r.digests
    BY NewRow
  <1>2. T \notin FileTables => r.digests = {}
    BY <1>1, RowIs
  <1>3. Serves(Insert(rows, {r}), r.digests)
    BY <1>1, InsertServes
  <1> QED  BY <1>2, <1>3

LEMMA DeleteServes ==
    ASSUME GoodDb(rows), NEW S, S \subseteq rows, \A t \in Get(S, "Task") : t.ref.contest = Null
    PROVE  Serves(AfterDelete(rows, S), {})
  BY AfterDeleteGood DEF Serves

LEMMA AddTaskServes ==
    ASSUME GoodDb(rows), NEW t \in Get(Addable, "Task")
    PROVE  Serves(Insert(rows, {[t EXCEPT !.ref.active_dataset = FirstDataset(t).id],
                                FirstDataset(t)}), {})
  <1> DEFINE u == [t EXCEPT !.ref.active_dataset = FirstDataset(t).id]
             d == FirstDataset(t)
             db == Insert(rows, {u, d})
             P == Placed(rows)
  <1>1. /\ IsConsistent(db) /\ FilesOf(db) = FilesOf(rows)
        /\ u.table = "Task" /\ u.num = t.num /\ u.ref.contest = Null /\ d.table = "Dataset"
    BY NewTaskFits DEF GoodDb
  <1>2. u.num = Null
    BY <1>1, AdminAssumption
  <1> HIDE DEF u, d
  <1>3. ASSUME Taken(rows, {u, d}) PROVE Serves(db, {})
    BY <1>3 DEF Insert, Serves
  <1>4. ASSUME ~Taken(rows, {u, d}) PROVE Serves(db, {})
    <2>1. Get(db, "Task") = Get(rows, "Task") \cup {u}
      BY <1>1, <1>4 DEF Insert, Get
    <2> HIDE DEF db
    <2>2. Placed(db) = P \cup {Place(u)}
      BY <2>1 DEF Placed
    <2>3. Place(u)[2] = Null /\ Place(u)[3] = Null
      BY <1>1, <1>2, PlaceFields
    <2>4. Given(P) /\ Differ(P)
      BY GoodPlaces
    <2>5. NumsGiven(db)
      BY <2>2, <2>3, <2>4, PlacesGiven DEF Given
    <2>6. NumsDiffer(db)
      BY <1>1, <2>2, <2>3, <2>4, <2>5, PlacesDiffer DEF Differ
    <2>7. ASSUME NumsInOrder(rows) PROVE NumsInOrder(db)
      <3>1. InOrder(P)
        BY <2>7, PlacesInOrder DEF GoodDb
      <3>2. ASSUME NEW c, c # Null PROVE Here(Placed(db), c) = Here(P, c)
        BY <2>2, <2>3, <3>2 DEF Here
      <3>3. {x[2] : x \in Placed(db)} \ {Null} \subseteq {x[2] : x \in P} \ {Null}
        BY <2>2, <2>3
      <3>4. InOrder(Placed(db))
        BY <3>1, <3>2, <3>3 DEF InOrder
      <3> QED  BY <1>1, <3>4, PlacesInOrder
    <2> QED  BY <1>1, <2>5, <2>6, <2>7 DEF Serves, GoodDb
  <1>5. Serves(db, {})
    BY <1>3, <1>4
  <1> QED  BY <1>5 DEF u, d

(* The task and its datasets.                                              *)
TaskPart(t) == {t} \cup {d \in Get(rows, "Dataset") : d.ref.task = t.id}

TaskEdited(t) == (rows \ TaskPart(t)) \cup {Edited(r) : r \in TaskPart(t)}

LEMMA TaskEditServes ==
    ASSUME GoodDb(rows), NEW t \in Get(rows, "Task")
    PROVE  Serves(TaskEdited(t), {})
  <1> DEFINE S == TaskPart(t)
             f == [r \in rows |-> IF r \in S THEN Edited(r) ELSE r]
             db == TaskEdited(t)
  <1>1. IsConsistent(rows) /\ (\A r \in rows : IsRow(r)) /\ S \subseteq rows
    BY DEF GoodDb, IsConsistent, Get, TaskPart
  <1>2. \A r \in rows : f[r] = IF r \in S THEN Edited(r) ELSE r
    OBVIOUS
  <1>3. db = (rows \ S) \cup {Edited(r) : r \in S}
    BY DEF TaskEdited
  <1> HIDE DEF S, f, db
  <1>4. db = {f[r] : r \in rows}
    BY <1>1, <1>2, <1>3
  <1>5. \A r \in rows : Retouched(r, f[r]) /\ f[r].num = r.num
    BY <1>1, <1>2, RetouchedRow, ZenonT(30)
  <1>6. IsConsistent(db) /\ Reshaped(rows, db, f)
    BY <1>1, <1>4, <1>5, RetouchedConsistent
  <1>7. \A u \in Get(rows, "Task") : f[u].num = u.num /\ f[u].ref.contest = u.ref.contest
    BY <1>5 DEF Retouched, Get
  <1>8. Serves(db, {})
    BY <1>6, <1>7, ReshapedServes
  <1> QED  BY <1>8 DEF db

(* The task of a dataset.                                                  *)
TaskOf(d) == CHOOSE r \in Get(rows, "Task") : r.id = d.ref.task

Activated(d) == Replace(rows, TaskOf(d), [TaskOf(d) EXCEPT !.ref.active_dataset = d.id])

Sent(db, m) == IF ReferencesHold(db \cup m) THEN Insert(db, m) ELSE db

LEMMA TaskOfDataset ==
    ASSUME IsConsistent(rows), NEW d \in Get(rows, "Dataset")
    PROVE  TaskOf(d) \in Get(rows, "Task") /\ TaskOf(d).id = d.ref.task
  <1> DEFINE k == Key("task", "Task", "CASCADE", "NOT_NULL")
  <1>1. d \in rows /\ d.table = "Dataset"
    BY DEF Get
  <1>2. k \in Keys(d) /\ k.column = "task" /\ k.table = "Task" /\ k.ondelete # "SET_NULL"
        /\ k.null # "NULL"
    BY <1>1, SomeKeys, KeyFields DEF HasKey, Keys
  <1> HIDE DEF k
  <1>3. \E q \in rows : Refers(d, k, q)
    BY <1>1, <1>2 DEF IsConsistent, ReferencesHold
  <1>4. \E q \in Get(rows, "Task") : q.id = d.ref.task
    BY <1>2, <1>3 DEF Refers, Get
  <1> QED  BY <1>4 DEF TaskOf

LEMMA ActivatedServes ==
    ASSUME GoodDb(rows), NEW d \in Get(rows, "Dataset")
    PROVE  Serves(Activated(d), {})
  <1> DEFINE t == TaskOf(d)
             q == [t EXCEPT !.ref.active_dataset = d.id]
             k == Key("active_dataset", "Dataset", "SET_NULL", "NOT_NULL")
  <1>1. /\ IsConsistent(rows) /\ t \in rows /\ t.table = "Task" /\ t.id = d.ref.task
        /\ d \in rows /\ d.table = "Dataset"
    BY TaskOfDataset DEF GoodDb, Get
  <1>2. IsRow(t) /\ IsRow(d)
    BY <1>1 DEF IsConsistent
  <1> HIDE DEF t
  <1>3. Repointed(t, q, "active_dataset", d.id) /\ q.num = t.num
    BY <1>1, <1>2, TaskActivated
  <1>4. k \in Keys(t) /\ k.column = "active_dataset" /\ k.table = "Dataset"
    BY <1>1, SomeKeys, KeyFields DEF HasKey, Keys
  <1> HIDE DEF q, k
  <1>5. q.ref.active_dataset = d.id /\ q.ref.contest = t.ref.contest /\ q.id = t.id
    BY <1>1, <1>2, <1>3, RowIs, ColumnNames DEF Repointed
  <1>6. \A j \in Keys(t) : j.column = "active_dataset" => j = k
    BY <1>2, <1>4, RowFacts
  <1>7. Pointing(rows, q, k)
    BY <1>1, <1>4, <1>5 DEF Pointing, Refers
  <1>8. d.id # Null
    BY <1>2, AdminAssumption, RowIs
  <1>9. OwnDataset(rows, q)
    BY <1>1, <1>5, <1>8 DEF OwnDataset, Get
  <1>10. /\ IsConsistent(Replace(rows, t, q))
         /\ Reshaped(rows, Replace(rows, t, q), Replacing(rows, t, q))
    BY <1>1, <1>3, <1>6, <1>7, <1>9, ReplaceRepointed DEF JudgedTables
  <1>11. Serves(Replace(rows, t, q), {})
    BY <1>1, <1>3, <1>5, <1>10, ReplaceServes
  <1> QED  BY <1>11 DEF q, t, Activated

LEMMA ServesMore ==
    ASSUME NEW db, NEW digests, Serves(db, digests), NEW db2, IsConsistent(db2),
           Get(db2, "Task") = Get(db, "Task"), NEW more, FilesOf(db2) \subseteq FilesOf(db) \cup more
    PROVE  Serves(db2, digests \cup more)
  BY SameTasks DEF Serves

LEMMA SentServes ==
    ASSUME GoodDb(rows), NEW db, Serves(db, {}), NEW m \in SUBSET Get(Addable, "Message")
    PROVE  Serves(Sent(db, m), {}) /\ Get(Sent(db, m), "Task") = Get(db, "Task")
           /\ \A T : T # "Message" => Get(Sent(db, m), T) = Get(db, T)
  <1>1. \A r \in m : IsRow(r) /\ r.table = "Message"
    BY AdminAssumption DEF Get
  <1>2. PlainRows(m)
    BY <1>1, AdminAssumption DEF PlainRows, UniqueIds
  <1>3. FilesOf(m) = {}
    <2>1. \A r \in m : r.digests = {}
      BY <1>1, RowIs DEF FileTables
    <2> QED  BY <2>1 DEF FilesOf
  <1>4. \A T : T # "Message" => Get(Sent(db, m), T) = Get(db, T)
    BY <1>1 DEF Sent, Insert, Get
  <1>5. Serves(Sent(db, m), {})
    <2>1. CASE ReferencesHold(db \cup m)
      <3>1. /\ IsConsistent(Insert(db, m)) /\ FilesOf(Insert(db, m)) \subseteq FilesOf(db)
            /\ Get(Insert(db, m), "Task") = Get(db, "Task")
        BY <1>2, <1>3, <2>1, InsertPlain DEF Serves, GoodDb
      <3>2. Serves(Insert(db, m), {} \cup {})
        BY <3>1, ServesMore
      <3> QED  BY <2>1, <3>2 DEF Sent
    <2>2. CASE ~ReferencesHold(db \cup m)
      BY <2>2 DEF Sent
    <2> QED  BY <2>1, <2>2
  <1> QED  BY <1>4, <1>5

(* A dataset is added, or a copy of one.                                   *)
LEMMA AddDatasetServes ==
    ASSUME GoodDb(rows), NEW d \in New("Dataset")
    PROVE  LET db == IF Taken(rows, {d}) THEN rows ELSE MadeActive(rows \cup {d}, d)
           IN  Serves(db, {}) /\ db = Insert(rows, {d})
  <1>1. Serves(Insert(rows, {d}), {})
    BY NewServes DEF FileTables
  <1>2. CASE Taken(rows, {d})
    BY <1>1, <1>2 DEF Insert
  <1>3. CASE ~Taken(rows, {d})
    <2>1. Insert(rows, {d}) = rows \cup {d}
      BY <1>3 DEF Insert
    <2>2. MadeActive(rows \cup {d}, d) = rows \cup {d}
      BY <1>1, <2>1, MadeActiveNothing DEF Serves, GoodDb
    <2> QED  BY <1>1, <1>3, <2>1, <2>2
  <1> QED  BY <1>2, <1>3

WithCopy(d, results) ==
    LET new == Copies(d, results)
    IN  IF Taken(rows, new) THEN rows
        ELSE MadeActive(rows \cup new, CHOOSE r \in new : r.table = "Dataset")

LEMMA CloneServes ==
    ASSUME GoodDb(rows), NEW d \in Get(rows, "Dataset"), NEW results \in BOOLEAN
    PROVE  /\ Serves(WithCopy(d, results), {})
           /\ WithCopy(d, results) = Insert(rows, Copies(d, results))
  <1> DEFINE new == Copies(d, results)
             e == CHOOSE r \in new : r.table = "Dataset"
  <1>1. CASE Taken(rows, new)
    BY <1>1 DEF Insert, Serves, WithCopy
  <1>2. CASE ~Taken(rows, new)
    <2>1. /\ IsConsistent(rows \cup new) /\ FilesOf(rows \cup new) = FilesOf(rows)
          /\ \A q \in new : q.table \in ClonedTables
      BY <1>2, CopiesConsistent DEF GoodDb
    <2> HIDE DEF new, e
    <2>2. Get(rows \cup new, "Task") = Get(rows, "Task")
      BY <2>1 DEF Get, ClonedTables
    <2>3. Serves(rows \cup new, {})
      BY <2>1, <2>2, SameTasks DEF Serves
    <2>4. MadeActive(rows \cup new, e) = rows \cup new
      BY <2>1, MadeActiveNothing
    <2>5. Insert(rows, new) = rows \cup new
      BY <1>2 DEF Insert
    <2> QED  BY <1>2, <2>3, <2>4, <2>5 DEF new, e, WithCopy
  <1> QED  BY <1>1, <1>2

(* A statement takes the place of another one: nothing refers to it.       *)
LEMMA StatementServes ==
    ASSUME GoodDb(rows), NEW r \in New("Statement"), NEW old,
           old = {q \in Get(rows, "Statement") : q.id = r.id}
    PROVE  Serves((rows \ old) \cup {r}, r.digests)
  <1> DEFINE D == rows \ old
  <1>1. IsConsistent(rows) /\ \A q \in rows : IsRow(q)
    BY DEF GoodDb, IsConsistent
  <1>2. D \subseteq rows /\ \A q \in rows : q \notin D => q.table = "Statement" /\ q.id = r.id
    BY DEF Get
  <1>2a. \A q \in rows : q.table = "Statement" /\ q.id = r.id => q \notin D
    BY DEF Get
  <1>3. /\ r.table = "Statement" /\ IsRow(r) /\ ReferencesHold(rows \cup {r}) /\ PlainRows({r})
        /\ FilesOf({r}) = r.digests
    BY NewRow
  <1> HIDE DEF D
  <1>4. ASSUME NEW q \in rows \cup {r}, NEW k \in Keys(q), NEW x \in rows \cup {r}, Refers(q, k, x)
        PROVE  x \in D
    <2>1. KeyFact(q.table, k)
      BY <1>1, <1>3, RowFacts
    <2>2. x.table # "Statement"
      BY <1>4, <2>1 DEF KeyFact, Refers
    <2> QED  BY <1>2, <1>3, <2>2
  <1>5. ReferencesHold(D \cup {r})
    <2>1. \A q \in D \cup {r} : q \in rows \cup {r}
      BY <1>2
    <2>2. ASSUME NEW q \in D \cup {r}, NEW k \in Keys(q) PROVE Pointing(D \cup {r}, q, k)
      <3>1. Pointing(rows \cup {r}, q, k)
        BY <1>3, <2>1 DEF ReferencesHold, Pointing
      <3> QED  BY <1>4, <2>1, <3>1 DEF Pointing
    <2> QED  BY <2>2 DEF ReferencesHold, Pointing
  <1>6. ReferencesHold(D)
    <2>1. ASSUME NEW q \in D, NEW k \in Keys(q) PROVE Pointing(D, q, k)
      <3>1. Pointing(rows, q, k)
        BY <1>1, <1>2 DEF IsConsistent, ReferencesHold, Pointing
      <3> QED  BY <1>2, <1>4, <3>1 DEF Pointing
    <2> QED  BY <2>1 DEF ReferencesHold, Pointing
  <1>7. \A T : T # "Statement" => Get(D, T) = Get(rows, T)
    BY <1>2 DEF Get
  <1>8. IsConsistent(D)
    BY <1>1, <1>2, <1>6, <1>7 DEF IsConsistent, UniqueIds, ActiveDatasets, EvaluationsFit
  <1>9. Insert(D, {r}) = D \cup {r}
    BY <1>2, <1>2a, <1>3 DEF Insert, Taken
  <1>10. FilesOf(D) \subseteq FilesOf(rows)
    BY <1>2 DEF FilesOf
  <1>11. Serves(D, {})
    BY <1>7, <1>8, <1>10, SameTasks DEF Serves
  <1>12. Serves(Insert(D, {r}), {} \cup r.digests)
    BY <1>3, <1>5, <1>8, <1>11, InsertPlain, ServesMore
  <1> QED  BY <1>9, <1>12 DEF D

(* A testcase takes the place of another one, and the evaluations on it    *)
(* go with that one.                                                       *)
LEMMA ImportTestcaseServes ==
    ASSUME GoodDb(rows), NEW r \in New("Testcase"), NEW overwrite \in BOOLEAN,
           NEW fails \in BOOLEAN
    PROVE  Serves(ImportTestcase(r, overwrite, fails), IF fails THEN {} ELSE r.digests)
  <1> DEFINE old == {q \in Get(rows, "Testcase") : q.id = r.id}
             D == IF old # {} /\ overwrite THEN AfterDelete(rows, old) ELSE rows
  <1>1. IsConsistent(rows) /\ \A q \in rows : IsRow(q)
    BY DEF GoodDb, IsConsistent
  <1>2. /\ r.table = "Testcase" /\ IsRow(r) /\ ReferencesHold(rows \cup {r}) /\ PlainRows({r})
        /\ FilesOf({r}) = r.digests
    BY NewRow
  <1>3. old \subseteq rows /\ \A q \in old : q.table = "Testcase"
    BY DEF Get
  <1> HIDE DEF old
  <1>4. Serves(D, {})
    <2>1. Serves(AfterDelete(rows, old), {})
      BY <1>3, DeleteServes DEF Get
    <2> QED  BY <2>1 DEF Serves
  <1>5. ASSUME NEW q \in Get(rows, "Dataset") PROVE q \in D
    <2>1. CASE D = rows
      BY <2>1 DEF Get
    <2>2. CASE D = Deleted(rows, old) /\ ~Refused(rows, old)
      <3>0. \A x \in old : Level[x.table] >= 3
        BY <1>3, TablesAre
      <3>1. \A x \in Doomed(rows, old) : Level[x.table] >= 3
        <4> DEFINE n == 3
        <4>1. n \in Nat /\ \A x \in old : Level[x.table] >= n
          BY <3>0
        <4> HIDE DEF n
        <4>2. \A x \in Doomed(rows, old) : Level[x.table] >= n
          BY <1>1, <1>3, <4>1, DoomedAbove
        <4> QED  BY <4>2 DEF n
      <3>2. q \notin Doomed(rows, old)
        BY <3>1, TablesAre DEF Get
      <3> HIDE DEF D
      <3> QED  BY <1>1, <1>3, <2>2, <3>2, DeletedConsistent DEF Get, Answered
    <2> QED  BY <2>1, <2>2 DEF AfterDelete
  <1> HIDE DEF D
  <1>6. ReferencesHold(D \cup {r})
    <2>1. \A k \in Keys(r) : k.table = "Dataset"
      BY <1>2, TablesAre DEF Keys, Testcase, Table, Part, Key
    <2>2. ASSUME NEW k \in Keys(r) PROVE Pointing(D \cup {r}, r, k)
      <3>1. Pointing(rows \cup {r}, r, k)
        BY <1>2 DEF ReferencesHold, Pointing
      <3>2. \A q \in rows \cup {r} : Refers(r, k, q) => q \in D
        BY <1>2, <1>5, <2>1 DEF Refers, Get
      <3> QED  BY <3>1, <3>2 DEF Pointing
    <2>3. ASSUME NEW q \in D, NEW k \in Keys(q) PROVE Pointing(D \cup {r}, q, k)
      BY <1>4 DEF Serves, GoodDb, IsConsistent, ReferencesHold, Pointing
    <2> QED  BY <2>2, <2>3 DEF ReferencesHold, Pointing
  <1>7. Serves(Insert(D, {r}), {} \cup r.digests)
    <2>1. /\ IsConsistent(Insert(D, {r})) /\ FilesOf(Insert(D, {r})) \subseteq FilesOf(D) \cup r.digests
          /\ Get(Insert(D, {r}), "Task") = Get(D, "Task")
      BY <1>2, <1>4, <1>6, InsertPlain DEF Serves, GoodDb
    <2> QED  BY <1>4, <2>1, ServesMore
  <1>8. ImportTestcase(r, overwrite, fails) = IF fails THEN D ELSE Insert(D, {r})
    BY DEF ImportTestcase, D, old
  <1> QED  BY <1>4, <1>7, <1>8

-----------------------------------------------------------------------------
(* What the rankings show.                                                 *)

ViewTables == {"Contest", "Task", "Participation", "User", "Team", "Dataset", "Testcase"}

RankedTasks(db) == {t \in Get(db, "Task") : t.ref.contest = Ranked}

ActiveIn(db) == {t.ref.active_dataset : t \in RankedTasks(db)}

ActiveRows(db) == {d \in Get(db, "Dataset") : d.id \in ActiveIn(db)}

ShownDatasets(db) == {[d EXCEPT !.num = Null] : d \in ActiveRows(db)}

ShownTestcases(db) == {t \in Get(db, "Testcase") : t.ref.dataset \in ActiveIn(db)}

LEMMA ViewIs ==
    ASSUME NEW db
    PROVE  View(db) =
             {c \in Get(db, "Contest") : c.id = Ranked} \cup RankedTasks(db)
             \cup {p \in Get(db, "Participation") : p.ref.contest = Ranked}
             \cup {u \in Get(db, "User") :
                      \E p \in {x \in Get(db, "Participation") : x.ref.contest = Ranked} :
                          p.ref.user = u.id}
             \cup {m \in Get(db, "Team") :
                      \E p \in {x \in Get(db, "Participation") : x.ref.contest = Ranked} :
                          p.ref.team = m.id}
             \cup ShownDatasets(db) \cup ShownTestcases(db)
  BY DEF View, RankedTasks, ShownDatasets, ShownTestcases, ActiveRows, ActiveIn

LEMMA ViewOf ==
    ASSUME NEW db, NEW db2, Get(db2, "Contest") = Get(db, "Contest"),
           Get(db2, "Participation") = Get(db, "Participation"),
           Get(db2, "User") = Get(db, "User"), Get(db2, "Team") = Get(db, "Team"),
           RankedTasks(db2) = RankedTasks(db), ShownDatasets(db2) = ShownDatasets(db),
           ShownTestcases(db2) = ShownTestcases(db)
    PROVE  View(db2) = View(db)
  BY ViewIs

LEMMA SameGets ==
    ASSUME NEW db, NEW db2, \A T \in ViewTables : Get(db2, T) = Get(db, T)
    PROVE  View(db2) = View(db)
  <1>1. RankedTasks(db2) = RankedTasks(db)
    BY DEF RankedTasks, ViewTables
  <1>2. ActiveRows(db2) = ActiveRows(db) /\ ShownTestcases(db2) = ShownTestcases(db)
    BY <1>1 DEF ActiveRows, ActiveIn, ShownTestcases, ViewTables
  <1>3. ShownDatasets(db2) = ShownDatasets(db)
    BY <1>2 DEF ShownDatasets
  <1> QED  BY <1>1, <1>2, <1>3, ViewOf DEF ViewTables

(* Whether the rankings can be made is seen from what they show.           *)
LEMMA ViewableSame ==
    ASSUME NEW db, IsConsistent(db), NEW db2, IsConsistent(db2), View(db2) = View(db)
    PROVE  Viewable(db2) <=> Viewable(db)
  <1>1. ASSUME NEW d, IsConsistent(d)
        PROVE  Viewable(d) <=> \E c \in View(d) : c.table = "Contest" /\ c.id = Ranked
    <2>1. \A t \in Get(d, "Task") : t.ref.active_dataset # Null
      BY <1>1 DEF IsConsistent, ActiveDatasets
    <2>2. \A c \in Get(d, "Contest") : c.id = Ranked => c \in View(d) /\ c.table = "Contest"
      BY ViewIs DEF Get
    <2>3. ASSUME NEW c \in View(d), c.table = "Contest" PROVE c \in Get(d, "Contest")
      <3>1. ASSUME c \in ShownDatasets(d) PROVE FALSE
        <4>1. PICK x \in ActiveRows(d) : c = [x EXCEPT !.num = Null]
          BY <3>1 DEF ShownDatasets
        <4>2. IsRow(x) /\ x.table = "Dataset"
          BY <1>1 DEF ActiveRows, Get, IsConsistent
        <4>3. c.table = "Dataset"
          BY <4>1, <4>2, RetouchedRow DEF Retouched
        <4> QED  BY <2>3, <4>3
      <3>2. c \in ShownTestcases(d) \/ c \in RankedTasks(d) => FALSE
        BY <2>3 DEF ShownTestcases, RankedTasks, Get
      <3> QED  BY <2>3, <3>1, <3>2, ViewIs DEF Get
    <2> QED  BY <2>1, <2>2, <2>3 DEF Viewable
  <1> QED  BY <1>1

LEMMA ReplaceElsewhere ==
    ASSUME NEW r \in rows, r.table \notin ViewTables, NEW q, q.table = r.table
    PROVE  View(Replace(rows, r, q)) = View(rows)
  <1>1. \A T \in ViewTables : Get(Replace(rows, r, q), T) = Get(rows, T)
    BY DEF Get, Replace
  <1> QED  BY <1>1, SameGets

LEMMA InsertElsewhere ==
    ASSUME NEW db, NEW new, \A r \in new : r.table \notin ViewTables
    PROVE  View(Insert(db, new)) = View(db)
  <1>1. \A T \in ViewTables : Get(Insert(db, new), T) = Get(db, T)
    BY DEF Get, Insert
  <1> QED  BY <1>1, SameGets

(* Rows that nothing belongs to.                                           *)
LeafTables == {"Statement", "Attachment", "Manager", "Announcement", "Admin"}

LEMMA NothingOwned ==
    ASSUME NEW T \in TableNames, NEW k \in Tables[T].keys, k.table \in LeafTables
    PROVE  k.ondelete # "CASCADE"
  <1>1. k.table = "Admin" /\ k.ondelete # "CASCADE"
    BY TablesAre DEF TableNames, LeafTables, Admin, Contest, Announcement, User, Team,
       Participation, Message, Question, PrintJob, Task, Statement, Attachment, Dataset, Manager,
       Testcase, Submission, File, Token, SubmissionResult, Executable, Evaluation, UserTest,
       UserTestFile, UserTestManager, UserTestResult, UserTestExecutable, Batch, Match,
       MatchResult, Matching, Table, Part, Key
  <1> QED  BY <1>1

LEMMA DeleteElsewhere ==
    ASSUME IsConsistent(rows), NEW r \in rows, r.table \in LeafTables
    PROVE  View(AfterDelete(rows, {r})) = View(rows)
  <1>1. \A q \in rows : IsRow(q)
    BY DEF IsConsistent
  <1>2. Doomed(rows, {r}) = {r}
    <2>1. Owned(rows, r) = {}
      <3>1. ASSUME NEW q \in rows, NEW k \in Keys(q), k.ondelete = "CASCADE", Refers(q, k, r)
            PROVE  FALSE
        <4>1. q.table \in TableNames /\ k \in Tables[q.table].keys
          BY <1>1, RowFacts
        <4>2. k.table \in LeafTables
          BY <3>1 DEF Refers
        <4> QED  BY <3>1, <4>1, <4>2, NothingOwned
      <3> QED  BY <3>1 DEF Owned
    <2> DEFINE leads == [q \in rows |-> Owned(rows, q)]
               P == {r}
    <2>2. P \subseteq P /\ \A q \in P : leads[q] \subseteq P
      BY <2>1
    <2> HIDE DEF leads, P
    <2>3. P \subseteq Closure(leads, P) /\ Closure(leads, P) \subseteq P
      BY <2>2, ClosureWithin
    <2> QED  BY <2>3 DEF Doomed, leads, P
  <1>3. CASE Refused(rows, {r})
    BY <1>3 DEF AfterDelete
  <1>4. CASE ~Refused(rows, {r})
    <2> DEFINE D == Deleted(rows, {r})
    <2>1. /\ \A q \in rows \ {r} : q.table \notin Answered => q \in D
          /\ \A q \in D : q.table \notin Answered => q \in rows \ {r}
      <3>1. {r} \subseteq rows
        OBVIOUS
      <3> QED  BY <1>2, <1>4, <3>1, DeletedConsistent
    <2> HIDE DEF D
    <2>2. \A T \in ViewTables : Get(D, T) = Get(rows, T)
      BY <2>1 DEF Get, ViewTables, Answered, LeafTables
    <2>3. View(D) = View(rows)
      BY <2>2, SameGets
    <2> QED  BY <1>4, <2>3 DEF AfterDelete, D
  <1> QED  BY <1>3, <1>4

LEMMA ActiveFact ==
    ASSUME NEW db, IsConsistent(db), NEW t \in Get(db, "Task"), NEW d \in Get(db, "Dataset"),
           d.id = t.ref.active_dataset
    PROVE  d.ref.task = t.id
  <1>1. PICK e \in Get(db, "Dataset") : e.id = t.ref.active_dataset /\ e.ref.task = t.id
    BY DEF IsConsistent, ActiveDatasets
  <1>2. e = d
    BY <1>1 DEF IsConsistent, UniqueIds, Get
  <1> QED  BY <1>1, <1>2

(* Every dataset that is active is there.                                  *)
LEMMA ActiveThere ==
    ASSUME NEW db, IsConsistent(db), NEW a \in ActiveIn(db)
    PROVE  \E d \in Get(db, "Dataset") : d.id = a
  BY DEF ActiveIn, RankedTasks, IsConsistent, ActiveDatasets

(* A task of another contest, and its datasets.                            *)
LEMMA TaskEditView ==
    ASSUME GoodDb(rows), NEW t \in Get(rows, "Task"), t.ref.contest # Ranked
    PROVE  View(TaskEdited(t)) = View(rows)
  <1> DEFINE S == TaskPart(t)
             db == TaskEdited(t)
  <1>1. IsConsistent(rows) /\ (\A r \in rows : IsRow(r)) /\ S \subseteq rows
    BY DEF GoodDb, IsConsistent, Get, TaskPart
  <1>2. \A r \in S : r.table \in {"Task", "Dataset"} /\ (r.table = "Task" => r = t)
                     /\ (r.table = "Dataset" => r.ref.task = t.id)
    BY DEF TaskPart, Get
  <1>3. \A r \in S : Edited(r).table = r.table /\ Edited(r).ref = r.ref /\ Edited(r).id = r.id
    BY <1>1, RetouchedRow DEF Retouched
  <1>4. db = (rows \ S) \cup {Edited(r) : r \in S}
    BY DEF TaskEdited
  <1> HIDE DEF S, db
  <1>5. \A T : T \notin {"Task", "Dataset"} => Get(db, T) = Get(rows, T)
    BY <1>2, <1>3, <1>4 DEF Get
  <1>6. RankedTasks(db) = RankedTasks(rows)
    BY <1>2, <1>3, <1>4 DEF Get, RankedTasks
  <1>7. ActiveIn(db) = ActiveIn(rows)
    BY <1>6 DEF ActiveIn
  <1>8. \A r \in S : r.table = "Dataset" => r.id \notin ActiveIn(rows)
    <2> SUFFICES ASSUME NEW r \in S, r.table = "Dataset", r.id \in ActiveIn(rows) PROVE FALSE
      OBVIOUS
    <2>1. PICK u \in RankedTasks(rows) : r.id = u.ref.active_dataset
      BY DEF ActiveIn
    <2>2. u \in Get(rows, "Task") /\ u.ref.contest = Ranked /\ r \in Get(rows, "Dataset")
      BY <1>1, <2>1 DEF RankedTasks, Get
    <2>3. r.ref.task = u.id /\ r.ref.task = t.id
      BY <1>1, <1>2, <2>1, <2>2, ActiveFact
    <2>4. u = t
      BY <1>1, <2>2, <2>3 DEF IsConsistent, UniqueIds, Get
    <2> QED  BY <2>2, <2>4
  <1>9. ActiveRows(db) = ActiveRows(rows)
    <2>1. ASSUME NEW x \in ActiveRows(db) PROVE x \in ActiveRows(rows)
      <3>1. x \in db /\ x.table = "Dataset" /\ x.id \in ActiveIn(rows)
        BY <1>7 DEF ActiveRows, Get
      <3>2. \A r \in S : x # Edited(r)
        BY <1>3, <1>8, <3>1
      <3> QED  BY <1>4, <3>1, <3>2 DEF ActiveRows, Get
    <2>2. ASSUME NEW x \in ActiveRows(rows) PROVE x \in ActiveRows(db)
      <3>1. x \in rows /\ x.table = "Dataset" /\ x.id \in ActiveIn(rows)
        BY DEF ActiveRows, Get
      <3>2. x \notin S
        BY <1>8, <3>1
      <3> QED  BY <1>4, <1>7, <3>1, <3>2 DEF ActiveRows, Get
    <2> QED  BY <2>1, <2>2
  <1>10. ShownDatasets(db) = ShownDatasets(rows) /\ ShownTestcases(db) = ShownTestcases(rows)
    BY <1>5, <1>7, <1>9 DEF ShownDatasets, ShownTestcases
  <1>11. View(db) = View(rows)
    BY <1>5, <1>6, <1>10, ViewOf
  <1> QED  BY <1>11 DEF db

(* Another dataset of a task of another contest.                           *)
LEMMA ActivatedView ==
    ASSUME GoodDb(rows), NEW d \in Get(rows, "Dataset"), TaskOf(d).ref.contest # Ranked,
           NEW m \in SUBSET Get(Addable, "Message")
    PROVE  View(Sent(Activated(d), m)) = View(rows)
  <1> DEFINE t == TaskOf(d)
             q == [t EXCEPT !.ref.active_dataset = d.id]
             db == Activated(d)
  <1>1. IsConsistent(rows) /\ t \in rows /\ t.table = "Task" /\ IsRow(t)
    BY TaskOfDataset DEF GoodDb, Get, IsConsistent
  <1>2. db = Replace(rows, t, q)
    BY DEF Activated
  <1>3. t.ref.contest # Ranked
    OBVIOUS
  <1> HIDE DEF t, db
  <1>4. Repointed(t, q, "active_dataset", d.id)
    BY <1>1, TaskActivated
  <1> HIDE DEF q
  <1>5. q.table = "Task" /\ q.ref.contest = t.ref.contest
    BY <1>1, <1>4, RowIs, ColumnNames DEF Repointed
  <1>6. \A T : T # "Task" => Get(db, T) = Get(rows, T)
    BY <1>1, <1>2, <1>5 DEF Replace, Get
  <1>7. RankedTasks(db) = RankedTasks(rows)
    BY <1>1, <1>2, <1>3, <1>5 DEF RankedTasks, Replace, Get
  <1>8. ActiveRows(db) = ActiveRows(rows) /\ ShownTestcases(db) = ShownTestcases(rows)
    BY <1>6, <1>7 DEF ActiveRows, ActiveIn, ShownTestcases
  <1>9. ShownDatasets(db) = ShownDatasets(rows)
    BY <1>8 DEF ShownDatasets
  <1>10. View(db) = View(rows)
    BY <1>6, <1>7, <1>8, <1>9, ViewOf
  <1>11. \A r \in m : r.table \notin ViewTables
    BY DEF Get, ViewTables
  <1>12. View(Sent(db, m)) = View(db)
    BY <1>11, InsertElsewhere DEF Sent
  <1> QED  BY <1>10, <1>12 DEF db

(* A new dataset, with its testcases, is not active.                       *)
LEMMA NewDatasetView ==
    ASSUME IsConsistent(rows), NEW new,
           \A r \in new : r.table \in ViewTables => r.table \in {"Dataset", "Testcase"},
           \A r \in new : r.table = "Testcase" =>
               \E d \in new : d.table = "Dataset" /\ d.id = r.ref.dataset
    PROVE  View(Insert(rows, new)) = View(rows)
  <1>1. CASE Taken(rows, new)
    BY <1>1 DEF Insert
  <1>2. CASE ~Taken(rows, new)
    <2> DEFINE db == rows \cup new
    <2>1. \A T \in ViewTables \ {"Dataset", "Testcase"} : Get(db, T) = Get(rows, T)
      BY DEF Get
    <2>2. \A r \in new : r.table = "Dataset" => r.id \notin ActiveIn(rows)
      BY <1>2, ActiveThere DEF Taken, Get
    <2>3. \A r \in new : r.table = "Testcase" => r.ref.dataset \notin ActiveIn(rows)
      BY <2>2
    <2>4. RankedTasks(db) = RankedTasks(rows)
      BY <2>1 DEF RankedTasks, ViewTables
    <2>5. ActiveRows(db) = ActiveRows(rows) /\ ShownTestcases(db) = ShownTestcases(rows)
      BY <2>2, <2>3, <2>4 DEF ActiveRows, ActiveIn, ShownTestcases, Get
    <2>6. ShownDatasets(db) = ShownDatasets(rows)
      BY <2>5 DEF ShownDatasets
    <2>7. View(db) = View(rows)
      <3> HIDE DEF db
      <3> QED  BY <2>1, <2>4, <2>5, <2>6, ViewOf DEF ViewTables
    <2> QED  BY <1>2, <2>7 DEF Insert
  <1> QED  BY <1>1, <1>2

LEMMA CloneView ==
    ASSUME IsConsistent(rows), NEW d \in Get(rows, "Dataset"), NEW results \in BOOLEAN
    PROVE  View(Insert(rows, Copies(d, results))) = View(rows)
  <1> DEFINE new == Copies(d, results)
  <1>1. CASE Taken(rows, new)
    BY <1>1 DEF Insert
  <1>2. CASE ~Taken(rows, new)
    <2>1. /\ \A q \in new : q.table \in ClonedTables
          /\ \A q \in new : q.table = "Testcase" => q.ref.dataset = Append(d.id, "copy")
          /\ \E q \in new : q.table = "Dataset" /\ q.id = Append(d.id, "copy")
      BY <1>2, CopiesConsistent
    <2> HIDE DEF new
    <2>2. View(Insert(rows, new)) = View(rows)
      BY <2>1, NewDatasetView DEF ClonedTables, ViewTables
    <2> QED  BY <2>2 DEF new
  <1> QED  BY <1>1, <1>2

(* The active dataset of a task cannot be deleted.                         *)
LEMMA DeleteDatasetView ==
    ASSUME IsConsistent(rows), NEW d \in Get(rows, "Dataset")
    PROVE  View(AfterDelete(rows, {d})) = View(rows)
  <1> DEFINE gone == Doomed(rows, {d})
             D == Deleted(rows, {d})
  <1>1. d \in rows /\ d.table = "Dataset" /\ \A q \in rows : IsRow(q)
    BY DEF IsConsistent, Get
  <1>a. {d} \subseteq rows
    BY <1>1
  <1>2. CASE Refused(rows, {d})
    BY <1>2 DEF AfterDelete
  <1>3. CASE ~Refused(rows, {d})
    <2>1. /\ {d} \subseteq gone /\ gone \subseteq rows
          /\ \A q \in gone : Owned(rows, q) \subseteq gone
          /\ \A r \in gone : r \in {d} \/ \E q \in gone : r \in Owned(rows, q)
      BY <1>1, <1>a, DoomedFacts
    <2>2. /\ \A r \in rows \ gone : r.table \notin Answered => r \in D
          /\ \A r \in D : r.table \notin Answered => r \in rows \ gone
      BY <1>1, <1>a, <1>3, DeletedConsistent
    <2>3. \A r \in gone : Level[r.table] >= 2
      <3> DEFINE n == 2
      <3>1. n \in Nat /\ \A x \in {d} : Level[x.table] >= n
        BY <1>1, TablesAre
      <3> HIDE DEF n
      <3>2. \A r \in gone : Level[r.table] >= n
        BY <1>1, <1>a, <3>1, DoomedAbove
      <3> QED  BY <3>2 DEF n
    <2>4. ~Refused(rows, {d}) => d.id \notin ActiveIn(rows)
      <3> SUFFICES ASSUME NEW t \in RankedTasks(rows), d.id = t.ref.active_dataset
                   PROVE  Refused(rows, {d})
        BY DEF ActiveIn
      <3> DEFINE k == Key("active_dataset", "Dataset", "SET_NULL", "NOT_NULL")
      <3>1. t \in rows /\ t.table = "Task"
        BY DEF RankedTasks, Get
      <3>2. k \in Keys(t) /\ k.column = "active_dataset" /\ k.table = "Dataset"
            /\ k.null = "NOT_NULL"
        BY <3>1, SomeKeys, KeyFields DEF HasKey, Keys
      <3> HIDE DEF k
      <3>3. t \notin gone
        <4>1. Level["Task"] = 1
          BY TablesAre
        <4> HIDE DEF gone
        <4> QED  BY <2>3, <3>1, <4>1
      <3>4. Refers(t, k, d)
        BY <1>1, <3>2 DEF Refers
      <3> QED  BY <2>1, <3>1, <3>2, <3>3, <3>4 DEF Refused
    <2> HIDE DEF gone, D
    <2>5. \A r \in gone : r.table = "Dataset" => r = d
      <3> SUFFICES ASSUME NEW r \in gone, r.table = "Dataset", r # d PROVE FALSE
        OBVIOUS
      <3>1. PICK q \in gone : r \in Owned(rows, q)
        BY <2>1
      <3>2. PICK k \in Keys(r) : k.ondelete = "CASCADE" /\ Refers(r, k, q)
        BY <3>1 DEF Owned
      <3>3. k.table = "Task"
        BY <3>2, TablesAre DEF Keys, Dataset, Table, Part, Key
      <3>4. q.table = "Task"
        BY <3>2, <3>3 DEF Refers
      <3>5. Level["Task"] = 1
        BY TablesAre
      <3> QED  BY <2>3, <3>4, <3>5
    <2>6. \A r \in gone : r.table = "Testcase" => r.ref.dataset = d.id
      <3> SUFFICES ASSUME NEW r \in gone, r.table = "Testcase" PROVE r.ref.dataset = d.id
        OBVIOUS
      <3>1. PICK q \in gone : r \in Owned(rows, q)
        BY <1>1, <2>1
      <3>2. PICK k \in Keys(r) : k.ondelete = "CASCADE" /\ Refers(r, k, q)
        BY <3>1 DEF Owned
      <3>3. k.table = "Dataset" /\ k.column = "dataset"
        BY <3>2, TablesAre DEF Keys, Testcase, Table, Part, Key
      <3> QED  BY <2>5, <3>2, <3>3 DEF Refers
    <2>7. \A T \in ViewTables \ {"Dataset", "Testcase"} : Level[T] < 2 /\ T \notin Answered
      BY TablesAre DEF ViewTables, Answered
    <2>8. \A T \in ViewTables \ {"Dataset", "Testcase"} : Get(D, T) = Get(rows, T)
      <3> SUFFICES ASSUME NEW T \in ViewTables \ {"Dataset", "Testcase"}, NEW r
                   PROVE  r \in D /\ r.table = T <=> r \in rows /\ r.table = T
        BY DEF Get
      <3>1. r.table = T => r \notin gone
        <4>1. Level[T] \in Nat
          BY TablesAre DEF ViewTables, TableNames
        <4> QED  BY <2>3, <2>7, <4>1
      <3> QED  BY <2>2, <2>7, <3>1
    <2>9. RankedTasks(D) = RankedTasks(rows)
      BY <2>8 DEF RankedTasks, ViewTables
    <2>10. ActiveRows(D) = ActiveRows(rows) /\ ShownTestcases(D) = ShownTestcases(rows)
      <3>1. \A r : r.table \in {"Dataset", "Testcase"} => r.table \notin Answered
        BY DEF Answered
      <3>2. ActiveIn(D) = ActiveIn(rows)
        BY <2>9 DEF ActiveIn
      <3> QED  BY <1>3, <2>2, <2>4, <2>5, <2>6, <3>1, <3>2 DEF ActiveRows, ShownTestcases, Get
    <2>11. ShownDatasets(D) = ShownDatasets(rows)
      BY <2>10 DEF ShownDatasets
    <2>12. View(D) = View(rows)
      BY <2>8, <2>9, <2>10, <2>11, ViewOf DEF ViewTables
    <2> QED  BY <1>3, <2>12 DEF AfterDelete, D
  <1> QED  BY <1>2, <1>3

(* Whether a dataset is judged automatically is not shown.                 *)
LEMMA ToggleView ==
    ASSUME IsConsistent(rows), NEW d \in Get(rows, "Dataset"), NEW n
    PROVE  View(Replace(rows, d, [d EXCEPT !.num = n])) = View(rows)
  <1> DEFINE q == [d EXCEPT !.num = n]
             db == Replace(rows, d, q)
  <1>1. d \in rows /\ d.table = "Dataset" /\ IsRow(d)
    BY DEF IsConsistent, Get
  <1>2. q.table = "Dataset" /\ q.id = d.id /\ [q EXCEPT !.num = Null] = [d EXCEPT !.num = Null]
    <2>1. Retouched(d, q)
      BY <1>1, RetouchedRow
    <2>2. q = ARow(d.table, d.id, d.ref, d.digests, n, d.data)
      BY <1>1, NumChanged
    <2>3. [d EXCEPT !.num = Null] = ARow(d.table, d.id, d.ref, d.digests, Null, d.data)
      BY <1>1, NumChanged
    <2> HIDE DEF q
    <2>4. [q EXCEPT !.num = Null] = ARow(q.table, q.id, q.ref, q.digests, Null, q.data)
      BY <2>1, NumChanged DEF Retouched
    <2>5. q.table = d.table /\ q.id = d.id /\ q.ref = d.ref /\ q.digests = d.digests
          /\ q.data = d.data
      BY <2>2, ARowFields
    <2> QED  BY <1>1, <2>3, <2>4, <2>5
  <1> HIDE DEF q
  <1>3. \A T : T # "Dataset" => Get(db, T) = Get(rows, T)
    BY <1>1, <1>2 DEF Replace, Get
  <1>4. Get(db, "Dataset") = (Get(rows, "Dataset") \ {d}) \cup {q}
    BY <1>1, <1>2 DEF Replace, Get
  <1> HIDE DEF db
  <1>5. RankedTasks(db) = RankedTasks(rows) /\ ShownTestcases(db) = ShownTestcases(rows)
        /\ ActiveIn(db) = ActiveIn(rows)
    BY <1>3 DEF RankedTasks, ShownTestcases, ActiveIn
  <1>6. ShownDatasets(db) = ShownDatasets(rows)
    <2>1. ActiveRows(db) = IF d.id \in ActiveIn(rows) THEN (ActiveRows(rows) \ {d}) \cup {q}
                           ELSE ActiveRows(rows)
      BY <1>2, <1>4, <1>5 DEF ActiveRows
    <2>2. d.id \in ActiveIn(rows) => d \in ActiveRows(rows)
      BY DEF ActiveRows
    <2> QED  BY <1>2, <2>1, <2>2 DEF ShownDatasets
  <1>7. View(db) = View(rows)
    BY <1>3, <1>5, <1>6, ViewOf
  <1> QED  BY <1>7 DEF db, q

-----------------------------------------------------------------------------
(* What a deletion is held back by.                                        *)

RemovalsOf(db) ==
    \A r \in db :
        Refused(db, {r}) =>
            \/ r.table = "Team"
            \/ r.table = "Dataset" /\ \E t \in Get(db, "Task") : t.ref.active_dataset = r.id

ActiveOwn(db) ==
    \A t \in Get(db, "Task"), d \in Get(db, "Dataset") :
        t.ref.active_dataset = d.id => d.ref.task = t.id

LEMMA RemovalsHold ==
    ASSUME NEW db, \A r \in db : IsRow(r), UniqueIds(db), ActiveOwn(db)
    PROVE  RemovalsOf(db)
  <1> SUFFICES ASSUME NEW r \in db, Refused(db, {r})
               PROVE  \/ r.table = "Team"
                      \/ /\ r.table = "Dataset"
                         /\ \E t \in Get(db, "Task") : t.ref.active_dataset = r.id
    BY DEF RemovalsOf
  <1> DEFINE gone == Doomed(db, {r})
  <1>1. /\ {r} \subseteq gone /\ gone \subseteq db
        /\ \A q \in gone : Owned(db, q) \subseteq gone
        /\ \A x \in gone : x \in {r} \/ \E q \in gone : x \in Owned(db, q)
    <2>1. {r} \subseteq db
      OBVIOUS
    <2> QED  BY <2>1, DoomedFacts
  <1>2. PICK s \in db \ gone : \E k \in Keys(s), q \in gone :
            Refers(s, k, q) /\ (k.ondelete = "RESTRICT" \/ k.null = "NOT_NULL")
    BY DEF Refused
  <1>3. PICK k \in Keys(s), q \in gone :
            Refers(s, k, q) /\ (k.ondelete = "RESTRICT" \/ k.null = "NOT_NULL")
    BY <1>2
  <1> HIDE DEF gone
  <1>4. k.ondelete # "CASCADE"
    BY <1>1, <1>2, <1>3 DEF Owned
  <1>5. KeyFact(s.table, k)
    BY <1>2, RowFacts
  <1>6. CASE s.table = "Participation" /\ k.table = "Team"
    <2>1. q.table = "Team"
      BY <1>3, <1>6 DEF Refers
    <2>2. Keys(q) = {}
      BY <2>1, TablesAre DEF Keys, Team, Table
    <2>3. q = r
      BY <1>1, <2>2 DEF Owned
    <2> QED  BY <2>1, <2>3
  <1>7. CASE s.table = "Task" /\ k.column = "active_dataset" /\ k.table = "Dataset"
    <2>1. q.table = "Dataset" /\ s.ref.active_dataset = q.id
      BY <1>3, <1>7 DEF Refers
    <2>2. s \in Get(db, "Task") /\ q \in Get(db, "Dataset")
      BY <1>1, <1>2, <1>7, <2>1 DEF Get
    <2>3. q.ref.task = s.id
      BY <2>1, <2>2 DEF ActiveOwn
    <2>4. q = r
      <3> SUFFICES ASSUME q # r PROVE FALSE
        OBVIOUS
      <3>1. PICK x \in gone : q \in Owned(db, x)
        BY <1>1
      <3>2. PICK j \in Keys(q) : Refers(q, j, x)
        BY <3>1 DEF Owned
      <3>3. j.table = "Task" /\ j.column = "task"
        BY <2>1, <3>2, TablesAre DEF Keys, Dataset, Table, Part, Key
      <3>4. x.table = "Task" /\ x.id = s.id
        BY <2>3, <3>2, <3>3 DEF Refers
      <3> QED  BY <1>1, <1>2, <1>7, <3>4 DEF UniqueIds
    <2> QED  BY <2>1, <2>2, <2>4
  <1> QED  BY <1>3, <1>4, <1>5, <1>6, <1>7 DEF KeyFact

LEMMA ConsistentOwn ==
    ASSUME NEW db, IsConsistent(db)
    PROVE  ActiveOwn(db) /\ RemovalsOf(db)
  <1>1. ActiveOwn(db)
    BY ActiveFact DEF ActiveOwn
  <1> QED  BY <1>1, RemovalsHold DEF IsConsistent

-----------------------------------------------------------------------------
(* The database that the importer of dumps makes.                          *)

DumpChoices == {{}} \cup {{o} : o \in Options}

LEMMA NeverSkipped ==
    ASSUME NEW skip \in DumpChoices
    PROVE  /\ "Task" \notin Skipped(skip) /\ "Contest" \notin Skipped(skip)
           /\ "Task" \notin DroppedClasses(skip) /\ "Contest" \notin DroppedClasses(skip)
  <1>1. \A s \in skip : s \in {"submissions", "user_tests", "users", "print_jobs", "generated"}
    BY AdminAssumption DEF DumpChoices
  <1>2. \A s \in skip : "Task" \notin SkippedBy(s) /\ "Contest" \notin SkippedBy(s)
    <2> SUFFICES ASSUME NEW s \in skip
                 PROVE  "Task" \notin SkippedBy(s) /\ "Contest" \notin SkippedBy(s)
      OBVIOUS
    <2>1. CASE s = "submissions"
      BY <2>1 DEF SkippedBy
    <2>2. CASE s = "user_tests"
      BY <2>2 DEF SkippedBy
    <2>3. CASE s = "users"
      BY <2>3 DEF SkippedBy
    <2>4. CASE s = "print_jobs"
      BY <2>4 DEF SkippedBy
    <2>5. CASE s = "generated"
      BY <2>5 DEF SkippedBy
    <2> QED  BY <1>1, <2>1, <2>2, <2>3, <2>4, <2>5
  <1>3. "Task" \notin Skipped(skip) /\ "Contest" \notin Skipped(skip)
    BY <1>2 DEF Skipped
  <1> QED  BY <1>3 DEF DroppedClasses

KeptObjects(skip, dropped) ==
    {r \in ExportedObjects(rows, skip) : r.table \notin DroppedClasses(dropped)}

AddedObjects(skip, dropped) ==
    LET kept == KeptObjects(skip, dropped)
    IN  Closure([r \in kept |-> Related(kept, r)], Roots(rows, skip) \cap kept)

PresentRef(kept, r) ==
    [c \in DOMAIN r.ref |->
        IF \E k \in Keys(r), q \in kept : k.column = c /\ Refers(r, k, q)
        THEN r.ref[c] ELSE Null]

Importing(kept, r) == [r EXCEPT !.ref = PresentRef(kept, r)]

Imported(skip, dropped) ==
    ImportedObjects(ExportedObjects(rows, skip), Roots(rows, skip), dropped)

LEMMA ImportedIs ==
    ASSUME NEW skip, NEW dropped
    PROVE  Imported(skip, dropped) =
             {Importing(KeptObjects(skip, dropped), r) : r \in AddedObjects(skip, dropped)}
  BY DEF Imported, ImportedObjects, Importing, PresentRef, AddedObjects, KeptObjects

LEMMA ImportingRow ==
    ASSUME NEW kept, NEW r, IsRow(r)
    PROVE  LET q == Importing(kept, r)
           IN  /\ IsRow(q) /\ q.table = r.table /\ q.id = r.id /\ q.num = r.num
               /\ q.digests = r.digests /\ q.ref = PresentRef(kept, r)
               /\ \A c \in DOMAIN r.ref : q.ref[c] = r.ref[c] \/ q.ref[c] = Null
  <1> DEFINE f == PresentRef(kept, r)
             q == ARow(r.table, r.id, f, r.digests, r.num, r.data)
  <1>1. Importing(kept, r) = q
    BY RefChanged DEF Importing
  <1>2. /\ r.table \in TableNames /\ r.id \in Seq(STRING)
        /\ r.digests # {} => r.table \in FileTables
        /\ DOMAIN r.ref = ColumnsOf(r.table)
    BY RowIs
  <1>3. f = [c \in ColumnsOf(r.table) |-> f[c]]
    BY <1>2 DEF PresentRef
  <1>4. \A c \in DOMAIN r.ref : f[c] = r.ref[c] \/ f[c] = Null
    BY DEF PresentRef
  <1> HIDE DEF f
  <1>5. IsRow(q)
    BY <1>2, <1>3, ARowIsRow
  <1>6. q.table = r.table /\ q.id = r.id /\ q.num = r.num /\ q.digests = r.digests /\ q.ref = f
    BY ARowFields
  <1> QED  BY <1>1, <1>4, <1>5, <1>6 DEF f

(* What is exported and added are rows of the database, and all contests   *)
(* with their tasks.                                                       *)
LEMMA ExportedFacts ==
    ASSUME NEW skip \in DumpChoices, NEW dropped \in DumpChoices, \A r \in rows : IsRow(r)
    PROVE  LET kept == KeptObjects(skip, dropped)
               added == AddedObjects(skip, dropped)
           IN  /\ kept \subseteq rows /\ added \subseteq kept
               /\ \A c \in Get(rows, "Contest") : c \in added
               /\ \A t \in Get(rows, "Task") :
                      (\E c \in Get(rows, "Contest") : t.ref.contest = c.id) => t \in added
  <1> DEFINE kept == KeptObjects(skip, dropped)
             added == AddedObjects(skip, dropped)
             leads == [r \in rows |->
                          {q \in Related(rows, r) : q.table \notin Skipped(skip)}]
             start == Roots(rows, skip)
             leads2 == [r \in kept |-> Related(kept, r)]
             start2 == Roots(rows, skip) \cap kept
             E == ExportedObjects(rows, skip)
  <1>1. E = Closure(leads, start)
    BY DEF ExportedObjects
  <1>2. start \subseteq rows /\ \A q \in rows : leads[q] \subseteq rows
    BY DEF Roots, Related, Collected, Get
  <1>3. added = Closure(leads2, start2)
    BY DEF AddedObjects
  <1>4. start2 \subseteq kept /\ \A q \in kept : leads2[q] \subseteq kept
    BY DEF Related, Collected
  <1>5. ASSUME NEW c \in Get(rows, "Contest") PROVE c \in start
    BY DEF Roots
  <1>6. ASSUME NEW db, NEW c \in Get(db, "Contest"), NEW t \in Get(db, "Task"),
               t.ref.contest = c.id
        PROVE  t \in Related(db, c)
    <2> DEFINE k == Key("contest", "Contest", "CASCADE", "NULL")
    <2>1. k \in Keys(t) /\ k.column = "contest" /\ k.table = "Contest"
      BY SomeKeys, KeyFields DEF HasKey, Keys, Get
    <2> HIDE DEF k
    <2>2. Refers(t, k, c)
      BY <1>6, <2>1 DEF Refers, Get
    <2>3. "Task" \in Tables["Contest"].collections
      BY TablesAre DEF Contest, Table
    <2> QED  BY <2>1, <2>2, <2>3 DEF Related, Collected, Get
  <1>7. ASSUME NEW c \in Get(rows, "Contest"), NEW t \in Get(rows, "Task"), t.ref.contest = c.id
        PROVE  t \in leads[c]
    <2>1. t \in Related(rows, c)
      BY <1>6, <1>7
    <2>2. c \in rows /\ t.table = "Task"
      BY DEF Get
    <2> QED  BY <2>1, <2>2, NeverSkipped
  <1>8. start \subseteq E /\ E \subseteq rows
    <2> HIDE DEF leads, start, E
    <2> QED  BY <1>1, <1>2, ClosureWithin
  <1>9. ASSUME NEW c \in Get(rows, "Contest"), NEW t \in Get(rows, "Task"), t.ref.contest = c.id
        PROVE  t \in E
    <2>1. c \in start /\ t \in leads[c]
      BY <1>5, <1>7, <1>9
    <2> HIDE DEF leads, start, E
    <2> QED  BY <1>1, <2>1, ClosureNear
  <1>10. kept \subseteq rows /\ \A r \in E : r.table \in {"Task", "Contest"} => r \in kept
    BY <1>8, NeverSkipped DEF KeptObjects
  <1>11. start2 \subseteq added /\ added \subseteq kept
    <2> HIDE DEF leads2, start2, added, kept
    <2> QED  BY <1>3, <1>4, ClosureWithin
  <1>12. ASSUME NEW c \in Get(rows, "Contest") PROVE c \in start2 /\ c \in Get(kept, "Contest")
    BY <1>5, <1>8, <1>10 DEF Get
  <1>13. ASSUME NEW c \in Get(rows, "Contest"), NEW t \in Get(rows, "Task"), t.ref.contest = c.id
         PROVE  t \in added
    <2>1. t \in Get(kept, "Task")
      BY <1>9, <1>10, <1>13 DEF Get
    <2>2. t \in Related(kept, c) /\ c \in kept
      BY <1>6, <1>12, <1>13, <2>1 DEF Get
    <2>3. t \in leads2[c]
      BY <2>2
    <2> HIDE DEF leads2, start2, added, kept
    <2> QED  BY <1>3, <1>12, <2>3, ClosureNear
  <1> HIDE DEF start2, added, kept
  <1>14. \A c \in Get(rows, "Contest") : c \in added
    BY <1>11, <1>12
  <1> QED  BY <1>10, <1>11, <1>13, <1>14 DEF added, kept

(* A reference that holds among the imported rows is that of the row.      *)
LEMMA ImportedReference ==
    ASSUME GoodDb(rows), NEW skip \in DumpChoices, NEW dropped \in DumpChoices,
           ReferencesHold(Imported(skip, dropped)), NEW r \in AddedObjects(skip, dropped),
           NEW k \in Keys(r), k.ondelete # "SET_NULL", k.null # "NULL"
    PROVE  LET kept == KeptObjects(skip, dropped)
           IN  /\ Importing(kept, r).ref[k.column] = r.ref[k.column]
               /\ \E x \in AddedObjects(skip, dropped) : x.table = k.table /\ x.id = r.ref[k.column]
  <1> DEFINE kept == KeptObjects(skip, dropped)
             added == AddedObjects(skip, dropped)
             new == Imported(skip, dropped)
             q == Importing(kept, r)
  <1>1. \A x \in rows : IsRow(x)
    BY DEF GoodDb, IsConsistent
  <1>2. kept \subseteq rows /\ added \subseteq kept
    BY <1>1, ExportedFacts
  <1>3. new = {Importing(kept, x) : x \in added}
    BY ImportedIs
  <1>4. \A x \in added : LET y == Importing(kept, x)
                         IN  IsRow(x) /\ y.table = x.table /\ y.id = x.id
                             /\ \A c \in DOMAIN x.ref : y.ref[c] = x.ref[c] \/ y.ref[c] = Null
    BY <1>1, <1>2, ImportingRow
  <1>5. ReferencesHold(new) /\ r \in added
    OBVIOUS
  <1> HIDE DEF kept, added, new
  <1>6. k \in Keys(q) /\ k.column \in DOMAIN r.ref
    <2>1. Keys(q) = Keys(r)
      BY <1>4, <1>5 DEF Keys
    <2> QED  BY <1>4, <1>5, <2>1, RowFacts
  <1>7. PICK y \in new : Refers(q, k, y)
    BY <1>3, <1>5, <1>6 DEF ReferencesHold
  <1>8. PICK x \in added : y = Importing(kept, x)
    BY <1>3
  <1>9. y.id = x.id /\ y.table = x.table /\ x.id \in Seq(STRING)
    BY <1>4, <1>8, RowIs
  <1>10. q.ref[k.column] = x.id /\ x.table = k.table
    BY <1>7, <1>9 DEF Refers
  <1>11. q.ref[k.column] # Null
    BY <1>9, <1>10, AdminAssumption
  <1>12. q.ref[k.column] = r.ref[k.column]
    BY <1>4, <1>5, <1>6, <1>11
  <1> QED  BY <1>10, <1>12 DEF added, kept

LEMMA ImportedEvaluations ==
    ASSUME GoodDb(rows), NEW skip \in DumpChoices, NEW dropped \in DumpChoices,
           ReferencesHold(Imported(skip, dropped))
    PROVE  EvaluationsFit(Imported(skip, dropped))
  <1> DEFINE kept == KeptObjects(skip, dropped)
             added == AddedObjects(skip, dropped)
             new == Imported(skip, dropped)
  <1>1. IsConsistent(rows) /\ \A x \in rows : IsRow(x)
    BY DEF GoodDb, IsConsistent
  <1>2. kept \subseteq rows /\ added \subseteq kept
    BY <1>1, ExportedFacts
  <1>3. new = {Importing(kept, x) : x \in added}
    BY ImportedIs
  <1>4. \A x \in added : LET y == Importing(kept, x) IN y.table = x.table /\ y.id = x.id
    BY <1>1, <1>2, ImportingRow
  <1>5. ASSUME NEW x \in added, NEW c, NEW S, HasKey(x.table, c, S, "CASCADE", "NOT_NULL")
        PROVE  /\ Importing(kept, x).ref[c] = x.ref[c]
               /\ \E y \in added : y.table = S /\ y.id = x.ref[c]
    <2> DEFINE k == Key(c, S, "CASCADE", "NOT_NULL")
    <2>1. k \in Keys(x) /\ k.column = c /\ k.table = S /\ k.ondelete # "SET_NULL"
          /\ k.null # "NULL"
      BY <1>5, KeyFields DEF HasKey, Keys
    <2> HIDE DEF k
    <2> QED  BY <2>1, ImportedReference
  <1> HIDE DEF kept, added, new
  <1>6. SUFFICES ASSUME NEW e2 \in Get(new, "Evaluation")
                 PROVE  /\ \E t \in Get(new, "Testcase") :
                              t.id = e2.ref.testcase /\ t.ref.dataset = e2.ref.dataset
                        /\ \E r \in Get(new, "SubmissionResult") :
                              r.id = e2.ref.submission_result /\ r.ref.dataset = e2.ref.dataset
    BY DEF EvaluationsFit, new
  <1>7. PICK e \in added : e2 = Importing(kept, e)
    BY <1>3 DEF Get
  <1>8. e.table = "Evaluation" /\ e \in Get(rows, "Evaluation")
    BY <1>2, <1>4, <1>7 DEF Get
  <1>9. /\ e2.ref.testcase = e.ref.testcase /\ e2.ref.dataset = e.ref.dataset
        /\ e2.ref.submission_result = e.ref.submission_result
    BY <1>5, <1>7, <1>8, SomeKeys
  <1>10. PICK t \in added : t.table = "Testcase" /\ t.id = e.ref.testcase
    <2>1. HasKey(e.table, "testcase", "Testcase", "CASCADE", "NOT_NULL")
      BY <1>8, SomeKeys
    <2>2. \E y \in added : y.table = "Testcase" /\ y.id = e.ref["testcase"]
      BY <1>5, <1>7, <2>1
    <2> QED  BY <2>2
  <1>11. PICK r \in added : r.table = "SubmissionResult" /\ r.id = e.ref.submission_result
    <2>1. HasKey(e.table, "submission_result", "SubmissionResult", "CASCADE", "NOT_NULL")
      BY <1>8, SomeKeys
    <2>2. \E y \in added : y.table = "SubmissionResult" /\ y.id = e.ref["submission_result"]
      BY <1>5, <1>7, <2>1
    <2> QED  BY <2>2
  <1>12. t.ref.dataset = e.ref.dataset
    <2>1. PICK u \in Get(rows, "Testcase") : u.id = e.ref.testcase /\ u.ref.dataset = e.ref.dataset
      BY <1>1, <1>8 DEF IsConsistent, EvaluationsFit
    <2>2. u = t
      BY <1>1, <1>2, <1>10, <2>1 DEF IsConsistent, UniqueIds, Get
    <2> QED  BY <2>1, <2>2
  <1>13. r.ref.dataset = e.ref.dataset
    <2>1. PICK u \in Get(rows, "SubmissionResult") :
              u.id = e.ref.submission_result /\ u.ref.dataset = e.ref.dataset
      BY <1>1, <1>8 DEF IsConsistent, EvaluationsFit
    <2>2. u = r
      BY <1>1, <1>2, <1>11, <2>1 DEF IsConsistent, UniqueIds, Get
    <2> QED  BY <2>1, <2>2
  <1>14. Importing(kept, t).ref.dataset = t.ref.dataset /\ Importing(kept, r).ref.dataset = r.ref.dataset
    <2>1. HasKey(t.table, "dataset", "Dataset", "CASCADE", "NOT_NULL")
      BY <1>10, SomeKeys
    <2>2. HasKey(r.table, "dataset", "Dataset", "CASCADE", "NOT_NULL")
      BY <1>11, SomeKeys
    <2>3. Importing(kept, t).ref["dataset"] = t.ref["dataset"]
      BY <1>5, <1>10, <2>1
    <2>4. Importing(kept, r).ref["dataset"] = r.ref["dataset"]
      BY <1>5, <1>11, <2>2
    <2> QED  BY <2>3, <2>4
  <1>15. Importing(kept, t) \in Get(new, "Testcase") /\ Importing(kept, t).id = t.id
    BY <1>3, <1>4, <1>10 DEF Get
  <1>16. Importing(kept, r) \in Get(new, "SubmissionResult") /\ Importing(kept, r).id = r.id
    BY <1>3, <1>4, <1>11 DEF Get
  <1> QED  BY <1>9, <1>10, <1>11, <1>12, <1>13, <1>14, <1>15, <1>16

LEMMA ImportedRemovals ==
    ASSUME GoodDb(rows), NEW skip \in DumpChoices, NEW dropped \in DumpChoices,
           ReferencesHold(Imported(skip, dropped))
    PROVE  RemovalsOf(Imported(skip, dropped))
  <1> DEFINE kept == KeptObjects(skip, dropped)
             added == AddedObjects(skip, dropped)
             new == Imported(skip, dropped)
  <1>1. IsConsistent(rows) /\ \A x \in rows : IsRow(x)
    BY DEF GoodDb, IsConsistent
  <1>2. kept \subseteq rows /\ added \subseteq kept
    BY <1>1, ExportedFacts
  <1>3. new = {Importing(kept, x) : x \in added}
    BY ImportedIs
  <1>4. \A x \in added : LET y == Importing(kept, x)
                         IN  IsRow(y) /\ y.table = x.table /\ y.id = x.id
                             /\ \A c \in DOMAIN x.ref : y.ref[c] = x.ref[c] \/ y.ref[c] = Null
    BY <1>1, <1>2, ImportingRow
  <1>5. ASSUME NEW d \in added, d.table = "Dataset"
        PROVE  Importing(kept, d).ref.task = d.ref.task
    <2> DEFINE k == Key("task", "Task", "CASCADE", "NOT_NULL")
    <2>1. k \in Keys(d) /\ k.column = "task" /\ k.ondelete # "SET_NULL" /\ k.null # "NULL"
      BY <1>5, SomeKeys, KeyFields DEF HasKey, Keys
    <2> HIDE DEF k
    <2> QED  BY <2>1, ImportedReference
  <1> HIDE DEF kept, added, new
  <1>6. (\A y \in new : IsRow(y)) /\ UniqueIds(new)
    <2>1. \A y \in new : IsRow(y)
      BY <1>3, <1>4
    <2>2. ASSUME NEW x \in added, NEW y \in added, Importing(kept, x).table = Importing(kept, y).table,
                 Importing(kept, x).id = Importing(kept, y).id
          PROVE  x = y
      BY <1>1, <1>2, <1>4, <2>2 DEF IsConsistent, UniqueIds
    <2> QED  BY <1>3, <2>1, <2>2 DEF UniqueIds
  <1>7. ActiveOwn(new)
    <2> SUFFICES ASSUME NEW t2 \in Get(new, "Task"), NEW d2 \in Get(new, "Dataset"),
                        t2.ref.active_dataset = d2.id
                 PROVE  d2.ref.task = t2.id
      BY DEF ActiveOwn
    <2>1. PICK t \in added : t2 = Importing(kept, t)
      BY <1>3 DEF Get
    <2>2. PICK d \in added : d2 = Importing(kept, d)
      BY <1>3 DEF Get
    <2>3. t \in Get(rows, "Task") /\ d \in Get(rows, "Dataset") /\ t.table = "Task"
          /\ t2.id = t.id /\ d2.id = d.id /\ d.table = "Dataset" /\ IsRow(t) /\ IsRow(d)
      BY <1>1, <1>2, <1>4, <2>1, <2>2 DEF Get
    <2>4. t2.ref.active_dataset = t.ref.active_dataset
      <3>1. "active_dataset" \in DOMAIN t.ref
        BY <2>3, RowIs, ColumnNames
      <3>2. d2.id # Null
        <4>1. d.id \in Seq(STRING)
          BY <2>3, RowIs
        <4> QED  BY <2>3, <4>1, AdminAssumption
      <3> QED  BY <1>4, <2>1, <3>1, <3>2
    <2>5. d.ref.task = t.id
      BY <1>1, <2>3, <2>4, ActiveFact
    <2> QED  BY <1>5, <2>2, <2>3, <2>5
  <1>8. RemovalsOf(new)
    BY <1>6, <1>7, RemovalsHold
  <1> QED  BY <1>8 DEF new

LEMMA ImportedInOrder ==
    ASSUME GoodDb(rows), NEW skip \in DumpChoices, NEW dropped \in DumpChoices, NumsInOrder(rows)
    PROVE  NumsInOrder(Imported(skip, dropped))
  <1> DEFINE kept == KeptObjects(skip, dropped)
             added == AddedObjects(skip, dropped)
             new == Imported(skip, dropped)
  <1>1. IsConsistent(rows) /\ \A x \in rows : IsRow(x)
    BY DEF GoodDb, IsConsistent
  <1>2. /\ kept \subseteq rows /\ added \subseteq kept
        /\ \A c \in Get(rows, "Contest") : c \in added
        /\ \A t \in Get(rows, "Task") :
               (\E c \in Get(rows, "Contest") : t.ref.contest = c.id) => t \in added
    BY <1>1, ExportedFacts
  <1>3. new = {Importing(kept, x) : x \in added}
    BY ImportedIs
  <1>4. \A x \in added : LET y == Importing(kept, x)
                         IN  y.table = x.table /\ y.id = x.id /\ y.num = x.num
                             /\ y.ref = PresentRef(kept, x)
                             /\ \A c \in DOMAIN x.ref : y.ref[c] = x.ref[c] \/ y.ref[c] = Null
    BY <1>1, <1>2, ImportingRow
  <1> HIDE DEF kept, added, new
  <1> SUFFICES ASSUME NEW c2 \in Get(new, "Contest")
               PROVE  {t.num : t \in TasksIn(new, c2.id)} = 0..(Cardinality(TasksIn(new, c2.id)) - 1)
    BY DEF NumsInOrder, new
  <1>5. PICK c \in Get(rows, "Contest") : c2.id = c.id
    BY <1>2, <1>3, <1>4 DEF Get
  <1> DEFINE S == TasksIn(rows, c.id)
             U == TasksIn(new, c2.id)
             g == [t \in S |-> Importing(kept, t)]
  <1>6. c.id # Null
    BY <1>1, RowIs, AdminAssumption DEF Get
  <1>7. ASSUME NEW t \in S PROVE g[t] \in U /\ g[t].num = t.num /\ g[t].id = t.id /\ t \in rows
                                 /\ t.table = "Task"
    <2> DEFINE k == Key("contest", "Contest", "CASCADE", "NULL")
    <2>1. t \in Get(rows, "Task") /\ t \in rows /\ t.table = "Task" /\ t.ref.contest = c.id
      BY DEF TasksIn, Get
    <2>2. t \in added /\ c \in kept /\ c.table = "Contest"
      BY <1>2, <2>1 DEF Get
    <2>3. k \in Keys(t) /\ k.column = "contest" /\ k.table = "Contest" /\ Refers(t, k, c)
      BY <2>1, <2>2, SomeKeys, KeyFields DEF HasKey, Keys, Refers
    <2>4. "contest" \in DOMAIN t.ref
      BY <1>1, <2>1, RowIs, ColumnNames
    <2> HIDE DEF k
    <2>5. PresentRef(kept, t)["contest"] = t.ref["contest"]
      BY <2>2, <2>3, <2>4 DEF PresentRef
    <2>6. g[t] = Importing(kept, t)
      OBVIOUS
    <2> HIDE DEF g
    <2> QED  BY <1>3, <1>4, <1>5, <2>1, <2>2, <2>5, <2>6 DEF TasksIn, Get
  <1>8. ASSUME NEW u \in U PROVE \E t \in S : u = g[t]
    <2>1. u \in new /\ u.table = "Task" /\ u.ref.contest = c.id
      BY <1>5 DEF TasksIn, Get
    <2>2. PICK t \in added : u = Importing(kept, t)
      BY <1>3, <2>1
    <2>3. t.table = "Task" /\ t \in rows /\ IsRow(t)
      BY <1>1, <1>2, <1>4, <2>1, <2>2
    <2>4. "contest" \in DOMAIN t.ref
      BY <2>3, RowIs, ColumnNames
    <2>5. t.ref.contest = c.id
      BY <1>4, <1>6, <2>1, <2>2, <2>4
    <2> QED  BY <2>2, <2>3, <2>5 DEF TasksIn, Get
  <1> HIDE DEF S, U
  <1>9. ASSUME NEW t \in S, NEW u \in S, g[t] = g[u] PROVE t = u
    <2>1. t.id = u.id /\ t.table = u.table /\ t \in rows /\ u \in rows
      BY <1>7, <1>9
    <2> QED  BY <1>1, <2>1 DEF IsConsistent, UniqueIds
  <1>10. g \in Bijection(S, U)
    BY <1>7, <1>8, <1>9 DEF Bijection, Injection, Surjection, IsInjective
  <1>11. IsFiniteSet(S)
    BY <1>1, HereTasks DEF S
  <1>12. Cardinality(S) = Cardinality(U)
    <2> HIDE DEF g
    <2> QED  BY <1>10, <1>11, FS_Bijection DEF ExistsBijection
  <1>13. {u.num : u \in U} = {t.num : t \in S}
    <2> HIDE DEF g
    <2> QED  BY <1>7, <1>8
  <1>14. {t.num : t \in S} = 0 .. (Cardinality(S) - 1)
    BY DEF NumsInOrder, S
  <1> QED  BY <1>12, <1>13, <1>14 DEF U

-----------------------------------------------------------------------------
(* One step of AdminWebServer or of a script.                              *)

(* The rows of one upload: a testcase, or nothing that the rankings show.  *)
UploadOk(new) ==
    /\ PlainRows(new)
    /\ Get(new, "Testcase") = {} => \A r \in new : r.table \notin ViewTables

(* ProxyService was told, or need not be, or what it shows is as before.   *)
Informs ==
    \/ untold' \/ ~Viewable(rows') \/ told' = View(rows')
    \/ told' = told /\ View(rows') = View(rows) /\ (untold => untold')

Handled ==
    /\ dumped = <<>> /\ dumped' = <<>>
    /\ GoodDb(rows') /\ Informs
    /\ stale' \/ (~stale /\ (NumsInOrder(rows) => NumsInOrder(rows')))
    /\ store \subseteq store' /\ FilesOf(rows') \subseteq FilesOf(rows) \cup store'
    /\ \A new \in uploads' : new \in uploads \/ (UploadOk(new) /\ FilesOf(new) \subseteq store')
    /\ orphans' = orphans /\ (Careful => orphans = Null)

LEMMA CommitHandled ==
    ASSUME \E db : Commit(db) /\ Serves(db, {}), UNCHANGED stale
    PROVE  Handled
  <1>1. PICK db : Commit(db) /\ Serves(db, {})
    OBVIOUS
  <1>2. rows' = db /\ Counted /\ Reinitialize(db) /\ UNCHANGED <<store, uploads, orphans, dumped>>
    BY <1>1 DEF Commit
  <1>3. Informs
    BY <1>2 DEF Informs, Reinitialize
  <1>4. GoodDb(db) /\ FilesOf(db) \subseteq FilesOf(rows) /\ (NumsInOrder(rows) => NumsInOrder(db))
    BY <1>1 DEF Serves
  <1>5. stale' \/ (~stale /\ (NumsInOrder(rows) => NumsInOrder(rows')))
    BY <1>2, <1>4
  <1> QED  BY <1>2, <1>3, <1>4, <1>5 DEF Handled, Counted

LEMMA QuietlyHandled ==
    ASSUME \E db : CommitQuietly(db) /\ Serves(db, {}) /\ View(db) = View(rows), UNCHANGED stale
    PROVE  Handled
  <1>1. PICK db : CommitQuietly(db) /\ Serves(db, {}) /\ View(db) = View(rows)
    OBVIOUS
  <1>2. rows' = db /\ Counted /\ UNCHANGED <<store, uploads, orphans, told, untold, dumped>>
    BY <1>1 DEF CommitQuietly
  <1>3. Informs
    BY <1>1, <1>2 DEF Informs
  <1>4. GoodDb(db) /\ FilesOf(db) \subseteq FilesOf(rows) /\ (NumsInOrder(rows) => NumsInOrder(db))
    BY <1>1 DEF Serves
  <1>5. stale' \/ (~stale /\ (NumsInOrder(rows) => NumsInOrder(rows')))
    BY <1>2, <1>4
  <1> QED  BY <1>2, <1>3, <1>4, <1>5 DEF Handled, Counted

LEMMA ScriptHandled ==
    ASSUME \E db : Script(db) /\ Serves(db, {})
    PROVE  Handled
  <1>1. PICK db : Script(db) /\ Serves(db, {})
    OBVIOUS
  <1>2. /\ rows' = db /\ Counted /\ UNCHANGED <<store, uploads, orphans, told, stale, dumped>>
        /\ untold' = (untold \/ View(db) # View(rows))
    BY <1>1 DEF Script
  <1>3. Informs
    BY <1>2 DEF Informs
  <1>4. GoodDb(db) /\ FilesOf(db) \subseteq FilesOf(rows) /\ (NumsInOrder(rows) => NumsInOrder(db))
    BY <1>1 DEF Serves
  <1>5. stale' \/ (~stale /\ (NumsInOrder(rows) => NumsInOrder(rows')))
    BY <1>2, <1>4
  <1> QED  BY <1>2, <1>3, <1>4, <1>5 DEF Handled, Counted

LEMMA UploadHandled ==
    ASSUME GoodDb(rows), \E new : Upload(new) /\ UploadOk(new)
    PROVE  Handled
  <1>1. PICK new : Upload(new) /\ UploadOk(new)
    OBVIOUS
  <1>2. /\ Counted /\ UNCHANGED <<rows, orphans, told, untold, stale, dumped>>
        /\ store' = store \cup FilesOf(new) /\ uploads' = uploads \cup {new}
    BY <1>1 DEF Upload
  <1>3. Informs
    BY <1>2 DEF Informs
  <1>5. stale' \/ (~stale /\ (NumsInOrder(rows) => NumsInOrder(rows')))
    BY <1>2
  <1> QED  BY <1>1, <1>2, <1>3, <1>5 DEF Handled, Counted

LEMMA OneUpload ==
    ASSUME NEW T \in {"Statement", "Attachment", "Manager", "Testcase"}, NEW r \in New(T)
    PROVE  UploadOk({r})
  <1>1. r.table = T /\ PlainRows({r})
    BY NewRow
  <1>2. T # "Testcase" => T \notin ViewTables
    BY DEF ViewTables
  <1>3. T = "Testcase" => Get({r}, "Testcase") # {}
    BY <1>1 DEF Get
  <1> QED  BY <1>1, <1>2, <1>3 DEF UploadOk

(* A deletion of rows that are no tasks.                                   *)
LEMMA DeleteOther ==
    ASSUME GoodDb(rows), NEW S, S \subseteq rows, \A r \in S : r.table # "Task"
    PROVE  Serves(AfterDelete(rows, S), {})
  BY DeleteServes DEF Get

LEMMA DeleteOne ==
    ASSUME GoodDb(rows), NEW T, T # "Task", NEW r \in Get(rows, T)
    PROVE  Serves(AfterDelete(rows, {r}), {})
  <1>1. {r} \subseteq rows /\ \A q \in {r} : q.table # "Task"
    BY DEF Get
  <1> QED  BY <1>1, DeleteOther

LEMMA ContestPagesHandled ==
    ASSUME GoodDb(rows), ContestPages
    PROVE  Handled
  <1>1. CASE AddContestHandler
    <2>1. PICK c \in New("Contest") : Commit(Insert(rows, {c}))
      BY <1>1 DEF AddContestHandler
    <2>2. Serves(Insert(rows, {c}), {})
      BY NewServes DEF FileTables
    <2> QED  BY <1>1, <2>1, <2>2, CommitHandled DEF AddContestHandler
  <1>2. CASE ContestHandler
    <2>1. PICK c \in Get(rows, "Contest") : Commit(Replace(rows, c, Edited(c)))
      BY <1>2 DEF ContestHandler
    <2>2. Serves(Replace(rows, c, Edited(c)), {})
      BY EditServes DEF Get
    <2> QED  BY <1>2, <2>1, <2>2, CommitHandled DEF ContestHandler
  <1>3. CASE RemoveContestHandler
    <2>1. PICK c \in Get(rows, "Contest") : Commit(AfterDelete(rows, {c}))
      BY <1>3 DEF RemoveContestHandler
    <2>2. Serves(AfterDelete(rows, {c}), {})
      BY DeleteOne
    <2> QED  BY <1>3, <2>1, <2>2, CommitHandled DEF RemoveContestHandler
  <1>4. ASSUME NEW db, Commit(db), GoodDb(db), FilesOf(db) = FilesOf(rows), NEW ok,
               stale' = (stale \/ ~ok), ok /\ NumsInOrder(rows) => NumsInOrder(db)
        PROVE  Handled
    <2>1. rows' = db /\ Counted /\ Reinitialize(db) /\ UNCHANGED <<store, uploads, orphans, dumped>>
      BY <1>4 DEF Commit
    <2>2. Informs
      BY <2>1 DEF Informs, Reinitialize
    <2>3. stale' \/ (~stale /\ (NumsInOrder(rows) => NumsInOrder(rows')))
      BY <1>4, <2>1
    <2> QED  BY <1>4, <2>1, <2>2, <2>3 DEF Handled, Counted
  <1>5. CASE ContestTasksHandler
    <2>1. PICK c \in Get(rows, "Contest"), t \in Get(rows, "Task") :
              /\ t.num # Null
              /\ \E db \in {RemoveFromContest(c.id, t), MoveTop(c.id, t), MoveBottom(c.id, t),
                            Exchange(c.id, t, t.num - 1), Exchange(c.id, t, t.num + 1)} : Commit(db)
              /\ stale' = (stale \/ t.ref.contest # c.id)
      BY <1>5 DEF ContestTasksHandler
    <2>2. PICK db : /\ db \in {RemoveFromContest(c.id, t), MoveTop(c.id, t), MoveBottom(c.id, t),
                               Exchange(c.id, t, t.num - 1), Exchange(c.id, t, t.num + 1)}
                    /\ Commit(db)
      BY <2>1
    <2>3. KeepsTasks(db, c.id, t)
      BY <2>1, <2>2, RemoveFromContestGood, MoveTopGood, MoveBottomGood, ExchangeGood
    <2>4. /\ GoodDb(db) /\ FilesOf(db) = FilesOf(rows)
          /\ t.ref.contest = c.id /\ NumsInOrder(rows) => NumsInOrder(db)
      BY <2>3 DEF KeepsTasks
    <2> QED  BY <1>4, <2>1, <2>2, <2>4
  <1>6. CASE AddContestTaskHandler
    <2>1. PICK c \in Get(rows, "Contest"), t \in Get(rows, "Task") :
              /\ Commit(IfAllowed(Replace(rows, t,
                     Assigned(t, c.id, Cardinality(TasksIn(rows, c.id))))))
              /\ stale' = (stale \/ t.ref.contest # Null)
      BY <1>6 DEF AddContestTaskHandler
    <2>2. PICK db : /\ db = IfAllowed(Replace(rows, t,
                                Assigned(t, c.id, Cardinality(TasksIn(rows, c.id)))))
                    /\ Commit(db)
      BY <2>1
    <2>3. /\ GoodDb(db) /\ FilesOf(db) = FilesOf(rows)
          /\ t.ref.contest = Null /\ NumsInOrder(rows) => NumsInOrder(db)
      BY <2>2, AddToContestGood
    <2> QED  BY <1>4, <2>1, <2>2, <2>3
  <1> QED  BY <1>1, <1>2, <1>3, <1>5, <1>6 DEF ContestPages

(* The second session of an upload.                                        *)
LEMMA FinishKeeps ==
    ASSUME GoodDb(rows), \A new \in uploads : UploadOk(new), FinishUpload
    PROVE  /\ dumped = <<>> /\ dumped' = <<>> /\ GoodDb(rows') /\ Informs
           /\ stale' \/ (~stale /\ (NumsInOrder(rows) => NumsInOrder(rows')))
           /\ uploads' \subseteq uploads /\ uploads # {} /\ store' = store /\ orphans' = orphans
           /\ \E new \in uploads : FilesOf(rows') \subseteq FilesOf(rows) \cup FilesOf(new)
  <1>1. PICK new \in uploads :
            LET db == IF ReferencesHold(rows \cup new) THEN Insert(rows, new) ELSE rows
            IN /\ dumped = <<>>
               /\ uploads' = uploads \ {new}
               /\ rows' = db
               /\ IF Get(new, "Testcase") # {} THEN Reinitialize(db)
                  ELSE UNCHANGED <<told, untold>>
               /\ UNCHANGED <<store, orphans, stale, dumped, requests>>
    BY DEF FinishUpload
  <1>2. PICK db : db = IF ReferencesHold(rows \cup new) THEN Insert(rows, new) ELSE rows
    OBVIOUS
  <1>3. /\ dumped = <<>> /\ uploads' = uploads \ {new} /\ rows' = db
        /\ IF Get(new, "Testcase") # {} THEN Reinitialize(db) ELSE UNCHANGED <<told, untold>>
        /\ UNCHANGED <<store, orphans, stale, dumped, requests>>
    BY <1>1, <1>2
  <1>4. UploadOk(new) /\ PlainRows(new)
    BY DEF UploadOk
  <1>5. Serves(db, FilesOf(new))
    <2>1. CASE ReferencesHold(rows \cup new)
      BY <1>2, <1>4, <2>1, InsertServes
    <2>2. CASE ~ReferencesHold(rows \cup new)
      BY <1>2, <2>2 DEF Serves
    <2> QED  BY <2>1, <2>2
  <1>6. Get(new, "Testcase") = {} => View(db) = View(rows)
    BY <1>2, <1>4, InsertElsewhere DEF UploadOk
  <1>7. Informs
    <2>1. CASE Get(new, "Testcase") # {}
      BY <1>3, <2>1 DEF Informs, Reinitialize
    <2>2. CASE Get(new, "Testcase") = {}
      BY <1>3, <1>6, <2>2 DEF Informs
    <2> QED  BY <2>1, <2>2
  <1>8. GoodDb(db) /\ FilesOf(db) \subseteq FilesOf(rows) \cup FilesOf(new)
        /\ (NumsInOrder(rows) => NumsInOrder(db))
    BY <1>5 DEF Serves
  <1>9. stale' \/ (~stale /\ (NumsInOrder(rows) => NumsInOrder(rows')))
    BY <1>3, <1>8
  <1> QED  BY <1>3, <1>7, <1>8, <1>9

LEMMA TaskPagesHandled ==
    ASSUME GoodDb(rows), TaskPages, ~FinishUpload
    PROVE  Handled
  <1>0. IsConsistent(rows)
    BY DEF GoodDb
  <1>1. CASE AddTaskHandler
    <2>1. PICK t \in Get(Addable, "Task") :
              Commit(Insert(rows, {[t EXCEPT !.ref.active_dataset = FirstDataset(t).id],
                                   FirstDataset(t)}))
      BY <1>1 DEF AddTaskHandler
    <2>2. PICK db : /\ db = Insert(rows, {[t EXCEPT !.ref.active_dataset = FirstDataset(t).id],
                                          FirstDataset(t)})
                    /\ Commit(db)
      BY <2>1
    <2>3. Serves(db, {})
      BY <2>2, AddTaskServes
    <2> QED  BY <1>1, <2>2, <2>3, CommitHandled DEF AddTaskHandler
  <1>2. CASE TaskHandler
    <2>1. PICK t \in Get(rows, "Task") :
              IF t.ref.contest = Ranked THEN Commit(TaskEdited(t)) ELSE CommitQuietly(TaskEdited(t))
      BY <1>2 DEF TaskHandler, TaskEdited, TaskPart
    <2>2. Serves(TaskEdited(t), {}) /\ UNCHANGED stale
      BY <1>2, TaskEditServes DEF TaskHandler
    <2>3. CASE t.ref.contest = Ranked
      BY <2>1, <2>2, <2>3, CommitHandled
    <2>4. CASE t.ref.contest # Ranked
      <3>1. View(TaskEdited(t)) = View(rows)
        BY <2>4, TaskEditView
      <3> QED  BY <2>1, <2>2, <2>4, <3>1, QuietlyHandled
    <2> QED  BY <2>3, <2>4
  <1>3. CASE AddStatementHandler
    <2>1. PICK r \in New("Statement") : Upload({r})
      BY <1>3 DEF AddStatementHandler
    <2> QED  BY <2>1, OneUpload, UploadHandled
  <1>4. CASE AddAttachmentHandler
    <2>1. PICK r \in New("Attachment") : Upload({r})
      BY <1>4 DEF AddAttachmentHandler
    <2> QED  BY <2>1, OneUpload, UploadHandled
  <1>5. CASE StatementHandler
    <2>1. PICK r \in Get(rows, "Statement") : CommitQuietly(AfterDelete(rows, {r}))
      BY <1>5 DEF StatementHandler
    <2>2. Serves(AfterDelete(rows, {r}), {})
      BY DeleteOne
    <2>3. View(AfterDelete(rows, {r})) = View(rows)
      BY <1>0, DeleteElsewhere DEF LeafTables, Get
    <2> QED  BY <1>5, <2>1, <2>2, <2>3, QuietlyHandled DEF StatementHandler
  <1>6. CASE AttachmentHandler
    <2>1. PICK r \in Get(rows, "Attachment") : CommitQuietly(AfterDelete(rows, {r}))
      BY <1>6 DEF AttachmentHandler
    <2>2. Serves(AfterDelete(rows, {r}), {})
      BY DeleteOne
    <2>3. View(AfterDelete(rows, {r})) = View(rows)
      BY <1>0, DeleteElsewhere DEF LeafTables, Get
    <2> QED  BY <1>6, <2>1, <2>2, <2>3, QuietlyHandled DEF AttachmentHandler
  <1>7. CASE AddDatasetHandler
    <2>1. PICK d \in New("Dataset") :
              CommitQuietly(IF Taken(rows, {d}) THEN rows ELSE MadeActive(rows \cup {d}, d))
      BY <1>7 DEF AddDatasetHandler
    <2>2. PICK db : /\ db = IF Taken(rows, {d}) THEN rows ELSE MadeActive(rows \cup {d}, d)
                    /\ CommitQuietly(db)
      BY <2>1
    <2>3. Serves(db, {}) /\ db = Insert(rows, {d})
      BY <2>2, AddDatasetServes
    <2>4. View(Insert(rows, {d})) = View(rows)
      <3>1. d.table = "Dataset"
        BY NewRow
      <3> QED  BY <1>0, <3>1, NewDatasetView
    <2> QED  BY <1>7, <2>2, <2>3, <2>4, QuietlyHandled DEF AddDatasetHandler
  <1>8. CASE RemoveTaskHandler
    <2>1. PICK t \in Get(rows, "Task") : Commit(WithoutTask(t))
      BY <1>8 DEF RemoveTaskHandler
    <2>2. Serves(WithoutTask(t), {})
      BY WithoutTaskGood DEF Serves
    <2> QED  BY <1>8, <2>1, <2>2, CommitHandled DEF RemoveTaskHandler
  <1> QED  BY <1>1, <1>2, <1>3, <1>4, <1>5, <1>6, <1>7, <1>8 DEF TaskPages

LEMMA DatasetPagesHandled ==
    ASSUME GoodDb(rows), DatasetPages
    PROVE  Handled
  <1>0. IsConsistent(rows)
    BY DEF GoodDb
  <1>1. CASE CloneDatasetHandler
    <2>1. PICK d \in Get(rows, "Dataset"), results \in BOOLEAN : CommitQuietly(WithCopy(d, results))
      BY <1>1 DEF CloneDatasetHandler, WithCopy
    <2>2. PICK db : db = WithCopy(d, results) /\ CommitQuietly(db)
      BY <2>1
    <2>3. Serves(db, {}) /\ db = Insert(rows, Copies(d, results))
      BY <2>2, CloneServes
    <2>4. View(db) = View(rows)
      BY <1>0, <2>3, CloneView
    <2> QED  BY <1>1, <2>2, <2>3, <2>4, QuietlyHandled DEF CloneDatasetHandler
  <1>2. CASE DeleteDatasetHandler
    <2>1. PICK d \in Get(rows, "Dataset") : CommitQuietly(AfterDelete(rows, {d}))
      BY <1>2 DEF DeleteDatasetHandler
    <2>2. Serves(AfterDelete(rows, {d}), {})
      BY DeleteOne
    <2>3. View(AfterDelete(rows, {d})) = View(rows)
      BY <1>0, DeleteDatasetView
    <2> QED  BY <1>2, <2>1, <2>2, <2>3, QuietlyHandled DEF DeleteDatasetHandler
  <1>3. CASE ActivateDatasetHandler
    <2>1. PICK d \in Get(rows, "Dataset"), m \in SUBSET Get(Addable, "Message") :
              IF TaskOf(d).ref.contest = Ranked THEN Commit(Sent(Activated(d), m))
              ELSE CommitQuietly(Sent(Activated(d), m))
      BY <1>3 DEF ActivateDatasetHandler, Sent, Activated, TaskOf
    <2>2. Serves(Sent(Activated(d), m), {}) /\ UNCHANGED stale
      BY <1>3, ActivatedServes, SentServes DEF ActivateDatasetHandler
    <2>3. CASE TaskOf(d).ref.contest = Ranked
      BY <2>1, <2>2, <2>3, CommitHandled
    <2>4. CASE TaskOf(d).ref.contest # Ranked
      <3>1. View(Sent(Activated(d), m)) = View(rows)
        BY <2>4, ActivatedView
      <3> QED  BY <2>1, <2>2, <2>4, <3>1, QuietlyHandled
    <2> QED  BY <2>3, <2>4
  <1>4. CASE ToggleAutojudgeDatasetHandler
    <2>1. PICK d \in Get(rows, "Dataset") :
              CommitQuietly(Replace(rows, d, [d EXCEPT !.num = IF @ = Null THEN 1 ELSE Null]))
      BY <1>4 DEF ToggleAutojudgeDatasetHandler
    <2>2. PICK n : CommitQuietly(Replace(rows, d, [d EXCEPT !.num = n]))
      BY <2>1
    <2>3. Serves(Replace(rows, d, [d EXCEPT !.num = n]), {})
      BY EditServes DEF Get
    <2>4. View(Replace(rows, d, [d EXCEPT !.num = n])) = View(rows)
      BY <1>0, ToggleView
    <2> QED  BY <1>4, <2>2, <2>3, <2>4, QuietlyHandled DEF ToggleAutojudgeDatasetHandler
  <1>5. CASE AddManagerHandler
    <2>1. PICK r \in New("Manager") : Upload({r})
      BY <1>5 DEF AddManagerHandler
    <2> QED  BY <2>1, OneUpload, UploadHandled
  <1>6. CASE DeleteManagerHandler
    <2>1. PICK r \in Get(rows, "Manager") : CommitQuietly(AfterDelete(rows, {r}))
      BY <1>6 DEF DeleteManagerHandler
    <2>2. Serves(AfterDelete(rows, {r}), {})
      BY DeleteOne
    <2>3. View(AfterDelete(rows, {r})) = View(rows)
      BY <1>0, DeleteElsewhere DEF LeafTables, Get
    <2> QED  BY <1>6, <2>1, <2>2, <2>3, QuietlyHandled DEF DeleteManagerHandler
  <1>7. CASE AddTestcaseHandler
    <2>1. PICK r \in New("Testcase") : Upload({r})
      BY <1>7 DEF AddTestcaseHandler
    <2> QED  BY <2>1, OneUpload, UploadHandled
  <1>8. CASE AddTestcasesHandler
    <2>1. PICK r \in New("Testcase"), overwrite \in BOOLEAN, fails \in BOOLEAN :
              LET db == ImportTestcase(r, overwrite, fails)
              IN /\ Counted
                 /\ rows' = db
                 /\ store' = IF fails THEN store ELSE store \cup r.digests
                 /\ IF fails THEN /\ untold' = (untold \/ View(db) # View(rows))
                                  /\ told' = told
                    ELSE Reinitialize(db)
      BY <1>8 DEF AddTestcasesHandler
    <2>2. PICK db : db = ImportTestcase(r, overwrite, fails)
      OBVIOUS
    <2>3. /\ Counted /\ rows' = db /\ store' = IF fails THEN store ELSE store \cup r.digests
          /\ IF fails THEN untold' = (untold \/ View(db) # View(rows)) /\ told' = told
             ELSE Reinitialize(db)
      BY <2>1, <2>2
    <2>4. Informs
      BY <2>3 DEF Informs, Reinitialize
    <2>5. Serves(db, IF fails THEN {} ELSE r.digests)
      BY <2>2, ImportTestcaseServes
    <2>6. GoodDb(db) /\ FilesOf(db) \subseteq FilesOf(rows) \cup store' /\ store \subseteq store'
          /\ (NumsInOrder(rows) => NumsInOrder(db))
      BY <2>3, <2>5 DEF Serves
    <2>7. UNCHANGED <<uploads, orphans, stale, dumped>>
      BY <1>8 DEF AddTestcasesHandler
    <2>8. stale' \/ (~stale /\ (NumsInOrder(rows) => NumsInOrder(rows')))
      BY <2>3, <2>6, <2>7
    <2> QED  BY <2>3, <2>4, <2>6, <2>7, <2>8 DEF Handled, Counted
  <1>9. CASE DeleteTestcaseHandler
    <2>1. PICK r \in Get(rows, "Testcase") : Commit(AfterDelete(rows, {r}))
      BY <1>9 DEF DeleteTestcaseHandler
    <2>2. Serves(AfterDelete(rows, {r}), {})
      BY DeleteOne
    <2> QED  BY <1>9, <2>1, <2>2, CommitHandled DEF DeleteTestcaseHandler
  <1> QED  BY <1>1, <1>2, <1>3, <1>4, <1>5, <1>6, <1>7, <1>8, <1>9 DEF DatasetPages

LEMMA NewElsewhere ==
    ASSUME NEW T, T \notin ViewTables, NEW r \in New(T)
    PROVE  View(Insert(rows, {r})) = View(rows)
  <1>1. \A q \in {r} : q.table \notin ViewTables
    BY NewRow
  <1> QED  BY <1>1, InsertElsewhere

LEMMA UserPagesHandled ==
    ASSUME GoodDb(rows), UserPages
    PROVE  Handled
  <1>0. IsConsistent(rows)
    BY DEF GoodDb
  <1>1. CASE UserHandler
    <2>1. PICK u \in Get(rows, "User") : Commit(Replace(rows, u, Edited(u)))
      BY <1>1 DEF UserHandler
    <2>2. Serves(Replace(rows, u, Edited(u)), {})
      BY EditServes DEF Get
    <2> QED  BY <1>1, <2>1, <2>2, CommitHandled DEF UserHandler
  <1>2. CASE RemoveUserHandler
    <2>1. PICK u \in Get(rows, "User") : Commit(AfterDelete(rows, {u}))
      BY <1>2 DEF RemoveUserHandler
    <2>2. Serves(AfterDelete(rows, {u}), {})
      BY DeleteOne
    <2> QED  BY <1>2, <2>1, <2>2, CommitHandled DEF RemoveUserHandler
  <1>3. CASE TeamHandler
    <2>1. PICK m \in Get(rows, "Team") : Commit(Replace(rows, m, Edited(m)))
      BY <1>3 DEF TeamHandler
    <2>2. Serves(Replace(rows, m, Edited(m)), {})
      BY EditServes DEF Get
    <2> QED  BY <1>3, <2>1, <2>2, CommitHandled DEF TeamHandler
  <1>4. CASE AddTeamHandler
    <2>1. PICK m \in New("Team") : Commit(Insert(rows, {m}))
      BY <1>4 DEF AddTeamHandler
    <2>2. Serves(Insert(rows, {m}), {})
      BY NewServes DEF FileTables
    <2> QED  BY <1>4, <2>1, <2>2, CommitHandled DEF AddTeamHandler
  <1>5. CASE AddUserHandler
    <2>1. PICK u \in New("User") : Commit(Insert(rows, {u}))
      BY <1>5 DEF AddUserHandler
    <2>2. Serves(Insert(rows, {u}), {})
      BY NewServes DEF FileTables
    <2> QED  BY <1>5, <2>1, <2>2, CommitHandled DEF AddUserHandler
  <1>6. CASE AddParticipationHandler
    <2>1. PICK p \in New("Participation") : Commit(Insert(rows, {p}))
      BY <1>6 DEF AddParticipationHandler
    <2>2. Serves(Insert(rows, {p}), {})
      BY NewServes DEF FileTables
    <2> QED  BY <1>6, <2>1, <2>2, CommitHandled DEF AddParticipationHandler
  <1>7. CASE RemoveParticipationHandler
    <2>1. PICK p \in Get(rows, "Participation") : Commit(AfterDelete(rows, {p}))
      BY <1>7 DEF RemoveParticipationHandler
    <2>2. Serves(AfterDelete(rows, {p}), {})
      BY DeleteOne
    <2> QED  BY <1>7, <2>1, <2>2, CommitHandled DEF RemoveParticipationHandler
  <1>8. CASE ParticipationHandler
    <2>1. PICK p \in Get(rows, "Participation"),
               team \in {m.id : m \in Get(rows, "Team")} \cup {Null} :
              Commit(Replace(rows, p, [Edited(p) EXCEPT !.ref.team = team]))
      BY <1>8 DEF ParticipationHandler
    <2>2. PICK db : db = Replace(rows, p, [Edited(p) EXCEPT !.ref.team = team]) /\ Commit(db)
      BY <2>1
    <2>3. Serves(db, {})
      BY <2>2, ParticipationServes
    <2> QED  BY <1>8, <2>2, <2>3, CommitHandled DEF ParticipationHandler
  <1>9. CASE MessageHandler
    <2>1. PICK m \in New("Message") : CommitQuietly(Insert(rows, {m}))
      BY <1>9 DEF MessageHandler
    <2>2. Serves(Insert(rows, {m}), {})
      BY NewServes DEF FileTables
    <2>3. View(Insert(rows, {m})) = View(rows)
      BY NewElsewhere DEF ViewTables
    <2> QED  BY <1>9, <2>1, <2>2, <2>3, QuietlyHandled DEF MessageHandler
  <1> QED
    BY <1>1, <1>2, <1>3, <1>4, <1>5, <1>6, <1>7, <1>8, <1>9
    DEF UserPages, AddContestUserHandler, EditParticipationHandler

LEMMA QuestionAnswer ==
    ASSUME GoodDb(rows), NEW r \in Get(rows, "Question"),
           NEW a \in {x.id : x \in Get(rows, "Admin")} \cup {Null}, NEW q,
           Repointed(r, q, "admin", a), CommitQuietly(Replace(rows, r, q)), UNCHANGED stale
    PROVE  Handled
  <1>1. Serves(Replace(rows, r, q), {})
    BY QuestionServes
  <1>2. View(Replace(rows, r, q)) = View(rows)
    BY ReplaceElsewhere DEF ViewTables, Repointed, Get
  <1> QED  BY <1>1, <1>2, QuietlyHandled

LEMMA OtherPagesHandled ==
    ASSUME GoodDb(rows), OtherPages
    PROVE  Handled
  <1>0. IsConsistent(rows) /\ \A r \in rows : IsRow(r)
    BY DEF GoodDb, IsConsistent
  <1>1. CASE QuestionReplyHandler
    <2>1. PICK q \in Get(rows, "Question"), a \in Get(rows, "Admin") :
              CommitQuietly(Replace(rows, q, [q EXCEPT !.data = 1, !.ref.admin = a.id]))
      BY <1>1 DEF QuestionReplyHandler
    <2>2. PICK x : /\ x = [q EXCEPT !.data = 1, !.ref.admin = a.id]
                   /\ CommitQuietly(Replace(rows, q, x))
      BY <2>1
    <2>3. Repointed(q, x, "admin", a.id)
      BY <1>0, <2>2, QuestionAnswered DEF Get
    <2>4. UNCHANGED stale
      BY <1>1 DEF QuestionReplyHandler
    <2> QED  BY <2>2, <2>3, <2>4, QuestionAnswer
  <1>2. CASE QuestionIgnoreHandler
    <2>1. PICK q \in Get(rows, "Question"), a \in Get(rows, "Admin"), ignore \in {1, Null} :
              CommitQuietly(Replace(rows, q, [q EXCEPT !.num = ignore, !.ref.admin = a.id]))
      BY <1>2 DEF QuestionIgnoreHandler
    <2>2. PICK x : /\ x = [q EXCEPT !.num = ignore, !.ref.admin = a.id]
                   /\ CommitQuietly(Replace(rows, q, x))
      BY <2>1
    <2>3. Repointed(q, x, "admin", a.id)
      BY <1>0, <2>2, QuestionAnswered DEF Get
    <2>4. UNCHANGED stale
      BY <1>2 DEF QuestionIgnoreHandler
    <2> QED  BY <2>2, <2>3, <2>4, QuestionAnswer
  <1>3. CASE QuestionClaimHandler
    <2>1. PICK q \in Get(rows, "Question"), a \in {x.id : x \in Get(rows, "Admin")} \cup {Null} :
              CommitQuietly(Replace(rows, q, [q EXCEPT !.ref.admin = a]))
      BY <1>3 DEF QuestionClaimHandler
    <2>2. PICK x : x = [q EXCEPT !.ref.admin = a] /\ CommitQuietly(Replace(rows, q, x))
      BY <2>1
    <2>3. Repointed(q, x, "admin", a)
      BY <1>0, <2>2, QuestionAnswered DEF Get
    <2>4. UNCHANGED stale
      BY <1>3 DEF QuestionClaimHandler
    <2> QED  BY <2>2, <2>3, <2>4, QuestionAnswer
  <1>4. CASE AddAnnouncementHandler
    <2>1. PICK r \in New("Announcement") : CommitQuietly(Insert(rows, {r}))
      BY <1>4 DEF AddAnnouncementHandler
    <2>2. Serves(Insert(rows, {r}), {})
      BY NewServes DEF FileTables
    <2>3. View(Insert(rows, {r})) = View(rows)
      BY NewElsewhere DEF ViewTables
    <2> QED  BY <1>4, <2>1, <2>2, <2>3, QuietlyHandled DEF AddAnnouncementHandler
  <1>5. CASE AnnouncementHandler
    <2>1. PICK r \in Get(rows, "Announcement") : CommitQuietly(AfterDelete(rows, {r}))
      BY <1>5 DEF AnnouncementHandler
    <2>2. Serves(AfterDelete(rows, {r}), {})
      BY DeleteOne
    <2>3. View(AfterDelete(rows, {r})) = View(rows)
      BY <1>0, DeleteElsewhere DEF LeafTables, Get
    <2> QED  BY <1>5, <2>1, <2>2, <2>3, QuietlyHandled DEF AnnouncementHandler
  <1>6. CASE AddAdminHandler
    <2>1. PICK a \in New("Admin") : CommitQuietly(Insert(rows, {a}))
      BY <1>6 DEF AddAdminHandler
    <2>2. Serves(Insert(rows, {a}), {})
      BY NewServes DEF FileTables
    <2>3. View(Insert(rows, {a})) = View(rows)
      BY NewElsewhere DEF ViewTables
    <2> QED  BY <1>6, <2>1, <2>2, <2>3, QuietlyHandled DEF AddAdminHandler
  <1>7. CASE AdminHandlerPost
    <2>1. PICK a \in Get(rows, "Admin"), permission_all \in BOOLEAN :
              CommitQuietly(IF permission_all THEN Replace(rows, a, Edited(a)) ELSE rows)
      BY <1>7 DEF AdminHandlerPost
    <2>2. PICK db : /\ db = IF permission_all THEN Replace(rows, a, Edited(a)) ELSE rows
                    /\ CommitQuietly(db)
      BY <2>1
    <2>3. Serves(Replace(rows, a, Edited(a)), {}) /\ Serves(rows, {})
      BY EditServes DEF Get, Serves
    <2>4. View(Replace(rows, a, Edited(a))) = View(rows)
      <3>1. a \in rows /\ a.table = "Admin" /\ Edited(a).table = a.table
        BY <1>0, RetouchedRow DEF Retouched, Get
      <3> QED  BY <3>1, ReplaceElsewhere DEF ViewTables
    <2>5. Serves(db, {}) /\ View(db) = View(rows)
      BY <2>2, <2>3, <2>4
    <2> QED  BY <1>7, <2>2, <2>5, QuietlyHandled DEF AdminHandlerPost
  <1>8. CASE AdminHandlerDelete
    <2>1. PICK a \in Get(rows, "Admin") : CommitQuietly(AfterDelete(rows, {a}))
      BY <1>8 DEF AdminHandlerDelete
    <2>2. Serves(AfterDelete(rows, {a}), {})
      BY DeleteOne
    <2>3. View(AfterDelete(rows, {a})) = View(rows)
      BY <1>0, DeleteElsewhere DEF LeafTables, Get
    <2> QED  BY <1>8, <2>1, <2>2, <2>3, QuietlyHandled DEF AdminHandlerDelete
  <1>9. CASE SubmissionOfficialStatusHandler
    <2>1. PICK s \in Get(rows, "Submission") : CommitQuietly(Replace(rows, s, Edited(s)))
      BY <1>9 DEF SubmissionOfficialStatusHandler
    <2>2. Serves(Replace(rows, s, Edited(s)), {})
      BY EditServes DEF Get
    <2>3. View(Replace(rows, s, Edited(s))) = View(rows)
      <3>1. s \in rows /\ s.table = "Submission" /\ Edited(s).table = s.table
        BY <1>0, RetouchedRow DEF Retouched, Get
      <3> QED  BY <3>1, ReplaceElsewhere DEF ViewTables
    <2> QED  BY <1>9, <2>1, <2>2, <2>3, QuietlyHandled DEF SubmissionOfficialStatusHandler
  <1> QED
    BY <1>1, <1>2, <1>3, <1>4, <1>5, <1>6, <1>7, <1>8, <1>9
    DEF OtherPages, SubmissionCommentHandler

(* A script that only changes the database.                                *)
PlainScripts == RemoveContestScript \/ RemoveTaskScript \/ RemoveUserScript
                \/ RemoveParticipationScript \/ RemoveSubmissionsForUser
                \/ RemoveSubmissionsForTask \/ RemoveSubmission \/ AddUserScript
                \/ AddTeamScript \/ AddAdminScript \/ AddParticipationScript

LEMMA PlainScriptsHandled ==
    ASSUME GoodDb(rows), PlainScripts
    PROVE  Handled
  <1>1. CASE RemoveContestScript
    BY <1>1, DeleteOne, ScriptHandled DEF RemoveContestScript
  <1>2. CASE RemoveTaskScript
    <2>1. PICK t \in Get(rows, "Task") : Script(WithoutTask(t))
      BY <1>2 DEF RemoveTaskScript
    <2>2. Serves(WithoutTask(t), {})
      BY WithoutTaskGood DEF Serves
    <2> QED  BY <2>1, <2>2, ScriptHandled
  <1>3. CASE RemoveUserScript
    BY <1>3, DeleteOne, ScriptHandled DEF RemoveUserScript
  <1>4. CASE RemoveParticipationScript
    BY <1>4, DeleteOne, ScriptHandled DEF RemoveParticipationScript
  <1>5. CASE RemoveSubmissionsForUser
    <2>1. PICK S : /\ S \subseteq Get(rows, "Submission") /\ Script(AfterDelete(rows, S))
      BY <1>5 DEF RemoveSubmissionsForUser
    <2>2. Serves(AfterDelete(rows, S), {})
      BY <2>1, DeleteOther DEF Get
    <2> QED  BY <2>1, <2>2, ScriptHandled
  <1>6. CASE RemoveSubmissionsForTask
    <2>1. PICK S : /\ S \subseteq Get(rows, "Submission") /\ Script(AfterDelete(rows, S))
      BY <1>6 DEF RemoveSubmissionsForTask
    <2>2. Serves(AfterDelete(rows, S), {})
      BY <2>1, DeleteOther DEF Get
    <2> QED  BY <2>1, <2>2, ScriptHandled
  <1>7. CASE RemoveSubmission
    BY <1>7, DeleteOne, ScriptHandled DEF RemoveSubmission
  <1>8. CASE AddUserScript
    <2>1. PICK u \in New("User") : Script(Insert(rows, {u}))
      BY <1>8 DEF AddUserScript
    <2>2. Serves(Insert(rows, {u}), {})
      BY NewServes DEF FileTables
    <2> QED  BY <2>1, <2>2, ScriptHandled
  <1>9. CASE AddTeamScript
    <2>1. PICK u \in New("Team") : Script(Insert(rows, {u}))
      BY <1>9 DEF AddTeamScript
    <2>2. Serves(Insert(rows, {u}), {})
      BY NewServes DEF FileTables
    <2> QED  BY <2>1, <2>2, ScriptHandled
  <1>10. CASE AddAdminScript
    <2>1. PICK u \in New("Admin") : Script(Insert(rows, {u}))
      BY <1>10 DEF AddAdminScript
    <2>2. Serves(Insert(rows, {u}), {})
      BY NewServes DEF FileTables
    <2> QED  BY <2>1, <2>2, ScriptHandled
  <1>11. CASE AddParticipationScript
    <2>1. PICK u \in New("Participation") : Script(Insert(rows, {u}))
      BY <1>11 DEF AddParticipationScript
    <2>2. Serves(Insert(rows, {u}), {})
      BY NewServes DEF FileTables
    <2> QED  BY <2>1, <2>2, ScriptHandled
  <1> QED
    BY <1>1, <1>2, <1>3, <1>4, <1>5, <1>6, <1>7, <1>8, <1>9, <1>10, <1>11 DEF PlainScripts

(* A script that adds rows with files.                                     *)
FileScripts == AddSubmissionScript \/ AddStatementScript \/ AddTestcasesScript

LEMMA FileScriptsHandled ==
    ASSUME GoodDb(rows), FileScripts
    PROVE  Handled
  <1>1. CASE AddSubmissionScript
    <2>1. PICK s \in New("Submission") :
              Upload({s} \cup {f \in Get(Addable, "File") : f.ref.submission = s.id})
      BY <1>1 DEF AddSubmissionScript
    <2> DEFINE new == {s} \cup {f \in Get(Addable, "File") : f.ref.submission = s.id}
    <2>2. s.table = "Submission" /\ IsRow(s)
      BY NewRow
    <2>3. \A r \in new : IsRow(r) /\ (r = s \/ r \in Get(Addable, "File"))
      BY <2>2, AdminAssumption DEF Get
    <2>3a. \A r \in Get(Addable, "File") : r.table = "File"
      BY DEF Get
    <2> HIDE DEF new
    <2>4. UniqueIds(new)
      BY <2>2, <2>3, <2>3a, AdminAssumption DEF UniqueIds
    <2>5. UploadOk(new)
      BY <2>2, <2>3, <2>3a, <2>4 DEF UploadOk, PlainRows, ViewTables
    <2> QED  BY <2>1, <2>5, UploadHandled DEF new
  <1>2. CASE AddStatementScript
    <2>1. PICK r \in New("Statement"), overwrite \in BOOLEAN :
              /\ Counted
              /\ store' = store \cup r.digests
              /\ rows' = LET old == {q \in Get(rows, "Statement") : q.id = r.id}
                         IN IF overwrite THEN (rows \ old) \cup {r} ELSE Insert(rows, {r})
              /\ UNCHANGED <<uploads, orphans, told, untold, stale, dumped>>
      BY <1>2 DEF AddStatementScript
    <2>2. PICK old : old = {q \in Get(rows, "Statement") : q.id = r.id}
      OBVIOUS
    <2>3. PICK db : db = IF overwrite THEN (rows \ old) \cup {r} ELSE Insert(rows, {r})
      OBVIOUS
    <2>4. rows' = db
      BY <2>1, <2>2, <2>3
    <2>5. Serves(db, r.digests)
      <3>1. Serves((rows \ old) \cup {r}, r.digests)
        BY <2>2, StatementServes
      <3>2. Serves(Insert(rows, {r}), r.digests)
        BY NewServes
      <3> QED  BY <2>3, <3>1, <3>2
    <2>6. View(db) = View(rows)
      <3>1. r.table = "Statement"
        BY NewRow
      <3>2. \A T \in ViewTables : Get((rows \ old) \cup {r}, T) = Get(rows, T)
        BY <2>2, <3>1 DEF Get, ViewTables
      <3>3. View((rows \ old) \cup {r}) = View(rows)
        BY <3>2, SameGets
      <3>4. View(Insert(rows, {r})) = View(rows)
        BY <3>1, InsertElsewhere DEF ViewTables
      <3> QED  BY <2>3, <3>3, <3>4
    <2>7. Informs
      BY <2>1, <2>4, <2>6 DEF Informs
    <2>8. GoodDb(db) /\ FilesOf(db) \subseteq FilesOf(rows) \cup store' /\ store \subseteq store'
          /\ (NumsInOrder(rows) => NumsInOrder(db))
      BY <2>1, <2>5 DEF Serves
    <2>9. stale' \/ (~stale /\ (NumsInOrder(rows) => NumsInOrder(rows')))
      BY <2>1, <2>4, <2>8
    <2> QED  BY <2>1, <2>4, <2>7, <2>8, <2>9 DEF Handled, Counted
  <1>3. CASE AddTestcasesScript
    <2>1. PICK r \in New("Testcase"), overwrite \in BOOLEAN, fails \in BOOLEAN :
              LET db == ImportTestcase(r, overwrite, fails)
              IN /\ Counted
                 /\ rows' = db
                 /\ store' = IF fails THEN store ELSE store \cup r.digests
                 /\ untold' = (untold \/ View(db) # View(rows))
                 /\ UNCHANGED <<uploads, orphans, told, stale, dumped>>
      BY <1>3 DEF AddTestcasesScript
    <2>2. PICK db : db = ImportTestcase(r, overwrite, fails)
      OBVIOUS
    <2>3. /\ Counted /\ rows' = db /\ store' = IF fails THEN store ELSE store \cup r.digests
          /\ untold' = (untold \/ View(db) # View(rows))
          /\ UNCHANGED <<uploads, orphans, told, stale, dumped>>
      BY <2>1, <2>2
    <2>4. Informs
      BY <2>3 DEF Informs
    <2>5. Serves(db, IF fails THEN {} ELSE r.digests)
      BY <2>2, ImportTestcaseServes
    <2>6. GoodDb(db) /\ FilesOf(db) \subseteq FilesOf(rows) \cup store' /\ store \subseteq store'
          /\ (NumsInOrder(rows) => NumsInOrder(db))
      BY <2>3, <2>5 DEF Serves
    <2>8. stale' \/ (~stale /\ (NumsInOrder(rows) => NumsInOrder(rows')))
      BY <2>3, <2>6
    <2> QED  BY <2>3, <2>4, <2>6, <2>8 DEF Handled, Counted
  <1> QED  BY <1>1, <1>2, <1>3 DEF FileScripts

-----------------------------------------------------------------------------
(* The files that cmsCleanFiles keeps.                                     *)

(* A row of table T is in the collection that its owner of table S offers. *)
PartOf(T, c, S) == HasKey(T, c, S, "CASCADE", "NOT_NULL") /\ T \in Tables[S].collections

LEMMA Owners ==
    /\ PartOf("Statement", "task", "Task") /\ PartOf("Attachment", "task", "Task")
    /\ PartOf("Dataset", "task", "Task") /\ PartOf("Submission", "task", "Task")
    /\ PartOf("UserTest", "task", "Task") /\ PartOf("Manager", "dataset", "Dataset")
    /\ PartOf("Testcase", "dataset", "Dataset") /\ PartOf("File", "submission", "Submission")
    /\ PartOf("SubmissionResult", "submission", "Submission")
    /\ PartOf("Executable", "submission_result", "SubmissionResult")
    /\ PartOf("UserTestFile", "user_test", "UserTest")
    /\ PartOf("UserTestManager", "user_test", "UserTest")
    /\ PartOf("UserTestResult", "user_test", "UserTest")
    /\ PartOf("UserTestExecutable", "user_test_result", "UserTestResult")
  <1>1. /\ PartOf("Statement", "task", "Task") /\ PartOf("Attachment", "task", "Task")
        /\ PartOf("Dataset", "task", "Task") /\ PartOf("Submission", "task", "Task")
        /\ PartOf("UserTest", "task", "Task")
    BY TablesAre DEF PartOf, HasKey, Statement, Attachment, Dataset, Submission, UserTest, Task,
       Table, Part
  <1>2. /\ PartOf("Manager", "dataset", "Dataset") /\ PartOf("Testcase", "dataset", "Dataset")
        /\ PartOf("File", "submission", "Submission")
        /\ PartOf("SubmissionResult", "submission", "Submission")
        /\ PartOf("Executable", "submission_result", "SubmissionResult")
    BY TablesAre DEF PartOf, HasKey, Manager, Testcase, Dataset, Submission, File,
       SubmissionResult, Executable, Table, Part
  <1>3. /\ PartOf("UserTestFile", "user_test", "UserTest")
        /\ PartOf("UserTestManager", "user_test", "UserTest")
        /\ PartOf("UserTestResult", "user_test", "UserTest")
        /\ PartOf("UserTestExecutable", "user_test_result", "UserTestResult")
    BY TablesAre DEF PartOf, HasKey, UserTest, UserTestFile, UserTestManager, UserTestResult,
       UserTestExecutable, Table, Part
  <1> QED  BY <1>1, <1>2, <1>3

(* What a row offers in its collections is of a higher level.              *)
LEMMA BelowClosed ==
    ASSUME NEW db, \A r \in db : IsRow(r), NEW start, start \subseteq db
    PROVE  /\ start \subseteq Below(db, start, {})
           /\ \A q \in Below(db, start, {}) : Collected(db, q) \subseteq Below(db, start, {})
  <1> DEFINE leads == [q \in db |-> {r \in Collected(db, q) : r.table \notin {}}]
             level == [q \in db |-> Level[q.table]]
             B == Closure(leads, start)
  <1>1. B = Below(db, start, {})
    BY DEF Below
  <1>2. \A q \in db : leads[q] = Collected(db, q) /\ leads[q] \subseteq db
    BY DEF Collected
  <1>3. Leads(db, leads, start)
    BY <1>2 DEF Leads
  <1>4. \A q \in db : level[q] = Level[q.table] /\ level[q] \in 0 .. 6
    <2> SUFFICES ASSUME NEW q \in db PROVE Level[q.table] \in 0 .. 6
      OBVIOUS
    <2>1. q.table \in TableNames
      BY RowIs
    <2> QED  BY <2>1, TablesAre
  <1>5. \A q \in db : \A r \in leads[q] : level[q] < level[r]
    <2> SUFFICES ASSUME NEW q \in db, NEW r \in leads[q] PROVE Level[q.table] < Level[r.table]
      BY <1>2, <1>4
    <2>1. r.table \in Tables[q.table].collections /\ q.table \in TableNames
      BY <1>2, RowIs DEF Collected
    <2> QED  BY <2>1, KeysFactual
  <1> HIDE DEF leads, level
  <1>6. start \subseteq B /\ B \subseteq db
    BY <1>2, ClosureWithin
  <1>7. \A q \in B : leads[q] \subseteq B
    BY <1>3, <1>4, <1>5, ClosureComplete
  <1> QED  BY <1>1, <1>2, <1>6, <1>7

LEMMA NothingForgotten ==
    ASSUME GoodDb(rows), \A t \in Get(rows, "Task") : t.ref.contest # Null
    PROVE  FilesOf(rows) \subseteq EnumerateFiles(rows, {})
  <1> DEFINE inContest == {t \in Get(rows, "Task") : t.ref.contest # Null}
             B == Below(rows, inContest, {})
             jobs == {p \in Get(rows, "PrintJob") : {} \cap {"print_jobs", "users"} = {}}
  <1>1. (\A r \in rows : IsRow(r)) /\ ReferencesHold(rows)
    BY DEF GoodDb, IsConsistent
  <1>2. Skipped({}) = {}
    BY DEF Skipped
  <1>3. EnumerateFiles(rows, {}) = FilesOf(B) \cup FilesOf(jobs)
    BY <1>2 DEF EnumerateFiles
  <1>4. inContest = Get(rows, "Task") /\ inContest \subseteq rows /\ jobs = Get(rows, "PrintJob")
    BY DEF Get
  <1> HIDE DEF inContest, jobs
  <1>5. Get(rows, "Task") \subseteq B /\ \A q \in B : Collected(rows, q) \subseteq B
    BY <1>1, <1>4, BelowClosed
  <1> HIDE DEF B
  <1>6. ASSUME NEW T, NEW c, NEW S, PartOf(T, c, S), Get(rows, S) \subseteq B
        PROVE  Get(rows, T) \subseteq B
    <2> SUFFICES ASSUME NEW r \in rows, r.table = T PROVE r \in B
      BY DEF Get
    <2> DEFINE k == Key(c, S, "CASCADE", "NOT_NULL")
    <2>1. k \in Keys(r) /\ k.table = S /\ k.ondelete # "SET_NULL" /\ k.null # "NULL"
      BY <1>6, KeyFields DEF PartOf, HasKey, Keys
    <2> HIDE DEF k
    <2>2. PICK q \in rows : Refers(r, k, q)
      BY <1>1, <2>1 DEF ReferencesHold
    <2>3. q.table = S
      BY <2>1, <2>2 DEF Refers
    <2>4. q \in B
      BY <1>6, <2>3 DEF Get
    <2>5. r \in Collected(rows, q)
      BY <1>6, <2>1, <2>2, <2>3 DEF Collected, PartOf
    <2> QED  BY <1>5, <2>4, <2>5
  <1>7. /\ Get(rows, "Statement") \subseteq B /\ Get(rows, "Attachment") \subseteq B
        /\ Get(rows, "Dataset") \subseteq B /\ Get(rows, "Submission") \subseteq B
        /\ Get(rows, "UserTest") \subseteq B
    BY <1>5, <1>6, Owners
  <1>8. /\ Get(rows, "Manager") \subseteq B /\ Get(rows, "Testcase") \subseteq B
        /\ Get(rows, "File") \subseteq B /\ Get(rows, "SubmissionResult") \subseteq B
        /\ Get(rows, "UserTestFile") \subseteq B /\ Get(rows, "UserTestManager") \subseteq B
        /\ Get(rows, "UserTestResult") \subseteq B
    BY <1>6, <1>7, Owners
  <1>9. Get(rows, "Executable") \subseteq B /\ Get(rows, "UserTestExecutable") \subseteq B
    BY <1>6, <1>8, Owners
  <1>10. ASSUME NEW r \in rows, r.digests # {} PROVE r \in B \/ r \in jobs
    <2>1. r.table \in FileTables
      BY <1>1, <1>10, RowIs
    <2>2. r \in Get(rows, r.table)
      BY DEF Get
    <2> QED  BY <1>4, <1>7, <1>8, <1>9, <2>1, <2>2 DEF FileTables
  <1>11. ASSUME NEW f \in FilesOf(rows) PROVE f \in FilesOf(B) \cup FilesOf(jobs)
    <2>1. PICK r \in rows : f \in r.digests
      BY DEF FilesOf
    <2> QED  BY <1>10, <2>1 DEF FilesOf
  <1> QED  BY <1>3, <1>11

-----------------------------------------------------------------------------
(* The theorems.                                                           *)

(* The database is as it should be until a dump replaces it, and what it   *)
(* promises holds then too.                                                *)
AdminInv ==
    /\ dumped = <<>> => GoodDb(rows)
    /\ \A new \in uploads : UploadOk(new)
    /\ TaskNumsInOrder /\ RankingInformed /\ RemovalsAllowed
    /\ EvaluationsOfDataset /\ ReferencesKept

(* All files referred to, now or once an upload is finished, are stored,   *)
(* and a running cmsCleanFiles is about to delete none of them.            *)
FilesInv ==
    \/ dumped # <<>>
    \/ /\ FilesOf(rows) \subseteq store
       /\ \A new \in uploads : FilesOf(new) \subseteq store
       /\ orphans # Null => uploads = {} /\ orphans \cap FilesOf(rows) = {}

LEMMA GoodPromises ==
    ASSUME NEW db, GoodDb(db)
    PROVE  RemovalsOf(db) /\ EvaluationsFit(db) /\ ReferencesHold(db)
  BY ConsistentOwn DEF GoodDb, IsConsistent

LEMMA AdminStart == AdminInit => AdminInv /\ FilesInv
  <1> SUFFICES ASSUME AdminInit PROVE AdminInv /\ FilesInv
    OBVIOUS
  <1>1. IsConsistent(rows) /\ NumsGiven(rows) /\ NumsDiffer(rows) /\ NumsInOrder(rows)
    BY AdminAssumption DEF AdminInit
  <1>2. GoodDb(rows)
    BY <1>1 DEF GoodDb
  <1>3. RemovalsAllowed /\ EvaluationsOfDataset /\ ReferencesKept
    BY <1>2, GoodPromises
    DEF RemovalsAllowed, RemovalsOf, EvaluationsOfDataset, ReferencesKept
  <1>4. uploads = {} /\ told = View(rows) /\ store = FilesOf(rows) /\ orphans = Null
    BY DEF AdminInit
  <1>5. AdminInv
    BY <1>1, <1>2, <1>3, <1>4 DEF AdminInv, TaskNumsInOrder, RankingInformed
  <1>6. FilesInv
    BY <1>4 DEF FilesInv
  <1> QED  BY <1>5, <1>6

(* What the rankings show stays as ProxyService was told.                  *)
LEMMA InformedStep ==
    ASSUME GoodDb(rows), GoodDb(rows'), dumped = <<>>, RankingInformed, Informs
    PROVE  RankingInformed'
  <1>1. CASE untold' \/ ~Viewable(rows') \/ told' = View(rows')
    BY <1>1 DEF RankingInformed
  <1>2. CASE told' = told /\ View(rows') = View(rows) /\ (untold => untold')
    <2>1. Viewable(rows') <=> Viewable(rows)
      BY <1>2, ViewableSame DEF GoodDb
    <2> QED  BY <1>2, <2>1 DEF RankingInformed
  <1> QED  BY <1>1, <1>2 DEF Informs

LEMMA SoundStepTaken ==
    ASSUME AdminInv, dumped = <<>>, dumped' = <<>>, GoodDb(rows'), Informs,
           stale' \/ (~stale /\ (NumsInOrder(rows) => NumsInOrder(rows'))),
           \A new \in uploads' : new \in uploads \/ UploadOk(new)
    PROVE  AdminInv'
  <1>1. GoodDb(rows)
    BY DEF AdminInv
  <1>2. RankingInformed'
    BY <1>1, InformedStep DEF AdminInv
  <1>3. TaskNumsInOrder'
    BY DEF AdminInv, TaskNumsInOrder
  <1>4. RemovalsOf(rows') /\ EvaluationsFit(rows') /\ ReferencesHold(rows')
    BY GoodPromises
  <1>5. RemovalsAllowed' /\ EvaluationsOfDataset' /\ ReferencesKept'
    BY <1>4 DEF RemovalsAllowed, RemovalsOf, EvaluationsOfDataset, ReferencesKept
  <1>6. \A new \in uploads' : UploadOk(new)
    BY DEF AdminInv
  <1> QED  BY <1>2, <1>3, <1>5, <1>6 DEF AdminInv

LEMMA StepsHandled ==
    ASSUME GoodDb(rows), AdminNext, ~FinishUpload, ~CleanFilesStart, ~CleanFilesEnd,
           ~ExportAndImport
    PROVE  Handled
  <1>1. CASE Scripts
    <2>1. PlainScripts \/ FileScripts
      BY <1>1 DEF Scripts, PlainScripts, FileScripts
    <2> QED  BY <2>1, PlainScriptsHandled, FileScriptsHandled
  <1> QED
    BY <1>1, ContestPagesHandled, TaskPagesHandled, DatasetPagesHandled, UserPagesHandled,
       OtherPagesHandled DEF AdminNext

(* After a dump nothing more is asked for.                                 *)
LEMMA OnlyBeforeDump ==
    ASSUME AdminNext
    PROVE  dumped = <<>> \/ CleanFilesEnd
  BY DEF AdminNext, ContestPages, TaskPages, DatasetPages, UserPages, OtherPages, Scripts,
     AddContestHandler, ContestHandler, RemoveContestHandler, ContestTasksHandler,
     AddContestTaskHandler, AddTaskHandler, TaskHandler, AddStatementHandler,
     AddAttachmentHandler, FinishUpload, StatementHandler, AttachmentHandler, AddDatasetHandler,
     RemoveTaskHandler, CloneDatasetHandler, DeleteDatasetHandler, ActivateDatasetHandler,
     ToggleAutojudgeDatasetHandler, AddManagerHandler, DeleteManagerHandler, AddTestcaseHandler,
     AddTestcasesHandler, DeleteTestcaseHandler, UserHandler, RemoveUserHandler, TeamHandler,
     AddTeamHandler, AddUserHandler, AddParticipationHandler, AddContestUserHandler,
     RemoveParticipationHandler, EditParticipationHandler, ParticipationHandler, MessageHandler,
     QuestionReplyHandler, QuestionIgnoreHandler, QuestionClaimHandler, AddAnnouncementHandler,
     AnnouncementHandler, AddAdminHandler, AdminHandlerPost, AdminHandlerDelete,
     SubmissionOfficialStatusHandler, SubmissionCommentHandler, RemoveContestScript,
     RemoveTaskScript, RemoveUserScript, RemoveParticipationScript, RemoveSubmissionsForUser,
     RemoveSubmissionsForTask, RemoveSubmission, AddUserScript, AddTeamScript, AddAdminScript,
     AddParticipationScript, AddSubmissionScript, AddStatementScript, AddTestcasesScript,
     CleanFilesStart, ExportAndImport, Commit, CommitQuietly, Script, Upload, Counted

LEMMA DumpStep ==
    ASSUME AdminInv, ExportAndImport
    PROVE  AdminInv' /\ dumped' # <<>>
  <1>1. dumped = <<>> /\ GoodDb(rows) /\ UNCHANGED <<uploads, orphans, told, untold, stale>>
    BY DEF ExportAndImport, Counted, AdminInv
  <1>2. PICK skip \in DumpChoices, dropped \in DumpChoices :
            /\ rows' = IF ReferencesHold(Imported(skip, dropped)) THEN Imported(skip, dropped)
                       ELSE {}
            /\ dumped' = <<rows, skip \cup dropped>>
    BY DEF ExportAndImport, Imported, Importable, DumpChoices
  <1>3. dumped' # <<>>
    BY <1>2
  <1>4. PICK new : new = Imported(skip, dropped)
    OBVIOUS
  <1>5. CASE ReferencesHold(new)
    <2>1. rows' = new
      BY <1>2, <1>4, <1>5
    <2>2. /\ EvaluationsFit(new) /\ RemovalsOf(new) /\ ReferencesHold(new)
          /\ NumsInOrder(rows) => NumsInOrder(new)
      BY <1>1, <1>4, <1>5, ImportedEvaluations, ImportedRemovals, ImportedInOrder
    <2>3. RemovalsAllowed' /\ EvaluationsOfDataset' /\ ReferencesKept'
      BY <2>1, <2>2 DEF RemovalsAllowed, RemovalsOf, EvaluationsOfDataset, ReferencesKept
    <2>4. TaskNumsInOrder' /\ RankingInformed'
      BY <1>1, <1>3, <2>1, <2>2 DEF TaskNumsInOrder, RankingInformed, AdminInv
    <2> QED  BY <1>1, <1>3, <2>3, <2>4 DEF AdminInv
  <1>6. CASE ~ReferencesHold(new)
    <2>1. rows' = {}
      BY <1>2, <1>4, <1>6
    <2>2. RemovalsAllowed' /\ EvaluationsOfDataset' /\ ReferencesKept'
      BY <2>1
      DEF RemovalsAllowed, EvaluationsOfDataset, EvaluationsFit, ReferencesKept, ReferencesHold, Get
    <2>3. TaskNumsInOrder' /\ RankingInformed'
      BY <1>3, <2>1 DEF TaskNumsInOrder, RankingInformed, NumsInOrder, Get
    <2> QED  BY <1>1, <1>3, <2>2, <2>3 DEF AdminInv
  <1> QED  BY <1>3, <1>5, <1>6

LEMMA AdminStep ==
    ASSUME AdminInv, [AdminNext]_adminVars
    PROVE  AdminInv'
  <1>1. CASE UNCHANGED adminVars
    BY <1>1 DEF adminVars, AdminInv, TaskNumsInOrder, RankingInformed, RemovalsAllowed,
       EvaluationsOfDataset, ReferencesKept
  <1>2. CASE CleanFilesEnd \/ CleanFilesStart
    <2>1. UNCHANGED <<rows, uploads, told, untold, stale, dumped>>
      BY <1>2 DEF CleanFilesStart, CleanFilesEnd
    <2> QED  BY <2>1 DEF AdminInv, TaskNumsInOrder, RankingInformed, RemovalsAllowed,
       EvaluationsOfDataset, ReferencesKept
  <1>3. CASE ExportAndImport
    BY <1>3, DumpStep
  <1>4. CASE FinishUpload
    <2>1. dumped = <<>> /\ GoodDb(rows) /\ \A new \in uploads : UploadOk(new)
      BY <1>4 DEF FinishUpload, AdminInv
    <2>2. /\ dumped' = <<>> /\ GoodDb(rows') /\ Informs /\ uploads' \subseteq uploads
          /\ stale' \/ (~stale /\ (NumsInOrder(rows) => NumsInOrder(rows')))
      BY <1>4, <2>1, FinishKeeps
    <2> QED  BY <2>1, <2>2, SoundStepTaken
  <1>5. CASE AdminNext /\ ~FinishUpload /\ ~CleanFilesStart /\ ~CleanFilesEnd /\ ~ExportAndImport
    <2>1. dumped = <<>> /\ GoodDb(rows)
      BY <1>5, OnlyBeforeDump DEF AdminInv
    <2>2. Handled
      BY <1>5, <2>1, StepsHandled
    <2> QED  BY <2>1, <2>2, SoundStepTaken DEF Handled
  <1> QED  BY <1>1, <1>2, <1>3, <1>4, <1>5

LEMMA ActiveStep ==
    ASSUME AdminInv'
    PROVE  dumped' = <<>> =>
             \A t \in Get(rows, "Task"), u \in Get(rows', "Task") :
                 t.id = u.id /\ t.ref.active_dataset # Null => u.ref.active_dataset # Null
  <1> SUFFICES ASSUME dumped' = <<>>, NEW u \in Get(rows', "Task")
               PROVE  u.ref.active_dataset # Null
    OBVIOUS
  <1>1. GoodDb(rows')
    BY DEF AdminInv
  <1>2. ActiveDatasets(rows')
    BY <1>1 DEF GoodDb, IsConsistent
  <1> QED  BY <1>2 DEF ActiveDatasets

(* Whatever pages and scripts are used, in whatever order and from however  *)
(* outdated pages: the tasks of a contest stay numbered from zero unless an *)
(* outdated page moved one, the rankings were told of what they show,       *)
(* nothing but a team or an active dataset is held back from removal, no    *)
(* row refers to one that is gone, and no task loses its active dataset.    *)
THEOREM DatabaseStaysSound == AdminSpec => DatabaseSound
  <1>1. AdminInit => AdminInv
    BY AdminStart
  <1>2. AdminInv /\ [AdminNext]_adminVars => AdminInv'
    BY AdminStep
  <1>3. AdminInv => /\ TaskNumsInOrder /\ RankingInformed /\ RemovalsAllowed
                    /\ EvaluationsOfDataset /\ ReferencesKept
    BY DEF AdminInv
  <1>4. AdminInv /\ AdminInv' /\ [AdminNext]_adminVars =>
            [dumped' = <<>> =>
               \A t \in Get(rows, "Task"), u \in Get(rows', "Task") :
                   t.id = u.id /\ t.ref.active_dataset # Null
                   => u.ref.active_dataset # Null]_adminVars
    BY ActiveStep
  <1> QED  BY <1>1, <1>2, <1>3, <1>4, PTL DEF AdminSpec, DatabaseSound, ActiveDatasetKept

LEMMA FilesStep ==
    ASSUME Careful, AdminInv, FilesInv, [AdminNext]_adminVars
    PROVE  FilesInv'
  <1>1. CASE UNCHANGED adminVars
    BY <1>1 DEF adminVars, FilesInv
  <1>2. CASE CleanFilesStart
    <2>1. /\ uploads = {} /\ (\A t \in Get(rows, "Task") : t.ref.contest # Null)
          /\ dumped = <<>> /\ orphans' = store \ EnumerateFiles(rows, {})
          /\ UNCHANGED <<rows, store, uploads, dumped>>
      BY <1>2 DEF CleanFilesStart, SafeToClean, Counted
    <2>2. FilesOf(rows) \subseteq EnumerateFiles(rows, {})
      BY <2>1, NothingForgotten DEF AdminInv
    <2> QED  BY <2>1, <2>2 DEF FilesInv
  <1>3. CASE CleanFilesEnd
    <2>1. /\ orphans # Null /\ store' = store \ orphans /\ orphans' = Null
          /\ UNCHANGED <<rows, uploads, dumped>>
      BY <1>3 DEF CleanFilesEnd
    <2> QED  BY <2>1 DEF FilesInv
  <1>4. CASE ExportAndImport
    BY <1>4, DumpStep DEF FilesInv
  <1>5. CASE FinishUpload
    <2>1. dumped = <<>> /\ GoodDb(rows) /\ \A new \in uploads : UploadOk(new)
      BY <1>5 DEF FinishUpload, AdminInv
    <2>2. /\ uploads' \subseteq uploads /\ uploads # {} /\ store' = store /\ orphans' = orphans
          /\ \E new \in uploads : FilesOf(rows') \subseteq FilesOf(rows) \cup FilesOf(new)
      BY <1>5, <2>1, FinishKeeps
    <2>3. /\ FilesOf(rows) \subseteq store /\ (\A new \in uploads : FilesOf(new) \subseteq store)
          /\ orphans = Null
      BY <2>1, <2>2 DEF FilesInv
    <2>4. FilesOf(rows') \subseteq store /\ \A new \in uploads' : FilesOf(new) \subseteq store
      BY <2>2, <2>3
    <2> QED  BY <2>2, <2>3, <2>4 DEF FilesInv
  <1>6. CASE AdminNext /\ ~FinishUpload /\ ~CleanFilesStart /\ ~CleanFilesEnd /\ ~ExportAndImport
    <2>1. dumped = <<>> /\ GoodDb(rows)
      BY <1>6, OnlyBeforeDump DEF AdminInv
    <2>2. Handled
      BY <1>6, <2>1, StepsHandled
    <2>3. /\ store \subseteq store' /\ FilesOf(rows') \subseteq FilesOf(rows) \cup store'
          /\ \A new \in uploads' : new \in uploads \/ FilesOf(new) \subseteq store'
          /\ orphans' = Null
      BY <2>2 DEF Handled
    <2>4. FilesOf(rows) \subseteq store /\ \A new \in uploads : FilesOf(new) \subseteq store
      BY <2>1 DEF FilesInv
    <2>5. FilesOf(rows') \subseteq store' /\ \A new \in uploads' : FilesOf(new) \subseteq store'
      BY <2>3, <2>4
    <2> QED  BY <2>3, <2>5 DEF FilesInv
  <1> QED  BY <1>1, <1>2, <1>3, <1>4, <1>5, <1>6

(* As long as cmsCleanFiles runs alone, after the uploads and with every    *)
(* task in a contest, it never deletes a file that a row refers to.         *)
THEOREM FilesStayStored == ASSUME Careful PROVE AdminSpec => []FilesStored
  <1>1. AdminInit => AdminInv /\ FilesInv
    BY AdminStart
  <1>2. AdminInv /\ FilesInv /\ [AdminNext]_adminVars => AdminInv' /\ FilesInv'
    BY AdminStep, FilesStep
  <1>3. FilesInv => FilesStored
    BY DEF FilesInv, FilesStored
  <1> QED  BY <1>1, <1>2, <1>3, PTL DEF AdminSpec

-----------------------------------------------------------------------------
(* Dumps. The options that leave out the rows of each table, in the dump or *)
(* as parts of what is dropped.                                            *)

OptionNames == {"submissions", "user_tests", "users", "print_jobs", "generated"}

LeftOut ==
    [Admin |-> {},
     Contest |-> {},
     Announcement |-> {"users"},
     User |-> {"users"},
     Team |-> {},
     Participation |-> {"users"},
     Message |-> {"users"},
     Question |-> {"users"},
     PrintJob |-> {"users", "print_jobs"},
     Task |-> {},
     Statement |-> {},
     Attachment |-> {},
     Dataset |-> {},
     Manager |-> {},
     Testcase |-> {},
     Submission |-> {"users", "submissions"},
     File |-> {"users", "submissions"},
     Token |-> {"users", "submissions"},
     SubmissionResult |-> {"users", "submissions", "generated"},
     Executable |-> {"users", "submissions", "generated"},
     Evaluation |-> {"users", "submissions", "generated"},
     UserTest |-> {"users", "user_tests"},
     UserTestFile |-> {"users", "user_tests"},
     UserTestManager |-> {"users", "user_tests"},
     UserTestResult |-> {"users", "user_tests", "generated"},
     UserTestExecutable |-> {"users", "user_tests", "generated"},
     Batch |-> {},
     Match |-> {"users", "submissions"},
     MatchResult |-> {"users", "submissions"},
     Matching |-> {"users", "submissions"}]

Lost == {"Batch", "Match", "MatchResult", "Matching"}

DroppedBy(option) == SkippedBy(option) \cup (IF option = "users" THEN {"User"} ELSE {})

LEMMA SkippedAre ==
    /\ SkippedBy("submissions") = {"Submission"} /\ SkippedBy("user_tests") = {"UserTest"}
    /\ SkippedBy("users") = {"Participation", "Submission", "UserTest", "Announcement"}
    /\ SkippedBy("print_jobs") = {"PrintJob"}
    /\ SkippedBy("generated") = {"SubmissionResult", "UserTestResult"}
  BY DEF SkippedBy

LEMMA DroppedAre ==
    /\ DroppedBy("submissions") = {"Submission"} /\ DroppedBy("user_tests") = {"UserTest"}
    /\ DroppedBy("users") = {"Participation", "Submission", "UserTest", "Announcement", "User"}
    /\ DroppedBy("print_jobs") = {"PrintJob"}
    /\ DroppedBy("generated") = {"SubmissionResult", "UserTestResult"}
  BY SkippedAre DEF DroppedBy

LEMMA LeftOutAre ==
    /\ LeftOut["Admin"] = {}
    /\ LeftOut["Contest"] = {}
    /\ LeftOut["Announcement"] = {"users"}
    /\ LeftOut["User"] = {"users"}
    /\ LeftOut["Team"] = {}
    /\ LeftOut["Participation"] = {"users"}
    /\ LeftOut["Message"] = {"users"}
    /\ LeftOut["Question"] = {"users"}
    /\ LeftOut["PrintJob"] = {"users", "print_jobs"}
    /\ LeftOut["Task"] = {}
    /\ LeftOut["Statement"] = {}
    /\ LeftOut["Attachment"] = {}
    /\ LeftOut["Dataset"] = {}
    /\ LeftOut["Manager"] = {}
    /\ LeftOut["Testcase"] = {}
    /\ LeftOut["Submission"] = {"users", "submissions"}
    /\ LeftOut["File"] = {"users", "submissions"}
    /\ LeftOut["Token"] = {"users", "submissions"}
    /\ LeftOut["SubmissionResult"] = {"users", "submissions", "generated"}
    /\ LeftOut["Executable"] = {"users", "submissions", "generated"}
    /\ LeftOut["Evaluation"] = {"users", "submissions", "generated"}
    /\ LeftOut["UserTest"] = {"users", "user_tests"}
    /\ LeftOut["UserTestFile"] = {"users", "user_tests"}
    /\ LeftOut["UserTestManager"] = {"users", "user_tests"}
    /\ LeftOut["UserTestResult"] = {"users", "user_tests", "generated"}
    /\ LeftOut["UserTestExecutable"] = {"users", "user_tests", "generated"}
    /\ LeftOut["Batch"] = {}
    /\ LeftOut["Match"] = {"users", "submissions"}
    /\ LeftOut["MatchResult"] = {"users", "submissions"}
    /\ LeftOut["Matching"] = {"users", "submissions"}
  BY DEF LeftOut

(* An option that leaves out rows leaves out those that refer to them, and *)
(* an export that skips a table meets nothing of what would go with it.    *)
DumpFact(T) ==
    /\ \A k \in Tables[T].keys : /\ LeftOut[k.table] \subseteq LeftOut[T]
                                 /\ T \notin Lost => k.table \notin Lost
                                 /\ k.table = "Team" => T = "Participation"
                                 /\ k.table = "Admin" =>
                                       T \in {"Announcement", "Message", "Question"}
    /\ T \notin Lost =>
          \A S \in Tables[T].collections :
              /\ S \notin Lost /\ S # "Admin" /\ S # "Team"
              /\ \A o \in LeftOut[S] : o \in LeftOut[T] \/ S \in SkippedBy(o)
    /\ LeftOut[T] \subseteq OptionNames
    /\ \A o \in OptionNames : T \in DroppedBy(o) => o \in LeftOut[T]

LEMMA DumpTables ==
    ASSUME NEW T \in TableNames
    PROVE  DumpFact(T)
  <1>1. CASE T = "Admin"
    BY <1>1, TablesAre, LeftOutAre, SkippedAre, DroppedAre
    DEF DumpFact, Admin, Table, Part, Key, Lost, OptionNames
  <1>2. CASE T = "Contest"
    BY <1>2, TablesAre, LeftOutAre, SkippedAre, DroppedAre
    DEF DumpFact, Contest, Table, Part, Key, Lost, OptionNames
  <1>3. CASE T = "Announcement"
    BY <1>3, TablesAre, LeftOutAre, SkippedAre, DroppedAre
    DEF DumpFact, Announcement, Table, Part, Key, Lost, OptionNames
  <1>4. CASE T = "User"
    BY <1>4, TablesAre, LeftOutAre, SkippedAre, DroppedAre
    DEF DumpFact, User, Table, Part, Key, Lost, OptionNames
  <1>5. CASE T = "Team"
    BY <1>5, TablesAre, LeftOutAre, SkippedAre, DroppedAre
    DEF DumpFact, Team, Table, Part, Key, Lost, OptionNames
  <1>6. CASE T = "Participation"
    BY <1>6, TablesAre, LeftOutAre, SkippedAre, DroppedAre
    DEF DumpFact, Participation, Table, Part, Key, Lost, OptionNames
  <1>7. CASE T = "Message"
    BY <1>7, TablesAre, LeftOutAre, SkippedAre, DroppedAre
    DEF DumpFact, Message, Table, Part, Key, Lost, OptionNames
  <1>8. CASE T = "Question"
    BY <1>8, TablesAre, LeftOutAre, SkippedAre, DroppedAre
    DEF DumpFact, Question, Table, Part, Key, Lost, OptionNames
  <1>9. CASE T = "PrintJob"
    BY <1>9, TablesAre, LeftOutAre, SkippedAre, DroppedAre
    DEF DumpFact, PrintJob, Table, Part, Key, Lost, OptionNames
  <1>10. CASE T = "Task"
    BY <1>10, TablesAre, LeftOutAre, SkippedAre, DroppedAre
    DEF DumpFact, Task, Table, Part, Key, Lost, OptionNames
  <1>11. CASE T = "Statement"
    BY <1>11, TablesAre, LeftOutAre, SkippedAre, DroppedAre
    DEF DumpFact, Statement, Table, Part, Key, Lost, OptionNames
  <1>12. CASE T = "Attachment"
    BY <1>12, TablesAre, LeftOutAre, SkippedAre, DroppedAre
    DEF DumpFact, Attachment, Table, Part, Key, Lost, OptionNames
  <1>13. CASE T = "Dataset"
    BY <1>13, TablesAre, LeftOutAre, SkippedAre, DroppedAre
    DEF DumpFact, Dataset, Table, Part, Key, Lost, OptionNames
  <1>14. CASE T = "Manager"
    BY <1>14, TablesAre, LeftOutAre, SkippedAre, DroppedAre
    DEF DumpFact, Manager, Table, Part, Key, Lost, OptionNames
  <1>15. CASE T = "Testcase"
    BY <1>15, TablesAre, LeftOutAre, SkippedAre, DroppedAre
    DEF DumpFact, Testcase, Table, Part, Key, Lost, OptionNames
  <1>16. CASE T = "Submission"
    BY <1>16, TablesAre, LeftOutAre, SkippedAre, DroppedAre
    DEF DumpFact, Submission, Table, Part, Key, Lost, OptionNames
  <1>17. CASE T = "File"
    BY <1>17, TablesAre, LeftOutAre, SkippedAre, DroppedAre
    DEF DumpFact, File, Table, Part, Key, Lost, OptionNames
  <1>18. CASE T = "Token"
    BY <1>18, TablesAre, LeftOutAre, SkippedAre, DroppedAre
    DEF DumpFact, Token, Table, Part, Key, Lost, OptionNames
  <1>19. CASE T = "SubmissionResult"
    BY <1>19, TablesAre, LeftOutAre, SkippedAre, DroppedAre
    DEF DumpFact, SubmissionResult, Table, Part, Key, Lost, OptionNames
  <1>20. CASE T = "Executable"
    BY <1>20, TablesAre, LeftOutAre, SkippedAre, DroppedAre
    DEF DumpFact, Executable, Table, Part, Key, Lost, OptionNames
  <1>21. CASE T = "Evaluation"
    BY <1>21, TablesAre, LeftOutAre, SkippedAre, DroppedAre
    DEF DumpFact, Evaluation, Table, Part, Key, Lost, OptionNames
  <1>22. CASE T = "UserTest"
    BY <1>22, TablesAre, LeftOutAre, SkippedAre, DroppedAre
    DEF DumpFact, UserTest, Table, Part, Key, Lost, OptionNames
  <1>23. CASE T = "UserTestFile"
    BY <1>23, TablesAre, LeftOutAre, SkippedAre, DroppedAre
    DEF DumpFact, UserTestFile, Table, Part, Key, Lost, OptionNames
  <1>24. CASE T = "UserTestManager"
    BY <1>24, TablesAre, LeftOutAre, SkippedAre, DroppedAre
    DEF DumpFact, UserTestManager, Table, Part, Key, Lost, OptionNames
  <1>25. CASE T = "UserTestResult"
    BY <1>25, TablesAre, LeftOutAre, SkippedAre, DroppedAre
    DEF DumpFact, UserTestResult, Table, Part, Key, Lost, OptionNames
  <1>26. CASE T = "UserTestExecutable"
    BY <1>26, TablesAre, LeftOutAre, SkippedAre, DroppedAre
    DEF DumpFact, UserTestExecutable, Table, Part, Key, Lost, OptionNames
  <1>27. CASE T = "Batch"
    BY <1>27, TablesAre, LeftOutAre, SkippedAre, DroppedAre
    DEF DumpFact, Batch, Table, Part, Key, Lost, OptionNames
  <1>28. CASE T = "Match"
    BY <1>28, TablesAre, LeftOutAre, SkippedAre, DroppedAre
    DEF DumpFact, Match, Table, Part, Key, Lost, OptionNames
  <1>29. CASE T = "MatchResult"
    BY <1>29, TablesAre, LeftOutAre, SkippedAre, DroppedAre
    DEF DumpFact, MatchResult, Table, Part, Key, Lost, OptionNames
  <1>30. CASE T = "Matching"
    BY <1>30, TablesAre, LeftOutAre, SkippedAre, DroppedAre
    DEF DumpFact, Matching, Table, Part, Key, Lost, OptionNames
  <1> QED
    BY <1>1, <1>2, <1>3, <1>4, <1>5, <1>6, <1>7, <1>8, <1>9, <1>10, <1>11, <1>12, <1>13, <1>14,
       <1>15, <1>16, <1>17, <1>18, <1>19, <1>20, <1>21, <1>22, <1>23, <1>24, <1>25, <1>26,
       <1>27, <1>28, <1>29, <1>30 DEF TableNames

(* All that an option leaves out is dropped by itself or with what it      *)
(* belongs to.                                                             *)
GoesWith(T, S) ==
    /\ \E c : HasKey(T, c, S, "CASCADE", "NOT_NULL")
    /\ \A o \in LeftOut[T] : T \in DroppedBy(o) \/ o \in LeftOut[S]

LEMMA BelongTogether ==
    ASSUME NEW T \in TableNames
    PROVE  (\A o \in LeftOut[T] : T \in DroppedBy(o)) \/ \E S : GoesWith(T, S)
  <1>1. GoesWith("Message", "Participation")
    <2>1. HasKey("Message", "participation", "Participation", "CASCADE", "NOT_NULL")
      BY TablesAre DEF HasKey, Message, Table, Part
    <2> QED  BY <2>1, LeftOutAre, DroppedAre DEF GoesWith
  <1>2. GoesWith("Question", "Participation")
    <2>1. HasKey("Question", "participation", "Participation", "CASCADE", "NOT_NULL")
      BY TablesAre DEF HasKey, Question, Table, Part
    <2> QED  BY <2>1, LeftOutAre, DroppedAre DEF GoesWith
  <1>3. GoesWith("PrintJob", "Participation")
    <2>1. HasKey("PrintJob", "participation", "Participation", "CASCADE", "NOT_NULL")
      BY TablesAre DEF HasKey, PrintJob, Table, Part
    <2> QED  BY <2>1, LeftOutAre, DroppedAre DEF GoesWith
  <1>4. GoesWith("File", "Submission")
    <2>1. HasKey("File", "submission", "Submission", "CASCADE", "NOT_NULL")
      BY TablesAre DEF HasKey, File, Table, Part
    <2> QED  BY <2>1, LeftOutAre, DroppedAre DEF GoesWith
  <1>5. GoesWith("Token", "Submission")
    <2>1. HasKey("Token", "submission", "Submission", "CASCADE", "NOT_NULL")
      BY TablesAre DEF HasKey, Token, Table, Part
    <2> QED  BY <2>1, LeftOutAre, DroppedAre DEF GoesWith
  <1>6. GoesWith("SubmissionResult", "Submission")
    <2>1. HasKey("SubmissionResult", "submission", "Submission", "CASCADE", "NOT_NULL")
      BY TablesAre DEF HasKey, SubmissionResult, Table, Part
    <2> QED  BY <2>1, LeftOutAre, DroppedAre DEF GoesWith
  <1>7. GoesWith("Executable", "SubmissionResult")
    <2>1. HasKey("Executable", "submission_result", "SubmissionResult", "CASCADE", "NOT_NULL")
      BY TablesAre DEF HasKey, Executable, Table, Part
    <2> QED  BY <2>1, LeftOutAre, DroppedAre DEF GoesWith
  <1>8. GoesWith("Evaluation", "SubmissionResult")
    <2>1. HasKey("Evaluation", "submission_result", "SubmissionResult", "CASCADE", "NOT_NULL")
      BY TablesAre DEF HasKey, Evaluation, Table, Part
    <2> QED  BY <2>1, LeftOutAre, DroppedAre DEF GoesWith
  <1>9. GoesWith("UserTestFile", "UserTest")
    <2>1. HasKey("UserTestFile", "user_test", "UserTest", "CASCADE", "NOT_NULL")
      BY TablesAre DEF HasKey, UserTestFile, Table, Part
    <2> QED  BY <2>1, LeftOutAre, DroppedAre DEF GoesWith
  <1>10. GoesWith("UserTestManager", "UserTest")
    <2>1. HasKey("UserTestManager", "user_test", "UserTest", "CASCADE", "NOT_NULL")
      BY TablesAre DEF HasKey, UserTestManager, Table, Part
    <2> QED  BY <2>1, LeftOutAre, DroppedAre DEF GoesWith
  <1>11. GoesWith("UserTestResult", "UserTest")
    <2>1. HasKey("UserTestResult", "user_test", "UserTest", "CASCADE", "NOT_NULL")
      BY TablesAre DEF HasKey, UserTestResult, Table, Part
    <2> QED  BY <2>1, LeftOutAre, DroppedAre DEF GoesWith
  <1>12. GoesWith("UserTestExecutable", "UserTestResult")
    <2>1. HasKey("UserTestExecutable", "user_test_result", "UserTestResult", "CASCADE", "NOT_NULL")
      BY TablesAre DEF HasKey, UserTestExecutable, Table, Part
    <2> QED  BY <2>1, LeftOutAre, DroppedAre DEF GoesWith
  <1>13. GoesWith("Match", "Submission")
    <2>1. HasKey("Match", "submission1", "Submission", "CASCADE", "NOT_NULL")
      BY TablesAre DEF HasKey, Match, Table, Part
    <2> QED  BY <2>1, LeftOutAre, DroppedAre DEF GoesWith
  <1>14. GoesWith("MatchResult", "Match")
    <2>1. HasKey("MatchResult", "match", "Match", "CASCADE", "NOT_NULL")
      BY TablesAre DEF HasKey, MatchResult, Table, Part
    <2> QED  BY <2>1, LeftOutAre, DroppedAre DEF GoesWith
  <1>15. GoesWith("Matching", "Match")
    <2>1. HasKey("Matching", "match", "Match", "CASCADE", "NOT_NULL")
      BY TablesAre DEF HasKey, Matching, Table, Part
    <2> QED  BY <2>1, LeftOutAre, DroppedAre DEF GoesWith
  <1>16. CASE T \in {"Admin", "Contest", "Announcement", "User", "Team", "Participation", "Task",
                    "Statement", "Attachment", "Dataset", "Manager", "Testcase", "Submission",
                    "UserTest", "Batch"}
    BY <1>16, LeftOutAre, DroppedAre
  <1> QED
    BY <1>1, <1>2, <1>3, <1>4, <1>5, <1>6, <1>7, <1>8,
       <1>9, <1>10, <1>11, <1>12, <1>13, <1>14, <1>15, <1>16 DEF TableNames

(* What is reached by steps that each lead one level up is in the closure. *)
LEMMA ClosureFar ==
    ASSUME NEW leads, NEW start, NEW W, NEW level, \A r \in W : level[r] \in 0 .. 6,
           \A r \in W : r \in start \/ \E q \in W : level[q] < level[r] /\ r \in leads[q]
    PROVE  W \subseteq Closure(leads, start)
  <1>1. PICK f : /\ f[0] = start
                 /\ \A n \in 0 .. 6 : f[n + 1] = Grown(leads, f[n])
                 /\ Closure(leads, start) = f[7]
    BY ClosureLoop
  <1> DEFINE T == {n \in Nat : n \in 0 .. 7 => \A r \in W : level[r] <= n => r \in f[n]}
  <1>2. 0 \in T
    <2> SUFFICES ASSUME NEW r \in W, level[r] <= 0 PROVE r \in start
      BY <1>1
    <2>1. \A q \in W : ~(level[q] < level[r])
      OBVIOUS
    <2> QED  BY <2>1
  <1>3. ASSUME NEW n \in Nat, n \in T PROVE n + 1 \in T
    <2> SUFFICES ASSUME n + 1 \in 0 .. 7, NEW r \in W, level[r] <= n + 1 PROVE r \in f[n + 1]
      OBVIOUS
    <2>1. n \in 0 .. 6 /\ n \in 0 .. 7
      OBVIOUS
    <2>2. \A q \in W : level[q] <= n => q \in f[n]
      BY <1>3, <2>1
    <2>3. f[n + 1] = Grown(leads, f[n])
      BY <1>1, <2>1
    <2>4. CASE r \in start
      <3> DEFINE U == {m \in Nat : m \in 0 .. 7 => r \in f[m]}
      <3>1. 0 \in U
        BY <1>1, <2>4
      <3>2. ASSUME NEW m \in Nat, m \in U PROVE m + 1 \in U
        <4> SUFFICES ASSUME m + 1 \in 0 .. 7 PROVE r \in f[m + 1]
          OBVIOUS
        <4>1. m \in 0 .. 6 /\ m \in 0 .. 7
          OBVIOUS
        <4> QED  BY <1>1, <3>2, <4>1 DEF Grown
      <3> HIDE DEF U
      <3>3. Nat \subseteq U
        BY <3>1, <3>2, SetInduction
      <3>4. n + 1 \in U
        BY <3>3
      <3> QED  BY <3>4 DEF U
    <2>5. CASE r \notin start
      <3>1. PICK q \in W : level[q] < level[r] /\ r \in leads[q]
        BY <2>5
      <3>2. level[q] <= n
        BY <3>1
      <3> QED  BY <2>2, <2>3, <3>1, <3>2 DEF Grown
    <2> QED  BY <2>4, <2>5
  <1> HIDE DEF T
  <1>4. Nat \subseteq T
    BY <1>2, <1>3, SetInduction
  <1>5. 7 \in T
    BY <1>4
  <1>6. \A r \in W : level[r] <= 7
    OBVIOUS
  <1> QED  BY <1>1, <1>5, <1>6 DEF T

-----------------------------------------------------------------------------
(* What is to be left of the database by the dump with these options.      *)

GoneWith(s) == {T \in TableNames : LeftOut[T] \cap s # {}}

Staying(s) == {r \in rows : r.table \notin GoneWith(s)}

LEMMA DumpOption ==
    ASSUME NEW s \in DumpChoices, NEW T \in TableNames
    PROVE  /\ \A o \in s : o \in OptionNames
           /\ T \in Skipped(s) <=> \E o \in s : T \in SkippedBy(o)
           /\ T \in DroppedClasses(s) <=> \E o \in s : T \in DroppedBy(o)
           /\ T \in GoneWith(s) <=> \E o \in s : o \in LeftOut[T]
  <1>1. \A o \in s : o \in OptionNames
    BY AdminAssumption DEF DumpChoices, OptionNames
  <1>2. T \in Skipped(s) <=> \E o \in s : T \in SkippedBy(o)
    BY DEF Skipped
  <1>3. T \in DroppedClasses(s) <=> \E o \in s : T \in DroppedBy(o)
    BY <1>2 DEF DroppedClasses, DroppedBy
  <1>4. T \in GoneWith(s) <=> \E o \in s : o \in LeftOut[T]
    BY DEF GoneWith
  <1> QED  BY <1>1, <1>2, <1>3, <1>4

(* The tables that an option leaves out, seen from one of them.            *)
LEMMA GoneTables ==
    ASSUME NEW s \in DumpChoices, NEW T \in TableNames
    PROVE  /\ \A k \in Tables[T].keys : k.table \in GoneWith(s) => T \in GoneWith(s)
           /\ \A k \in Tables[T].keys : T \notin Lost => k.table \notin Lost
           /\ T \in DroppedClasses(s) => T \in GoneWith(s)
           /\ T \in Skipped(s) => T \in DroppedClasses(s)
           /\ T \in GoneWith(s) =>
                \/ T \in DroppedClasses(s)
                \/ \E k \in Tables[T].keys :
                      k.ondelete = "CASCADE" /\ k.null = "NOT_NULL" /\ k.table \in GoneWith(s)
           /\ T \notin Lost /\ T \notin GoneWith(s) =>
                \A S \in Tables[T].collections :
                    /\ S \notin Lost /\ S # "Admin" /\ S # "Team"
                    /\ S \in GoneWith(s) => S \in Skipped(s)
  <1>1. DumpFact(T)
    BY DumpTables
  <1>2. \A k \in Tables[T].keys : k.table \in TableNames
    BY KeysFactual DEF KeyFact
  <1>3. \A S \in Tables[T].collections : S \in TableNames
    BY KeysFactual
  <1>4. \A S \in TableNames :
            /\ S \in Skipped(s) <=> \E o \in s : S \in SkippedBy(o)
            /\ S \in GoneWith(s) <=> \E o \in s : o \in LeftOut[S]
    BY DumpOption
  <1>5. /\ \A o \in s : o \in OptionNames
        /\ T \in DroppedClasses(s) <=> \E o \in s : T \in DroppedBy(o)
    BY DumpOption
  <1>6. \A k \in Tables[T].keys : /\ k.table \in GoneWith(s) => T \in GoneWith(s)
                                  /\ T \notin Lost => k.table \notin Lost
    BY <1>1, <1>2, <1>4 DEF DumpFact
  <1>7. T \in DroppedClasses(s) => T \in GoneWith(s)
    BY <1>1, <1>4, <1>5 DEF DumpFact
  <1>8. T \in Skipped(s) => T \in DroppedClasses(s)
    BY DEF DroppedClasses
  <1>9. T \in GoneWith(s) =>
            \/ T \in DroppedClasses(s)
            \/ \E k \in Tables[T].keys :
                  k.ondelete = "CASCADE" /\ k.null = "NOT_NULL" /\ k.table \in GoneWith(s)
    <2> SUFFICES ASSUME T \in GoneWith(s), T \notin DroppedClasses(s)
                 PROVE  \E k \in Tables[T].keys :
                            k.ondelete = "CASCADE" /\ k.null = "NOT_NULL" /\ k.table \in GoneWith(s)
      OBVIOUS
    <2>1. PICK o \in s : o \in LeftOut[T]
      BY <1>4
    <2>2. T \notin DroppedBy(o)
      BY <1>5
    <2>3. PICK S : GoesWith(T, S)
      BY <2>1, <2>2, BelongTogether
    <2>4. PICK c : HasKey(T, c, S, "CASCADE", "NOT_NULL")
      BY <2>3 DEF GoesWith
    <2> DEFINE k == Key(c, S, "CASCADE", "NOT_NULL")
    <2>5. k \in Tables[T].keys /\ k.table = S /\ k.ondelete = "CASCADE" /\ k.null = "NOT_NULL"
      BY <2>4, KeyFields DEF HasKey
    <2> HIDE DEF k
    <2>6. S \in TableNames /\ o \in LeftOut[S]
      BY <1>2, <2>1, <2>2, <2>3, <2>5 DEF GoesWith
    <2> QED  BY <1>4, <2>5, <2>6
  <1>10. ASSUME T \notin Lost, T \notin GoneWith(s), NEW S \in Tables[T].collections
         PROVE  /\ S \notin Lost /\ S # "Admin" /\ S # "Team"
                /\ S \in GoneWith(s) => S \in Skipped(s)
    BY <1>1, <1>3, <1>4, <1>10 DEF DumpFact
  <1> QED  BY <1>6, <1>7, <1>8, <1>9, <1>10

(* What is deleted with the tables dropped is the rows of those left out,  *)
(* and no other row changes.                                               *)
LEMMA DumpDeletes ==
    ASSUME \A r \in rows : IsRow(r), ReferencesHold(rows), NEW s \in DumpChoices
    PROVE  Deleted(rows, {r \in rows : r.table \in DroppedClasses(s)}) = Staying(s)
  <1> DEFINE start == {r \in rows : r.table \in DroppedClasses(s)}
             leads == [q \in rows |-> Owned(rows, q)]
             gone == {r \in rows : r.table \in GoneWith(s)}
             level == [r \in gone |-> Level[r.table]]
             Ref(r) == [c \in DOMAIN r.ref |->
                           IF \E k \in Keys(r), q \in gone : k.column = c /\ Refers(r, k, q)
                           THEN Null ELSE r.ref[c]]
  <1>1. ASSUME NEW r \in rows
        PROVE  /\ r.table \in TableNames /\ Keys(r) = Tables[r.table].keys
               /\ \A k \in Keys(r) : KeyFact(r.table, k)
               /\ r.table \in DroppedClasses(s) => r.table \in GoneWith(s)
    BY RowFacts, GoneTables
  <1>2. \A r \in rows : \A k \in Keys(r), q \in gone : Refers(r, k, q) => r \in gone
    <2> SUFFICES ASSUME NEW r \in rows, NEW k \in Keys(r), NEW q \in gone, Refers(r, k, q)
                 PROVE  r.table \in GoneWith(s)
      OBVIOUS
    <2>1. k.table \in GoneWith(s)
      BY DEF Refers
    <2> QED  BY <1>1, <2>1, GoneTables
  <1>3. Doomed(rows, start) = Closure(leads, start)
    BY DEF Doomed
  <1>4. start \subseteq gone
    BY <1>1
  <1>5. \A q \in gone : leads[q] \subseteq gone
    BY <1>2 DEF Owned
  <1>6. \A r \in gone : level[r] \in 0 .. 6
    BY <1>1, TablesAre
  <1>7. ASSUME NEW r \in gone, r \notin start
        PROVE  \E q \in gone : level[q] < level[r] /\ r \in leads[q]
    <2>1. PICK k \in Keys(r) :
              k.ondelete = "CASCADE" /\ k.null = "NOT_NULL" /\ k.table \in GoneWith(s)
      BY <1>1, <1>7, GoneTables
    <2>2. k.ondelete # "SET_NULL" /\ k.null # "NULL"
      BY <2>1
    <2>3. PICK q \in rows : Refers(r, k, q)
      BY <2>2 DEF ReferencesHold
    <2>4. q \in gone /\ q.table = k.table
      BY <2>1, <2>3 DEF Refers
    <2>5. Level[q.table] < Level[r.table]
      BY <1>1, <2>1, <2>4 DEF KeyFact
    <2>6. r \in Owned(rows, q)
      BY <2>1, <2>3 DEF Owned
    <2> QED  BY <2>4, <2>5, <2>6
  <1>8. Closure(leads, start) = gone
    <2> HIDE DEF start, leads, gone, level
    <2>1. Closure(leads, start) \subseteq gone
      BY <1>4, <1>5, ClosureWithin
    <2>2. gone \subseteq Closure(leads, start)
      BY <1>6, <1>7, ClosureFar
    <2> QED  BY <2>1, <2>2
  <1>9. Deleted(rows, start) = {[r EXCEPT !.ref = Ref(r)] : r \in rows \ gone}
    <2>1. Doomed(rows, start) = gone
      BY <1>3, <1>8
    <2> HIDE DEF gone, start
    <2> QED  BY <2>1 DEF Deleted
  <1>10. ASSUME NEW r \in rows \ gone PROVE [r EXCEPT !.ref = Ref(r)] = r
    <2>1. Ref(r) = [c \in DOMAIN r.ref |-> r.ref[c]]
      BY <1>2
    <2>2. r.ref = [c \in ColumnsOf(r.table) |-> r.ref[c]] /\ DOMAIN r.ref = ColumnsOf(r.table)
          /\ r = ARow(r.table, r.id, r.ref, r.digests, r.num, r.data)
      BY RowIs
    <2>3. Ref(r) = r.ref
      BY <2>1, <2>2
    <2> HIDE DEF Ref
    <2> QED  BY <2>2, <2>3, RefChanged
  <1>11. rows \ gone = Staying(s)
    BY DEF Staying
  <1> HIDE DEF Ref, gone
  <1>12. {[r EXCEPT !.ref = Ref(r)] : r \in rows \ gone} = rows \ gone
    BY <1>10
  <1> QED  BY <1>9, <1>11, <1>12

Restored(s) == Staying(s) \ Unreachable(Staying(s))

LEMMA RestoredAre ==
    ASSUME \A r \in rows : IsRow(r), NEW s \in DumpChoices
    PROVE  /\ Restored(s) \subseteq rows
           /\ \A r \in Restored(s) : /\ r.table \in TableNames /\ Keys(r) = Tables[r.table].keys
                                     /\ r.table \notin GoneWith(s) /\ r.table \notin Lost
           /\ \A r \in rows :
                r.table \notin GoneWith(s) /\ r.table \notin Lost
                /\ r.table # "Admin" /\ r.table # "Team" => r \in Restored(s)
           /\ \A r \in Restored(s) :
                r.table \in {"Admin", "Team"} => \E q \in Restored(s) : \E k \in Keys(q) : Refers(q, k, r)
  <1>1. \A r \in rows : r.table \in TableNames /\ Keys(r) = Tables[r.table].keys
    BY RowFacts
  <1>2. \A r \in Restored(s) : r \in rows /\ r.table \notin GoneWith(s) /\ r.table \notin Lost
    BY DEF Restored, Staying, Unreachable, Lost
  <1>3. \A r \in rows :
            r.table \notin GoneWith(s) /\ r.table \notin Lost
            /\ r.table # "Admin" /\ r.table # "Team" => r \in Restored(s)
    BY DEF Restored, Staying, Unreachable, Lost
  <1>4. ASSUME NEW r \in Restored(s), r.table \in {"Admin", "Team"}
        PROVE  \E q \in Restored(s) : \E k \in Keys(q) : Refers(q, k, r)
    <2>1. PICK q \in Staying(s) : \E k \in Keys(q) : Refers(q, k, r)
      BY <1>4 DEF Restored, Unreachable
    <2>2. PICK k \in Keys(q) : Refers(q, k, r)
      BY <2>1
    <2>3. q \in rows /\ q.table \notin GoneWith(s)
      BY DEF Staying
    <2>4. k \in Tables[q.table].keys /\ (k.table = "Admin" \/ k.table = "Team")
      BY <1>1, <1>4, <2>2, <2>3 DEF Refers
    <2>5. q.table \in {"Announcement", "Message", "Question", "Participation"}
      BY <1>1, <2>3, <2>4, DumpTables DEF DumpFact
    <2>6. q \in Restored(s)
      BY <1>3, <2>3, <2>5 DEF Lost
    <2> QED  BY <2>2, <2>6
  <1> QED  BY <1>1, <1>2, <1>3, <1>4

(* What a row of these refers to is among them.                            *)
LEMMA RestoredReferences ==
    ASSUME \A r \in rows : IsRow(r), NEW s \in DumpChoices,
           NEW r \in Restored(s), NEW k \in Keys(r), NEW q \in rows, Refers(r, k, q)
    PROVE  q \in Restored(s)
  <1>1. /\ r \in rows /\ r.table \in TableNames /\ k \in Tables[r.table].keys
        /\ r.table \notin GoneWith(s) /\ r.table \notin Lost
    BY RestoredAre
  <1>2. q.table = k.table
    BY DEF Refers
  <1>3. q.table \notin GoneWith(s) /\ q.table \notin Lost
    BY <1>1, <1>2, GoneTables
  <1>4. r \in Staying(s) /\ q \in Staying(s)
    BY <1>1, <1>3 DEF Staying
  <1> QED  BY <1>3, <1>4 DEF Restored, Unreachable, Lost

(* The owner through which a row is reached.                               *)
Depth(T) == IF T = "Team" THEN 2 ELSE IF T = "Admin" THEN 3 ELSE Level[T]

TaskTables ==
    {"Task", "Statement", "Attachment", "Dataset", "Submission", "UserTest", "Manager",
     "Testcase", "File", "Token", "SubmissionResult", "Executable", "Evaluation",
     "UserTestFile", "UserTestManager", "UserTestResult", "UserTestExecutable"}

OwnedBy(T, c, S) ==
    /\ PartOf(T, c, S) /\ Depth(S) < Depth(T) /\ S # "Admin" /\ S # "Team"
    /\ T \in TaskTables => S \in TaskTables

LEMMA OwnerOf ==
    ASSUME NEW T \in TableNames, T \notin Lost, T \notin {"Contest", "User", "Admin", "Team", "Task"}
    PROVE  \E c, S : OwnedBy(T, c, S)
  <1>1. ASSUME NEW U \in {"Announcement", "Participation"} PROVE OwnedBy(U, "contest", "Contest")
    BY <1>1, TablesAre DEF OwnedBy, PartOf, HasKey, Announcement, Participation, Contest, Table, Part,
       Depth, TaskTables
  <1>2. ASSUME NEW U \in {"Message", "Question", "PrintJob"}
        PROVE  OwnedBy(U, "participation", "Participation")
    BY <1>2, TablesAre DEF OwnedBy, PartOf, HasKey, Message, Question, PrintJob, Participation, Table,
       Part, Depth, TaskTables
  <1>3. ASSUME NEW U \in {"Token"} PROVE OwnedBy(U, "submission", "Submission")
    BY <1>3, TablesAre DEF OwnedBy, PartOf, HasKey, Token, Submission, Table, Part, Depth, TaskTables
  <1>4. ASSUME NEW U \in {"Evaluation"} PROVE OwnedBy(U, "submission_result", "SubmissionResult")
    BY <1>4, TablesAre DEF OwnedBy, PartOf, HasKey, Evaluation, SubmissionResult, Table, Part, Depth,
       TaskTables
  <1>5. ASSUME NEW U \in {"Statement", "Attachment", "Dataset", "Submission", "UserTest"}
        PROVE  OwnedBy(U, "task", "Task")
    BY <1>5, TablesAre, Owners DEF OwnedBy, Depth, TaskTables
  <1>6. ASSUME NEW U \in {"Manager", "Testcase"} PROVE OwnedBy(U, "dataset", "Dataset")
    BY <1>6, TablesAre, Owners DEF OwnedBy, Depth, TaskTables
  <1>7. ASSUME NEW U \in {"File", "SubmissionResult"} PROVE OwnedBy(U, "submission", "Submission")
    BY <1>7, TablesAre, Owners DEF OwnedBy, Depth, TaskTables
  <1>8. OwnedBy("Executable", "submission_result", "SubmissionResult")
    BY TablesAre, Owners DEF OwnedBy, Depth, TaskTables
  <1>9. ASSUME NEW U \in {"UserTestFile", "UserTestManager", "UserTestResult"}
        PROVE  OwnedBy(U, "user_test", "UserTest")
    BY <1>9, TablesAre, Owners DEF OwnedBy, Depth, TaskTables
  <1>10. OwnedBy("UserTestExecutable", "user_test_result", "UserTestResult")
    BY TablesAre, Owners DEF OwnedBy, Depth, TaskTables
  <1> QED
    BY <1>1, <1>2, <1>3, <1>4, <1>5, <1>6, <1>7, <1>8, <1>9, <1>10 DEF TableNames, Lost

(* Every row but the first has its owner among the rows restored.          *)
LEMMA OwnerRestored ==
    ASSUME \A r \in rows : IsRow(r), ReferencesHold(rows), NEW s \in DumpChoices,
           NEW r \in Restored(s), r.table \notin {"Contest", "User", "Admin", "Team", "Task"}
    PROVE  \E q \in Restored(s) : /\ r \in Collected(rows, q) /\ Depth(q.table) < Depth(r.table)
                                  /\ r.table \in TaskTables => q.table \in TaskTables
  <1>1. r \in rows /\ r.table \in TableNames /\ r.table \notin Lost
    BY RestoredAre
  <1>2. PICK c, S : OwnedBy(r.table, c, S)
    BY <1>1, OwnerOf
  <1> DEFINE k == Key(c, S, "CASCADE", "NOT_NULL")
  <1>3. k \in Keys(r) /\ k.table = S /\ k.ondelete # "SET_NULL" /\ k.null # "NULL"
    BY <1>2, KeyFields DEF OwnedBy, PartOf, HasKey, Keys
  <1> HIDE DEF k
  <1>4. PICK q \in rows : Refers(r, k, q)
    BY <1>1, <1>3 DEF ReferencesHold
  <1>5. q.table = S /\ q \in Restored(s)
    BY <1>3, <1>4, RestoredReferences DEF Refers
  <1>6. r \in Collected(rows, q)
    BY <1>1, <1>2, <1>3, <1>4, <1>5 DEF Collected, OwnedBy, PartOf
  <1> QED  BY <1>2, <1>5, <1>6 DEF OwnedBy

(* All of them are reached, wherever a row leads to what is related to it, *)
(* from the contests, users and tasks without a contest.                   *)
LEMMA RestoredReached ==
    ASSUME \A r \in rows : IsRow(r), ReferencesHold(rows), NEW s \in DumpChoices, NEW leads, NEW start,
           \A q, r \in Restored(s) : r \in Related(rows, q) => r \in leads[q],
           \A r \in Restored(s) : r.table \in {"Contest", "User"} => r \in start,
           \A r \in Restored(s) : r.table = "Task" /\ r.ref.contest = Null => r \in start
    PROVE  Restored(s) \subseteq Closure(leads, start)
  <1> DEFINE W == Restored(s)
             level == [r \in W |-> Depth(r.table)]
  <1>1. \A r \in W : r \in rows /\ r.table \in TableNames /\ Keys(r) = Tables[r.table].keys
    BY RestoredAre
  <1>2. \A r \in W : level[r] = Depth(r.table) /\ level[r] \in 0 .. 6
    BY <1>1, TablesAre DEF Depth
  <1>3. ASSUME NEW r \in W, NEW q \in W, Depth(q.table) < Depth(r.table), r \in Related(rows, q)
        PROVE  \E x \in W : level[x] < level[r] /\ r \in leads[x]
    BY <1>2, <1>3
  <1>4. ASSUME NEW r \in W, r \notin start
        PROVE  \E q \in W : level[q] < level[r] /\ r \in leads[q]
    <2>1. r \in rows /\ r.table \notin {"Contest", "User"} /\ (r.table = "Task" => r.ref.contest # Null)
      BY <1>1, <1>4
    <2>2. CASE r.table = "Task"
      <3> DEFINE k == Key("contest", "Contest", "CASCADE", "NULL")
      <3>1. k \in Keys(r) /\ k.column = "contest" /\ k.table = "Contest"
        BY <2>2, SomeKeys, KeyFields DEF HasKey, Keys
      <3> HIDE DEF k
      <3>2. PICK q \in rows : Refers(r, k, q)
        BY <2>1, <2>2, <3>1 DEF ReferencesHold
      <3>3. q.table = "Contest" /\ q \in W
        BY <3>1, <3>2, RestoredReferences DEF Refers
      <3>4. "Task" \in Tables["Contest"].collections /\ Depth("Contest") < Depth("Task")
        BY TablesAre DEF Contest, Table, Depth
      <3>5. r \in Related(rows, q)
        BY <2>1, <2>2, <3>1, <3>2, <3>3, <3>4 DEF Related, Collected
      <3> QED  BY <1>3, <2>2, <3>3, <3>4, <3>5
    <2>3. CASE r.table \in {"Admin", "Team"}
      <3>1. PICK q \in W : \E k \in Keys(q) : Refers(q, k, r)
        BY <2>3, RestoredAre
      <3>2. r \in Related(rows, q)
        BY <2>1, <3>1 DEF Related
      <3>3. PICK k \in Tables[q.table].keys : k.table = r.table
        BY <1>1, <3>1 DEF Refers
      <3>4. /\ r.table = "Team" => q.table = "Participation"
            /\ r.table = "Admin" => q.table \in {"Announcement", "Message", "Question"}
        BY <1>1, <2>3, <3>3, DumpTables DEF DumpFact
      <3>5. Depth(q.table) < Depth(r.table)
        BY <2>3, <3>4, TablesAre DEF Depth
      <3> QED  BY <1>3, <3>2, <3>5
    <2>4. CASE r.table \notin {"Task", "Admin", "Team"}
      <3>1. r.table \notin {"Contest", "User", "Admin", "Team", "Task"}
        BY <2>1, <2>4
      <3>2. PICK q \in W : r \in Collected(rows, q) /\ Depth(q.table) < Depth(r.table)
        BY <3>1, OwnerRestored
      <3>3. r \in Related(rows, q)
        BY <3>2 DEF Related
      <3> QED  BY <1>3, <3>2, <3>3
    <2> QED  BY <2>2, <2>3, <2>4
  <1> HIDE DEF level, W
  <1>5. \A r \in W : r \in start \/ \E q \in W : level[q] < level[r] /\ r \in leads[q]
    BY <1>4
  <1>6. \A r \in W : level[r] \in 0 .. 6
    BY <1>2
  <1>7. W \subseteq Closure(leads, start)
    BY <1>5, <1>6, ClosureFar
  <1> QED  BY <1>7 DEF W

(* What both the exporter and the importer let through.                    *)
LEMMA BothOptions ==
    ASSUME NEW skip \in DumpChoices, NEW dropped \in DumpChoices, skip = {} \/ dropped = {}
    PROVE  LET s == skip \cup dropped
           IN  /\ s \in DumpChoices
               /\ \A T \in TableNames :
                    /\ T \notin GoneWith(s) => T \notin Skipped(skip) /\ T \notin DroppedClasses(dropped)
                    /\ T \notin Skipped(skip) /\ T \notin DroppedClasses(dropped) => T \notin Skipped(s)
               /\ "Contest" \notin GoneWith(s) /\ "Task" \notin GoneWith(s)
               /\ "User" \in GoneWith(s) => "users" \in skip \/ "User" \in DroppedClasses(dropped)
               /\ "User" \notin GoneWith(s) => "users" \notin skip
               /\ "User" \notin Skipped(skip)
               /\ "PrintJob" \notin GoneWith(s) => s \cap {"print_jobs", "users"} = {}
  <1> DEFINE s == skip \cup dropped
  <1>1. s \in DumpChoices
    <2>1. s = skip \/ s = dropped
      OBVIOUS
    <2> QED  BY <2>1
  <1>2. ASSUME NEW u \in DumpChoices, NEW T \in TableNames
        PROVE  /\ T \in Skipped(u) <=> \E o \in u : T \in SkippedBy(o)
               /\ T \in DroppedClasses(u) <=> \E o \in u : T \in DroppedBy(o)
               /\ T \in GoneWith(u) <=> \E o \in u : o \in LeftOut[T]
               /\ T \in Skipped(u) => T \in DroppedClasses(u)
               /\ T \in DroppedClasses(u) => T \in GoneWith(u)
    BY <1>2, DumpOption, GoneTables
  <1>3. \A o \in s : o \in skip \/ o \in dropped
    OBVIOUS
  <1>4. \A o : o \in skip \/ o \in dropped => o \in s
    OBVIOUS
  <1>5. \A o \in s : o \in OptionNames
    <2>1. "Task" \in TableNames
      BY DEF TableNames
    <2> HIDE DEF s
    <2> QED  BY <1>1, <2>1, DumpOption
  <1> HIDE DEF s
  <1>6. ASSUME NEW T \in TableNames
        PROVE  /\ T \notin GoneWith(s) => T \notin Skipped(skip) /\ T \notin DroppedClasses(dropped)
               /\ T \notin Skipped(skip) /\ T \notin DroppedClasses(dropped) => T \notin Skipped(s)
    <2>1. T \in Skipped(skip) => T \in Skipped(s)
      BY <1>1, <1>2, <1>4
    <2>2. T \in DroppedClasses(dropped) => T \in DroppedClasses(s)
      BY <1>1, <1>2, <1>4
    <2>3. T \in Skipped(s) => T \in Skipped(skip) \/ T \in Skipped(dropped)
      BY <1>1, <1>2, <1>3
    <2> QED  BY <1>1, <1>2, <2>1, <2>2, <2>3
  <1>7. "Contest" \notin GoneWith(s) /\ "Task" \notin GoneWith(s)
    BY LeftOutAre DEF GoneWith
  <1>8. "User" \in GoneWith(s) <=> "users" \in s
    BY LeftOutAre DEF GoneWith, TableNames
  <1>9. "users" \in dropped => "User" \in DroppedClasses(dropped)
    BY DEF DroppedClasses
  <1>10. "User" \notin Skipped(skip)
    <2>1. \A o \in OptionNames : "User" \notin SkippedBy(o)
      BY SkippedAre DEF OptionNames
    <2>2. "User" \in TableNames
      BY DEF TableNames
    <2> QED  BY <1>2, <1>4, <1>5, <2>1, <2>2
  <1>11. "PrintJob" \notin GoneWith(s) => s \cap {"print_jobs", "users"} = {}
    BY LeftOutAre DEF GoneWith, TableNames
  <1> QED  BY <1>1, <1>3, <1>4, <1>6, <1>7, <1>8, <1>9, <1>10, <1>11 DEF s

LEMMA DumpContents ==
    ASSUME GoodDb(rows), NEW skip \in DumpChoices, NEW dropped \in DumpChoices,
           skip = {} \/ dropped = {}
    PROVE  LET s == skip \cup dropped
           IN  Imported(skip, dropped) = Restored(s) /\ ReferencesHold(Restored(s))
  <1>1. (\A r \in rows : IsRow(r)) /\ ReferencesHold(rows)
    BY DEF GoodDb, IsConsistent
  <1>2. PICK s : s = skip \cup dropped
    OBVIOUS
  <1>3. /\ s \in DumpChoices
        /\ \A T \in TableNames :
             /\ T \notin GoneWith(s) => T \notin Skipped(skip) /\ T \notin DroppedClasses(dropped)
             /\ T \notin Skipped(skip) /\ T \notin DroppedClasses(dropped) => T \notin Skipped(s)
        /\ "Contest" \notin GoneWith(s) /\ "Task" \notin GoneWith(s)
        /\ "User" \in GoneWith(s) => "users" \in skip \/ "User" \in DroppedClasses(dropped)
        /\ "User" \notin GoneWith(s) => "users" \notin skip
        /\ "User" \notin Skipped(skip)
    BY <1>2, BothOptions
  <1> DEFINE W == Restored(s)
             kept == KeptObjects(skip, dropped)
             added == AddedObjects(skip, dropped)
             leads == [r \in rows |->
                          {q \in Related(rows, r) : q.table \notin Skipped(skip)}]
             start == Roots(rows, skip)
             leads2 == [r \in kept |-> Related(kept, r)]
             start2 == Roots(rows, skip) \cap kept
             E == ExportedObjects(rows, skip)
             P == {r \in rows : r.table \notin Skipped(skip)}
  <1>4. E = Closure(leads, start) /\ added = Closure(leads2, start2)
    BY DEF ExportedObjects, AddedObjects
  <1>5. /\ W \subseteq rows
        /\ \A r \in W : /\ r.table \in TableNames /\ r.table \notin GoneWith(s) /\ r.table \notin Lost
        /\ \A r \in rows : r.table \notin GoneWith(s) /\ r.table \notin Lost
                           /\ r.table # "Admin" /\ r.table # "Team" => r \in W
    BY <1>1, <1>3, RestoredAre
  <1>6. \A q, r \in W : r \in Related(rows, q) => r \in leads[q]
    BY <1>3, <1>5
  <1>7. /\ \A r \in W : r.table \in {"Contest", "User"} => r \in start
        /\ \A r \in W : r.table = "Task" /\ r.ref.contest = Null => r \in start
    BY <1>3, <1>5 DEF Roots, Get
  <1>8. W \subseteq E
    <2> HIDE DEF leads, start, E
    <2> QED  BY <1>1, <1>3, <1>4, <1>6, <1>7, RestoredReached
  <1>9. E \subseteq P
    <2>1. start \subseteq P
      BY <1>3, NeverSkipped DEF Roots, Get
    <2>2. \A q \in P : leads[q] \subseteq P
      BY DEF Related, Collected
    <2> HIDE DEF leads, start, E, P
    <2> QED  BY <1>4, <2>1, <2>2, ClosureWithin
  <1>10. /\ kept \subseteq rows
         /\ \A r \in kept : r.table \notin Skipped(s) /\ r.table \notin DroppedClasses(dropped)
    <2> SUFFICES ASSUME NEW r \in kept
                 PROVE  r \in rows /\ r.table \notin Skipped(s) /\ r.table \notin DroppedClasses(dropped)
      OBVIOUS
    <2>1. r \in E /\ r.table \notin DroppedClasses(dropped)
      BY DEF KeptObjects
    <2>2. r \in rows /\ r.table \notin Skipped(skip)
      BY <1>9, <2>1
    <2>3. r.table \in TableNames
      BY <1>1, <2>2, RowIs
    <2> QED  BY <1>3, <2>1, <2>2, <2>3
  <1>11. W \subseteq kept
    BY <1>3, <1>5, <1>8 DEF KeptObjects
  <1>12. \A q \in kept : leads2[q] = Related(kept, q)
    OBVIOUS
  <1>13. start2 = Roots(rows, skip) \cap kept
    OBVIOUS
  <1> HIDE DEF leads, start, E, P, kept, added, leads2, start2
  <1>14. W \subseteq added
    <2>1. \A q, r \in W : r \in Related(rows, q) => r \in leads2[q]
      BY <1>11, <1>12 DEF Related, Collected
    <2>2. /\ \A r \in W : r.table \in {"Contest", "User"} => r \in start2
          /\ \A r \in W : r.table = "Task" /\ r.ref.contest = Null => r \in start2
      BY <1>7, <1>11, <1>13 DEF start
    <2> QED  BY <1>1, <1>3, <1>4, <2>1, <2>2, RestoredReached
  <1>15. start2 \subseteq W
    <2> SUFFICES ASSUME NEW r \in start2 PROVE r \in W
      OBVIOUS
    <2>1. r \in kept /\ r \in rows
      BY <1>10, <1>13
    <2>2. \/ r.table = "Contest" \/ r.table = "Task"
          \/ r.table = "User" /\ "users" \notin skip
      BY <1>13 DEF Roots, Get
    <2>3. r.table \notin GoneWith(s)
      BY <1>3, <1>10, <2>1, <2>2
    <2> QED  BY <1>5, <2>1, <2>2, <2>3 DEF Lost
  <1>16. ASSUME NEW q \in W, NEW r \in leads2[q] PROVE r \in W
    <2>1. r \in Related(kept, q) /\ q \in kept
      BY <1>11, <1>12
    <2>2. r \in rows
      BY <1>10, <2>1 DEF Related, Collected
    <2>3. CASE \E k \in Keys(q) : Refers(q, k, r)
      BY <1>1, <1>3, <2>2, <2>3, RestoredReferences
    <2>4. CASE r \in Collected(kept, q)
      <3>1. r \in kept /\ r.table \in Tables[q.table].collections
        BY <2>4 DEF Collected
      <3>2. q.table \in TableNames /\ q.table \notin GoneWith(s) /\ q.table \notin Lost
        BY <1>5
      <3>3. /\ r.table \notin Lost /\ r.table # "Admin" /\ r.table # "Team"
            /\ r.table \in GoneWith(s) => r.table \in Skipped(s)
        BY <1>3, <3>1, <3>2, GoneTables
      <3> QED  BY <1>5, <1>10, <2>2, <3>1, <3>3
    <2> QED  BY <2>1, <2>3, <2>4 DEF Related
  <1>17. added = W
    <2>1. added \subseteq W
      BY <1>4, <1>15, <1>16, ClosureWithin
    <2> QED  BY <1>14, <2>1
  <1>18. ASSUME NEW r \in W, NEW k \in Keys(r)
         PROVE  \/ r.ref[k.column] = Null /\ (k.null = "NULL" \/ k.ondelete = "SET_NULL")
                \/ \E q \in W : Refers(r, k, q)
    <2>1. r \in rows
      BY <1>5
    <2>2. CASE \E q \in rows : Refers(r, k, q)
      BY <1>1, <1>3, <2>2, RestoredReferences
    <2> QED  BY <1>1, <2>1, <2>2 DEF ReferencesHold
  <1>19. ReferencesHold(W)
    BY <1>18 DEF ReferencesHold
  <1>20. ASSUME NEW r \in W PROVE Importing(kept, r) = r
    <2>1. /\ IsRow(r) /\ r = ARow(r.table, r.id, r.ref, r.digests, r.num, r.data)
          /\ r.ref = [c \in ColumnsOf(r.table) |-> r.ref[c]] /\ DOMAIN r.ref = ColumnsOf(r.table)
      BY <1>1, <1>5, RowIs
    <2>2. ASSUME NEW c \in DOMAIN r.ref
          PROVE  r.ref[c] = Null \/ \E k \in Keys(r), q \in kept : k.column = c /\ Refers(r, k, q)
      <3>1. PICK k \in Keys(r) : k.column = c
        BY <2>1, <2>2 DEF ColumnsOf, Keys
      <3> QED  BY <1>11, <1>18, <3>1
    <2>3. PresentRef(kept, r) = [c \in DOMAIN r.ref |-> r.ref[c]]
      BY <2>2 DEF PresentRef
    <2>4. PresentRef(kept, r) = r.ref
      BY <2>1, <2>3
    <2> QED  BY <2>1, <2>4, RefChanged DEF Importing
  <1>21. Imported(skip, dropped) = {Importing(kept, r) : r \in added}
    BY ImportedIs DEF kept, added
  <1>22. Imported(skip, dropped) = W
    BY <1>17, <1>20, <1>21
  <1> QED  BY <1>2, <1>19, <1>22

(* With the dump are the files of all that is restored.                    *)
LEMMA DumpFiles ==
    ASSUME GoodDb(rows), NEW s \in DumpChoices,
           "PrintJob" \notin GoneWith(s) => s \cap {"print_jobs", "users"} = {},
           "Task" \notin GoneWith(s), \A t \in Get(Restored(s), "Task") : t.ref.contest # Null
    PROVE  FilesOf(Restored(s)) \subseteq EnumerateFiles(rows, s)
  <1> DEFINE inContest == {t \in Get(rows, "Task") : t.ref.contest # Null}
             leads == [q \in rows |-> {r \in Collected(rows, q) : r.table \notin Skipped(s)}]
             jobs == {p \in Get(rows, "PrintJob") : s \cap {"print_jobs", "users"} = {}}
             W == Restored(s)
             V == {r \in W : r.table \in TaskTables}
             level == [r \in V |-> Depth(r.table)]
             B == Closure(leads, inContest)
  <1>1. (\A r \in rows : IsRow(r)) /\ ReferencesHold(rows)
    BY DEF GoodDb, IsConsistent
  <1>2. EnumerateFiles(rows, s) = FilesOf(B) \cup FilesOf(jobs)
    BY DEF EnumerateFiles, Below
  <1>3. /\ W \subseteq rows
        /\ \A r \in W : r.table \in TableNames /\ r.table \notin GoneWith(s)
    BY <1>1, RestoredAre
  <1>4. \A r \in W : r.table \notin Skipped(s)
    BY <1>3, GoneTables
  <1>5. \A r \in V : level[r] = Depth(r.table) /\ level[r] \in 0 .. 6
    BY <1>3, TablesAre DEF Depth
  <1>6. ASSUME NEW r \in V
        PROVE  r \in inContest \/ \E q \in V : level[q] < level[r] /\ r \in leads[q]
    <2>1. CASE r.table = "Task"
      BY <1>3, <2>1 DEF Get
    <2>2. CASE r.table # "Task"
      <3>1. r.table \notin {"Contest", "User", "Admin", "Team", "Task"}
        BY <2>2 DEF TaskTables
      <3>2. PICK q \in W : /\ r \in Collected(rows, q) /\ Depth(q.table) < Depth(r.table)
                           /\ r.table \in TaskTables => q.table \in TaskTables
        BY <1>1, <3>1, OwnerRestored
      <3>3. q \in V /\ q \in rows /\ r \in leads[q]
        BY <1>3, <1>4, <3>2
      <3> QED  BY <1>5, <3>2, <3>3
    <2> QED  BY <2>1, <2>2
  <1>7. V \subseteq B
    <2>1. \A r \in V : level[r] \in 0 .. 6
      BY <1>5
    <2> HIDE DEF V, level, leads, inContest
    <2> QED  BY <1>6, <2>1, ClosureFar
  <1>8. ASSUME NEW r \in W, r.digests # {} PROVE r \in B \/ r \in jobs
    <2>1. r \in rows /\ r.table \in FileTables
      BY <1>1, <1>3, <1>8, RowIs
    <2>2. r.table \in TaskTables \/ r.table = "PrintJob"
      BY <2>1 DEF FileTables, TaskTables
    <2>3. CASE r.table \in TaskTables
      BY <1>7, <2>3
    <2>4. CASE r.table = "PrintJob"
      BY <1>3, <2>1, <2>4 DEF Get
    <2> QED  BY <2>2, <2>3, <2>4
  <1> HIDE DEF W, B, jobs
  <1>9. ASSUME NEW f \in FilesOf(W) PROVE f \in FilesOf(B) \cup FilesOf(jobs)
    <2>1. PICK r \in W : f \in r.digests
      BY DEF FilesOf
    <2> QED  BY <1>8, <2>1 DEF FilesOf
  <1> QED  BY <1>2, <1>9 DEF W

(* Nothing runs any more once there is a dump.                             *)
DumpInv == DumpRestores /\ (dumped # <<>> => orphans = Null)

LEMMA DumpTaken ==
    ASSUME AdminInv, ExportAndImport
    PROVE  DumpInv'
  <1>1. GoodDb(rows) /\ orphans = Null /\ UNCHANGED orphans
    BY DEF ExportAndImport, Counted, AdminInv
  <1>2. PICK skip \in DumpChoices, dropped \in DumpChoices :
            /\ skip = {} \/ dropped = {}
            /\ rows' = IF ReferencesHold(Imported(skip, dropped)) THEN Imported(skip, dropped)
                       ELSE {}
            /\ store' = EnumerateFiles(rows, skip \cup dropped)
            /\ dumped' = <<rows, skip \cup dropped>>
    BY DEF ExportAndImport, Imported, Importable, DumpChoices
  <1>3. PICK s : s = skip \cup dropped
    OBVIOUS
  <1>4. /\ s \in DumpChoices /\ "Task" \notin GoneWith(s)
        /\ "PrintJob" \notin GoneWith(s) => s \cap {"print_jobs", "users"} = {}
    BY <1>2, <1>3, BothOptions
  <1>5. Imported(skip, dropped) = Restored(s) /\ ReferencesHold(Restored(s))
    BY <1>1, <1>2, <1>3, DumpContents
  <1>6. rows' = Restored(s)
    BY <1>2, <1>5
  <1>7. Deleted(rows, {r \in rows : r.table \in DroppedClasses(s)}) = Staying(s)
    BY <1>1, <1>4, DumpDeletes DEF GoodDb, IsConsistent
  <1>8. (\A t \in Get(Restored(s), "Task") : t.ref.contest # Null)
          => FilesOf(Restored(s)) \subseteq EnumerateFiles(rows, s)
    BY <1>1, <1>4, DumpFiles
  <1>9. dumped'[1] = rows /\ dumped'[2] = s /\ store' = EnumerateFiles(rows, s)
    BY <1>2, <1>3
  <1>10. /\ rows' = Staying(s) \ Unreachable(Staying(s))
         /\ (\A t \in Get(rows', "Task") : t.ref.contest # Null) => FilesOf(rows') \subseteq store'
    BY <1>6, <1>8, <1>9 DEF Restored
  <1>11. DumpRestores'
    BY <1>7, <1>9, <1>10 DEF DumpRestores
  <1> QED  BY <1>1, <1>11 DEF DumpInv

LEMMA DumpInvStep ==
    ASSUME AdminInv, DumpInv, [AdminNext]_adminVars
    PROVE  DumpInv'
  <1>1. CASE UNCHANGED adminVars
    BY <1>1 DEF adminVars, DumpInv, DumpRestores
  <1>2. CASE CleanFilesStart \/ CleanFilesEnd
    <2>1. dumped = <<>> /\ dumped' = <<>>
      BY <1>2 DEF CleanFilesStart, CleanFilesEnd, Counted, DumpInv
    <2> QED  BY <2>1 DEF DumpInv, DumpRestores
  <1>3. CASE ExportAndImport
    BY <1>3, DumpTaken
  <1>4. CASE FinishUpload
    <2>1. dumped = <<>> /\ GoodDb(rows) /\ \A new \in uploads : UploadOk(new)
      BY <1>4 DEF FinishUpload, AdminInv
    <2>2. dumped' = <<>>
      BY <1>4, <2>1, FinishKeeps
    <2> QED  BY <2>2 DEF DumpInv, DumpRestores
  <1>5. CASE AdminNext /\ ~FinishUpload /\ ~CleanFilesStart /\ ~CleanFilesEnd /\ ~ExportAndImport
    <2>1. dumped = <<>> /\ GoodDb(rows)
      BY <1>5, OnlyBeforeDump DEF AdminInv
    <2>2. Handled
      BY <1>5, <2>1, StepsHandled
    <2> QED  BY <2>2 DEF Handled, DumpInv, DumpRestores
  <1> QED  BY <1>1, <1>2, <1>3, <1>4, <1>5

(* The dump of any database that pages and scripts can leave, imported     *)
(* again, with one kind of data left out on either side or none, is the    *)
(* database without that kind and all that belongs to it, but for matches  *)
(* and for administrators and teams nobody refers to, and has their files. *)
THEOREM DumpsRestore == AdminSpec => []DumpRestores
  <1>1. AdminInit => AdminInv /\ DumpInv
    BY AdminStart DEF AdminInit, DumpInv, DumpRestores
  <1>2. AdminInv /\ DumpInv /\ [AdminNext]_adminVars => AdminInv' /\ DumpInv'
    BY AdminStep, DumpInvStep
  <1>3. DumpInv => DumpRestores
    BY DEF DumpInv
  <1> QED  BY <1>1, <1>2, <1>3, PTL DEF AdminSpec
=============================================================================
