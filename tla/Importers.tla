----------------------------- MODULE Importers ------------------------------
(***************************************************************************)
(* Importing a contest, a task, a dataset or a user from the files of its  *)
(* authors (cmscontrib/Import*.py, importing.py), through a loader that    *)
(* remembers when it last read the files (loaders/italy_yaml.py).          *)
(*                                                                         *)
(* Files have a version; the columns, statements and attachments of a task *)
(* are one version, and so is each of its datasets. One script runs at a   *)
(* time; its transaction is serializable.                                  *)
(***************************************************************************)
EXTENDS Integers, Sequences, SequencesExt

CONSTANTS
    ImportedTasks, ImportedUsers,
    Detects,        \* whether the loader looks for changes (italy_yaml) or
                    \* always finds some (polygon, tps)
    MaxEdits,       \* times the authors change a file
    MaxImports

ASSUME ImportersAssumption ==
    /\ Detects \in BOOLEAN /\ MaxEdits \in Nat /\ MaxImports \in Nat
    /\ IsFiniteSet(ImportedTasks)

VARIABLES
    files,      \* version of the files of each task
    broken,     \* the tasks whose files cannot be loaded
    listing,    \* contest.yaml: [version, tasks, users]
    unread,     \* what is newer than its .itime: tasks and "contest"
    failed,     \* the tasks with a file .import_error
    database,   \* [contest, tasks, users, participations]; version 0: absent
    script,     \* the script that is running
    succeeded,  \* whether the last one did
    edits, imports

importVars == <<files, broken, listing, unread, failed, database, script,
                succeeded, edits, imports>>

NoScript == [kind |-> "none"]
NotImported == [version |-> 0, contest |-> "none", num |-> 0, datasets |-> <<>>]

Listings == {l \in BoundedSeq(ImportedTasks, 2) : IsInjective(l)}

ImportInit ==
    /\ files = [t \in ImportedTasks |-> 1] /\ broken = {}
    /\ \E l \in Listings : listing = [version |-> 1, tasks |-> l, users |-> ImportedUsers]
    /\ unread = ImportedTasks \cup {"contest"} /\ failed = {}
    /\ database = [contest |-> 0, tasks |-> [t \in ImportedTasks |-> NotImported],
                   users |-> {}, participations |-> {}]
    /\ script = NoScript /\ succeeded = FALSE /\ edits = 0 /\ imports = 0

-----------------------------------------------------------------------------
(* The authors, and the administrators' web server.                        *)

Edit ==
    /\ edits < MaxEdits /\ edits' = edits + 1
    /\ \/ \E t \in ImportedTasks :
             /\ files' = [files EXCEPT ![t] = @ + 1]
             /\ broken' \in {broken \ {t}, broken \cup {t}}
             /\ unread' = unread \cup {t}
             /\ UNCHANGED listing
       \/ \E l \in Listings, us \in SUBSET ImportedUsers :
             /\ listing' = [version |-> listing.version + 1, tasks |-> l, users |-> us]
             /\ unread' = unread \cup {"contest"}
             /\ UNCHANGED <<files, broken>>
    /\ UNCHANGED <<failed, database, script, succeeded, imports>>

(* A task that is in no contest is added to another one.                   *)
TieElsewhere(t) ==
    /\ script = NoScript
    /\ database.tasks[t].version > 0 /\ database.tasks[t].contest = "none"
    /\ database' = [database EXCEPT !.tasks[t].contest = "elsewhere"]
    /\ UNCHANGED <<files, broken, listing, unread, failed, script, succeeded, edits, imports>>

-----------------------------------------------------------------------------
(* The loader.                                                             *)

(* task_has_changed; without changes, an import that failed ends the script. *)
HasChanged(t) == Detects => t \in unread
RefusesToRetry(t) == Detects /\ t \notin unread /\ t \in failed

(* get_task: .itime is touched first, .import_error is left if it fails.   *)
GetTask(t) ==
    /\ unread' = unread \ {t}
    /\ failed' = IF t \in broken THEN failed \cup {t} ELSE failed \ {t}

(* contest_has_changed and get_contest; contest.yaml can be read.          *)
ContestHasChanged == Detects => "contest" \in unread
GetContest == unread' = unread \ {"contest"} /\ UNCHANGED failed

NoLoading == UNCHANGED <<unread, failed>>

-----------------------------------------------------------------------------
(* importing.py.                                                           *)

(* All columns, managers and testcases are overwritten.                    *)
UpdateDataset(old, new) == new

UpdateColumns(old, version) == [old EXCEPT !.version = version]

UpdateListWithKey(old, new, preserve_old) ==
    [k \in DOMAIN new \cup (IF preserve_old THEN DOMAIN old ELSE {}) |->
        CASE k \in DOMAIN new \cap DOMAIN old -> UpdateDataset(old[k], new[k])
          [] k \in DOMAIN new \ DOMAIN old -> new[k]
          [] OTHER -> old[k]]

(* The loader makes one dataset.                                           *)
LoadedDatasets(version) == [d \in {"default"} |-> version]

(* num, contest and active dataset stay as they are.                       *)
UpdateTask(task, version) ==
    [UpdateColumns(task, version) EXCEPT
        !.datasets = UpdateListWithKey(@, LoadedDatasets(version), TRUE)]

NewTask(version) ==
    [NotImported EXCEPT !.version = version, !.datasets = LoadedDatasets(version)]

-----------------------------------------------------------------------------

Running(kind) == script.kind = kind

Begin ==
    /\ script = NoScript /\ imports < MaxImports
    /\ imports' = imports + 1
    /\ UNCHANGED <<files, broken, listing, edits>>

(* An error, or a signal: no changes were made in the database.            *)
Abort == script' = NoScript /\ succeeded' = FALSE /\ UNCHANGED database

CommitImport(db) == script' = NoScript /\ succeeded' = TRUE /\ database' = db

Kill ==
    /\ script # NoScript /\ Abort
    /\ UNCHANGED <<files, broken, listing, unread, failed, edits, imports>>

(* Mutation: tasks that are no longer listed stay in the contest.          *)
DetachedNever(db) == db

Detached(db) ==
    [db EXCEPT !.tasks = [t \in ImportedTasks |->
        IF @[t].contest = "here" THEN [@[t] EXCEPT !.contest = "none"] ELSE @[t]]]

(* ContestImporter.do_import up to the first task.                         *)
ImportContest(update_contest, update_tasks, import_tasks, delete_stale) ==
    /\ Begin
    /\ GetContest
    /\ IF database.contest > 0 /\ ~update_contest /\ ~update_tasks
       THEN Abort
       ELSE LET updated == \/ database.contest = 0
                           \/ update_contest /\ ContestHasChanged
            IN  /\ script' =
                     [kind |-> "contest", update |-> update_tasks, import |-> import_tasks,
                      delete_stale |-> delete_stale, num |-> 0,
                      tasks |-> listing.tasks, users |-> listing.users,
                      db |-> Detached([database EXCEPT
                                 !.contest = IF updated THEN listing.version ELSE @])]
                /\ UNCHANGED <<database, succeeded>>

(* _task_to_db.                                                            *)
Tied(task) ==
    IF task.contest = "elsewhere" THEN Abort
    ELSE /\ script' = [script EXCEPT
                !.db.tasks[script.tasks[script.num + 1]] =
                    [task EXCEPT !.contest = "here", !.num = script.num],
                !.num = @ + 1]
         /\ UNCHANGED <<database, succeeded>>

TaskToDb ==
    /\ Running("contest") /\ script.num < Len(script.tasks)
    /\ LET t == script.tasks[script.num + 1]
           task == script.db.tasks[t]
       IN  \/ /\ task.version = 0 /\ ~script.import
              /\ NoLoading /\ Abort
           \/ /\ task.version = 0 /\ script.import
              /\ GetTask(t)
              /\ IF t \in broken THEN Abort ELSE Tied(NewTask(files[t]))
           \/ /\ task.version > 0 /\ RefusesToRetry(t)
              /\ NoLoading /\ Abort
           \/ /\ task.version > 0 /\ ~RefusesToRetry(t)
              /\ ~(HasChanged(t) /\ script.update)
              /\ NoLoading /\ Tied(task)
           \/ /\ task.version > 0 /\ HasChanged(t) /\ script.update
              /\ GetTask(t)
              /\ IF t \in broken THEN Abort ELSE Tied(UpdateTask(task, files[t]))
    /\ UNCHANGED <<files, broken, listing, edits, imports>>

Stale(db) == IF script.delete_stale THEN db.participations \ script.users ELSE {}

(* The participations, and the commit.                                     *)
FinishContest ==
    /\ Running("contest") /\ script.num = Len(script.tasks)
    /\ IF script.users \subseteq script.db.users
       THEN CommitImport([script.db EXCEPT
                !.participations = (@ \ Stale(script.db)) \cup script.users])
       ELSE Abort
    /\ UNCHANGED <<files, broken, listing, unread, failed, edits, imports>>

(* TaskImporter.do_import: the loader, and then the database.              *)
ImportTask(t, update, tied) ==
    /\ Begin
    /\ IF update /\ RefusesToRetry(t) THEN NoLoading /\ Abort
       ELSE /\ GetTask(t)
            /\ IF t \in broken THEN Abort
               ELSE /\ script' = [kind |-> "task", task |-> t, update |-> update,
                                  changed |-> update /\ HasChanged(t),
                                  tied |-> tied, version |-> files[t]]
                    /\ UNCHANGED <<database, succeeded>>

StoreTask ==
    /\ Running("task")
    /\ LET t == script.task
           task == database.tasks[t]
           here == {u \in ImportedTasks : database.tasks[u].contest = "here"}
           added == IF script.tied
                    THEN [NewTask(script.version) EXCEPT !.contest = "here",
                                                         !.num = Cardinality(here)]
                    ELSE NewTask(script.version)
       IN  IF \/ script.tied /\ database.contest = 0
              \/ task.version > 0 /\ ~script.update
              \/ task.version > 0 /\ script.tied /\ task.contest # "here"
           THEN Abort
           ELSE CommitImport([database EXCEPT !.tasks[t] =
                    CASE task.version = 0 -> added
                      [] task.version > 0 /\ script.changed -> UpdateTask(task, script.version)
                      [] OTHER -> task])
    /\ UNCHANGED <<files, broken, listing, unread, failed, edits, imports>>

(* DatasetImporter.do_import.                                              *)
ImportDataset(t) ==
    /\ Begin
    /\ GetTask(t)
    /\ IF t \in broken THEN Abort
       ELSE /\ script' = [kind |-> "dataset", task |-> t, version |-> files[t]]
            /\ UNCHANGED <<database, succeeded>>

StoreDataset ==
    /\ Running("dataset")
    /\ LET task == database.tasks[script.task]
       IN  IF task.version = 0 \/ "imported" \in DOMAIN task.datasets THEN Abort
           ELSE CommitImport([database EXCEPT !.tasks[script.task].datasets =
                    [d \in DOMAIN @ \cup {"imported"} |->
                        IF d = "imported" THEN script.version ELSE @[d]]])
    /\ UNCHANGED <<files, broken, listing, unread, failed, edits, imports>>

(* UserImporter.do_import: only a new user gets a participation.           *)
ImportUser(u, tied) ==
    /\ Begin
    /\ u \notin database.users /\ (tied => database.contest > 0)
    /\ CommitImport([database EXCEPT
            !.users = @ \cup {u},
            !.participations = IF tied THEN @ \cup {u} ELSE @])
    /\ NoLoading

ImportNext ==
    \/ Edit \/ Kill \/ TaskToDb \/ FinishContest \/ StoreTask \/ StoreDataset
    \/ \E uc, ut, it, ds \in BOOLEAN : ImportContest(uc, ut, it, ds)
    \/ \E t \in ImportedTasks :
          \/ TieElsewhere(t) \/ ImportDataset(t)
          \/ \E update, tied \in BOOLEAN : ImportTask(t, update, tied)
    \/ \E u \in ImportedUsers, tied \in BOOLEAN : ImportUser(u, tied)

ImportSpec == ImportInit /\ [][ImportNext]_importVars

-----------------------------------------------------------------------------
InContest(db) == {t \in ImportedTasks : db.tasks[t].contest = "here"}

(* Once a contest is imported its tasks are the listed ones, in the order  *)
(* of the listing, whatever was in it before and however often the import  *)
(* was interrupted; and the tasks of a contest are always numbered from 0  *)
(* without gaps.                                                           *)
ContestAsListed ==
    [][/\ (Running("contest") /\ database' # database) =>
              /\ InContest(database') = Range(script.tasks)
              /\ \A i \in DOMAIN script.tasks :
                    database'.tasks[script.tasks[i]].num = i - 1
       /\ {database'.tasks[t].num : t \in InContest(database')}
          = 0 .. (Cardinality(InContest(database')) - 1)]_importVars

(* No import deletes the datasets of a task, which the submissions were    *)
(* judged on, or the participations of users that are not listed, unless   *)
(* told to ("will be retained, this to avoid deleting submissions").       *)
NothingDeleted ==
    [][/\ \A t \in ImportedTasks :
             DOMAIN database.tasks[t].datasets \subseteq DOMAIN database'.tasks[t].datasets
       /\ database.participations \subseteq database'.participations
             \/ (Running("contest") /\ script.delete_stale)]_importVars

(* An update of a task that succeeds leaves in the database what is in the *)
(* files ("already exists in database. Use --update to update it.").       *)
UpdateAsTold ==
    [][(Running("task") /\ script.update /\ script' = NoScript /\ succeeded') =>
          database'.tasks[script.task].version = script.version]_importVars

(* Both, for every order of edits, imports and failures.                   *)
ImportsSound == ContestAsListed /\ NothingDeleted
=============================================================================
