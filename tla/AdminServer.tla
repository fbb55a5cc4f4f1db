---------------------------- MODULE AdminServer -----------------------------
(* AdminWebServer and the scripts of cmscontrib, as operations on the        *)
(* database and on the store of files.                                      *)
(* src/cms/server/admin/handlers, src/cmscontrib                            *)
(*                                                                         *)
(* A handler is one transaction and one step, but for those that store a    *)
(* file between two sessions.  What a browser asks for comes from a page     *)
(* that may be outdated: any object may be named.  An object that is gone is *)
(* answered with 404 and changes nothing, so such requests are left out.     *)
EXTENDS Schema

CONSTANTS
    Initial,        \* the databases at the beginning: sets of rows
    Addable,        \* the rows that may be added
    Order,          \* the order of the tasks' primary keys
    Ranked,         \* the contest ProxyService is for
    Options,        \* the parts that a dump can skip
    Careful,        \* whether cmsCleanFiles runs only when it is safe to
    MaxRequests     \* bound on the requests and scripts

(* A task is created in no contest; a key is never NULL.  (The names that    *)
(* the handlers make are strings, which the provers have to be told.)       *)
ASSUME AdminAssumption ==
    /\ Null \notin Int /\ Null \notin Seq(STRING)
    /\ "Default" \in STRING /\ "copy" \in STRING
    /\ \A db \in Initial : /\ IsConsistent(db)
                           /\ NumsGiven(db) /\ NumsDiffer(db) /\ NumsInOrder(db)
    /\ \A r \in Addable : IsRow(r)
    /\ \A t \in Get(Addable, "Task") : t.ref.contest = Null /\ t.num = Null
    /\ UniqueIds(Get(Addable, "Message")) /\ UniqueIds(Get(Addable, "File"))
    /\ Options \subseteq {"submissions", "user_tests", "users", "print_jobs",
                           "generated"}

VARIABLES
    rows,           \* the database
    store,          \* the digests in the file store
    uploads,        \* sets of rows to be added once their files are stored
    orphans,        \* what a running cmsCleanFiles is about to delete
    told,           \* what ProxyService saw when it was last told to look
    untold,         \* whether something changed the database behind its back
    stale,          \* whether an outdated page was used to move a task
    dumped,         \* <<>>, or the database before its dump replaced it and
                    \* what was skipped
    requests        \* how many requests there were

adminVars == <<rows, store, uploads, orphans, told, untold, stale, dumped,
               requests>>

-----------------------------------------------------------------------------
(* cmsDumpExporter and cmsDumpImporter: which rows a dump contains, and what *)
(* importing it creates.                                                    *)

(* The objects the export starts from when no contest is named.             *)
Roots(db, skip) ==
    Get(db, "Contest")
    \cup {u \in Get(db, "User") : "users" \notin skip}
    \cup {t \in Get(db, "Task") : t.ref.contest = Null}

(* Without the relationships that lead to owners.                           *)
RelatedDown(db, r) == Collected(db, r)

(* The objects at the other end of an object's relationships.               *)
Related(db, r) ==
    {q \in db : \E k \in Keys(r) : Refers(r, k, q)} \cup Collected(db, r)

(* export_object and its queue: everything reached from the roots, without  *)
(* following the relationships that lead to the classes skipped.            *)
ExportedObjects(db, skip) ==
    Closure([r \in db |-> {q \in Related(db, r) : q.table \notin Skipped(skip)}],
            Roots(db, skip))

(* The importer drops the objects of the classes it is to skip, users too.  *)
DroppedClasses(skip) ==
    Skipped(skip) \cup (IF "users" \in skip THEN {"User"} ELSE {})

(* The others are added with whatever the roots lead to; a relationship to  *)
(* an object that is not there is None.                                     *)
ImportedObjects(objects, roots, skip) ==
    LET kept == {r \in objects : r.table \notin DroppedClasses(skip)}
        added == Closure([r \in kept |-> Related(kept, r)], roots \cap kept)
        Present(r) ==
            [c \in DOMAIN r.ref |->
                IF \E k \in Keys(r), q \in kept :
                       k.column = c /\ Refers(r, k, q)
                THEN r.ref[c] ELSE Null]
    IN {[r EXCEPT !.ref = Present(r)] : r \in added}

(* Whether the database takes them.                                         *)
Importable(objects) == ReferencesHold(objects)

(* The rows no relationship leads to: the matches, and the administrators   *)
(* and teams nobody refers to.                                              *)
Unreachable(db) ==
    {r \in db :
        \/ r.table \in {"Batch", "Match", "MatchResult", "Matching"}
        \/ /\ r.table \in {"Admin", "Team"}
           /\ ~\E q \in db : \E k \in Keys(q) : Refers(q, k, r)}

-----------------------------------------------------------------------------
(* What ProxyService.initialize reads: the contest, its participations with  *)
(* users and teams, its tasks with the active dataset and its testcases.    *)
View(db) ==
    LET tasks == {t \in Get(db, "Task") : t.ref.contest = Ranked}
        participations ==
            {p \in Get(db, "Participation") : p.ref.contest = Ranked}
        active == {t.ref.active_dataset : t \in tasks}
    IN {c \in Get(db, "Contest") : c.id = Ranked}
       \cup tasks \cup participations
       \cup {u \in Get(db, "User") :
                \E p \in participations : p.ref.user = u.id}
       \cup {m \in Get(db, "Team") :
                \E p \in participations : p.ref.team = m.id}
       \cup {[d EXCEPT !.num = Null] :
                d \in {x \in Get(db, "Dataset") : x.id \in active}}
       \cup {t \in Get(db, "Testcase") : t.ref.dataset \in active}

(* It raises when there is no contest or a task has no active dataset.      *)
Viewable(db) ==
    /\ \E c \in Get(db, "Contest") : c.id = Ranked
    /\ \A t \in Get(db, "Task") :
           t.ref.contest = Ranked => t.ref.active_dataset # Null

AdminInit ==
    /\ rows \in Initial
    /\ store = FilesOf(rows)
    /\ uploads = {}
    /\ orphans = Null
    /\ told = View(rows)
    /\ untold = FALSE
    /\ stale = FALSE
    /\ dumped = <<>>
    /\ requests = 0

(* A careful administrator lets cmsCleanFiles end before doing anything.    *)
Counted ==
    /\ dumped = <<>>
    /\ Careful => orphans = Null
    /\ requests < MaxRequests
    /\ requests' = requests + 1

(* proxy_service.reinitialize()                                             *)
Reinitialize(db) ==
    /\ told' = IF Viewable(db) THEN View(db) ELSE told
    /\ untold' = (untold /\ ~Viewable(db))

(* A handler that replaces the database by db, and tells ProxyService.      *)
Commit(db) ==
    /\ Counted
    /\ rows' = db
    /\ Reinitialize(db)
    /\ UNCHANGED <<store, uploads, orphans, dumped>>

(* One that tells nobody.                                                   *)
CommitQuietly(db) ==
    /\ Counted
    /\ rows' = db
    /\ UNCHANGED <<store, uploads, orphans, told, untold, dumped>>

(* A script: it tells nobody, whatever it changes.                          *)
Script(db) ==
    /\ Counted
    /\ rows' = db
    /\ untold' = (untold \/ View(db) # View(rows))
    /\ UNCHANGED <<store, uploads, orphans, told, stale, dumped>>

(* Adding rows: a row that is there already violates a unique constraint.   *)
Taken(db, new) == \E r \in new, q \in db : q.table = r.table /\ q.id = r.id

Insert(db, new) == IF Taken(db, new) THEN db ELSE db \cup new

(* The rows of a table that can be added: what they refer to is there.      *)
New(table) ==
    {r \in Get(Addable, table) : ReferencesHold(rows \cup {r})}

Replace(db, r, s) == (db \ {r}) \cup {s}

(* The descriptive columns of a row are changed.                            *)
Edited(r) == [r EXCEPT !.data = 1 - @]

-----------------------------------------------------------------------------
(* contest.py                                                               *)

AddContestHandler ==
    /\ \E c \in New("Contest") : Commit(Insert(rows, {c}))
    /\ UNCHANGED stale

ContestHandler ==
    /\ \E c \in Get(rows, "Contest") : Commit(Replace(rows, c, Edited(c)))
    /\ UNCHANGED stale

RemoveContestHandler ==
    /\ \E c \in Get(rows, "Contest") : Commit(AfterDelete(rows, {c}))
    /\ UNCHANGED stale

-----------------------------------------------------------------------------
(* contesttask.py: the tasks of a contest are numbered, and no two tasks of  *)
(* a contest have the same number.  An operation that would break this, or  *)
(* compares with the number of a task that has none, raises and is undone.  *)

IfAllowed(db) == IF NumsDiffer(db) THEN db ELSE rows

Numbered(t, n) == [t EXCEPT !.num = n]

Assigned(t, contest, n) == [t EXCEPT !.ref.contest = contest, !.num = n]

(* The tasks of a contest other than t, those of `which` moved by one.      *)
Shifted(db, c, t, which(_), by(_)) ==
    {IF r \in TasksIn(db, c) \ {t} /\ which(r) THEN Numbered(r, by(r.num))
     ELSE r : r \in db \ {t}}

Up(n) == n + 1
Down(n) == n - 1

(* Leaving the others where they are.                                       *)
RemoveFromContestOnly(c, t) ==
    IfAllowed(Replace(rows, t, Assigned(t, Null, Null)))

RemoveFromContest(c, t) ==
    LET After(r) == r.num > t.num
    IN IfAllowed(Shifted(rows, c, t, After, Down)
                 \cup {Assigned(t, Null, Null)})

MoveTop(c, t) ==
    LET Before(r) == r.num < t.num
    IN IfAllowed(Shifted(rows, c, t, Before, Up) \cup {Numbered(t, 0)})

MoveBottom(c, t) ==
    LET After(r) == r.num > t.num
    IN IfAllowed(Shifted(rows, c, t, After, Down)
                 \cup {Numbered(t, Cardinality(TasksIn(rows, c)) - 1)})

(* Up by 1 and down by 1: t changes places with the task next to it.        *)
Exchange(c, t, n) ==
    LET next == {r \in TasksIn(rows, c) : r.num = n}
    IN IF next = {} THEN rows
       ELSE IfAllowed(UNION {{Numbered(t, u.num), Numbered(u, t.num)}
                             \cup (rows \ {t, u}) : u \in next})

ContestTasksHandler ==
    \E c \in Get(rows, "Contest"), t \in Get(rows, "Task") :
        /\ t.num # Null
        /\ \E db \in {RemoveFromContest(c.id, t), MoveTop(c.id, t),
                      MoveBottom(c.id, t), Exchange(c.id, t, t.num - 1),
                      Exchange(c.id, t, t.num + 1)} : Commit(db)
        /\ stale' = (stale \/ t.ref.contest # c.id)

(* The page offers the tasks that are in no contest.                        *)
AddContestTaskHandler ==
    \E c \in Get(rows, "Contest"), t \in Get(rows, "Task") :
        /\ Commit(IfAllowed(Replace(rows, t,
                     Assigned(t, c.id, Cardinality(TasksIn(rows, c.id))))))
        /\ stale' = (stale \/ t.ref.contest # Null)

-----------------------------------------------------------------------------
(* task.py                                                                  *)

(* A new task, with its first dataset, which is active.                     *)
FirstDataset(t) ==
    [table |-> "Dataset", id |-> Append(t.id, "Default"),
     ref |-> [task |-> t.id], digests |-> {}, num |-> Null, data |-> 0]

AddTaskHandler ==
    /\ \E t \in Get(Addable, "Task") :
           Commit(Insert(rows,
               {[t EXCEPT !.ref.active_dataset = FirstDataset(t).id],
                FirstDataset(t)}))
    /\ UNCHANGED stale

(* The task and all its datasets; dataset_updated reinitializes if the task  *)
(* is in the contest of the rankings.                                       *)
TaskHandler ==
    /\ \E t \in Get(rows, "Task") :
           LET part == {t} \cup {d \in Get(rows, "Dataset") :
                                    d.ref.task = t.id}
               db == (rows \ part) \cup {Edited(r) : r \in part}
           IN IF t.ref.contest = Ranked THEN Commit(db) ELSE CommitQuietly(db)
    /\ UNCHANGED stale

(* Handlers that store a file between two sessions: the rows to be added     *)
(* wait in uploads until FinishUpload.                                      *)
Upload(new) ==
    /\ Counted
    /\ store' = store \cup FilesOf(new)
    /\ uploads' = uploads \cup {new}
    /\ UNCHANGED <<rows, orphans, told, untold, stale, dumped>>

AddStatementHandler == \E r \in New("Statement") : Upload({r})

AddAttachmentHandler == \E r \in New("Attachment") : Upload({r})

(* The second session: 404 if what the rows belong to is gone by then.      *)
FinishUpload ==
    \E new \in uploads :
        LET db == IF ReferencesHold(rows \cup new) THEN Insert(rows, new)
                  ELSE rows
        IN /\ dumped = <<>>
           /\ uploads' = uploads \ {new}
           /\ rows' = db
           /\ IF Get(new, "Testcase") # {} THEN Reinitialize(db)
              ELSE UNCHANGED <<told, untold>>
           /\ UNCHANGED <<store, orphans, stale, dumped, requests>>

StatementHandler ==
    /\ \E r \in Get(rows, "Statement") : CommitQuietly(AfterDelete(rows, {r}))
    /\ UNCHANGED stale

AttachmentHandler ==
    /\ \E r \in Get(rows, "Attachment") :
           CommitQuietly(AfterDelete(rows, {r}))
    /\ UNCHANGED stale

(* A dataset becomes active if the task has no active one.                  *)
MadeActive(db, d) ==
    {IF r.table = "Task" /\ r.id = d.ref.task /\ r.ref.active_dataset = Null
     THEN [r EXCEPT !.ref.active_dataset = d.id] ELSE r : r \in db}

AddDatasetHandler ==
    /\ \E d \in New("Dataset") :
           CommitQuietly(IF Taken(rows, {d}) THEN rows
                         ELSE MadeActive(rows \cup {d}, d))
    /\ UNCHANGED stale

(* The following tasks move up by one, in one flush that updates them in the *)
(* order of their primary keys: one that comes to the number of a task that  *)
(* has not moved yet is refused, and with it the removal.                   *)
Following(t) == {r \in TasksIn(rows, t.ref.contest) : r.num > t.num}

MovesCollide(t) ==
    \E r, q \in Following(t) : Order[r.id] < Order[q.id] /\ r.num - 1 = q.num

WithoutTask(t) ==
    IF Refused(rows, {t}) THEN rows
    ELSE IF t.ref.contest = Null THEN Deleted(rows, {t})
    ELSE IF MovesCollide(t) THEN rows
    ELSE {IF r \in Following(t) THEN Numbered(r, r.num - 1) ELSE r :
              r \in Deleted(rows, {t})}

RemoveTaskHandler ==
    /\ \E t \in Get(rows, "Task") : Commit(WithoutTask(t))
    /\ UNCHANGED stale

-----------------------------------------------------------------------------
(* dataset.py                                                               *)

(* clone_from: the testcases and managers of the dataset and, if asked for,  *)
(* the results on it with their executables and evaluations.                *)
Cloned(d, results) ==
    {r \in rows : /\ r.table \in {"Testcase", "Manager"}
                  /\ r.ref.dataset = d.id}
    \cup {r \in rows :
             /\ results
             /\ r.table \in {"SubmissionResult", "Executable", "Evaluation"}
             /\ r.ref.dataset = d.id}

(* The copies refer to each other as the originals do.                      *)
Copies(d, results) ==
    LET originals == Cloned(d, results) \cup {d}
        Copied(r, c) ==
            \E k \in Keys(r), q \in originals : k.column = c /\ Refers(r, k, q)
    IN {[r EXCEPT !.id = Append(@, "copy"), !.data = 0,
            !.ref = [c \in DOMAIN r.ref |->
                        IF Copied(r, c) THEN Append(r.ref[c], "copy")
                        ELSE r.ref[c]]] : r \in originals}

CloneDatasetHandler ==
    /\ \E d \in Get(rows, "Dataset"), results \in BOOLEAN :
           /\ Len(d.id) = 1
           /\ LET new == Copies(d, results)
              IN CommitQuietly(
                     IF Taken(rows, new) THEN rows
                     ELSE MadeActive(rows \cup new,
                              CHOOSE r \in new : r.table = "Dataset"))
    /\ UNCHANGED stale

DeleteDatasetHandler ==
    /\ \E d \in Get(rows, "Dataset") : CommitQuietly(AfterDelete(rows, {d}))
    /\ UNCHANGED stale

(* The dataset becomes active; then, in another transaction, messages are    *)
(* sent to the participations chosen on the page, if they are all there.    *)
ActivateDatasetHandler ==
    /\ \E d \in Get(rows, "Dataset"), m \in SUBSET Get(Addable, "Message") :
           LET t == CHOOSE r \in Get(rows, "Task") : r.id = d.ref.task
               db == Replace(rows, t, [t EXCEPT !.ref.active_dataset = d.id])
               sent == IF ReferencesHold(db \cup m) THEN Insert(db, m) ELSE db
           IN IF t.ref.contest = Ranked THEN Commit(sent)
              ELSE CommitQuietly(sent)
    /\ UNCHANGED stale

(* The dataset is judged automatically, or no longer (num is 1 if it is).    *)
ToggleAutojudgeDatasetHandler ==
    /\ \E d \in Get(rows, "Dataset") :
           CommitQuietly(Replace(rows, d,
               [d EXCEPT !.num = IF @ = Null THEN 1 ELSE Null]))
    /\ UNCHANGED stale

AddManagerHandler == \E r \in New("Manager") : Upload({r})

DeleteManagerHandler ==
    /\ \E r \in Get(rows, "Manager") : CommitQuietly(AfterDelete(rows, {r}))
    /\ UNCHANGED stale

AddTestcaseHandler == \E r \in New("Testcase") : Upload({r})

(* import_testcases_from_zipfile: an existing testcase is skipped or, if     *)
(* asked for, deleted first, in a transaction of its own; then reading or   *)
(* storing the new one may fail.                                            *)
ImportTestcase(r, overwrite, fails) ==
    LET old == {q \in Get(rows, "Testcase") : q.id = r.id}
        db == IF old # {} /\ overwrite THEN AfterDelete(rows, old) ELSE rows
    IN IF fails THEN db ELSE Insert(db, {r})

(* After a failure ProxyService is not told.                                *)
AddTestcasesHandler ==
    /\ \E r \in New("Testcase"), overwrite, fails \in BOOLEAN :
           LET db == ImportTestcase(r, overwrite, fails)
           IN /\ Counted
              /\ rows' = db
              /\ store' = IF fails THEN store ELSE store \cup r.digests
              /\ IF fails THEN /\ untold' = (untold \/ View(db) # View(rows))
                               /\ told' = told
                 ELSE Reinitialize(db)
    /\ UNCHANGED <<uploads, orphans, stale, dumped>>

DeleteTestcaseHandler ==
    /\ \E r \in Get(rows, "Testcase") : Commit(AfterDelete(rows, {r}))
    /\ UNCHANGED stale

-----------------------------------------------------------------------------
(* user.py and contestuser.py                                               *)

UserHandler ==
    /\ \E u \in Get(rows, "User") : Commit(Replace(rows, u, Edited(u)))
    /\ UNCHANGED stale

RemoveUserHandler ==
    /\ \E u \in Get(rows, "User") : Commit(AfterDelete(rows, {u}))
    /\ UNCHANGED stale

TeamHandler ==
    /\ \E m \in Get(rows, "Team") : Commit(Replace(rows, m, Edited(m)))
    /\ UNCHANGED stale

AddTeamHandler ==
    /\ \E m \in New("Team") : Commit(Insert(rows, {m}))
    /\ UNCHANGED stale

AddUserHandler ==
    /\ \E u \in New("User") : Commit(Insert(rows, {u}))
    /\ UNCHANGED stale

(* The same from the user's page and from the contest's.                    *)
AddParticipationHandler ==
    /\ \E p \in New("Participation") : Commit(Insert(rows, {p}))
    /\ UNCHANGED stale

AddContestUserHandler == AddParticipationHandler

RemoveParticipationHandler ==
    /\ \E p \in Get(rows, "Participation") : Commit(AfterDelete(rows, {p}))
    /\ UNCHANGED stale

EditParticipationHandler == RemoveParticipationHandler

(* The page of a participation sets its team too.                           *)
ParticipationHandler ==
    /\ \E p \in Get(rows, "Participation") :
          \E team \in {m.id : m \in Get(rows, "Team")} \cup {Null} :
             Commit(Replace(rows, p, [Edited(p) EXCEPT !.ref.team = team]))
    /\ UNCHANGED stale

MessageHandler ==
    /\ \E m \in New("Message") : CommitQuietly(Insert(rows, {m}))
    /\ UNCHANGED stale

-----------------------------------------------------------------------------
(* contestquestion.py, contestannouncement.py, admin.py                     *)

(* A reply, or ignoring the question (or no longer), makes the administrator  *)
(* its admin.  num is 1 if the question is ignored.                         *)
QuestionReplyHandler ==
    /\ \E q \in Get(rows, "Question"), a \in Get(rows, "Admin") :
           CommitQuietly(Replace(rows, q,
               [q EXCEPT !.data = 1, !.ref.admin = a.id]))
    /\ UNCHANGED stale

QuestionIgnoreHandler ==
    /\ \E q \in Get(rows, "Question"), a \in Get(rows, "Admin") :
           \E ignore \in {1, Null} :
              CommitQuietly(Replace(rows, q,
                  [q EXCEPT !.num = ignore, !.ref.admin = a.id]))
    /\ UNCHANGED stale

(* Claiming, or giving up, a question that has no reply and is not ignored. *)
QuestionClaimHandler ==
    /\ \E q \in Get(rows, "Question") :
          /\ q.data = 0 /\ q.num = Null
          /\ \E a \in {x.id : x \in Get(rows, "Admin")} \cup {Null} :
                CommitQuietly(Replace(rows, q, [q EXCEPT !.ref.admin = a]))
    /\ UNCHANGED stale

AddAnnouncementHandler ==
    /\ \E r \in New("Announcement") : CommitQuietly(Insert(rows, {r}))
    /\ UNCHANGED stale

AnnouncementHandler ==
    /\ \E r \in Get(rows, "Announcement") :
           CommitQuietly(AfterDelete(rows, {r}))
    /\ UNCHANGED stale

AddAdminHandler ==
    /\ \E a \in New("Admin") : CommitQuietly(Insert(rows, {a}))
    /\ UNCHANGED stale

(* An administrator who has no permission_all and edits their own account    *)
(* makes the handler raise: it deletes from the dictionary it iterates over. *)
AdminHandlerPost ==
    /\ \E a \in Get(rows, "Admin"), permission_all \in BOOLEAN :
           CommitQuietly(IF permission_all THEN Replace(rows, a, Edited(a))
                         ELSE rows)
    /\ UNCHANGED stale

AdminHandlerDelete ==
    /\ \E a \in Get(rows, "Admin") : CommitQuietly(AfterDelete(rows, {a}))
    /\ UNCHANGED stale

(* submission.py: the comment and the official status.                      *)
SubmissionOfficialStatusHandler ==
    /\ \E s \in Get(rows, "Submission") :
           CommitQuietly(Replace(rows, s, Edited(s)))
    /\ UNCHANGED stale

SubmissionCommentHandler == SubmissionOfficialStatusHandler

-----------------------------------------------------------------------------
(* cmscontrib: the scripts.                                                 *)

RemoveContestScript ==
    \E c \in Get(rows, "Contest") : Script(AfterDelete(rows, {c}))

RemoveTaskScript == \E t \in Get(rows, "Task") : Script(WithoutTask(t))

RemoveUserScript ==
    \E u \in Get(rows, "User") : Script(AfterDelete(rows, {u}))

RemoveParticipationScript ==
    \E p \in Get(rows, "Participation") : Script(AfterDelete(rows, {p}))

RemoveSubmissionsForUser ==
    \E p \in Get(rows, "Participation") :
        Script(AfterDelete(rows, {s \in Get(rows, "Submission") :
                                      s.ref.participation = p.id}))

RemoveSubmissionsForTask ==
    \E t \in Get(rows, "Task") :
        Script(AfterDelete(rows, {s \in Get(rows, "Submission") :
                                      s.ref.task = t.id}))

RemoveSubmission ==
    \E s \in Get(rows, "Submission") : Script(AfterDelete(rows, {s}))

AddUserScript == \E u \in New("User") : Script(Insert(rows, {u}))

AddTeamScript == \E m \in New("Team") : Script(Insert(rows, {m}))

AddAdminScript == \E a \in New("Admin") : Script(Insert(rows, {a}))

AddParticipationScript ==
    \E p \in New("Participation") : Script(Insert(rows, {p}))

(* The submission of a participation for a task of the same contest, with    *)
(* its files.                                                               *)
AddSubmissionScript ==
    \E s \in New("Submission") :
        Upload({s} \cup {f \in Get(Addable, "File") :
                            f.ref.submission = s.id})

(* An existing statement is deleted, if asked for, in a transaction of its   *)
(* own.                                                                     *)
AddStatementScript ==
    \E r \in New("Statement"), overwrite \in BOOLEAN :
        /\ Counted
        /\ store' = store \cup r.digests
        /\ rows' = LET old == {q \in Get(rows, "Statement") : q.id = r.id}
                   IN IF overwrite THEN (rows \ old) \cup {r}
                      ELSE Insert(rows, {r})
        /\ UNCHANGED <<uploads, orphans, told, untold, stale, dumped>>

AddTestcasesScript ==
    \E r \in New("Testcase"), overwrite, fails \in BOOLEAN :
        LET db == ImportTestcase(r, overwrite, fails)
        IN /\ Counted
           /\ rows' = db
           /\ store' = IF fails THEN store ELSE store \cup r.digests
           /\ untold' = (untold \/ View(db) # View(rows))
           /\ UNCHANGED <<uploads, orphans, told, stale, dumped>>

(* cmsCleanFiles: the files are listed, then the references enumerated, then *)
(* the files without reference deleted.                                     *)
SafeToClean ==
    uploads = {} /\ \A t \in Get(rows, "Task") : t.ref.contest # Null

(* Not counting the files of user tests as referred to.                     *)
CleanFilesStartNoTests ==
    /\ Counted
    /\ orphans = Null
    /\ Careful => SafeToClean
    /\ orphans' = store \ EnumerateFiles(rows, {"user_tests"})
    /\ UNCHANGED <<rows, store, uploads, told, untold, stale, dumped>>

CleanFilesStart ==
    /\ Counted
    /\ orphans = Null
    /\ Careful => SafeToClean
    /\ orphans' = store \ EnumerateFiles(rows, {})
    /\ UNCHANGED <<rows, store, uploads, told, untold, stale, dumped>>

CleanFilesEnd ==
    /\ orphans # Null
    /\ store' = store \ orphans
    /\ orphans' = Null
    /\ UNCHANGED <<rows, uploads, told, untold, stale, dumped, requests>>

(* cmsDumpExporter, then cmsDumpImporter into an empty database.            *)
ExportAndImport ==
    /\ Counted
    /\ orphans = Null
    /\ \E skip, dropped \in {{}} \cup {{o} : o \in Options} :
          /\ skip = {} \/ dropped = {}
          /\ LET new == ImportedObjects(ExportedObjects(rows, skip),
                                        Roots(rows, skip), dropped)
             IN rows' = IF Importable(new) THEN new ELSE {}
          /\ store' = EnumerateFiles(rows, skip \cup dropped)
          /\ dumped' = <<rows, skip \cup dropped>>
    /\ UNCHANGED <<uploads, orphans, told, untold, stale>>

-----------------------------------------------------------------------------

ContestPages == AddContestHandler \/ ContestHandler \/ RemoveContestHandler
                \/ ContestTasksHandler \/ AddContestTaskHandler

TaskPages == AddTaskHandler \/ TaskHandler \/ AddStatementHandler
             \/ AddAttachmentHandler \/ FinishUpload \/ StatementHandler
             \/ AttachmentHandler \/ AddDatasetHandler \/ RemoveTaskHandler

DatasetPages == CloneDatasetHandler \/ DeleteDatasetHandler
                \/ ActivateDatasetHandler \/ ToggleAutojudgeDatasetHandler
                \/ AddManagerHandler \/ DeleteManagerHandler
                \/ AddTestcaseHandler \/ AddTestcasesHandler
                \/ DeleteTestcaseHandler

UserPages == UserHandler \/ RemoveUserHandler \/ TeamHandler
             \/ AddTeamHandler \/ AddUserHandler \/ AddParticipationHandler
             \/ AddContestUserHandler \/ RemoveParticipationHandler
             \/ EditParticipationHandler \/ ParticipationHandler
             \/ MessageHandler

OtherPages == QuestionReplyHandler \/ QuestionIgnoreHandler
              \/ QuestionClaimHandler \/ AddAnnouncementHandler
              \/ AnnouncementHandler \/ AddAdminHandler \/ AdminHandlerPost
              \/ AdminHandlerDelete \/ SubmissionOfficialStatusHandler
              \/ SubmissionCommentHandler

Scripts == RemoveContestScript \/ RemoveTaskScript \/ RemoveUserScript
           \/ RemoveParticipationScript \/ RemoveSubmissionsForUser
           \/ RemoveSubmissionsForTask \/ RemoveSubmission \/ AddUserScript
           \/ AddTeamScript \/ AddAdminScript \/ AddParticipationScript
           \/ AddSubmissionScript \/ AddStatementScript
           \/ AddTestcasesScript \/ CleanFilesStart \/ CleanFilesEnd
           \/ ExportAndImport

AdminNext == ContestPages \/ TaskPages \/ DatasetPages \/ UserPages
             \/ OtherPages \/ Scripts

AdminSpec == AdminInit /\ [][AdminNext]_adminVars

-----------------------------------------------------------------------------
(* Properties.                                                              *)

(* The tasks of a contest are numbered from zero without gaps, whatever is   *)
(* added, moved or removed, as long as the pages that tasks are moved with   *)
(* are up to date ("Keeping the tasks' nums to the range 0... n - 1.").     *)
TaskNumsInOrder == stale \/ NumsInOrder(rows)

(* A task never loses its active dataset: deleting the active one, from a    *)
(* page that shows it as inactive, is refused.  ProxyService and the other   *)
(* services rely on there being one.                                        *)
ActiveDatasetKept ==
    [][dumped' = <<>> =>
       \A t \in Get(rows, "Task"), u \in Get(rows', "Task") :
           t.id = u.id /\ t.ref.active_dataset # Null
           => u.ref.active_dataset # Null]_adminVars

(* Whenever a page has changed what the rankings show of contest, users,     *)
(* teams, tasks and testcases, ProxyService was told to look again.         *)
RankingInformed ==
    untold \/ dumped # <<>> \/ ~Viewable(rows) \/ told = View(rows)

(* Nothing that AdminWebServer or a script removes is held back by a row     *)
(* that refers to it, but for the active dataset of a task.                 *)
RemovalsAllowed ==
    \A r \in rows :
        Refused(rows, {r}) =>
            \/ r.table = "Team"
            \/ /\ r.table = "Dataset"
               /\ \E t \in Get(rows, "Task") : t.ref.active_dataset = r.id

(* An evaluation is on a testcase of the dataset its result is for, also in  *)
(* a cloned dataset and after testcases were replaced.                      *)
EvaluationsOfDataset == EvaluationsFit(rows)

(* No operation, in any order, leaves a row that refers to one that is gone, *)
(* whether the database cascades, clears or refuses.                        *)
ReferencesKept == ReferencesHold(rows)

(* The files that the database refers to are in the store, whatever          *)
(* cmsCleanFiles removed ("removes unreferenced file objects").             *)
FilesStored ==
    dumped # <<>> \/ FilesOf(rows) \subseteq store

(* Exporting the database and importing the dump again gives back every row  *)
(* that does not belong to what was skipped, but for matches and for the     *)
(* administrators and teams that nothing refers to; and with them all their  *)
(* files, if every task is in a contest.                                    *)
DumpRestores ==
    dumped # <<>> =>
        LET db == dumped[1]
            skip == dumped[2]
            kept == Deleted(db, {r \in db : r.table \in DroppedClasses(skip)})
        IN /\ rows = kept \ Unreachable(kept)
           /\ (\A t \in Get(rows, "Task") : t.ref.contest # Null)
              => FilesOf(rows) \subseteq store

(* What the rows of the database promise each other, and the rankings, after *)
(* any requests in any order.                                               *)
DatabaseSound ==
    /\ [](/\ TaskNumsInOrder /\ RankingInformed /\ RemovalsAllowed
          /\ EvaluationsOfDataset /\ ReferencesKept)
    /\ ActiveDatasetKept
=============================================================================
