------------------------------- MODULE Schema -------------------------------
(* The tables of the database, src/cms/db: for each class its foreign keys, *)
(* with what the deletion of the row referred to does, and the collections  *)
(* of other rows that the class offers as relationships.  Descriptive       *)
(* columns are left out.  On these: what deleting a row removes, which      *)
(* files the rows refer to, and what a dump of the database contains.       *)
(*                                                                         *)
(* A row is a record [table, id, ref, digests, num, data]: ref gives, for   *)
(* each foreign key, the id of the row referred to or Null, digests is the  *)
(* set of its files, num its position (tasks) and data all the rest.        *)
EXTENDS Integers, Sequences, FiniteSets

CONSTANT Null

(* A foreign key: the column, the table referred to, ondelete, and whether  *)
(* all columns of the constraint may be NULL ("NULL" or "NOT_NULL").        *)
Key(column, table, ondelete, null) ==
    [column |-> column, table |-> table, ondelete |-> ondelete, null |-> null]

(* The usual one: the row belongs to the other and goes with it.           *)
Part(column, table) == Key(column, table, "CASCADE", "NOT_NULL")

Table(keys, collections) == [keys |-> keys, collections |-> collections]

-----------------------------------------------------------------------------
(* The tables.                                                              *)

Admin == Table({}, {})

Contest == Table({}, {"Task", "Announcement", "Participation"})

Announcement ==
    Table({Part("contest", "Contest"),
           Key("admin", "Admin", "SET_NULL", "NULL")}, {})

User == Table({}, {"Participation"})

Team == Table({}, {"Participation"})

Participation ==
    Table({Part("contest", "Contest"), Part("user", "User"),
           Key("team", "Team", "RESTRICT", "NULL")},
          {"Message", "Question", "Submission", "UserTest", "PrintJob"})

Message ==
    Table({Part("participation", "Participation"),
           Key("admin", "Admin", "SET_NULL", "NULL")}, {})

Question ==
    Table({Part("participation", "Participation"),
           Key("admin", "Admin", "SET_NULL", "NULL")}, {})

PrintJob == Table({Part("participation", "Participation")}, {})

(* The constraint of active_dataset includes the task's own id, which can   *)
(* not be NULL.                                                             *)
Task ==
    Table({Key("contest", "Contest", "CASCADE", "NULL"),
           Key("active_dataset", "Dataset", "SET_NULL", "NOT_NULL")},
          {"Statement", "Attachment", "Dataset", "Submission", "UserTest"})

Statement == Table({Part("task", "Task")}, {})

Attachment == Table({Part("task", "Task")}, {})

Dataset == Table({Part("task", "Task")}, {"Manager", "Testcase"})

Manager == Table({Part("dataset", "Dataset")}, {})

Testcase == Table({Part("dataset", "Dataset")}, {})

Submission ==
    Table({Part("participation", "Participation"), Part("task", "Task")},
          {"File", "Token", "SubmissionResult"})

File == Table({Part("submission", "Submission")}, {})

Token == Table({Part("submission", "Submission")}, {})

SubmissionResult ==
    Table({Part("submission", "Submission"), Part("dataset", "Dataset")},
          {"Executable", "Evaluation"})

Executable ==
    Table({Part("submission", "Submission"), Part("dataset", "Dataset"),
           Part("submission_result", "SubmissionResult")}, {})

Evaluation ==
    Table({Part("submission", "Submission"), Part("dataset", "Dataset"),
           Part("submission_result", "SubmissionResult"),
           Part("testcase", "Testcase")}, {})

UserTest ==
    Table({Part("participation", "Participation"), Part("task", "Task")},
          {"UserTestFile", "UserTestManager", "UserTestResult"})

UserTestFile == Table({Part("user_test", "UserTest")}, {})

UserTestManager == Table({Part("user_test", "UserTest")}, {})

UserTestResult ==
    Table({Part("user_test", "UserTest"), Part("dataset", "Dataset")},
          {"UserTestExecutable"})

UserTestExecutable ==
    Table({Part("user_test", "UserTest"), Part("dataset", "Dataset"),
           Part("user_test_result", "UserTestResult")}, {})

Batch == Table({Part("task", "Task")}, {"Match"})

Match ==
    Table({Part("submission1", "Submission"),
           Part("submission2", "Submission"), Part("task", "Task"),
           Key("batch_eval", "Batch", "CASCADE", "NULL"),
           Key("testcase", "Testcase", "CASCADE", "NULL")},
          {"MatchResult"})

MatchResult ==
    Table({Part("match", "Match"), Part("dataset", "Dataset")}, {"Matching"})

Matching ==
    Table({Part("match", "Match"), Part("dataset", "Dataset"),
           Part("result", "MatchResult"), Part("testcase", "Testcase")}, {})

Tables ==
    [Admin |-> Admin, Contest |-> Contest, Announcement |-> Announcement,
     User |-> User, Team |-> Team, Participation |-> Participation,
     Message |-> Message, Question |-> Question, PrintJob |-> PrintJob,
     Task |-> Task, Statement |-> Statement, Attachment |-> Attachment,
     Dataset |-> Dataset, Manager |-> Manager, Testcase |-> Testcase,
     Submission |-> Submission, File |-> File, Token |-> Token,
     SubmissionResult |-> SubmissionResult, Executable |-> Executable,
     Evaluation |-> Evaluation, UserTest |-> UserTest,
     UserTestFile |-> UserTestFile, UserTestManager |-> UserTestManager,
     UserTestResult |-> UserTestResult,
     UserTestExecutable |-> UserTestExecutable, Batch |-> Batch,
     Match |-> Match, MatchResult |-> MatchResult, Matching |-> Matching]

-----------------------------------------------------------------------------
(* Rows and what they refer to.                                             *)

Keys(r) == Tables[r.table].keys

Refers(r, k, q) == q.table = k.table /\ r.ref[k.column] = q.id

(* The rows of `rows` that belong to q's collections.                       *)
Collected(rows, q) ==
    {r \in rows : /\ r.table \in Tables[q.table].collections
                  /\ \E k \in Keys(r) : Refers(r, k, q)}

(* The rows reached from start, when r leads to the rows leads[r]: no path  *)
(* is longer than Longest.                                                  *)
Longest == 7

Closure(leads, start) ==
    LET after[n \in 0..Longest] ==
            IF n = 0 THEN start
            ELSE LET before == after[n - 1]
                 IN before \cup UNION {leads[q] : q \in before}
    IN after[Longest]

Get(rows, table) == {r \in rows : r.table = table}

(* Every reference of a row of rows is to a row of rows.                    *)
ReferencesHold(rows) ==
    \A r \in rows : \A k \in Keys(r) :
        \/ r.ref[k.column] = Null /\ (k.null = "NULL" \/ k.ondelete = "SET_NULL")
        \/ \E q \in rows : Refers(r, k, q)

-----------------------------------------------------------------------------
(* What the columns and constraints of the tables, and the services that    *)
(* write to them, make of a database.                                       *)

(* The tables with columns for digests.                                     *)
FileTables == {"Statement", "Attachment", "Manager", "Testcase", "File", "Executable",
               "UserTest", "UserTestFile", "UserTestManager", "UserTestResult",
               "UserTestExecutable", "PrintJob"}

IsRow(r) ==
    /\ r = [f \in {"table", "id", "ref", "digests", "num", "data"} |-> r[f]]
    /\ r.table \in DOMAIN Tables
    /\ r.id \in Seq(STRING)
    /\ r.ref = [c \in {k.column : k \in Keys(r)} |-> r.ref[c]]
    /\ r.digests # {} => r.table \in FileTables

UniqueIds(rows) ==
    \A r, q \in rows : r.table = q.table /\ r.id = q.id => r = q

(* A task has an active dataset, one of its own.                            *)
ActiveDatasets(rows) ==
    \A t \in Get(rows, "Task") :
        /\ t.ref.active_dataset # Null
        /\ \E d \in Get(rows, "Dataset") :
               d.id = t.ref.active_dataset /\ d.ref.task = t.id

(* An evaluation is on a testcase of the dataset its result is for.         *)
EvaluationsFit(rows) ==
    \A e \in Get(rows, "Evaluation") :
        /\ \E t \in Get(rows, "Testcase") :
               t.id = e.ref.testcase /\ t.ref.dataset = e.ref.dataset
        /\ \E r \in Get(rows, "SubmissionResult") :
               r.id = e.ref.submission_result /\ r.ref.dataset = e.ref.dataset

IsConsistent(rows) ==
    /\ \A r \in rows : IsRow(r)
    /\ IsFiniteSet(Get(rows, "Task"))
    /\ UniqueIds(rows)
    /\ ReferencesHold(rows)
    /\ ActiveDatasets(rows)
    /\ EvaluationsFit(rows)

TasksIn(rows, c) == {t \in Get(rows, "Task") : t.ref.contest = c}

(* A task has a number when it is in a contest.                             *)
NumsGiven(rows) ==
    \A t \in Get(rows, "Task") :
        IF t.ref.contest = Null THEN t.num = Null ELSE t.num \in Int

(* No two tasks of a contest have the same number.                          *)
NumsDiffer(rows) ==
    \A t, u \in Get(rows, "Task") :
        t # u /\ t.ref.contest = u.ref.contest /\ t.ref.contest # Null
        => t.num # u.num \/ t.num = Null

NumsInOrder(rows) ==
    \A c \in Get(rows, "Contest") :
        {t.num : t \in TasksIn(rows, c.id)}
            = 0..(Cardinality(TasksIn(rows, c.id)) - 1)

-----------------------------------------------------------------------------
(* Deleting rows: the database deletes what refers to them by a key with    *)
(* CASCADE, clears the keys with SET NULL, and refuses if a row that stays  *)
(* refers by RESTRICT or has a key that cannot be cleared.                  *)

Owned(rows, q) ==
    {r \in rows : \E k \in Keys(r) : k.ondelete = "CASCADE" /\ Refers(r, k, q)}

Doomed(rows, deleted) == Closure([q \in rows |-> Owned(rows, q)], deleted)

Refused(rows, deleted) ==
    LET gone == Doomed(rows, deleted)
    IN \E r \in rows \ gone : \E k \in Keys(r), q \in gone :
           /\ Refers(r, k, q)
           /\ k.ondelete = "RESTRICT" \/ k.null = "NOT_NULL"

Deleted(rows, deleted) ==
    LET gone == Doomed(rows, deleted)
        Cleared(r) ==
            [c \in DOMAIN r.ref |->
                IF \E k \in Keys(r), q \in gone :
                       k.column = c /\ Refers(r, k, q)
                THEN Null ELSE r.ref[c]]
    IN {[r EXCEPT !.ref = Cleared(r)] : r \in rows \ gone}

(* What a transaction that deletes these rows leaves.                       *)
AfterDelete(rows, deleted) ==
    IF Refused(rows, deleted) THEN rows ELSE Deleted(rows, deleted)

-----------------------------------------------------------------------------
(* enumerate_files: the files that the tasks of contests, what was sent for *)
(* them, and the print jobs refer to.  skip holds the options of the dumps. *)

SkippedBy(option) ==
    CASE option = "submissions" -> {"Submission"}
      [] option = "user_tests" -> {"UserTest"}
      [] option = "users" -> {"Participation", "Submission", "UserTest",
                              "Announcement"}
      [] option = "print_jobs" -> {"PrintJob"}
      [] option = "generated" -> {"SubmissionResult", "UserTestResult"}

Skipped(skip) == UNION {SkippedBy(option) : option \in skip}

(* The rows in the collections of `start`, and in theirs.                   *)
Below(rows, start, without) ==
    Closure([q \in rows |-> {r \in Collected(rows, q) : r.table \notin without}],
            start)

FilesOf(rows) == UNION {r.digests : r \in rows}

EnumerateFiles(rows, skip) ==
    LET inContest == {t \in Get(rows, "Task") : t.ref.contest # Null}
    IN FilesOf(Below(rows, inContest, Skipped(skip)))
       \cup FilesOf({p \in Get(rows, "PrintJob") :
                        skip \cap {"print_jobs", "users"} = {}})

=============================================================================
