------------------------------- MODULE MCData -------------------------------
(* What is stored, side by side: the database behind AdminWebServer and    *)
(* the scripts, the importers, and the file storage. One of them runs in a *)
(* behaviour and the others stay as they are.                              *)
EXTENDS AdminServer, Importers, FileCacher, TLC

VARIABLE component

vars == <<component, adminVars, importVars, cacherVars>>

-----------------------------------------------------------------------------
(* A contest in which everything has happened once, and rows to add.       *)
Id(x) == <<x>>

Row(table, id, ref, digests) ==
    [table |-> table, id |-> Id(id), ref |-> ref, digests |-> digests,
     num |-> Null, data |-> 0]

TaskRow(id, contest, num, active) ==
    [Row("Task", id, [contest |-> contest, active_dataset |-> active], {})
        EXCEPT !.num = num]

ParticipationRow(id, user, team) ==
    Row("Participation", id,
        [contest |-> Id("c1"), user |-> Id(user), team |-> team], {})

SubmissionRows(s, p, f) ==
    {Row("Submission", s, [participation |-> Id(p), task |-> Id("t1")], {}),
     Row("File", f, [submission |-> Id(s)], {f})}

JudgedRows ==
    {Row("SubmissionResult", "r1", [submission |-> Id("s1"), dataset |-> Id("d1")], {}),
     Row("Executable", "ex", [submission |-> Id("s1"), dataset |-> Id("d1"),
                              submission_result |-> Id("r1")], {"ex"}),
     Row("Evaluation", "ev", [submission |-> Id("s1"), dataset |-> Id("d1"),
                              submission_result |-> Id("r1"),
                              testcase |-> Id("tc")], {})}

UserTestRows ==
    {Row("UserTest", "ut", [participation |-> Id("p1"), task |-> Id("t1")], {"ut"}),
     Row("UserTestFile", "uf", [user_test |-> Id("ut")], {"uf"}),
     Row("UserTestManager", "um", [user_test |-> Id("ut")], {"um"}),
     Row("UserTestResult", "ur", [user_test |-> Id("ut"), dataset |-> Id("d1")], {"ur"}),
     Row("UserTestExecutable", "ux", [user_test |-> Id("ut"), dataset |-> Id("d1"),
                                      user_test_result |-> Id("ur")], {"ux"})}

MatchRows ==
    {Row("Batch", "b1", [task |-> Id("t1")], {}),
     Row("Match", "m", [submission1 |-> Id("s1"), submission2 |-> Id("s2"),
                        task |-> Id("t1"), batch_eval |-> Id("b1"),
                        testcase |-> Id("tc")], {}),
     Row("MatchResult", "mr", [match |-> Id("m"), dataset |-> Id("d1")], {}),
     Row("Matching", "mi", [match |-> Id("m"), dataset |-> Id("d1"),
                            result |-> Id("mr"), testcase |-> Id("tc")], {})}

SomeRows ==
    {Row("Contest", "c1", <<>>, {}), Row("Admin", "a1", <<>>, {}),
     Row("User", "u1", <<>>, {}), Row("User", "u2", <<>>, {}),
     Row("Team", "m1", <<>>, {}),
     ParticipationRow("p1", "u1", Id("m1")), ParticipationRow("p2", "u2", Null),
     TaskRow("t1", Id("c1"), 0, Id("d1")), TaskRow("t2", Id("c1"), 1, Id("d2")),
     TaskRow("t3", Id("c1"), 2, Id("d3")),
     Row("Dataset", "d1", [task |-> Id("t1")], {}),
     Row("Dataset", "d2", [task |-> Id("t2")], {}),
     Row("Dataset", "d3", [task |-> Id("t3")], {}),
     Row("Dataset", "d4", [task |-> Id("t1")], {}),
     Row("Testcase", "tc", [dataset |-> Id("d1")], {"tc"}),
     Row("Manager", "mg", [dataset |-> Id("d1")], {"mg"}),
     Row("Statement", "st", [task |-> Id("t1")], {"st"}),
     Row("Token", "tk", [submission |-> Id("s1")], {}),
     Row("Question", "q1", [participation |-> Id("p1"), admin |-> Null], {}),
     Row("PrintJob", "pj", [participation |-> Id("p2")], {"pj"}),
     Row("Announcement", "an", [contest |-> Id("c1"), admin |-> Id("a1")], {})}
    \cup SubmissionRows("s1", "p1", "f1") \cup SubmissionRows("s2", "p2", "f2")
    \cup JudgedRows \cup UserTestRows \cup MatchRows

Databases == {{}, SomeRows}

MoreRows ==
    {Row("Contest", "c2", <<>>, {}), TaskRow("t4", Null, Null, Null),
     Row("Dataset", "d5", [task |-> Id("t1")], {}),
     Row("Attachment", "at", [task |-> Id("t1")], {"at"}),
     Row("Statement", "st", [task |-> Id("t1")], {"st2"}),
     Row("Manager", "mh", [dataset |-> Id("d1")], {"mh"}),
     Row("Testcase", "tc", [dataset |-> Id("d1")], {"tc2"}),
     Row("User", "u3", <<>>, {}), Row("Team", "m2", <<>>, {}),
     Row("Admin", "a2", <<>>, {}),
     ParticipationRow("p3", "u3", Null),
     Row("Message", "ms", [participation |-> Id("p2"), admin |-> Id("a1")], {}),
     Row("Announcement", "ao", [contest |-> Id("c1"), admin |-> Id("a1")], {})}
    \cup SubmissionRows("s3", "p1", "f3")

(* The order of the tasks' primary keys, and the contest that is ranked.   *)
Titles == Id("t1") :> 2 @@ Id("t2") :> 1 @@ Id("t3") :> 3 @@ Id("t4") :> 4
RankedContest == Id("c1")

-----------------------------------------------------------------------------
Init ==
    /\ component \in {"admin", "imports", "files"}
    /\ AdminInit
    /\ component # "admin" => rows = {}
    /\ ImportInit
    /\ component # "imports" => listing.tasks = <<>>
    /\ CacherInit

Next ==
    \/ /\ component = "admin" /\ AdminNext
       /\ UNCHANGED <<component, importVars, cacherVars>>
    \/ /\ component = "imports" /\ ImportNext
       /\ UNCHANGED <<component, adminVars, cacherVars>>
    \/ /\ component = "files" /\ CacherNext
       /\ UNCHANGED <<component, adminVars, importVars>>

Spec == Init /\ [][Next]_vars
=============================================================================
