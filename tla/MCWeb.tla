------------------------------- MODULE MCWeb --------------------------------
(* The contest web server, side by side: what is accepted when, who is     *)
(* logged in, and what uploaded files are taken for. One of them runs in a *)
(* behaviour and the others stay as they are.                              *)
EXTENDS ContestServer, Authentication, FileMatching, TLC

VARIABLE component

vars == <<component, contestVars, authVars, matchingVars>>

-----------------------------------------------------------------------------
(* Contests: with a fixed time for all and tokens of both kinds; with a    *)
(* time for each user; with all requests at once; without limits.          *)
Finite(initial, number, interval, max, total, min) ==
    [mode |-> "finite", gen_initial |-> initial, gen_number |-> number,
     gen_interval |-> interval, gen_max |-> max, max_number |-> total,
     min_interval |-> min]

Infinite == [mode |-> "infinite"]

NoLimit == [max_contest |-> None, max_task |-> None,
            min_contest |-> None, min_task |-> None]

Traditional ==
    [start |-> 0, stop |-> 2, analysis_start |-> 2, analysis_stop |-> 4,
     per_user_time |-> None, delay_time |-> 0, extra_time |-> 1,
     unrestricted |-> FALSE, max_items |-> 2, max_jobs_per_user |-> 1,
     allow_user_tests |-> FALSE, printer |-> FALSE,
     token |-> Finite(1, 1, 2, 2, 2, 1), task_token |-> Finite(1, 1, 3, 1, None, 2),
     limits |-> [submission |-> [NoLimit EXCEPT !.max_contest = 2, !.min_task = 1],
                 user_test |-> [NoLimit EXCEPT !.max_task = 1, !.max_contest = 2,
                                               !.min_contest = 1]]]

OwnTime ==
    [Traditional EXCEPT !.stop = 3, !.analysis_start = None, !.per_user_time = 2,
        !.delay_time = 0, !.extra_time = 0,
        !.token = Infinite, !.task_token = Finite(0, 2, 1, None, 3, 0)]

Busy ==
    [Traditional EXCEPT !.stop = 0, !.delay_time = 1, !.extra_time = 0, !.max_items = 3,
        !.allow_user_tests = TRUE, !.printer = TRUE,
        !.token = [mode |-> "disabled"], !.task_token = Infinite]

Free == [Busy EXCEPT !.unrestricted = TRUE, !.max_items = 1]

ContestSettings == {Traditional, OwnTime, Busy, Free}

-----------------------------------------------------------------------------
(* Submission formats and uploads that can be mistaken for each other.     *)
Name(b, x) == [base |-> b, ext |-> x]
Sent(c, f) == [codename |-> c, filename |-> f]

FormatsToMatch ==
    {[files |-> {Name("a", "%l"), Name("b", "%l")}, managers |-> {}],
     [files |-> {Name("a", "%l"), Name("a", ".c")},
      managers |-> {Name("g", "%l"), InputName}],
     [files |-> {Name("b", ".c"), Name("a", ".c")}, managers |-> {}]}

FilesToMatch ==
    {Sent(Absent, Name("a", ".c")), Sent(Absent, Name("b", ".cpp")),
     Sent(Name("a", "%l"), Absent), Sent(Name("b", "%l"), Name("x", ".cpp")),
     Sent(Name("a", ".c"), Name("y", ".p")), Sent(Absent, Absent),
     Sent(Name("g", "%l"), Name("g", ".c")), Sent(InputName, Name("z", ""))}

SomeLanguages ==
    {[name |-> "C", extensions |-> <<".c">>],
     [name |-> "C++", extensions |-> <<".cpp", ".cc">>],
     [name |-> "C++17", extensions |-> <<".cpp">>],
     [name |-> "Pascal", extensions |-> <<".p">>]}

-----------------------------------------------------------------------------
Init ==
    /\ component \in {"contest", "login", "files"}
    /\ ContestInit
    /\ component # "contest" => contest = Free
    /\ AuthInit
    /\ component # "login" => settings = {}
    /\ MatchingInit
    /\ component # "files" => ~partial /\ format = CHOOSE f \in Formats : TRUE

Next ==
    \/ /\ component = "contest" /\ ContestNext
       /\ UNCHANGED <<component, authVars, matchingVars>>
    \/ /\ component = "login" /\ AuthNext
       /\ UNCHANGED <<component, contestVars, matchingVars>>
    \/ /\ component = "files" /\ MatchingNext
       /\ UNCHANGED <<component, contestVars, authVars>>

Spec == Init /\ [][Next]_vars

Symmetric ==
    Permutations(Tasks) \cup Permutations(Handlers) \cup Permutations(Passwords)
    \cup Permutations(Users) \cup Permutations(Addresses) \cup Permutations(Browsers)
=============================================================================
