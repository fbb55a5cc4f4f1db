------------------------------ MODULE ContestServer ------------------------------
(***************************************************************************)
(* What one contestant may change through ContestWebServer: the handlers   *)
(* of submissions, user tests, tokens, print jobs and of the "start"       *)
(* button (cms/server/contest/handlers/), with the functions that decide   *)
(* whether a request is accepted (submission/workflow.py,                  *)
(* submission/check.py, tokening.py, printing.py).                         *)
(*                                                                         *)
(* Requests of the contestant are handled at the same time, by several     *)
(* instances of the server or by greenlets of one that switch while files  *)
(* are stored.  A request takes its timestamp and reads phase and          *)
(* participation (Arrive), reads the database again to check the limits    *)
(* (Check...), then stores its files and commits (Commit...).  Each of     *)
(* these is a step: between two of them other requests commit.             *)
(***************************************************************************)
EXTENDS Tokening, FiniteSets

CONSTANTS Handlers,     \* requests handled at the same time
          Tasks,        \* the tasks of the contest
          Contests,     \* the contests considered, with the rules of their tasks and
                        \* a bound, max_items, on the rows the contestant creates
          MaxTime,      \* bound: the clock stops here
          MaxHandling,  \* bound: how long the request to start may take
          Idle          \* a handler with no request

ItemKinds == {"submission", "user_test", "print"}

\* A plausible slip: the time frame may be started again while it runs.
OpenPhasesStartAgain(kind) == CASE kind = "submission" -> {0, 3}
                                [] kind \in {"user_test", "print", "token"} -> {0}
                                [] kind = "start" -> {-1, 0}

\* The phases each handler is open in (its decorator actual_phase_required).
OpenPhases(kind) == CASE kind = "submission" -> {0, 3}
                      [] kind \in {"user_test", "print", "token"} -> {0}
                      [] kind = "start" -> {-1}

\* User tests and printing may be switched off.
Enabled(c, kind) == /\ kind = "user_test" => c.allow_user_tests
                    /\ kind = "print" => c.printer

\* What a handler works on.
Requests == [kind : ItemKinds \union {"token", "start"}, task : Tasks \union {None},
             timestamp : Nat, official : BOOLEAN, submission : Nat,
             stage : {"check", "commit"}]

\* Limits are numbers or None; an interval is no longer than the time considered.
LimitsTyped(limits) ==
    /\ {limits.max_contest, limits.max_task} \subseteq Nat \union {None}
    /\ {limits.min_contest, limits.min_task} \subseteq 0..MaxTime \union {None}

ASSUME ContestAssumption ==
    /\ MaxTime \in Nat /\ MaxHandling \in Nat
    /\ None \notin Int /\ None \notin Tasks /\ Idle \notin Requests
    /\ IsFiniteSet(Handlers) /\ Handlers # {}
    /\ \A c \in Contests :
          /\ {c.start, c.stop} \subseteq Int /\ c.start <= c.stop
          /\ c.analysis_start # None =>
                /\ {c.analysis_start, c.analysis_stop} \subseteq Int
                /\ c.stop <= c.analysis_start /\ c.analysis_start <= c.analysis_stop
          /\ c.per_user_time # None => c.per_user_time \in Nat /\ c.per_user_time > MaxHandling
          /\ {c.delay_time, c.extra_time, c.max_jobs_per_user} \subseteq Nat
          /\ c.unrestricted \in BOOLEAN
          /\ LimitsTyped(c.limits["submission"]) /\ LimitsTyped(c.limits["user_test"])
          /\ RulesTyped(c.token) /\ RulesTyped(c.task_token)

VARIABLES
    contest,         \* the contest, with the delay_time and extra_time of the contestant
    now,             \* the clock
    starting_time,   \* Participation.starting_time
    items,           \* rows created: submissions, user tests, print jobs, in commit order
    tokens,          \* rows of Token: the submission it is played on and its time
    request          \* the request of each handler, or Idle

contestVars == <<contest, now, starting_time, items, tokens, request>>

Participation == [starting_time |-> starting_time,
                  delay_time |-> contest.delay_time, extra_time |-> contest.extra_time]

ContestInit ==
    /\ contest \in Contests
    /\ now = 0
    /\ starting_time = None
    /\ items = <<>>
    /\ tokens = <<>>
    /\ request = [h \in Handlers |-> Idle]

-----------------------------------------------------------------------------
(* The limits.                                                             *)

OfKind(kind) == {i \in DOMAIN items : items[i].kind = kind}
OnTask(kind, task) == {i \in OfKind(kind) : items[i].task = task}

CheckMaxNumber(max, found) ==
    max # None /\ ~contest.unrestricted => Cardinality(found) < max

\* The latest row found must be old enough.
CheckMinInterval(min, t, found) ==
    min # None /\ ~contest.unrestricted /\ found # {}
        => t - Max({items[i].timestamp : i \in found}) >= min

\* The rules for submissions and for user tests, contest-wide and on the task.
WithinLimits(kind, task, t) ==
    LET limits == contest.limits[kind]
    IN  /\ CheckMaxNumber(limits.max_contest, OfKind(kind))
        /\ CheckMaxNumber(limits.max_task, OnTask(kind, task))
        /\ CheckMinInterval(limits.min_contest, t, OfKind(kind))
        /\ CheckMinInterval(limits.min_task, t, OnTask(kind, task))

\* Print jobs are only counted.
WithinPrintLimit == Cardinality(OfKind("print")) < contest.max_jobs_per_user

\* How many more the pages of a task say may be sent (None is no limit).
LeftToSend(kind, task) ==
    LET limits == contest.limits[kind]
        left(max, found) == IF max = None THEN {} ELSE {max - Cardinality(found)}
        known == left(limits.max_contest, OfKind(kind))
                     \union left(limits.max_task, OnTask(kind, task))
    IN  IF known = {} THEN None ELSE Max({0, Min(known)})

-----------------------------------------------------------------------------
(* The tokens, as tokens_available reads them.                             *)

TokenStart == IF contest.per_user_time # None THEN starting_time ELSE contest.start

\* Tokens played up to t on the given tasks.
Played(on, t) == {k \in DOMAIN tokens : tokens[k].timestamp <= t
                                          /\ items[tokens[k].submission].task \in on}

\* Their times in order: the i-th is the first by which i of them were played.
History(on, t) ==
    LET played == Played(on, t)
        by(x) == {k \in played : tokens[k].timestamp <= x}
        times == {tokens[k].timestamp : k \in played}
    IN  [i \in 1..Cardinality(played) |-> Min({x \in times : Cardinality(by(x)) >= i})]

ContestTokens(t) == TokensOf(contest.token, TokenStart, History(Tasks, t), t)
TaskTokens(task, t) == TokensOf(contest.task_token, TokenStart, History({task}, t), t)

TokensAvailable(task, t) == Combined(ContestTokens(t), TaskTokens(task, t))

Tokened(i) == \E k \in DOMAIN tokens : tokens[k].submission = i

-----------------------------------------------------------------------------
(* The requests.                                                           *)

Tick ==
    /\ now < MaxTime
    /\ \A h \in Handlers :
          request[h] # Idle /\ request[h].kind = "start"
              => now - request[h].timestamp < MaxHandling
    /\ now' = now + 1
    /\ UNCHANGED <<contest, starting_time, items, tokens, request>>

\* prepare() and the decorators of the handler.  A token names a submission of the
\* task, any other request has none; printing and starting concern no task.
Arrive(h, kind, task, submission) ==
    LET phase == ComputeActualPhase(now, contest, Participation).phase
    IN  /\ request[h] = Idle
        /\ Enabled(contest, kind)
        /\ kind \in {"print", "start"} <=> task = None
        /\ IF kind = "token" THEN submission \in OnTask("submission", task)
                             ELSE submission = 0
        /\ ActualPhaseRequired(OpenPhases(kind), phase, contest.unrestricted)
        /\ request' = [request EXCEPT ![h] =
               [kind |-> kind, task |-> task, timestamp |-> now, official |-> phase = 0,
                submission |-> submission, stage |-> "check"]]
        /\ UNCHANGED <<contest, now, starting_time, items, tokens>>

At(h, kinds, stage) ==
    request[h] # Idle /\ request[h].kind \in kinds /\ request[h].stage = stage

Advance(h, stage) == request' = [request EXCEPT ![h].stage = stage]

\* The request ends with an error shown to the contestant, or with success.
Ends(h) == request' = [request EXCEPT ![h] = Idle]

Check(h, kind, acceptable) ==
    /\ At(h, {kind}, "check")
    /\ acceptable
    /\ Advance(h, "commit")
    /\ UNCHANGED <<contest, now, starting_time, items, tokens>>

AcceptSubmission(h) ==
    Check(h, "submission", WithinLimits("submission", request[h].task, request[h].timestamp))
AcceptUserTest(h) ==
    Check(h, "user_test", WithinLimits("user_test", request[h].task, request[h].timestamp))

AcceptPrintJob(h) == Check(h, "print", WithinPrintLimit)

\* A limit is reached, or the files do not fit the format or are too long, or storing
\* them fails.
Unacceptable(h) ==
    /\ request[h] # Idle /\ request[h].kind \in ItemKinds
    /\ Ends(h)
    /\ UNCHANGED <<contest, now, starting_time, items, tokens>>

\* The files are stored and the row is committed, with the timestamp of the request;
\* then the services are told.
CommitItem(h, kind) ==
    /\ At(h, {kind}, "commit")
    /\ Len(items) < contest.max_items
    /\ items' = Append(items, [kind |-> kind, task |-> request[h].task,
                               timestamp |-> request[h].timestamp,
                               official |-> request[h].official])
    /\ Ends(h)
    /\ UNCHANGED <<contest, now, starting_time, tokens>>

SubmitHandler(h) == CommitItem(h, "submission")
UserTestHandler(h) == CommitItem(h, "user_test")
PrintingHandler(h) == CommitItem(h, "print")

\* accept_token.  Before the time frame starts the computation itself fails.
AcceptToken(h) ==
    LET r == request[h]
        started == TokenStart # None /\ TokenStart <= r.timestamp
    IN  /\ At(h, {"token"}, "check")
        /\ IF started /\ ~NoTokenNow(TokensAvailable(r.task, r.timestamp))
                      /\ ~Tokened(r.submission)
           THEN Advance(h, "commit")
           ELSE Ends(h)
        /\ UNCHANGED <<contest, now, starting_time, items, tokens>>

\* Two tokens on one submission violate the unique constraint of the table.
UseTokenHandler(h) ==
    /\ At(h, {"token"}, "commit")
    /\ tokens' = IF Tokened(request[h].submission) THEN tokens
                 ELSE Append(tokens, [submission |-> request[h].submission,
                                      timestamp |-> request[h].timestamp])
    /\ Ends(h)
    /\ UNCHANGED <<contest, now, starting_time, items>>

\* StartHandler: whatever was read on arrival, the timestamp is written.
StartHandler(h) ==
    /\ At(h, {"start"}, "check")
    /\ starting_time' = request[h].timestamp
    /\ Ends(h)
    /\ UNCHANGED <<contest, now, items, tokens>>

ContestNext ==
    \/ Tick
    \/ \E h \in Handlers :
          \/ \E kind \in ItemKinds \union {"token", "start"}, task \in Tasks \union {None},
                submission \in 0..Len(items) : Arrive(h, kind, task, submission)
          \/ AcceptSubmission(h) \/ AcceptUserTest(h) \/ AcceptPrintJob(h)
          \/ Unacceptable(h)
          \/ SubmitHandler(h) \/ UserTestHandler(h) \/ PrintingHandler(h)
          \/ AcceptToken(h) \/ UseTokenHandler(h)
          \/ StartHandler(h)

ContestSpec == ContestInit /\ [][ContestNext]_contestVars

-----------------------------------------------------------------------------
(* Properties.                                                             *)

\* Far enough to see every phase and every token generated.
Horizon == -1..2 * MaxTime

\* compute_actual_phase tells the truth about the phase it returns: the moment asked
\* about lies within its boundaries, every moment strictly inside them has the same
\* phase, no moment outside has it, and phases never go back as time passes.
PhaseIntervals ==
    LET answers == {[at |-> t, answer |-> ComputeActualPhase(t, contest, Participation)] :
                    t \in Horizon}
        holds(p, t) == (p.begin = None \/ p.begin <= t) /\ (p.end = None \/ t <= p.end)
        inside(p, t) == (p.begin = None \/ p.begin < t) /\ (p.end = None \/ t < p.end)
    IN  \A x \in answers :
            /\ holds(x.answer, x.at)
            /\ \A y \in answers :
                  /\ inside(x.answer, y.at) => y.answer.phase = x.answer.phase
                  /\ ~holds(x.answer, y.at) => y.answer.phase # x.answer.phase
                  /\ x.at <= y.at => x.answer.phase <= y.answer.phase

\* The docstring of tokens_available: while the contestant does nothing, the number of
\* tokens stays the same until the time announced for the next one and grows then, for
\* ever if none is announced; and with tokens at hand the first time one is accepted is
\* the expiration announced, now if there is none.  It assumes that tokens were played
\* regularly, so that no set of tokens has a negative number of them.
TokensAsAnnounced ==
    \A task \in Tasks :
        LET r == TokensAvailable(task, now)
            at(t) == TokensAvailable(task, t)
            regular == /\ contest.token.mode = "finite" => ContestTokens(now).avail >= 0
                       /\ contest.task_token.mode = "finite" => TaskTokens(task, now).avail >= 0
            until(t) == {u \in Horizon : now <= u /\ (t = None \/ u < t)}
        IN  TokenStart # None /\ TokenStart <= now /\ regular =>
                /\ \A t \in until(r.next) : at(t).avail = r.avail
                /\ r.next # None => now < r.next /\ at(r.next).avail > r.avail
                /\ r.avail # 0 /\ r.expiration # None =>
                      /\ \A t \in until(r.expiration) : NoTokenNow(at(t))
                      /\ ~NoTokenNow(at(r.expiration))
                /\ r.avail # 0 /\ r.expiration = None => ~NoTokenNow(r)

\* Official submissions lie in the time frame in which the contestant competes, as the
\* database has it now: requests to start that overtake each other never move the frame
\* off a submission already counted.  (The frame of a contestant who is delayed does
\* move: "start" is accepted again until the delay is over.)
OfficialInFrame ==
    \A i \in OfKind("submission") :
        /\ items[i].official /\ ~contest.unrestricted
        /\ contest.per_user_time # None => contest.delay_time = 0
        => /\ ActualStart(contest, Participation) <= items[i].timestamp
           /\ items[i].timestamp <= ActualStop(contest, Participation)

\* The limits may be exceeded only by requests handled at the same time: by fewer rows
\* than there are handlers.
LimitsNearlyKept ==
    LET slack == Cardinality(Handlers) - 1
    IN  /\ Cardinality(OfKind("print")) <= contest.max_jobs_per_user + slack
        /\ \A kind \in {"submission", "user_test"}, task \in Tasks :
              LET limits == contest.limits[kind]
              IN  ~contest.unrestricted =>
                      /\ limits.max_contest # None =>
                            Cardinality(OfKind(kind)) <= limits.max_contest + slack
                      /\ limits.max_task # None =>
                            Cardinality(OnTask(kind, task)) <= limits.max_task + slack

\* The pages and the checks count alike: a page that shows that nothing is left to send
\* is shown exactly when a request, old enough for the intervals, would be refused.
LeftAsShown ==
    \A kind \in {"submission", "user_test"}, task \in Tasks :
        LET late == now + MaxTime
        IN  ~contest.unrestricted =>
                (LeftToSend(kind, task) = 0 <=> ~WithinLimits(kind, task, late))

\* The rule on tokens in docs/Configuring a contest.rst: no more than token_max_number
\* tokens are used in total.  Even if tokens played at the same moment are forgiven, as
\* for the other limits, it does not hold: the number of tokens left is then -1, which
\* means infinitely many.
TokenMaxNumber ==
    contest.token.mode = "finite" /\ contest.token.max_number # None
        => Len(tokens) <= contest.token.max_number + Cardinality(Handlers) - 1

(* The rules of the contest, for requests that overlap.                    *)
ContestRules == PhaseIntervals /\ OfficialInFrame /\ LimitsNearlyKept /\ LeftAsShown
=============================================================================
