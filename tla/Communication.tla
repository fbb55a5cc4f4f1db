------------------------------- MODULE Communication -------------------------------
(***************************************************************************)
(* Announcements, messages and answers on their way to a contestant:       *)
(* cms/server/contest/communication.py and the handlers around it, the     *)
(* AdminWebServer handlers that write them, and the page that polls        *)
(* (static/cws_utils.js).                                                  *)
(*                                                                         *)
(* A communication is stamped with the time when it is made and appears    *)
(* when it is committed.  AdminWebServer makes and commits one in a single *)
(* step; ScoringService and PvPService announce in longer transactions.    *)
(* The page asks for what is later than the latest it has seen.            *)
(***************************************************************************)
EXTENDS Naturals, Sequences, FiniteSets

CONSTANTS Announcers,     \* services that announce: ScoringService, PvPService
          Questions,      \* questions of the contestant
          NotYet,         \* no time
          MaxMoment,      \* bound: the clock stops here
          MaxPosts        \* bound: communications

VARIABLES
    moment,             \* the clock
    posts,              \* committed communications, in that order: about, time, deleted
    announcing,         \* time of the announcement a service is about to commit
    question,           \* each question: asked, replied, ignored, claimed
    poll,               \* time and "after" of the request for notifications, or NotYet
    last_notification,  \* the latest time the page has seen, or NotYet
    shown_items,              \* communications the page has shown: indexes of posts
    notes               \* pending simple notifications of the server, and whether any

commVars == <<moment, posts, announcing, question, poll, last_notification, shown_items, notes>>

Unasked == [asked |-> FALSE, replied |-> FALSE, ignored |-> FALSE, claimed |-> FALSE]

CommInit ==
    /\ moment = 1
    /\ posts = <<>>
    /\ announcing = [s \in Announcers |-> NotYet]
    /\ question = [q \in Questions |-> Unasked]
    /\ poll = NotYet
    /\ last_notification = NotYet
    /\ shown_items = {}
    /\ notes = FALSE

-----------------------------------------------------------------------------
(* Writing.                                                                *)

Post(about, time) ==
    /\ Len(posts) < MaxPosts
    /\ posts' = Append(posts, [about |-> about, time |-> time, deleted |-> FALSE])

\* AdminWebServer: an announcement to all or a message to the contestant.
AddAnnouncement ==
    /\ Post("all", moment)
    /\ UNCHANGED <<moment, announcing, question, poll, last_notification, shown_items, notes>>

DeleteAnnouncement(i) ==
    /\ ~posts[i].deleted /\ posts[i].about = "all"
    /\ posts' = [posts EXCEPT ![i].deleted = TRUE]
    /\ UNCHANGED <<moment, announcing, question, poll, last_notification, shown_items, notes>>

\* A service makes the announcement, and commits it with the rest of its transaction.
Announce(s) ==
    /\ announcing[s] = NotYet
    /\ announcing' = [announcing EXCEPT ![s] = moment]
    /\ UNCHANGED <<moment, posts, question, poll, last_notification, shown_items, notes>>

CommitAnnouncement(s) ==
    /\ announcing[s] # NotYet
    /\ Post("all", announcing[s])
    /\ announcing' = [announcing EXCEPT ![s] = NotYet]
    /\ UNCHANGED <<moment, question, poll, last_notification, shown_items, notes>>

\* A question of the contestant; the handler also leaves a simple notification.
AcceptQuestion(q) ==
    /\ ~question[q].asked
    /\ question' = [question EXCEPT ![q].asked = TRUE]
    /\ notes' = TRUE
    /\ UNCHANGED <<moment, posts, announcing, poll, last_notification, shown_items>>

\* The answer takes the place of an earlier one, which nobody will see any more.
QuestionReply(q) ==
    /\ question[q].asked
    /\ Len(posts) < MaxPosts
    /\ posts' = Append([i \in DOMAIN posts |->
                           IF posts[i].about = q THEN [posts[i] EXCEPT !.deleted = TRUE]
                           ELSE posts[i]],
                       [about |-> q, time |-> moment, deleted |-> FALSE])
    /\ question' = [question EXCEPT ![q].replied = TRUE, ![q].claimed = TRUE]
    /\ UNCHANGED <<moment, announcing, poll, last_notification, shown_items, notes>>

QuestionIgnore(q, should_ignore) ==
    /\ question[q].asked
    /\ question' = [question EXCEPT ![q].ignored = should_ignore, ![q].claimed = TRUE]
    /\ UNCHANGED <<moment, posts, announcing, poll, last_notification, shown_items, notes>>

QuestionClaim(q, should_claim) ==
    /\ question[q].asked /\ ~question[q].ignored /\ ~question[q].replied
    /\ question' = [question EXCEPT ![q].claimed = should_claim]
    /\ UNCHANGED <<moment, posts, announcing, poll, last_notification, shown_items, notes>>

-----------------------------------------------------------------------------
(* Reading.                                                                *)

Poll ==
    /\ poll = NotYet
    /\ poll' = [time |-> moment, after |-> last_notification]
    /\ UNCHANGED <<moment, posts, announcing, question, last_notification, shown_items, notes>>

GetCommunications(time, after) ==
    {i \in DOMAIN posts : /\ ~posts[i].deleted
                          /\ posts[i].time <= time
                          /\ after # NotYet => posts[i].time > after}

Latest(times) == CHOOSE t \in times : \A u \in times : u <= t

\* A plausible slip: the page remembers when it asked.
UpdateLastNotificationAsked(answer) == poll.time

\* What the page remembers: the latest time among what it has been shown.
UpdateLastNotification(answer) ==
    LET times == {posts[i].time : i \in answer}
                     \union (IF last_notification = NotYet THEN {} ELSE {last_notification})
    IN  IF times = {} THEN NotYet ELSE Latest(times)

\* NotificationsHandler and the page: simple notifications are handed out once.
NotificationsAnswer ==
    LET answer == GetCommunications(poll.time, poll.after)
    IN  /\ poll # NotYet
        /\ shown_items' = shown_items \union answer
        /\ last_notification' = UpdateLastNotification(answer)
        /\ notes' = FALSE
        /\ poll' = NotYet
        /\ UNCHANGED <<moment, posts, announcing, question>>

Passes ==
    /\ moment < MaxMoment
    /\ moment' = moment + 1
    /\ UNCHANGED <<posts, announcing, question, poll, last_notification, shown_items, notes>>

CommNext ==
    \/ AddAnnouncement
    \/ \E i \in DOMAIN posts : DeleteAnnouncement(i)
    \/ \E s \in Announcers : Announce(s) \/ CommitAnnouncement(s)
    \/ \E q \in Questions :
          \/ AcceptQuestion(q) \/ QuestionReply(q)
          \/ \E b \in BOOLEAN : QuestionIgnore(q, b) \/ QuestionClaim(q, b)
    \/ Poll
    \/ NotificationsAnswer
    \/ Passes

-----------------------------------------------------------------------------
(* Properties.                                                             *)

\* Made before, or at the same moment as, one that was committed earlier.
Overtaken(i) == \E j \in 1..(i - 1) : posts[j].time >= posts[i].time

\* Every communication is shown by the page in the end, unless it is taken back or an
\* answer replaced; only one that another has overtaken between its making and its
\* commit can be missed.
EventuallyShown ==
    \A i \in 1..MaxPosts :
        (i \in DOMAIN posts) ~> (i \in DOMAIN posts /\ (i \in shown_items \/ posts[i].deleted
                                                            \/ Overtaken(i)))

\* Nothing is shown twice, nor from the future: what a poll brings is new to the page.
ShownOnce ==
    [][poll # NotYet /\ poll' = NotYet =>
          GetCommunications(poll.time, poll.after) \cap shown_items = {}]_commVars

(* Both: everything is shown, once.                                        *)
CommunicationsShown == EventuallyShown /\ ShownOnce
=============================================================================
