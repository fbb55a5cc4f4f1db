----------------------------- MODULE MCRanking ------------------------------
(* From an evaluated submission to what contestants and spectators see,    *)
(* side by side: ScoringService, ProxyService, the ranking's stores and    *)
(* histories, its event source and page, and the notifications of the      *)
(* contest web server. One of them runs in a behaviour and the others stay *)
(* as they are.                                                            *)
EXTENDS ScoringService, ProxyService, RankingStore, EventSource, Communication

VARIABLE component

vars == <<component, scoringVars, proxyVars, storesVars, sourceVars, commVars>>

(* The later change is that of the earlier submission.                     *)
Times == <<1, 2>>
ChangeTimes == <<3, 2>>
Changes == {[score |-> 1, extra |-> <<>>], [score |-> 2, extra |-> <<>>], Token}

Init ==
    /\ component \in {"scoring", "proxy", "stores", "page", "notifications"}
    /\ ScoringInit /\ ProxyInit /\ StoresInit /\ CommInit
    /\ SourceInit
    /\ component # "page" => present = {}
    /\ \A u \in Viewed : points[u] = 0    \* scores come as events

Next ==
    \/ /\ component = "scoring" /\ ScoringNext
       /\ UNCHANGED <<component, proxyVars, storesVars, sourceVars, commVars>>
    \/ /\ component = "proxy" /\ ProxyNext
       /\ UNCHANGED <<component, scoringVars, storesVars, sourceVars, commVars>>
    \/ /\ component = "stores" /\ StoresNext
       /\ UNCHANGED <<component, scoringVars, proxyVars, sourceVars, commVars>>
    \/ /\ component = "page" /\ SourceNext
       /\ UNCHANGED <<component, scoringVars, proxyVars, storesVars, commVars>>
    \/ /\ component = "notifications" /\ CommNext
       /\ UNCHANGED <<component, scoringVars, proxyVars, storesVars, sourceVars>>

-----------------------------------------------------------------------------
(* Fairness, for the component that runs: the sweeper goes round and the   *)
(* executor works.                                                         *)
ScoringGoesOn ==
    /\ \A s \in Results :
          /\ WF_scoringVars(component = "scoring" /\ s \notin scorer_queue /\ ScorerSweeps(s))
          /\ WF_scoringVars(component = "scoring" /\ ExecuteReads(s))
    /\ WF_scoringVars(component = "scoring" /\ ExecuteCommits)

(* The sweeper goes round, the executors work and greenlets go on.         *)
ProxyGoesOn ==
    /\ \A s \in Submissions :
          /\ WF_proxyVars(component = "proxy" /\ ProxySweeps(s))
          /\ WF_proxyVars(component = "proxy" /\ SubmissionScored(s))
          /\ WF_proxyVars(component = "proxy" /\ \E h \in reading : h[2] = s /\ SendScore(h))
          /\ WF_proxyVars(component = "proxy" /\ \E h \in reading : h[2] = s /\ SendToken(h))
    /\ \A r \in Rankings :
          /\ WF_proxyVars(component = "proxy" /\ TakeBatch(r))
          /\ WF_proxyVars(component = "proxy" /\ (PutData(r) \/ PutRejected(r)))

(* The page asks every thirty seconds and is answered.                     *)
PageGoesOn ==
    /\ WF_commVars(component = "notifications" /\ Poll)
    /\ WF_commVars(component = "notifications" /\ NotificationsAnswer)

Spec == Init /\ [][Next]_vars /\ ScoringGoesOn /\ ProxyGoesOn /\ PageGoesOn
=============================================================================
