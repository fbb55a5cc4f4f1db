--------------------------- MODULE ServiceProofs ----------------------------
(***************************************************************************)
(* Proofs about the smaller services: the RPC layer, for any number of     *)
(* calls and connections; Checker, for any services and any period;        *)
(* ScoringService, for any number of results, evaluations and faults;      *)
(* FileCacher, for any number of processes, files and large objects; and   *)
(* the page that follows the ranking, for any number of users, events and  *)
(* lost connections.                                                       *)
(***************************************************************************)
EXTENDS RPC, Checker, ScoringService, FileCacher, EventSource, Integers, TLAPS, FiniteSetTheorems

-----------------------------------------------------------------------------
(* RPC: a call waits for its answer exactly when it is in the              *)
(* dictionaries.                                                           *)

CallStates == {"idle", "queued", "blocked", "sent"} \cup Resolved

RPCInv ==
    /\ call \in [Calls -> CallStates]
    /\ pending = {k \in Calls : call[k] = "sent"}

CallsKeepResults == \A k \in Calls : call[k] \in Resolved => call'[k] = call[k]

LEMMA RPCStep == RPCInv /\ [RPCNext]_rpcVars => RPCInv' /\ CallsKeepResults
  <1> SUFFICES ASSUME RPCInv, [RPCNext]_rpcVars  PROVE RPCInv' /\ CallsKeepResults
    OBVIOUS
  <1> USE DEF RPCInv, CallStates, Resolved, CallsKeepResults
  <1>1. ASSUME call' = call, pending' = pending  PROVE RPCInv' /\ CallsKeepResults
    BY <1>1
  <1>2. ASSUME NEW k \in Calls, NEW s \in CallStates \ {"sent"}, call[k] \notin Resolved,
               k \notin pending, call' = [call EXCEPT ![k] = s], pending' = pending
        PROVE  RPCInv' /\ CallsKeepResults
    BY <1>2
  <1>3. ASSUME NEW k \in Calls, NEW c, Sent(k, c), call[k] \notin Resolved
        PROVE  RPCInv' /\ CallsKeepResults
    BY <1>3 DEF Sent
  <1>4. ASSUME NEW k \in Calls, WaitsForLock(k) \/ CallFails(k) \/ WriteBlocks(k)
        PROVE  RPCInv' /\ CallsKeepResults
    BY <1>2, <1>4 DEF WaitsForLock, CallFails, WriteBlocks, Starts
  <1>5. ASSUME NEW k \in Calls, ExecuteRPC(k) \/ WebCall(k) \/ WriteResumes(k)
        PROVE  RPCInv' /\ CallsKeepResults
    BY <1>3, <1>5 DEF ExecuteRPC, WebCall, WriteResumes, Starts
  <1>6. ASSUME NEW k \in Calls, WriteFails(k)  PROVE RPCInv' /\ CallsKeepResults
    BY <1>6 DEF WriteFails, Finalized
  <1>7. CASE ReadFails
    BY <1>7 DEF ReadFails, Finalized
  <1>8. ASSUME NEW k \in Calls, ReadResponse(k)  PROVE RPCInv' /\ CallsKeepResults
    <2>1. PICK a \in {AnswerOf(k), IF k \in pending THEN "error" ELSE call[k]} :
             call' = [call EXCEPT ![k] = a]
      BY <1>8 DEF ReadResponse
    <2>2. pending' = pending \ {k}
      BY <1>8 DEF ReadResponse
    <2>3. CASE k \in pending
      BY <2>1, <2>2, <2>3 DEF AnswerOf
    <2>4. CASE k \notin pending
      BY <2>1, <2>2, <2>4 DEF AnswerOf
    <2> QED BY <2>3, <2>4
  <1>9. ASSUME NEW k \in Calls, WebAnswer(k)  PROVE call' = call /\ pending' = pending
    BY <1>9 DEF WebAnswer
  <1>10. ASSUME NEW c \in Connections, Connect(c) \/ LinkBreaks(c) \/ ServerFinalizes(c)
         PROVE  call' = call /\ pending' = pending
    BY <1>10 DEF Connect, LinkBreaks, ServerFinalizes, client
  <1>11. ASSUME NEW k \in Calls, NEW c \in Connections, ReceiveRequest(k, c) \/ Respond(k, c)
         PROVE  call' = call /\ pending' = pending
    BY <1>11 DEF ReceiveRequest, Respond, client
  <1>12. CASE UNCHANGED rpcVars
    BY <1>12 DEF rpcVars
  <1> QED BY <1>1, <1>4, <1>5, <1>6, <1>7, <1>8, <1>9, <1>10, <1>11, <1>12 DEF RPCNext

(* RemoteServiceClient: however connections break and answers are delayed, *)
(* a call whose AsyncResult is empty is in the dictionaries that finalize  *)
(* fails, and a result is never replaced by another one.                   *)
THEOREM EveryResultGivenOnce == RPCSpec => ResultGivenOnce
  <1>1. RPCInit => RPCInv
    BY DEF RPCInit, RPCInv, CallStates
  <1>2. RPCInv => pending = {k \in Calls : call[k] = "sent"}
    BY DEF RPCInv
  <1>3. RPCInv /\ [RPCNext]_rpcVars =>
           [\A k \in Calls : call[k] \in Resolved => call'[k] = call[k]]_rpcVars
    BY RPCStep DEF CallsKeepResults
  <1> QED BY <1>1, <1>2, <1>3, RPCStep, PTL DEF RPCSpec, ResultGivenOnce

-----------------------------------------------------------------------------
(* Checker: requests are a period apart, so the answer to an earlier one   *)
(* is always late.                                                         *)

CheckerInv ==
    /\ now \in Nat /\ checked \in Nat /\ checked <= now
    /\ owing \subseteq CheckedServices /\ reachable \subseteq CheckedServices
    /\ waiting_for \in [CheckedServices -> Nat \cup {Unasked}]
    /\ \A s \in CheckedServices : s \in owing <=> waiting_for[s] # Unasked
    /\ echoes \subseteq CheckedServices \X Nat
    /\ \A e \in echoes : e[2] = checked \/ e[2] + CheckPeriod <= checked

LEMMA CheckerStep == CheckerInv /\ [CheckerNext]_checkerVars => CheckerInv'
  <1> SUFFICES ASSUME CheckerInv, [CheckerNext]_checkerVars  PROVE CheckerInv'
    OBVIOUS
  <1> USE CheckerAssumption DEF CheckerInv
  <1>1. CASE Pass
    BY <1>1 DEF Pass
  <1>2. CASE Check
    <2>1. \A e \in echoes' : e \in echoes \/ (e[1] \in reachable /\ e[2] = now /\ e = <<e[1], now>>)
      BY <1>2 DEF Check
    <2>2. \A e \in echoes : e[2] \in Nat /\ e[2] + CheckPeriod <= now
      BY <1>2 DEF Check
    <2>3. echoes' \subseteq CheckedServices \X Nat
      BY <1>2 DEF Check
    <2>4. \A e \in echoes' : e[2] = checked' \/ e[2] + CheckPeriod <= checked'
      BY <1>2, <2>1, <2>2 DEF Check
    <2>5. waiting_for' \in [CheckedServices -> Nat \cup {Unasked}]
      BY <1>2 DEF Check
    <2>6. \A s \in CheckedServices : s \in owing' <=> waiting_for'[s] # Unasked
      BY <1>2 DEF Check
    <2> QED BY <1>2, <2>3, <2>4, <2>5, <2>6 DEF Check
  <1>3. ASSUME NEW s \in CheckedServices, NEW time, EchoCallback(s, time)  PROVE CheckerInv'
    <2>1. time \in Nat /\ (time = checked \/ time + CheckPeriod <= checked)
      BY <1>3 DEF EchoCallback
    <2>2. CASE Late(s, time)
      <3>1. waiting_for' = waiting_for /\ owing' = owing
        BY <1>3, <2>1, <2>2 DEF EchoCallback, Late, Prompt
      <3> QED BY <1>3, <3>1 DEF EchoCallback
    <2>3. CASE ~Late(s, time)
      <3>1. time = checked /\ now - time <= Prompt
        BY <2>1, <2>3 DEF Late, Prompt
      <3>2. waiting_for' = [waiting_for EXCEPT ![s] = Unasked] /\ owing' = owing \ {s}
        BY <1>3, <2>3, <3>1 DEF EchoCallback
      <3> QED BY <1>3, <3>2 DEF EchoCallback
    <2> QED BY <2>2, <2>3
  <1>4. ASSUME NEW s \in CheckedServices, BecomesUnreachable(s) \/ BecomesReachable(s)
        PROVE  CheckerInv'
    BY <1>4 DEF BecomesUnreachable, BecomesReachable
  <1>5. CASE UNCHANGED checkerVars
    BY <1>5 DEF checkerVars
  <1> QED BY <1>1, <1>2, <1>3, <1>4, <1>5 DEF CheckerNext

(* Checker.check and echo_callback: a service is reported at the next      *)
(* check exactly when it did not answer the last request in time, for any  *)
(* period longer than the ten seconds a reply may take.                    *)
THEOREM StuckServicesAreReported == CheckerSpec => []StuckIsReported
  <1>1. CheckerInit => CheckerInv
    BY CheckerAssumption DEF CheckerInit, CheckerInv
  <1>2. CheckerInv => StuckIsReported
    BY DEF CheckerInv, StuckIsReported
  <1> QED BY <1>1, <1>2, CheckerStep, PTL DEF CheckerSpec

-----------------------------------------------------------------------------
(* ScoringService: unless a result was invalidated under execute's hands,  *)
(* what execute is about to commit is the present evaluation; and the task *)
(* is solved once a first blood was announced.                             *)

ScoringInv ==
    /\ data \in [Results -> Nat] /\ evaluations \in [Results -> Nat]
    /\ result_scores \in [Results -> Nat]
    /\ scorer_queue \subseteq Results /\ scoring \in Results \cup {NoResult} /\ computed \in Nat
    /\ solved \in BOOLEAN /\ raced \in BOOLEAN
    /\ firstbloods \in {0, 1} /\ (firstbloods = 1 => solved)
    /\ ~raced => /\ scoring # NoResult => computed = data[scoring] /\ computed # 0
                 /\ \A s \in Results : result_scores[s] \in {0, data[s]}

LEMMA ScoringStep == ScoringInv /\ [ScoringNext]_scoringVars => ScoringInv'
  <1> SUFFICES ASSUME ScoringInv, [ScoringNext]_scoringVars  PROVE ScoringInv'
    OBVIOUS
  <1> USE ScoringAssumption DEF ScoringInv
  <1>1. ASSUME NEW s \in Results, EvaluationEnds(s)  PROVE ScoringInv'
    <2>1. raced \/ s # scoring
      BY <1>1 DEF EvaluationEnds
    <2> QED BY <1>1, <2>1 DEF EvaluationEnds, scorerVars
  <1>2. ASSUME NEW s \in Results, EvaluationInvalidated(s)  PROVE ScoringInv'
    BY <1>2 DEF EvaluationInvalidated, WithoutScore, scorerVars
  <1>3. ASSUME NEW s \in Results, NewEvaluation(s) \/ ScorerSweeps(s)  PROVE ScoringInv'
    BY <1>3 DEF NewEvaluation, ScorerSweeps, resultVars
  <1>4. ASSUME NEW s \in Results, InvalidateScore(s)  PROVE ScoringInv'
    BY <1>4 DEF InvalidateScore, WithoutScore
  <1>5. ASSUME NEW s \in Results, ExecuteReads(s)  PROVE ScoringInv'
    BY <1>5 DEF ExecuteReads, NeedsScoring, resultVars
  <1>6. CASE ExecuteCommits
    <2>1. /\ result_scores' = [result_scores EXCEPT ![scoring] = computed]
          /\ scoring \in Results /\ scoring' = NoResult /\ computed' = 0
          /\ data' = data /\ evaluations' = evaluations /\ scorer_queue' = scorer_queue
          /\ raced' = raced
      BY <1>6 DEF ExecuteCommits
    <2>2. solved' \in BOOLEAN /\ (solved => solved') /\ (IsFirstBlood => solved')
      BY <1>6 DEF ExecuteCommits, IsFirstBlood
    <2>3. IsFirstBlood => firstbloods = 0 /\ firstbloods' = 1
      BY <1>6 DEF ExecuteCommits, IsFirstBlood
    <2>4. ~IsFirstBlood => firstbloods' = firstbloods
      BY <1>6 DEF ExecuteCommits
    <2>5. firstbloods' \in {0, 1} /\ (firstbloods' = 1 => solved')
      BY <2>2, <2>3, <2>4
    <2>6. raced \/ \A s \in Results : result_scores'[s] \in {0, data[s]}
      BY <2>1
    <2> QED BY <2>1, <2>2, <2>5, <2>6
  <1>7. ASSUME NEW c, AnnouncementLost(c)  PROVE ScoringInv'
    BY <1>7 DEF AnnouncementLost, resultVars, scorerVars
  <1>8. CASE ScorerRestarts
    BY <1>8 DEF ScorerRestarts, resultVars
  <1>9. CASE UNCHANGED scoringVars
    BY <1>9 DEF scoringVars, resultVars, scorerVars
  <1> QED BY <1>1, <1>2, <1>3, <1>4, <1>5, <1>6, <1>7, <1>8, <1>9 DEF ScoringNext

(* ScoringService.execute: the first blood is announced at most once, and  *)
(* unless a result was invalidated while execute worked on it, a score is  *)
(* that of the present evaluation, for any number of rejudgings,           *)
(* rescorings, lost calls and restarts.                                    *)
THEOREM ScoresStaySound == ScoringSpec => []ScoringSound
  <1>1. ScoringInit => ScoringInv
    <2> SUFFICES ASSUME ScoringInit  PROVE ScoringInv
      OBVIOUS
    <2>1. solved \in BOOLEAN /\ raced \in BOOLEAN
      BY DEF ScoringInit
    <2>2. /\ data \in [Results -> Nat] /\ evaluations \in [Results -> Nat]
          /\ result_scores \in [Results -> Nat] /\ scorer_queue \subseteq Results
          /\ scoring = NoResult /\ computed \in Nat /\ firstbloods = 0
      BY DEF ScoringInit
    <2>3. \A s \in Results : result_scores[s] = 0
      BY DEF ScoringInit
    <2> QED BY <2>1, <2>2, <2>3 DEF ScoringInv
  <1>2. ScoringInv => ScoringSound
    BY DEF ScoringInv, ScoringSound, FirstBloodOnce, ScoreIsCurrent
  <1> QED BY <1>1, <1>2, ScoringStep, PTL DEF ScoringSpec

-----------------------------------------------------------------------------
(* FileCacher.                                                             *)


Steps == {"start", "look up", "open", "copy", "move", "create", "write", "commit",
          "put", "unlink", "delete row", "done"}

CacherTypeOK ==
    /\ cache \in [Digests -> {"absent", "part", "whole"}]
    /\ row \in [Digests -> Loids \cup {0}]
    /\ lobject \in [Loids -> {"free", "whole", "unlinked"}]
    /\ step \in [Procs -> Steps]
    /\ file \in [Procs -> Digests \cup {NoDigest}]
    /\ temp \in [Procs -> {"absent", "part", "whole"}]
    /\ loid \in [Procs -> Loids \cup {0}]
    /\ got \in [Procs -> {"nothing", "part", "whole", "error", "stored", "deleted", "killed"}]
    /\ doomed \subseteq Digests

(* A copy leaves the temporary directory only when all of it is there.     *)
CopiesWhole ==
    /\ \A d \in Digests : cache[d] # "part"
    /\ \A p \in Procs : /\ got[p] # "part"
                        /\ step[p] \in {"move", "put", "create", "write", "commit"}
                              => temp[p] = "whole"

(* Who is on the way has a file; who deletes it has condemned it.          *)
Busy(p) ==
       /\ (step[p] \notin {"start", "done"} \/ got[p] = "stored") => file[p] \in Digests
       /\ step[p] \in {"unlink", "delete row"} => file[p] \in doomed
       /\ step[p] = "start" => got[p] = "nothing"
       /\ got[p] # "nothing" => step[p] = "done"

Busied == \A p \in Procs : Busy(p)

(* A large object belongs to one row, or to the one process that is about  *)
(* to give it to a row.                                                    *)
ObjectsOwned ==
    /\ \A d, e \in Digests : row[d] # 0 /\ row[d] = row[e] => d = e
    /\ \A d \in Digests : row[d] # 0 => lobject[row[d]] # "free"
    /\ \A p \in Procs : step[p] = "commit" =>
          /\ loid[p] # 0 /\ lobject[loid[p]] = "whole"
          /\ \A d \in Digests : row[d] # loid[p]
    /\ \A p, q \in Procs : step[p] = "commit" /\ step[q] = "commit" /\ loid[p] = loid[q]
                           => p = q

(* What nobody deletes stays, and who is about to return a digest has seen *)
(* its row.                                                                *)
Kept ==
    /\ \A d \in Digests \ doomed : row[d] # 0 => lobject[row[d]] = "whole"
    /\ \A p \in Procs : (step[p] = "put" \/ got[p] = "stored") /\ file[p] \notin doomed
                        => row[file[p]] # 0

CacherInv == CacherTypeOK /\ CopiesWhole /\ Busied /\ ObjectsOwned /\ Kept

-----------------------------------------------------------------------------
LEMMA InitCacherInv == CacherInit => CacherInv
  BY DEF CacherInit, CacherInv, CacherTypeOK, Steps, CopiesWhole, Busied, Busy, ObjectsOwned, Kept

(* The types.                                                              *)
LEMMA NextCacherType == CacherInv /\ [CacherNext]_cacherVars => CacherTypeOK'
  <1> SUFFICES ASSUME CacherInv, [CacherNext]_cacherVars  PROVE CacherTypeOK'
    OBVIOUS
  <1> USE DEF CacherInv, CacherTypeOK, Steps, Goes, Returns
  <1>1. ASSUME NEW p \in Procs, NEW d \in Digests, GetFile(p, d) \/ PutFile(p, d) \/ Delete(p, d)
        PROVE  CacherTypeOK'
    <2>1. CASE GetFile(p, d) /\ cache[d] # "absent"
      <3>1. cache[d] \in {"part", "whole"}
        BY <2>1
      <3>2. /\ file' = [file EXCEPT ![p] = d] /\ step' = [step EXCEPT ![p] = "done"]
            /\ got' = [got EXCEPT ![p] = cache[d]]
            /\ UNCHANGED <<cache, row, lobject, temp, loid, doomed>>
        BY <2>1 DEF GetFile
      <3> QED BY <3>1, <3>2
    <2>2. CASE GetFile(p, d) /\ cache[d] = "absent"
      BY <2>2 DEF GetFile
    <2>3. CASE PutFile(p, d)
      BY <2>3 DEF PutFile
    <2>4. CASE Delete(p, d)
      BY <2>4 DEF Delete
    <2> QED BY <1>1, <2>1, <2>2, <2>3, <2>4
  <1>2. ASSUME NEW p \in Procs  PROVE step[p] \notin {"start", "done"} => file[p] \in Digests
    BY DEF Busied, Busy
  <1>3. ASSUME NEW p \in Procs, LookUp(p)  PROVE CacherTypeOK'
    <2>1. row[file[p]] \in Loids \cup {0}
      BY <1>2, <1>3 DEF LookUp
    <2>2. CASE row[file[p]] = 0
      <3>1. /\ step' = [step EXCEPT ![p] = "done"] /\ got' = [got EXCEPT ![p] = "error"]
            /\ UNCHANGED <<cache, row, lobject, file, temp, loid, doomed>>
        BY <1>3, <2>2 DEF LookUp
      <3> QED BY <3>1
    <2>3. CASE row[file[p]] # 0
      <3>1. /\ step' = [step EXCEPT ![p] = "open"] /\ loid' = [loid EXCEPT ![p] = row[file[p]]]
            /\ UNCHANGED <<cache, row, lobject, file, temp, got, doomed>>
        BY <1>3, <2>3 DEF LookUp
      <3> QED BY <2>1, <3>1
    <2> QED BY <2>2, <2>3
  <1>4. ASSUME NEW p \in Procs, Open(p) \/ Copy(p)  PROVE CacherTypeOK'
    <2>1. CASE Open(p) /\ lobject[loid[p]] = "whole"
      <3>1. /\ step' = [step EXCEPT ![p] = "copy"] /\ temp' = [temp EXCEPT ![p] = "part"]
            /\ UNCHANGED <<cache, row, lobject, file, loid, got, doomed>>
        BY <2>1 DEF Open
      <3> QED BY <3>1
    <2>2. CASE Open(p) /\ lobject[loid[p]] # "whole"
      BY <2>2 DEF Open
    <2>3. CASE Copy(p)
      BY <2>3 DEF Copy, AfterCopy
    <2> QED BY <1>4, <2>1, <2>2, <2>3
  <1>5. ASSUME NEW p \in Procs, Move(p)  PROVE CacherTypeOK'
    <2>1. temp[p] = "whole" /\ file[p] \in Digests
      BY <1>2, <1>5 DEF Move, CopiesWhole
    <2> QED BY <1>5, <2>1 DEF Move
  <1>6. ASSUME NEW p \in Procs, CreateFile(p)  PROVE CacherTypeOK'
    BY <1>6 DEF CreateFile
  <1>7. ASSUME NEW p \in Procs, CommitFile(p)  PROVE CacherTypeOK'
    <2>1. loid[p] \in Loids /\ file[p] \in Digests
      BY <1>2, <1>7, ZenonT(60) DEF CommitFile, ObjectsOwned
    <2> QED BY <1>7, <2>1, ZenonT(60) DEF CommitFile, Superfluous
  <1>8. ASSUME NEW p \in Procs, PutInCache(p)  PROVE CacherTypeOK'
    <2>1. file[p] \in Digests
      BY <1>2, <1>8 DEF PutInCache
    <2> QED BY <1>8, <2>1 DEF PutInCache
  <1>9. ASSUME NEW p \in Procs, Unlink(p) \/ DeleteRow(p) \/ Killed(p)
        PROVE  CacherTypeOK'
    <2>1. CASE Unlink(p)
      <3>1. UNCHANGED <<cache, row, file, temp, loid, doomed>>
        BY <2>1 DEF Unlink
      <3>2. file[p] \in Digests /\ row[file[p]] \in Loids \cup {0}
        BY <2>1 DEF Unlink, Busied, Busy
      <3>3. CASE UNCHANGED lobject /\ (Returns(p, "deleted") \/ Returns(p, "error"))
        BY <3>1, <3>3
      <3>4. CASE /\ row[file[p]] \in Loids
                 /\ lobject' = [lobject EXCEPT ![row[file[p]]] = "unlinked"]
                 /\ Goes(p, "delete row") /\ UNCHANGED got
        BY <3>1, <3>4
      <3> QED BY <2>1, <3>2, <3>3, <3>4 DEF Unlink
    <2>2. CASE DeleteRow(p)
      BY <2>2 DEF DeleteRow, Busied, Busy
    <2>3. CASE Killed(p)
      BY <2>3 DEF Killed
    <2> QED BY <1>9, <2>1, <2>2, <2>3
  <1>10. ASSUME NEW p \in Procs, NEW l \in Loids, WriteObject(p, l)  PROVE CacherTypeOK'
    BY <1>10 DEF WriteObject
  <1>11. ASSUME NEW d \in Digests, Drop(d)  PROVE CacherTypeOK'
    BY <1>11 DEF Drop
  <1>12. CASE UNCHANGED cacherVars
    BY <1>12 DEF cacherVars
  <1> QED BY <1>1, <1>3, <1>4, <1>5, <1>6, <1>7, <1>8, <1>9, <1>10, <1>11, <1>12 DEF CacherNext

(* Copies: part of a file is only ever in a temporary file that its        *)
(* process is still filling.                                               *)
LEMMA NextCopiesWhole == CacherInv /\ [CacherNext]_cacherVars => CopiesWhole'
  <1> SUFFICES ASSUME CacherInv, [CacherNext]_cacherVars  PROVE CopiesWhole'
    OBVIOUS
  <1> USE DEF CacherInv, CacherTypeOK, Steps, CopiesWhole, Goes, Returns
  <1>1. ASSUME NEW p \in Procs, NEW d \in Digests, GetFile(p, d)  PROVE CopiesWhole'
    BY <1>1, ZenonT(60) DEF GetFile
  <1>2. ASSUME NEW p \in Procs, NEW d \in Digests, PutFile(p, d)  PROVE CopiesWhole'
    BY <1>2 DEF PutFile
  <1>3. ASSUME NEW p \in Procs, NEW d \in Digests, Delete(p, d)  PROVE CopiesWhole'
    BY <1>3 DEF Delete
  <1>4. ASSUME NEW p \in Procs, LookUp(p)  PROVE CopiesWhole'
    <2>1. CASE row[file[p]] = 0
      BY <1>4, <2>1, ZenonT(60) DEF LookUp
    <2>2. CASE row[file[p]] # 0
      BY <1>4, <2>2, ZenonT(60) DEF LookUp
    <2> QED BY <2>1, <2>2
  <1>5. ASSUME NEW p \in Procs, Open(p)  PROVE CopiesWhole'
    <2>1. CASE lobject[loid[p]] = "whole"
      BY <1>5, <2>1, ZenonT(60) DEF Open
    <2>2. CASE lobject[loid[p]] # "whole"
      <3>1. /\ step' = [step EXCEPT ![p] = "done"] /\ got' = [got EXCEPT ![p] = "error"]
            /\ UNCHANGED <<cache, temp>>
        BY <1>5, <2>2 DEF Open
      <3> QED BY <3>1
    <2> QED BY <2>1, <2>2
  <1>6. ASSUME NEW p \in Procs, Copy(p)  PROVE CopiesWhole'
    BY <1>6 DEF Copy, AfterCopy
  <1>7. ASSUME NEW p \in Procs, Move(p)  PROVE CopiesWhole'
    BY <1>7 DEF Move
  <1>8. ASSUME NEW p \in Procs, CreateFile(p)  PROVE CopiesWhole'
    BY <1>8 DEF CreateFile
  <1>9. ASSUME NEW p \in Procs, CommitFile(p)  PROVE CopiesWhole'
    BY <1>9 DEF CommitFile
  <1>10. ASSUME NEW p \in Procs, PutInCache(p)  PROVE CopiesWhole'
    BY <1>10 DEF PutInCache
  <1>11. ASSUME NEW p \in Procs, Unlink(p)  PROVE CopiesWhole'
    <2>1. CASE UNCHANGED got /\ Goes(p, "delete row")
      BY <1>11, <2>1 DEF Unlink
    <2>2. CASE Returns(p, "deleted")
      BY <1>11, <2>2 DEF Unlink
    <2>3. CASE Returns(p, "error")
      BY <1>11, <2>3 DEF Unlink
    <2> QED BY <1>11, <2>1, <2>2, <2>3 DEF Unlink
  <1>12. ASSUME NEW p \in Procs, DeleteRow(p) \/ Killed(p)  PROVE CopiesWhole'
    <2>1. CASE DeleteRow(p)
      BY <2>1 DEF DeleteRow
    <2>2. CASE Killed(p)
      BY <2>2 DEF Killed
    <2> QED BY <1>12, <2>1, <2>2
  <1>13. ASSUME NEW p \in Procs, NEW l \in Loids, WriteObject(p, l)  PROVE CopiesWhole'
    BY <1>13 DEF WriteObject
  <1>14. ASSUME NEW d \in Digests, Drop(d)  PROVE CopiesWhole'
    BY <1>14 DEF Drop
  <1>15. CASE UNCHANGED cacherVars
    BY <1>15 DEF cacherVars
  <1> QED BY <1>1, <1>2, <1>3, <1>4, <1>5, <1>6, <1>7, <1>8, <1>9, <1>10, <1>11, <1>12,
             <1>13, <1>14, <1>15 DEF CacherNext

(* Files: who deletes one has condemned it.                                *)
LEMMA NextBusied == CacherInv /\ [CacherNext]_cacherVars => Busied'
  <1> SUFFICES ASSUME CacherInv, [CacherNext]_cacherVars  PROVE Busied'
    OBVIOUS
  <1> SUFFICES ASSUME NEW q \in Procs  PROVE Busy(q)'
    BY DEF Busied
  <1> USE DEF CacherInv, CacherTypeOK, Steps, Goes, Returns, Busied, Busy
  <1>1. ASSUME NEW p \in Procs, NEW d \in Digests, GetFile(p, d)  PROVE Busy(q)'
    <2>1. CASE cache[d] = "absent"
      BY <1>1, <2>1 DEF GetFile
    <2>2. CASE cache[d] # "absent"
      BY <1>1, <2>2, ZenonT(60) DEF GetFile
    <2> QED BY <2>1, <2>2
  <1>2. ASSUME NEW p \in Procs, NEW d \in Digests, PutFile(p, d)  PROVE Busy(q)'
    BY <1>2 DEF PutFile
  <1>3. ASSUME NEW p \in Procs, NEW d \in Digests, Delete(p, d)  PROVE Busy(q)'
    BY <1>3 DEF Delete
  <1>4. ASSUME NEW p \in Procs, LookUp(p)  PROVE Busy(q)'
    <2>1. CASE row[file[p]] = 0
      BY <1>4, <2>1, ZenonT(60) DEF LookUp
    <2>2. CASE row[file[p]] # 0
      BY <1>4, <2>2, ZenonT(60) DEF LookUp
    <2> QED BY <2>1, <2>2
  <1>5. ASSUME NEW p \in Procs, Open(p)  PROVE Busy(q)'
    <2>1. CASE lobject[loid[p]] = "whole"
      BY <1>5, <2>1, ZenonT(60) DEF Open
    <2>2. CASE lobject[loid[p]] # "whole"
      BY <1>5, <2>2, ZenonT(60) DEF Open
    <2> QED BY <2>1, <2>2
  <1>6. ASSUME NEW p \in Procs, Copy(p)  PROVE Busy(q)'
    BY <1>6 DEF Copy, AfterCopy
  <1>7. ASSUME NEW p \in Procs, Move(p)  PROVE Busy(q)'
    BY <1>7 DEF Move
  <1>8. ASSUME NEW p \in Procs, CreateFile(p)  PROVE Busy(q)'
    <2>1. CASE AlreadyStored(p)
      BY <1>8, <2>1 DEF CreateFile, AlreadyStored
    <2>2. CASE ~AlreadyStored(p)
      BY <1>8, <2>2 DEF CreateFile, AlreadyStored
    <2> QED BY <2>1, <2>2
  <1>9. ASSUME NEW p \in Procs, CommitFile(p)  PROVE Busy(q)'
    <2>1. CASE row[file[p]] = 0
      BY <1>9, <2>1 DEF CommitFile, Superfluous
    <2>2. CASE row[file[p]] # 0
      BY <1>9, <2>2 DEF CommitFile, Superfluous
    <2> QED BY <2>1, <2>2
  <1>10. ASSUME NEW p \in Procs, PutInCache(p)  PROVE Busy(q)'
    BY <1>10 DEF PutInCache
  <1>11. ASSUME NEW p \in Procs, Unlink(p)  PROVE Busy(q)'
    <2>1. CASE UNCHANGED got /\ Goes(p, "delete row")
      BY <1>11, <2>1 DEF Unlink
    <2>2. CASE Returns(p, "deleted") /\ UNCHANGED lobject
      BY <1>11, <2>2 DEF Unlink
    <2>3. CASE Returns(p, "error") /\ UNCHANGED lobject
      BY <1>11, <2>3 DEF Unlink
    <2> QED BY <1>11, <2>1, <2>2, <2>3 DEF Unlink
  <1>12. ASSUME NEW p \in Procs, DeleteRow(p)  PROVE Busy(q)'
    BY <1>12 DEF DeleteRow
  <1>13. ASSUME NEW p \in Procs, Killed(p)  PROVE Busy(q)'
    BY <1>13 DEF Killed
  <1>14. ASSUME NEW p \in Procs, NEW l \in Loids, WriteObject(p, l)  PROVE Busy(q)'
    BY <1>14 DEF WriteObject
  <1>15. ASSUME NEW d \in Digests, Drop(d)  PROVE Busy(q)'
    BY <1>15 DEF Drop
  <1>16. CASE UNCHANGED cacherVars
    BY <1>16 DEF cacherVars
  <1> QED BY <1>1, <1>2, <1>3, <1>4, <1>5, <1>6, <1>7, <1>8, <1>9,
             <1>10, <1>11, <1>12, <1>13, <1>14, <1>15, <1>16 DEF CacherNext

(* Steps that neither store nor delete: they leave rows and objects alone, *)
(* nobody starts to commit, and who returns a digest has seen its row.     *)
Undisturbed(q) ==
    /\ step'[q] = "commit" => step[q] = "commit" /\ loid'[q] = loid[q]
    /\ step'[q] = "put" \/ got'[q] = "stored"
           => /\ file'[q] = file[q]
              /\ step[q] = "put" \/ got[q] = "stored" \/ row[file[q]] # 0

StoringStep ==
    \/ \E p \in Procs : CommitFile(p) \/ Unlink(p) \/ DeleteRow(p)
    \/ \E p \in Procs, l \in Loids : WriteObject(p, l)

LEMMA UndisturbedSteps ==
    ASSUME CacherTypeOK, Busied, [CacherNext]_cacherVars, ~StoringStep, NEW q \in Procs
    PROVE  Undisturbed(q)
  <1> USE DEF CacherTypeOK, Steps, Goes, Returns, Busied, Busy, Undisturbed
  <1>1. ASSUME NEW p \in Procs, NEW d \in Digests, GetFile(p, d)  PROVE Undisturbed(q)
    <2>1. step[p] = "start" /\ step[p] # "commit" /\ got[p] = "nothing"
      BY <1>1 DEF GetFile
    <2>2. \/ step'[p] = "done" /\ got'[p] = cache[d] /\ cache[d] \in {"part", "whole"}
          \/ step'[p] = "look up" /\ got'[p] = got[p]
      <3>1. CASE cache[d] # "absent" /\ Returns(p, cache[d])
        BY <3>1
      <3>2. CASE Goes(p, "look up") /\ UNCHANGED got
        BY <3>2
      <3> QED BY <1>1, <3>1, <3>2 DEF GetFile
    <2>3. q # p => step'[q] = step[q] /\ got'[q] = got[q] /\ file'[q] = file[q] /\ loid'[q] = loid[q]
      BY <1>1 DEF GetFile
    <2> QED BY <2>1, <2>2, <2>3
  <1>2. ASSUME NEW p \in Procs, NEW d \in Digests, PutFile(p, d)  PROVE Undisturbed(q)
    BY <1>2 DEF PutFile
  <1>3. ASSUME NEW p \in Procs, NEW d \in Digests, Delete(p, d)  PROVE Undisturbed(q)
    BY <1>3 DEF Delete
  <1>4. ASSUME NEW p \in Procs, LookUp(p)  PROVE Undisturbed(q)
    <2>1. step[p] = "look up" /\ got[p] = "nothing"
      BY <1>4 DEF LookUp
    <2>2. \/ step'[p] = "done" /\ got'[p] = "error"
          \/ step'[p] = "open" /\ got'[p] = got[p]
      BY <1>4, ZenonT(60) DEF LookUp
    <2>3. q # p => step'[q] = step[q] /\ got'[q] = got[q] /\ file'[q] = file[q] /\ loid'[q] = loid[q]
      BY <1>4 DEF LookUp
    <2> QED BY <2>1, <2>2, <2>3
  <1>5. ASSUME NEW p \in Procs, Open(p)  PROVE Undisturbed(q)
    <2>1. CASE lobject[loid[p]] = "whole"
      BY <1>5, <2>1, ZenonT(60) DEF Open
    <2>2. CASE lobject[loid[p]] # "whole"
      BY <1>5, <2>2, ZenonT(60) DEF Open
    <2> QED BY <2>1, <2>2
  <1>6. ASSUME NEW p \in Procs, Copy(p)  PROVE Undisturbed(q)
    BY <1>6 DEF Copy, AfterCopy
  <1>7. ASSUME NEW p \in Procs, Move(p)  PROVE Undisturbed(q)
    BY <1>7 DEF Move
  <1>8. ASSUME NEW p \in Procs, CreateFile(p)  PROVE Undisturbed(q)
    <2>1. CASE AlreadyStored(p)
      BY <1>8, <2>1 DEF CreateFile, AlreadyStored
    <2>2. CASE ~AlreadyStored(p)
      BY <1>8, <2>2 DEF CreateFile, AlreadyStored
    <2> QED BY <2>1, <2>2
  <1>9. ASSUME NEW p \in Procs, PutInCache(p)  PROVE Undisturbed(q)
    BY <1>9 DEF PutInCache
  <1>10. ASSUME NEW p \in Procs, Killed(p)  PROVE Undisturbed(q)
    BY <1>10 DEF Killed
  <1>11. ASSUME NEW d \in Digests, Drop(d)  PROVE Undisturbed(q)
    BY <1>11 DEF Drop
  <1>12. CASE UNCHANGED cacherVars
    BY <1>12 DEF cacherVars
  <1> QED BY <1>1, <1>2, <1>3, <1>4, <1>5, <1>6, <1>7, <1>8, <1>9, <1>10, <1>11, <1>12 DEF CacherNext, StoringStep

LEMMA UndisturbedState ==
    ASSUME [CacherNext]_cacherVars, ~StoringStep
    PROVE  row' = row /\ lobject' = lobject /\ doomed \subseteq doomed'
  <1>1. CASE UNCHANGED cacherVars
    BY <1>1 DEF cacherVars
  <1>2. ASSUME NEW p \in Procs, NEW d \in Digests, GetFile(p, d) \/ PutFile(p, d) \/ Delete(p, d)
        PROVE  row' = row /\ lobject' = lobject /\ doomed \subseteq doomed'
    BY <1>2 DEF GetFile, PutFile, Delete
  <1>3. ASSUME NEW p \in Procs, LookUp(p) \/ Open(p) \/ Copy(p) \/ Move(p) \/ CreateFile(p)
                                \/ PutInCache(p) \/ Killed(p)
        PROVE  row' = row /\ lobject' = lobject /\ doomed \subseteq doomed'
    BY <1>3 DEF LookUp, Open, Copy, Move, CreateFile, PutInCache, Killed
  <1>4. ASSUME NEW d \in Digests, Drop(d)
        PROVE  row' = row /\ lobject' = lobject /\ doomed \subseteq doomed'
    BY <1>4 DEF Drop
  <1> QED BY <1>1, <1>2, <1>3, <1>4 DEF CacherNext, StoringStep

(* What the four storing steps do to rows, objects and their process.      *)
LEMMA CommitEffect ==
    ASSUME CacherInv, NEW p \in Procs, CommitFile(p)
    PROVE  /\ step[p] = "commit" /\ file[p] \in Digests /\ loid[p] \in Loids
           /\ lobject[loid[p]] = "whole" /\ got'[p] = "nothing" /\ step'[p] = "put"
           /\ \/ /\ row[file[p]] = 0 /\ lobject' = lobject
                 /\ \A d \in Digests : row'[d] = IF d = file[p] THEN loid[p] ELSE row[d]
              \/ /\ row[file[p]] # 0 /\ row' = row
                 /\ \A l \in Loids : lobject'[l] = IF l = loid[p] THEN "unlinked" ELSE lobject[l]
           /\ \A q \in Procs \ {p} : step'[q] = step[q]
           /\ file' = file /\ loid' = loid /\ got' = got /\ doomed' = doomed
  <1> USE DEF CacherInv, CacherTypeOK
  <1>1. step[p] = "commit" /\ loid[p] \in Loids /\ lobject[loid[p]] = "whole"
    BY DEF CommitFile, ObjectsOwned
  <1>2. file[p] \in Digests /\ got[p] = "nothing"
    BY <1>1 DEF Busied, Busy
  <1>3. /\ file' = file /\ loid' = loid /\ got' = got /\ doomed' = doomed
        /\ step' = [step EXCEPT ![p] = "put"]
    BY DEF CommitFile, Goes
  <1>4. CASE row[file[p]] = 0
    BY <1>1, <1>2, <1>3, <1>4 DEF CommitFile
  <1>5. CASE row[file[p]] # 0
    BY <1>1, <1>2, <1>3, <1>5 DEF CommitFile, Superfluous
  <1> QED BY <1>4, <1>5

LEMMA UnlinkEffect ==
    ASSUME CacherInv, NEW p \in Procs, Unlink(p)
    PROVE  /\ file[p] \in doomed /\ file[p] \in Digests
           /\ row' = row /\ file' = file /\ loid' = loid /\ doomed' = doomed
           /\ \A q \in Procs \ {p} : step'[q] = step[q] /\ got'[q] = got[q]
           /\ step'[p] \in {"done", "delete row"} /\ got'[p] # "stored"
           /\ \/ lobject' = lobject
              \/ /\ row[file[p]] \in Loids
                 /\ \A l \in Loids : lobject'[l] = IF l = row[file[p]] THEN "unlinked" ELSE lobject[l]
  <1> USE DEF CacherInv, CacherTypeOK
  <1>1. step[p] = "unlink" /\ file[p] \in doomed /\ file[p] \in Digests /\ got[p] = "nothing"
    BY DEF Unlink, Busied, Busy
  <1>2. row[file[p]] \in Loids \cup {0}
    BY <1>1
  <1>3. row' = row /\ file' = file /\ loid' = loid /\ doomed' = doomed
    BY DEF Unlink
  <1>4. CASE Returns(p, "deleted") /\ UNCHANGED lobject
    BY <1>1, <1>3, <1>4 DEF Returns, Goes
  <1>5. CASE Returns(p, "error") /\ UNCHANGED lobject
    BY <1>1, <1>3, <1>5 DEF Returns, Goes
  <1>6. CASE /\ row[file[p]] # 0
             /\ lobject' = [lobject EXCEPT ![row[file[p]]] = "unlinked"]
             /\ Goes(p, "delete row") /\ UNCHANGED got
    BY <1>1, <1>2, <1>3, <1>6 DEF Goes
  <1> QED BY <1>4, <1>5, <1>6 DEF Unlink

LEMMA DeleteRowEffect ==
    ASSUME CacherInv, NEW p \in Procs, DeleteRow(p)
    PROVE  /\ file[p] \in doomed /\ file[p] \in Digests
           /\ \A d \in Digests : row'[d] = IF d = file[p] THEN 0 ELSE row[d]
           /\ lobject' = lobject /\ file' = file /\ loid' = loid /\ doomed' = doomed
           /\ \A q \in Procs \ {p} : step'[q] = step[q] /\ got'[q] = got[q]
           /\ step'[p] = "done" /\ got'[p] = "deleted"
  BY DEF DeleteRow, CacherInv, CacherTypeOK, Busied, Busy, Returns, Goes

LEMMA WriteEffect ==
    ASSUME CacherInv, NEW p \in Procs, NEW l \in Loids, WriteObject(p, l)
    PROVE  /\ lobject[l] = "free" /\ l # 0
           /\ \A m \in Loids : lobject'[m] = IF m = l THEN "whole" ELSE lobject[m]
           /\ \A q \in Procs \ {p} : step'[q] = step[q] /\ loid'[q] = loid[q]
           /\ step'[p] = "commit" /\ loid'[p] = l /\ got[p] = "nothing"
           /\ row' = row /\ file' = file /\ got' = got /\ doomed' = doomed
  <1>1. l # 0
    BY FileCacherAssumption DEF Loids
  <1>2. got[p] = "nothing"
    BY DEF WriteObject, CacherInv, Busied, Busy
  <1>3. lobject \in [Loids -> {"free", "whole", "unlinked"}] /\ step \in [Procs -> Steps]
        /\ loid \in [Procs -> Loids \cup {0}]
    BY DEF CacherInv, CacherTypeOK
  <1> QED BY <1>1, <1>2, <1>3 DEF WriteObject, Goes

(* Large objects: nobody unlinks one that is another file's.               *)
LEMMA NextObjectsOwned == CacherInv /\ [CacherNext]_cacherVars => ObjectsOwned'
  <1> SUFFICES ASSUME CacherInv, [CacherNext]_cacherVars  PROVE ObjectsOwned'
    OBVIOUS
  <1>0. /\ ObjectsOwned /\ row \in [Digests -> Loids \cup {0}] /\ loid \in [Procs -> Loids \cup {0}]
        /\ 0 \notin Loids
    BY DEF CacherInv, CacherTypeOK, Loids
  <1>1. CASE ~StoringStep
    <2>1. \A q \in Procs : Undisturbed(q)
      BY <1>1, UndisturbedSteps DEF CacherInv
    <2>2. row' = row /\ lobject' = lobject
      BY <1>1, UndisturbedState
    <2> QED BY <1>0, <2>1, <2>2 DEF ObjectsOwned, Undisturbed
  <1>2. ASSUME NEW p \in Procs, CommitFile(p)  PROVE ObjectsOwned'
    <2>1. CASE row' = row
      BY <1>0, <1>2, <2>1, CommitEffect DEF ObjectsOwned
    <2>2. CASE row' # row
      BY <1>0, <1>2, <2>2, CommitEffect DEF ObjectsOwned
    <2> QED BY <2>1, <2>2
  <1>3. ASSUME NEW p \in Procs, Unlink(p)  PROVE ObjectsOwned'
    <2>0. /\ file[p] \in doomed /\ file[p] \in Digests
          /\ row' = row /\ file' = file /\ loid' = loid /\ doomed' = doomed
          /\ \A q \in Procs \ {p} : step'[q] = step[q] /\ got'[q] = got[q]
          /\ step'[p] \in {"done", "delete row"} /\ got'[p] # "stored"
          /\ \/ lobject' = lobject
             \/ \A l \in Loids : lobject'[l] = IF l = row[file[p]] THEN "unlinked" ELSE lobject[l]
      BY <1>3, UnlinkEffect
    <2>1. \A q \in Procs : step'[q] = "commit" => step[q] = "commit"
      BY <2>0
    <2>2. CASE lobject' = lobject
      BY <1>0, <2>0, <2>1, <2>2, ZenonT(60) DEF ObjectsOwned
    <2>3. CASE lobject' # lobject
      <3>1. \A l \in Loids : lobject[l] # "free" => lobject'[l] # "free"
        BY <2>0, <2>3
      <3>2. \A q \in Procs : step[q] = "commit"
                             => loid[q] \in Loids /\ lobject'[loid[q]] = "whole"
        <4> SUFFICES ASSUME NEW q \in Procs, step[q] = "commit"
                     PROVE  loid[q] \in Loids /\ lobject'[loid[q]] = "whole"
          OBVIOUS
        <4>1. loid[q] \in Loids /\ lobject[loid[q]] = "whole" /\ row[file[p]] # loid[q]
          BY <1>0, <2>0, ZenonT(60) DEF ObjectsOwned
        <4> QED BY <2>0, <2>3, <4>1
      <3>3. \A d \in Digests : row'[d] # 0 => lobject'[row'[d]] # "free"
        <4>1. row' = row
          BY <2>0
        <4> QED BY <1>0, <3>1, <4>1 DEF ObjectsOwned
      <3>4. \A q \in Procs : step'[q] = "commit" =>
               /\ loid'[q] # 0 /\ lobject'[loid'[q]] = "whole"
               /\ \A d \in Digests : row'[d] # loid'[q]
        BY <1>0, <2>0, <2>1, <3>2 DEF ObjectsOwned
      <3>5. \A q, r \in Procs :
               step'[q] = "commit" /\ step'[r] = "commit" /\ loid'[q] = loid'[r] => q = r
        BY <1>0, <2>0, <2>1 DEF ObjectsOwned
      <3>6. \A d, e \in Digests : row'[d] # 0 /\ row'[d] = row'[e] => d = e
        BY <1>0, <2>0 DEF ObjectsOwned
      <3> QED BY <3>3, <3>4, <3>5, <3>6 DEF ObjectsOwned
    <2> QED BY <2>2, <2>3
  <1>4. ASSUME NEW p \in Procs, DeleteRow(p)  PROVE ObjectsOwned'
    <2>1. \A q \in Procs : step'[q] = "commit" => step[q] = "commit"
      BY <1>4, DeleteRowEffect
    <2>2. \A d \in Digests : row'[d] = row[d] \/ row'[d] = 0
      BY <1>4, DeleteRowEffect
    <2>3. lobject' = lobject /\ loid' = loid
      BY <1>4, DeleteRowEffect
    <2> QED BY <1>0, <2>1, <2>2, <2>3 DEF ObjectsOwned
  <1>5. ASSUME NEW p \in Procs, NEW l \in Loids, WriteObject(p, l)  PROVE ObjectsOwned'
    BY <1>0, <1>5, WriteEffect DEF ObjectsOwned
  <1> QED BY <1>1, <1>2, <1>3, <1>4, <1>5 DEF StoringStep

(* Rows: a row that nobody deletes keeps its large object.                 *)
LEMMA NextKept == CacherInv /\ [CacherNext]_cacherVars => Kept'
  <1> SUFFICES ASSUME CacherInv, [CacherNext]_cacherVars  PROVE Kept'
    OBVIOUS
  <1>0. /\ ObjectsOwned /\ Kept /\ Busied /\ row \in [Digests -> Loids \cup {0}]
        /\ loid \in [Procs -> Loids \cup {0}] /\ 0 \notin Loids
        /\ \A q \in Procs : step[q] = "put" \/ got[q] = "stored" => file[q] \in Digests
    <2>1. \A q \in Procs : step[q] = "put" \/ got[q] = "stored" => file[q] \in Digests
      BY DEF CacherInv, Busied, Busy
    <2> QED BY <2>1 DEF CacherInv, CacherTypeOK, Loids
  <1>1. CASE ~StoringStep
    <2>1. \A q \in Procs : Undisturbed(q)
      BY <1>1, UndisturbedSteps DEF CacherInv
    <2>2. row' = row /\ lobject' = lobject /\ doomed \subseteq doomed'
      BY <1>1, UndisturbedState
    <2> QED BY <1>0, <2>1, <2>2 DEF Kept, Undisturbed
  <1>2. ASSUME NEW p \in Procs, CommitFile(p)  PROVE Kept'
    <2>1. CASE row' = row
      BY <1>0, <1>2, <2>1, CommitEffect DEF Kept, ObjectsOwned
    <2>2. CASE row' # row
      BY <1>0, <1>2, <2>2, CommitEffect DEF Kept, ObjectsOwned
    <2> QED BY <2>1, <2>2
  <1>3. ASSUME NEW p \in Procs, Unlink(p)  PROVE Kept'
    <2>0. /\ file[p] \in doomed /\ file[p] \in Digests
          /\ row' = row /\ file' = file /\ loid' = loid /\ doomed' = doomed
          /\ \A q \in Procs \ {p} : step'[q] = step[q] /\ got'[q] = got[q]
          /\ step'[p] \in {"done", "delete row"} /\ got'[p] # "stored"
          /\ \/ lobject' = lobject
             \/ \A l \in Loids : lobject'[l] = IF l = row[file[p]] THEN "unlinked" ELSE lobject[l]
      BY <1>3, UnlinkEffect
    <2>1. \A d \in Digests \ doomed : row[d] # 0 => row[d] # row[file[p]]
      BY <1>0, <2>0 DEF ObjectsOwned
    <2>2. \A q \in Procs : step'[q] = "put" \/ got'[q] = "stored"
                           => step[q] = "put" \/ got[q] = "stored"
      BY <2>0
    <2>3. \A d \in Digests \ doomed : row[d] # 0 => lobject'[row[d]] = lobject[row[d]]
      <3>1. CASE lobject' = lobject
        BY <3>1
      <3>2. CASE lobject' # lobject
        BY <1>0, <2>0, <2>1, <3>2, ZenonT(60)
      <3> QED BY <3>1, <3>2
    <2> QED BY <1>0, <2>0, <2>2, <2>3 DEF Kept
  <1>4. ASSUME NEW p \in Procs, DeleteRow(p)  PROVE Kept'
    <2>1. \A q \in Procs : step'[q] = "put" \/ got'[q] = "stored"
                           => step[q] = "put" \/ got[q] = "stored"
      BY <1>4, DeleteRowEffect
    <2>2. \A d \in Digests \ doomed : row'[d] = row[d]
      BY <1>4, DeleteRowEffect
    <2>3. lobject' = lobject /\ file' = file /\ doomed' = doomed
      BY <1>4, DeleteRowEffect
    <2> QED BY <1>0, <2>1, <2>2, <2>3 DEF Kept
  <1>5. ASSUME NEW p \in Procs, NEW l \in Loids, WriteObject(p, l)  PROVE Kept'
    BY <1>0, <1>5, WriteEffect DEF Kept, ObjectsOwned
  <1> QED BY <1>1, <1>2, <1>3, <1>4, <1>5 DEF StoringStep

(* FileCacher and FSObject: however many processes load, store and delete  *)
(* files at once, and wherever they are killed, get_file never returns     *)
(* part of a file, and a digest that put_file_from_fobj returned can be    *)
(* read as long as nobody deletes it.                                      *)
THEOREM FilesAreSafe == CacherSpec => []CacheSound
  <1>1. CacherInv => CacheSound
    BY DEF CacherInv, CacherTypeOK, CopiesWhole, Busied, Busy, Kept, CacheSound,
           ReadsWholeFiles, StoredIsThere
  <1> QED BY <1>1, InitCacherInv, NextCacherType, NextCopiesWhole, NextBusied,
             NextObjectsOwned, NextKept, PTL DEF CacherSpec, CacherInv


-----------------------------------------------------------------------------
(* EventSource. The history of the server: E are its events, and H what it *)
(* had after each of them.                                                 *)

UserStates == [present : SUBSET Viewed, points : [Viewed -> 0 .. MaxPoints]]

Events == [type : {"create", "delete", "score"}, user : Viewed, value : 0 .. MaxPoints, key : Nat]

Happens(e, before, after) ==
    \/ /\ e.type = "create" /\ e.user \notin before.present
       /\ after.present = before.present \cup {e.user} /\ after.points = before.points
    \/ /\ e.type = "delete" /\ e.user \in before.present /\ before.points[e.user] = 0
       /\ after.present = before.present \ {e.user} /\ after.points = before.points
    \/ /\ e.type = "score" /\ e.user \in before.present
       /\ after.present = before.present
       /\ after.points = [before.points EXCEPT ![e.user] = e.value]

NoPointsLeft(h) == \A u \in Viewed \ h.present : h.points[u] = 0

History(H, E) ==
    /\ H \in [0 .. clock -> UserStates] /\ E \in [1 .. clock -> Events]
    /\ H[clock].present = present /\ H[clock].points = points
    /\ \A k \in 0 .. clock : NoPointsLeft(H[k])
    /\ \A k \in 1 .. clock : E[k].key = k /\ Happens(E[k], H[k - 1], H[k])

(* The cache and the stream are the last of the events.                    *)
EndOf(s, E, n) == Len(s) <= n /\ \A i \in 1 .. Len(s) : s[i] = E[n - Len(s) + i]

(* Types, and the page before it is live.                                  *)
PageTypes ==
    /\ clock \in Nat
    /\ cached \in Seq(Events) /\ stream \in Seq(Events \cup {Reinit})
    /\ phase \in {"users", "scores", "live", "broken"}
    /\ es \in {"connecting", "open", "closed", "error"}
    /\ known \subseteq Viewed /\ shown \in [Viewed -> 0 .. MaxPoints] /\ rank \in [Viewed -> Int]
    /\ fetching \in SUBSET (Viewed \X {"asked", "found", "gone"})
    /\ {missed, raised, reborn} \subseteq BOOLEAN
    /\ phase # "live" => es = "connecting" /\ seen_id = 0 /\ fetching = {} /\ stream = <<>>

Loading(H, E) ==
    phase = "scores" =>
        /\ user_init_time \in 0 .. clock /\ known = H[user_init_time].present
        /\ ~reborn => \A k \in user_init_time + 1 .. clock :
              /\ E[k].type = "create" => E[k].user \notin known
              /\ E[k].type = "delete" => E[k].user \notin known \/ E[k].user \notin present

(* What the page asks for is the time of the last event it has seen.       *)
Asks ==
    /\ user_init_time \in 0 .. last_event_id
    /\ score_init_time \in 0 .. clock /\ last_event_id \in 0 .. clock
    /\ seen_id \in {0, last_event_id} /\ (seen_id = 0 => url_id = last_event_id)

Fetches ==
    /\ \A f, g \in fetching : f[1] = g[1] => f = g
    /\ \A f \in fetching : f[1] \notin known

(* What follows the last event is no longer (all) in the cache.            *)
Outdated == last_event_id <= clock - Len(cached)

Restarted == stream # <<>> /\ stream[1].type = "reinit"

InTouch == IF es = "open" THEN ~Restarted ELSE es # "error" /\ ~Outdated

(* The event the scores of the page are those of.                          *)
Latest == IF last_event_id < score_init_time THEN score_init_time ELSE last_event_id

(* The page is as the server was at the last event it has seen; its scores *)
(* are those of the answer until the events overtake it.                   *)
Matches(H, E) ==
    /\ H[last_event_id].present = known \cup {f[1] : f \in fetching}
    /\ \A u \in known : shown[u] = H[Latest].points[u]
    /\ \A f \in fetching : H[Latest].points[f[1]] = 0
    /\ \A k \in last_event_id + 1 .. score_init_time :
          E[k].type \in {"create", "delete"} => H[score_init_time].points[E[k].user] = 0

Following(H, E) ==
    Follows =>
        /\ RanksByScore /\ Asks /\ Fetches
        /\ es = "open" /\ Restarted => Outdated
        /\ InTouch => Matches(H, E)
        /\ es = "open" /\ ~Restarted => EndOf(stream, E, clock) /\ Len(stream) = clock - last_event_id

PageWith(H, E) == PageTypes /\ History(H, E) /\ EndOf(cached, E, clock) /\ Loading(H, E) /\ Following(H, E)

-----------------------------------------------------------------------------
(* EventSource: ranks. The higher score has the lower rank.                *)

LEMMA RankOrder ==
    ASSUME known \subseteq Viewed, NEW s \in [Viewed -> Nat], NEW u \in known, NEW w \in known
    PROVE  /\ RankBy(s, u) \in Nat
           /\ s[u] <= s[w] => RankBy(s, u) >= RankBy(s, w)
           /\ s[u] > s[w] => RankBy(s, u) < RankBy(s, w)
  <1> DEFINE above(x) == {y \in known : s[y] > s[x]}
  <1>1. \A x : IsFiniteSet(above(x)) /\ Cardinality(above(x)) \in Nat
    <2>1. \A x : above(x) \subseteq Viewed
      OBVIOUS
    <2> QED  BY <2>1, EventSourceAssumption, FS_Subset, FS_CardinalityType
  <1>2. RankBy(s, u) = 1 + Cardinality(above(u)) /\ RankBy(s, w) = 1 + Cardinality(above(w))
    BY DEF RankBy
  <1>3. \A x \in known : s[x] \in Nat
    OBVIOUS
  <1>4. ASSUME s[u] <= s[w]  PROVE RankBy(s, u) >= RankBy(s, w)
    <2>1. above(w) \subseteq above(u)
      BY <1>3, <1>4
    <2> HIDE DEF above
    <2>2. Cardinality(above(w)) <= Cardinality(above(u))
      BY <1>1, <2>1, FS_Subset
    <2> QED  BY <1>1, <1>2, <2>2
  <1>5. ASSUME s[u] > s[w]  PROVE RankBy(s, u) < RankBy(s, w)
    <2>1. above(u) \subseteq above(w) /\ u \in above(w) /\ u \notin above(u)
      BY <1>3, <1>5
    <2> HIDE DEF above
    <2>2. Cardinality(above(u)) < Cardinality(above(w))
      BY <1>1, <2>1, FS_Subset
    <2> QED  BY <1>1, <1>2, <2>2
  <1>6. RankBy(s, u) \in Nat
    <2> HIDE DEF above
    <2> QED  BY <1>1, <1>2
  <1> QED  BY <1>4, <1>5, <1>6

(* update_rank, "it can be shown that": a rank changes by one, and the     *)
(* ranks tell whose.                                                       *)
LEMMA RanksCorrected ==
    ASSUME known \subseteq Viewed, shown \in [Viewed -> Nat], NEW u \in known, NEW v \in Nat,
           \A w \in known : rank[w] = RankBy(shown, w)
    PROVE  \A w \in known : UpdatedRank(u, v)[w] = RankBy([shown EXCEPT ![u] = v], w)
  <1> DEFINE score == [shown EXCEPT ![u] = v]
             above(s, w) == {y \in known : s[y] > s[w]}
  <1>0. \A w \in known : UpdatedRank(u, v)[w] =
           IF w = u THEN RankBy(score, u)
           ELSE IF w \in known /\ rank[u] >= rank[w] /\ score[w] < v THEN rank[w] + 1
           ELSE IF w \in known /\ rank[w] > rank[u] /\ score[w] >= v THEN rank[w] - 1
           ELSE rank[w]
    BY DEF UpdatedRank
  <1>1. /\ score \in [Viewed -> Nat] /\ score[u] = v
        /\ \A y \in known : y # u => score[y] = shown[y]
        /\ \A y \in known : shown[y] \in Nat /\ score[y] \in Nat
    OBVIOUS
  <1> HIDE DEF score
  <1> SUFFICES ASSUME NEW w \in known, w # u
               PROVE  UpdatedRank(u, v)[w] = RankBy(score, w)
    BY <1>0 DEF score
  <1>2. /\ rank[u] \in Nat /\ rank[w] \in Nat /\ rank[w] = RankBy(shown, w)
        /\ shown[u] <= shown[w] => rank[u] >= rank[w]
        /\ shown[u] > shown[w] => rank[u] < rank[w]
    BY RankOrder
  <1>3. /\ IsFiniteSet(above(shown, w)) /\ IsFiniteSet(above(score, w))
        /\ Cardinality(above(shown, w)) \in Nat /\ Cardinality(above(score, w)) \in Nat
    <2>1. above(shown, w) \subseteq Viewed /\ above(score, w) \subseteq Viewed
      OBVIOUS
    <2> QED  BY <2>1, EventSourceAssumption, FS_Subset, FS_CardinalityType
  <1>4. /\ RankBy(shown, w) = 1 + Cardinality(above(shown, w))
        /\ RankBy(score, w) = 1 + Cardinality(above(score, w))
    BY DEF RankBy
  <1>5. /\ above(shown, w) \ {u} = above(score, w) \ {u}
        /\ u \in above(shown, w) <=> shown[u] > shown[w]
        /\ u \in above(score, w) <=> v > shown[w]
        /\ score[w] = shown[w]
    BY <1>1
  <1> HIDE DEF above
  <1>6. CASE shown[u] <= shown[w] /\ shown[w] < v
    <2>1. u \notin above(shown, w) /\ above(score, w) = above(shown, w) \cup {u}
      BY <1>1, <1>5, <1>6
    <2>2. Cardinality(above(score, w)) = Cardinality(above(shown, w)) + 1
      BY <1>3, <2>1, FS_AddElement
    <2> QED  BY <1>0, <1>2, <1>3, <1>4, <1>5, <1>6, <2>2
  <1>7. CASE shown[u] > shown[w] /\ shown[w] >= v
    <2>1. u \in above(shown, w) /\ above(score, w) = above(shown, w) \ {u}
      BY <1>1, <1>5, <1>7
    <2>2. Cardinality(above(score, w)) = Cardinality(above(shown, w)) - 1
      BY <1>3, <2>1, FS_RemoveElement
    <2> QED  BY <1>0, <1>1, <1>2, <1>3, <1>4, <1>5, <1>7, <2>2
  <1>8. CASE ~(shown[u] <= shown[w] /\ shown[w] < v) /\ ~(shown[u] > shown[w] /\ shown[w] >= v)
    <2>1. above(score, w) = above(shown, w)
      BY <1>1, <1>5, <1>8
    <2> QED  BY <1>0, <1>1, <1>2, <1>3, <1>4, <1>5, <1>8, <2>1
  <1> QED  BY <1>6, <1>7, <1>8

-----------------------------------------------------------------------------
(* The server puts events.                                                 *)

LEMMA EndGrows ==
    ASSUME NEW S, NEW E, NEW F, NEW s \in Seq(S), NEW t \in Seq(S), NEW n \in Nat,
           EndOf(s, E, n), \A k \in 1 .. n : F[k] = E[k],
           \A i \in 1 .. Len(t) : F[n + i] = t[i]
    PROVE  EndOf(s \o t, F, n + Len(t)) /\ s \o t \in Seq(S)
  <1>1. Len(s) \in Nat /\ Len(t) \in Nat /\ Len(s \o t) = Len(s) + Len(t) /\ Len(s) <= n
    BY DEF EndOf
  <1>2. ASSUME NEW i \in 1 .. Len(s \o t)
        PROVE  (s \o t)[i] = F[n + Len(t) - Len(s \o t) + i]
    <2>1. CASE i <= Len(s)
      <3>1. i \in 1 .. Len(s) /\ (s \o t)[i] = s[i]
        BY <1>1, <2>1
      <3>2. s[i] = E[n - Len(s) + i] /\ n - Len(s) + i \in 1 .. n
        BY <1>1, <3>1 DEF EndOf
      <3>3. n + Len(t) - Len(s \o t) + i = n - Len(s) + i
        BY <1>1, <3>1
      <3> QED  BY <3>1, <3>2, <3>3
    <2>2. CASE i > Len(s)
      <3>1. i - Len(s) \in 1 .. Len(t) /\ (s \o t)[i] = t[i - Len(s)]
        BY <1>1, <2>2
      <3>2. n + Len(t) - Len(s \o t) + i = n + (i - Len(s))
        BY <1>1, <3>1
      <3> QED  BY <3>1, <3>2
    <2> QED  BY <1>1, <2>1, <2>2
  <1> QED  BY <1>1, <1>2 DEF EndOf

LEMMA EndOfEnd ==
    ASSUME NEW S, NEW s \in Seq(S), NEW E, NEW n \in Nat, EndOf(s, E, n), NEW d \in 0 .. Len(s)
    PROVE  /\ SubSeq(s, d + 1, Len(s)) \in Seq(S) /\ Len(SubSeq(s, d + 1, Len(s))) = Len(s) - d
           /\ EndOf(SubSeq(s, d + 1, Len(s)), E, n)
  <1> DEFINE t == SubSeq(s, d + 1, Len(s))
  <1>1. t \in Seq(S) /\ Len(t) = Len(s) - d /\ Len(s) \in Nat /\ Len(s) <= n /\ d \in Nat
    BY DEF EndOf
  <1>2. \A i \in 1 .. Len(s) - d : t[i] = s[d + i]
    BY <1>1
  <1>3. \A i \in 1 .. Len(s) : s[i] = E[n - Len(s) + i]
    BY DEF EndOf
  <1>4. \A i \in 1 .. Len(s) - d : d + i \in 1 .. Len(s) /\ n - Len(s) + (d + i) = n - (Len(s) - d) + i
    BY <1>1
  <1> HIDE DEF t
  <1>5. EndOf(t, E, n)
    BY <1>1, <1>2, <1>3, <1>4 DEF EndOf
  <1> QED  BY <1>1, <1>5 DEF t

LEMMA NewestIs ==
    ASSUME NEW S, NEW s \in Seq(S), NEW E, NEW n \in Nat, EndOf(s, E, n)
    PROVE  Newest(s) \in Seq(S) /\ Len(Newest(s)) <= Len(s) /\ EndOf(Newest(s), E, n)
  <1>1. CacheSize \in Nat /\ CacheSize > 0 /\ Len(s) \in Nat
    BY EventSourceAssumption
  <1>2. CASE Len(s) <= CacheSize
    BY <1>1, <1>2 DEF Newest
  <1>3. CASE Len(s) > CacheSize
    <2>1. Len(s) - CacheSize \in 0 .. Len(s) /\ Newest(s) = SubSeq(s, Len(s) - CacheSize + 1, Len(s))
      BY <1>1, <1>3 DEF Newest
    <2>2. PICK d \in 0 .. Len(s) : d = Len(s) - CacheSize
      BY <2>1
    <2>3. Newest(s) = SubSeq(s, d + 1, Len(s))
      BY <2>1, <2>2
    <2>4. Newest(s) \in Seq(S) /\ Len(Newest(s)) = Len(s) - d /\ EndOf(Newest(s), E, n)
      BY <2>3, EndOfEnd
    <2> QED  BY <1>1, <1>3, <2>2, <2>4
  <1> QED  BY <1>1, <1>2, <1>3

(* A history that goes on with the states in G.                            *)
GoesOn(H, G, n, m) == [k \in 0 .. n + m |-> IF k <= n THEN H[k] ELSE G[k - n]]
Logged(E, t, n) == [k \in 1 .. n + Len(t) |-> IF k <= n THEN E[k] ELSE t[k - n]]

LEMMA HistoryGoesOn ==
    ASSUME NEW H, NEW E, History(H, E), NEW n \in Nat, n = clock,
           NEW t \in Seq(Events), clock' = n + Len(t),
           NEW G \in [0 .. Len(t) -> UserStates], G[0] = H[n],
           G[Len(t)].present = present', G[Len(t)].points = points',
           \A i \in 1 .. Len(t) : /\ NoPointsLeft(G[i]) /\ t[i].key = n + i
                                  /\ Happens(t[i], G[i - 1], G[i])
    PROVE  History(GoesOn(H, G, n, Len(t)), Logged(E, t, n))'
  <1> DEFINE m == Len(t)
             HH == GoesOn(H, G, n, m)
             EE == Logged(E, t, n)
  <1>1. /\ n \in Nat /\ m \in Nat /\ clock' = n + m
        /\ H \in [0 .. n -> UserStates] /\ E \in [1 .. n -> Events]
        /\ \A k \in 0 .. n : NoPointsLeft(H[k])
        /\ \A k \in 1 .. n : E[k].key = k /\ Happens(E[k], H[k - 1], H[k])
    BY DEF History
  <1>2. /\ HH = [k \in 0 .. n + m |-> IF k <= n THEN H[k] ELSE G[k - n]]
        /\ EE = [k \in 1 .. n + m |-> IF k <= n THEN E[k] ELSE t[k - n]]
    BY DEF GoesOn, Logged
  <1>3. \A i \in 1 .. m : t[i] \in Events
    OBVIOUS
  <1> HIDE DEF m
  <1>4. /\ \A k \in 0 .. n + m : (k <= n => k \in 0 .. n) /\ (k > n => k - n \in 1 .. m /\ k - n \in 0 .. m)
        /\ \A k \in 1 .. n + m : (k <= n => k \in 1 .. n /\ k - 1 \in 0 .. n + m)
        /\ \A k \in 1 .. n + m : k > n => k - n \in 1 .. m /\ k - 1 \in 0 .. n + m
    BY <1>1
  <1>5. HH \in [0 .. n + m -> UserStates] /\ EE \in [1 .. n + m -> Events]
    BY <1>1, <1>2, <1>3, <1>4 DEF m
  <1> HIDE DEF HH, EE
  <1>6. \A i \in 0 .. m : HH[n + i] = G[i]
    <2> SUFFICES ASSUME NEW i \in 0 .. m  PROVE HH[n + i] = G[i]
      OBVIOUS
    <2>1. CASE i = 0
      <3>1. n + i = n /\ n \in 0 .. n + m
        BY <1>1, <2>1
      <3> QED  BY <1>1, <1>2, <2>1, <3>1
    <2>2. CASE i # 0
      <3>1. n + i \in 0 .. n + m /\ ~(n + i <= n) /\ (n + i) - n = i
        BY <1>1, <2>2
      <3> QED  BY <1>2, <3>1
    <2> QED  BY <2>1, <2>2
  <1>7. HH[clock'].present = present' /\ HH[clock'].points = points'
    <2>1. m \in 0 .. m /\ clock' = n + m
      BY <1>1
    <2>2. HH[clock'] = G[m]
      BY <1>6, <2>1
    <2> QED  BY <2>2 DEF m
  <1>8. ASSUME NEW k \in 0 .. n + m  PROVE NoPointsLeft(HH[k])
    <2>1. CASE k <= n
      BY <1>1, <1>2, <1>4, <2>1
    <2>2. CASE k > n
      BY <1>1, <1>2, <1>4, <2>2 DEF m
    <2> QED  BY <1>1, <2>1, <2>2
  <1>9. ASSUME NEW k \in 1 .. n + m  PROVE EE[k].key = k /\ Happens(EE[k], HH[k - 1], HH[k])
    <2>1. CASE k <= n
      <3>1. EE[k] = E[k] /\ HH[k] = H[k] /\ HH[k - 1] = H[k - 1]
        BY <1>1, <1>2, <1>4, <2>1
      <3> QED  BY <1>1, <1>4, <2>1, <3>1
    <2>2. CASE k > n
      <3>1. k - n \in 1 .. m /\ (k - n) - 1 \in 0 .. m /\ n + (k - n) = k /\ n + ((k - n) - 1) = k - 1
        BY <1>1, <1>4, <2>2
      <3>2. HH[k] = G[k - n] /\ HH[k - 1] = G[(k - n) - 1]
        <4>1. k - n \in 0 .. m
          BY <1>4, <2>2
        <4> QED  BY <1>6, <3>1, <4>1
      <3>3. EE[k] = t[k - n]
        BY <1>1, <1>2, <2>2
      <3>4. t[k - n].key = n + (k - n) /\ Happens(t[k - n], G[(k - n) - 1], G[k - n])
        BY <3>1 DEF m
      <3> QED  BY <3>1, <3>2, <3>3, <3>4
    <2> QED  BY <1>1, <2>1, <2>2
  <1> QED  BY <1>1, <1>5, <1>7, <1>8, <1>9 DEF History, HH, EE, m, NoPointsLeft

pageVars == <<shownVars, initVars, idVars, es, fetching, missed, raised>>

(* The events t, with their keys, are put; G are the states after each.    *)
Puts(H, E, n, t, G) ==
    /\ PageWith(H, E) /\ n = clock /\ clock' = n + Len(t)
    /\ G[0] = H[n] /\ G[Len(t)].present = present' /\ G[Len(t)].points = points'
    /\ \A i \in 1 .. Len(t) : /\ NoPointsLeft(G[i]) /\ t[i].key = n + i
                              /\ Happens(t[i], G[i - 1], G[i])
    /\ cached' = Newest(cached \o t)
    /\ stream' = IF es = "open" THEN stream \o t ELSE stream
    /\ UNCHANGED pageVars
    /\ reborn' \in BOOLEAN /\ (reborn => reborn')
    /\ phase = "scores" /\ ~reborn' =>
          /\ \A u \in known : u \in present' => u \in present
          /\ \A i \in 1 .. Len(t) : /\ t[i].type = "create" => t[i].user \notin known
                                    /\ t[i].type = "delete" => t[i].user \notin present'

LEMMA PutKeeps ==
    ASSUME NEW H, NEW E, NEW n \in Nat, NEW t \in Seq(Events),
           NEW G \in [0 .. Len(t) -> UserStates], Puts(H, E, n, t, G)
    PROVE  \E HH, EE : PageWith(HH, EE)'
  <1> USE DEF Puts
  <1> DEFINE HH == GoesOn(H, G, n, Len(t))
             EE == Logged(E, t, n)
             Streamed == Events \cup {Reinit}
  <1>1. /\ PageTypes /\ History(H, E) /\ EndOf(cached, E, n) /\ Loading(H, E) /\ Following(H, E)
        /\ cached \in Seq(Events) /\ stream \in Seq(Streamed)
        /\ Len(t) \in Nat /\ Len(cached) \in Nat /\ Len(stream) \in Nat
    BY DEF PageWith, PageTypes
  <1>2. /\ UNCHANGED <<known, shown, rank, phase, user_init_time, score_init_time>>
        /\ UNCHANGED <<url_id, seen_id, last_event_id, es, fetching, missed, raised>>
    BY DEF pageVars, shownVars, initVars, idVars
  <1>3. History(HH, EE)'
    BY <1>1, HistoryGoesOn
  <1>4. /\ \A k \in 0 .. n : HH[k] = H[k]
        /\ \A k \in 1 .. n : EE[k] = E[k]
        /\ \A i \in 1 .. Len(t) : EE[n + i] = t[i]
        /\ \A k \in 1 .. n + Len(t) : k > n => k - n \in 1 .. Len(t) /\ EE[k] = t[k - n]
    <2>1. /\ \A k \in 0 .. n : k \in 0 .. n + Len(t) /\ k <= n
          /\ \A k \in 1 .. n : k \in 1 .. n + Len(t) /\ k <= n
          /\ \A i \in 1 .. Len(t) : n + i \in 1 .. n + Len(t) /\ ~(n + i <= n) /\ (n + i) - n = i
          /\ \A k \in 1 .. n + Len(t) : k > n => k - n \in 1 .. Len(t) /\ ~(k <= n)
      BY <1>1
    <2> QED  BY <2>1 DEF GoesOn, Logged
  <1> HIDE DEF HH, EE
  <1>5. cached \o t \in Seq(Events) /\ EndOf(cached \o t, EE, n + Len(t))
    BY <1>1, <1>4, EndGrows
  <1>6. /\ cached' \in Seq(Events) /\ EndOf(cached', EE, clock')
        /\ Len(cached') <= Len(cached) + Len(t) /\ Len(cached') \in Nat
    <2>1. n + Len(t) \in Nat
      BY <1>1
    <2>2. /\ Newest(cached \o t) \in Seq(Events) /\ Len(Newest(cached \o t)) <= Len(cached \o t)
          /\ EndOf(Newest(cached \o t), EE, n + Len(t))
      BY <1>5, <2>1, NewestIs
    <2>3. Len(cached \o t) = Len(cached) + Len(t)
      BY <1>1
    <2> QED  BY <2>2, <2>3
  <1>7. stream' \in Seq(Streamed) /\ t \in Seq(Streamed)
    <2>1. t \in Seq(Streamed)
      BY SMT
    <2> HIDE DEF Streamed
    <2> QED  BY <1>1, <2>1
  <1>8. PageTypes'
    <2>1. clock' \in Nat
      BY <1>1
    <2> QED  BY <1>1, <1>2, <1>6, <1>7, <2>1 DEF PageTypes, Streamed, Reinit
  <1>9. Loading(HH, EE)'
    <2> SUFFICES ASSUME phase = "scores"
                 PROVE  /\ user_init_time \in 0 .. clock' /\ known = HH[user_init_time].present
                        /\ ~reborn' => \A k \in user_init_time + 1 .. clock' :
                              /\ EE[k].type = "create" => EE[k].user \notin known
                              /\ EE[k].type = "delete" => EE[k].user \notin known \/ EE[k].user \notin present'
      BY <1>2 DEF Loading
    <2>1. /\ user_init_time \in 0 .. n /\ known = H[user_init_time].present
          /\ ~reborn => \A k \in user_init_time + 1 .. n :
                /\ E[k].type = "create" => E[k].user \notin known
                /\ E[k].type = "delete" => E[k].user \notin known \/ E[k].user \notin present
      BY <1>1 DEF Loading
    <2>2. user_init_time \in 0 .. clock' /\ known = HH[user_init_time].present
      BY <1>1, <1>4, <2>1
    <2>3. ASSUME ~reborn', NEW k \in user_init_time + 1 .. clock'
          PROVE  /\ EE[k].type = "create" => EE[k].user \notin known
                 /\ EE[k].type = "delete" => EE[k].user \notin known \/ EE[k].user \notin present'
      <3>1. CASE k <= n
        <4>1. k \in user_init_time + 1 .. n /\ k \in 1 .. n
          BY <1>1, <2>1, <2>3, <3>1
        <4> QED  BY <1>4, <2>1, <2>3, <4>1
      <3>2. CASE k > n
        <4>1. k \in 1 .. n + Len(t)
          BY <1>1, <2>1, <2>3, <3>2
        <4>2. k - n \in 1 .. Len(t) /\ EE[k] = t[k - n]
          BY <1>4, <3>2, <4>1
        <4>3. \A i \in 1 .. Len(t) : /\ t[i].type = "create" => t[i].user \notin known
                                    /\ t[i].type = "delete" => t[i].user \notin present'
          BY <2>3, Zenon
        <4>4. PICK i \in 1 .. Len(t) : EE[k] = t[i]
          BY <4>2, Zenon
        <4> HIDE DEF Puts
        <4> QED  BY <4>3, <4>4, SMTT(30)
      <3> QED  BY <1>1, <2>1, <3>1, <3>2
    <2> QED  BY <2>2, <2>3
  <1>10. Following(HH, EE)'
    <2> SUFFICES ASSUME Follows'
                 PROVE  /\ RanksByScore' /\ Asks' /\ Fetches'
                        /\ es' = "open" /\ Restarted' => Outdated'
                        /\ InTouch' => Matches(HH, EE)'
                        /\ es' = "open" /\ ~Restarted' =>
                              EndOf(stream', EE, clock') /\ Len(stream') = clock' - last_event_id'
      BY DEF Following
    <2>1. Follows
      BY <1>1, <1>2 DEF Follows, PageTypes
    <2>2. /\ RanksByScore /\ Asks /\ Fetches
          /\ es = "open" /\ Restarted => Outdated
          /\ InTouch => Matches(H, E)
          /\ es = "open" /\ ~Restarted => EndOf(stream, E, clock) /\ Len(stream) = clock - last_event_id
      BY <1>1, <2>1 DEF Following
    <2>3. /\ last_event_id \in 0 .. n /\ score_init_time \in 0 .. n /\ last_event_id \in Nat
          /\ score_init_time \in Nat
      BY <2>2 DEF Asks
    <2>4. RanksByScore' /\ Fetches'
      BY <1>2, <2>1, <2>2 DEF RanksByScore, RankBy, Fetches
    <2>5. Asks'
      BY <1>1, <1>2, <2>2 DEF Asks
    <2>6. Outdated => Outdated'
      BY <1>1, <1>2, <1>6, <2>3 DEF Outdated
    <2>7. es = "open" => (Restarted' <=> Restarted)
      <3> SUFFICES ASSUME es = "open"  PROVE Restarted' <=> Restarted
        OBVIOUS
      <3>1. stream' = stream \o t
        OBVIOUS
      <3>2. CASE stream # <<>>
        <4>1. stream' # <<>> /\ stream'[1] = stream[1]
          <5> HIDE DEF Streamed
          <5> QED  BY <1>1, <1>7, <3>1, <3>2
        <4> QED  BY <3>2, <4>1 DEF Restarted
      <3>3. CASE stream = <<>>
        <4>1. stream' = t
          <5> HIDE DEF Streamed
          <5> QED  BY <1>7, <3>1, <3>3
        <4>2. t # <<>> => t[1] \in Events
          OBVIOUS
        <4> QED  BY <3>3, <4>1, <4>2 DEF Restarted, Events
      <3> QED  BY <3>2, <3>3
    <2>8. InTouch' => InTouch
      BY <1>2, <2>6, <2>7 DEF InTouch
    <2>9. ASSUME InTouch'  PROVE Matches(HH, EE)'
      <3>1. Matches(H, E)
        BY <2>2, <2>8, <2>9
      <3>2. Latest' = Latest /\ Latest \in 0 .. n
        BY <1>2, <2>3 DEF Latest
      <3>3. /\ HH[last_event_id] = H[last_event_id] /\ HH[Latest] = H[Latest]
            /\ HH[score_init_time] = H[score_init_time]
            /\ \A k \in last_event_id + 1 .. score_init_time : EE[k] = E[k]
        BY <1>4, <2>3, <3>2
      <3> QED  BY <1>2, <3>1, <3>2, <3>3 DEF Matches
    <2>10. ASSUME es' = "open", ~Restarted'
           PROVE  EndOf(stream', EE, clock') /\ Len(stream') = clock' - last_event_id'
      <3>1. EndOf(stream, E, n) /\ Len(stream) = n - last_event_id /\ stream' = stream \o t
        BY <1>2, <2>2, <2>7, <2>10
      <3>2. EndOf(stream \o t, EE, n + Len(t))
        <4> HIDE DEF Streamed
        <4> QED  BY <1>1, <1>4, <1>7, <3>1, EndGrows
      <3>3. Len(stream \o t) = Len(stream) + Len(t)
        <4> HIDE DEF Streamed
        <4> QED  BY <1>1, <1>7
      <3>4. (n - last_event_id) + Len(t) = (n + Len(t)) - last_event_id
        BY <1>1, <2>3
      <3>5. last_event_id' = last_event_id /\ clock' = n + Len(t)
        BY <1>2
      <3> QED  BY <3>1, <3>2, <3>3, <3>4, <3>5, Zenon
    <2> QED  BY <2>2, <2>4, <2>5, <2>6, <2>7, <2>9, <2>10, <1>2
  <1> QED  BY <1>3, <1>6, <1>8, <1>9, <1>10 DEF PageWith

LEMMA PutOneKeeps ==
    ASSUME NEW H, NEW E, PageWith(H, E), NEW n \in Nat, n = clock, clock' = n + 1,
           NEW e \in Events, e.key = n + 1,
           NEW g \in UserStates, g.present = present', g.points = points',
           NoPointsLeft(g), Happens(e, H[n], g),
           cached' = Newest(cached \o <<e>>), stream' = IF es = "open" THEN stream \o <<e>> ELSE stream,
           UNCHANGED pageVars, reborn' \in BOOLEAN, reborn => reborn',
           phase = "scores" /\ ~reborn' =>
              /\ \A u \in known : u \in present' => u \in present
              /\ e.type = "create" => e.user \notin known
              /\ e.type = "delete" => e.user \notin present'
    PROVE  \E HH, EE : PageWith(HH, EE)'
  <1>0. PICK t, G : t = <<e>> /\ G = [i \in 0 .. 1 |-> IF i = 0 THEN H[n] ELSE g]
    OBVIOUS
  <1>1. H[n] \in UserStates
    BY DEF PageWith, History
  <1>2. /\ t \in Seq(Events) /\ Len(t) = 1 /\ t[1] = e
        /\ G \in [0 .. 1 -> UserStates] /\ G[0] = H[n] /\ G[1] = g
    BY <1>0, <1>1
  <1>3. /\ cached' = Newest(cached \o t)
        /\ stream' = IF es = "open" THEN stream \o t ELSE stream
    BY <1>0
  <1>4. \A i \in 1 .. 1 : i = 1 /\ i - 1 = 0
    OBVIOUS
  <1>5. \A i \in 1 .. Len(t) : /\ NoPointsLeft(G[i]) /\ t[i].key = n + i /\ Happens(t[i], G[i - 1], G[i])
    BY <1>2, <1>4
  <1>6. phase = "scores" /\ ~reborn' =>
            /\ \A w \in known : w \in present' => w \in present
            /\ \A i \in 1 .. Len(t) : /\ t[i].type = "create" => t[i].user \notin known
                                      /\ t[i].type = "delete" => t[i].user \notin present'
    BY <1>2, <1>4
  <1>7. /\ clock' = n + Len(t) /\ G \in [0 .. Len(t) -> UserStates]
        /\ G[Len(t)].present = present' /\ G[Len(t)].points = points'
    BY <1>2
  <1>8. Puts(H, E, n, t, G)
    BY <1>2, <1>3, <1>5, <1>6, <1>7 DEF Puts
  <1> QED  BY <1>2, <1>7, <1>8, PutKeeps

LEMMA NowIs ==
    ASSUME NEW H, NEW E, PageWith(H, E), NEW n \in Nat, n = clock
    PROVE  /\ H[n] \in UserStates /\ H[n].present = present /\ H[n].points = points
           /\ NoPointsLeft(H[n]) /\ MaxPoints \in Nat
           /\ present \subseteq Viewed /\ points \in [Viewed -> 0 .. MaxPoints]
           /\ reborn \in BOOLEAN
  BY EventSourceAssumption DEF PageWith, History, UserStates, PageTypes

LEMMA KeyedOne ==
    ASSUME NEW e, Put(<<e>>)
    PROVE  LET k == [e EXCEPT !.key = clock + 1]
           IN  /\ clock' = clock + 1 /\ cached' = Newest(cached \o <<k>>)
               /\ stream' = IF es = "open" THEN stream \o <<k>> ELSE stream
  <1>1. Len(<<e>>) = 1 /\ DOMAIN <<e>> = 1 .. 1
    OBVIOUS
  <1>2. [i \in DOMAIN <<e>> |-> [<<e>>[i] EXCEPT !.key = clock + i]] = <<[e EXCEPT !.key = clock + 1]>>
    OBVIOUS
  <1> QED  BY <1>1, <1>2 DEF Put

LEMMA CreatedKeeps ==
    ASSUME NEW H, NEW E, PageWith(H, E), NEW u \in Viewed, UserCreated(u)
    PROVE  \E HH, EE : PageWith(HH, EE)'
  <1> DEFINE current == [present |-> present', points |-> points']
             k == [UserEvent("create", u) EXCEPT !.key = clock + 1]
  <1>1. PICK n \in Nat : n = clock
    BY DEF PageWith, PageTypes
  <1>2. /\ H[n].present = present /\ H[n].points = points /\ NoPointsLeft(H[n]) /\ MaxPoints \in Nat
        /\ present \subseteq Viewed /\ points \in [Viewed -> 0 .. MaxPoints] /\ reborn \in BOOLEAN
    BY <1>1, NowIs
  <1>3. /\ u \notin present /\ present' = present \cup {u} /\ points' = points
        /\ UNCHANGED pageVars /\ reborn' = (reborn \/ (phase = "scores" /\ u \in known))
    BY DEF UserCreated, pageVars
  <1>4. /\ clock' = clock + 1 /\ cached' = Newest(cached \o <<k>>)
        /\ stream' = IF es = "open" THEN stream \o <<k>> ELSE stream
    BY KeyedOne DEF UserCreated
  <1>5. PICK e, g : e = k /\ g = current
    OBVIOUS
  <1>6. e \in Events /\ e.type = "create" /\ e.user = u /\ e.key = n + 1
    BY <1>1, <1>2, <1>5 DEF UserEvent, Events
  <1>7. /\ g \in UserStates /\ NoPointsLeft(g) /\ Happens(e, H[n], g)
        /\ g.present = present' /\ g.points = points'
    BY <1>2, <1>3, <1>5, <1>6 DEF UserStates, NoPointsLeft, Happens
  <1> HIDE DEF k, current
  <1>8. phase = "scores" /\ ~reborn' =>
              /\ \A w \in known : w \in present' => w \in present
              /\ e.type = "create" => e.user \notin known
              /\ e.type = "delete" => e.user \notin present'
    BY <1>3, <1>6
  <1>9. reborn' \in BOOLEAN /\ (reborn => reborn')
    BY <1>2, <1>3
  <1> QED  BY <1>1, <1>3, <1>4, <1>5, <1>6, <1>7, <1>8, <1>9, PutOneKeeps

LEMMA ScoredKeeps ==
    ASSUME NEW H, NEW E, PageWith(H, E), NEW u \in Viewed, NEW v \in 0 .. MaxPoints, ScoreChanged(u, v)
    PROVE  \E HH, EE : PageWith(HH, EE)'
  <1> DEFINE current == [present |-> present', points |-> points']
             k == [ScoreEvent(u, v) EXCEPT !.key = clock + 1]
  <1>1. PICK n \in Nat : n = clock
    BY DEF PageWith, PageTypes
  <1>2. /\ H[n].present = present /\ H[n].points = points /\ NoPointsLeft(H[n]) /\ MaxPoints \in Nat
        /\ present \subseteq Viewed /\ points \in [Viewed -> 0 .. MaxPoints] /\ reborn \in BOOLEAN
    BY <1>1, NowIs
  <1>3. /\ u \in present /\ present' = present /\ points' = [points EXCEPT ![u] = v]
        /\ UNCHANGED pageVars /\ reborn' = reborn
    BY DEF ScoreChanged, pageVars
  <1>4. /\ clock' = clock + 1 /\ cached' = Newest(cached \o <<k>>)
        /\ stream' = IF es = "open" THEN stream \o <<k>> ELSE stream
    BY KeyedOne DEF ScoreChanged
  <1>5. PICK e, g : e = k /\ g = current
    OBVIOUS
  <1>6. e \in Events /\ e.type = "score" /\ e.user = u /\ e.value = v /\ e.key = n + 1
    BY <1>1, <1>2, <1>5 DEF ScoreEvent, Events
  <1>7. /\ g \in UserStates /\ NoPointsLeft(g) /\ Happens(e, H[n], g)
        /\ g.present = present' /\ g.points = points'
    BY <1>2, <1>3, <1>5, <1>6 DEF UserStates, NoPointsLeft, Happens
  <1> HIDE DEF k, current
  <1>8. phase = "scores" /\ ~reborn' =>
              /\ \A w \in known : w \in present' => w \in present
              /\ e.type = "create" => e.user \notin known
              /\ e.type = "delete" => e.user \notin present'
    BY <1>3, <1>6
  <1> QED  BY <1>1, <1>2, <1>3, <1>4, <1>5, <1>6, <1>7, <1>8, PutOneKeeps

\* A user who has points loses them first.
LEMMA DeletedKeeps ==
    ASSUME NEW H, NEW E, PageWith(H, E), NEW u \in Viewed, UserDeleted(u)
    PROVE  \E HH, EE : PageWith(HH, EE)'
  <1> DEFINE current == [present |-> present', points |-> points']
             between == [present |-> present, points |-> points']
  <1>1. PICK n \in Nat : n = clock
    BY DEF PageWith, PageTypes
  <1>2. /\ H[n].present = present /\ H[n].points = points /\ NoPointsLeft(H[n]) /\ MaxPoints \in Nat
        /\ present \subseteq Viewed /\ points \in [Viewed -> 0 .. MaxPoints] /\ reborn \in BOOLEAN
        /\ H[n] \in UserStates
    BY <1>1, NowIs
  <1>3. /\ u \in present /\ present' = present \ {u} /\ points' = [points EXCEPT ![u] = 0]
        /\ UNCHANGED pageVars /\ reborn' = reborn
    BY DEF UserDeleted, pageVars
  <1>4. PICK g, h : g = current /\ h = between
    OBVIOUS
  <1>5. /\ g \in UserStates /\ NoPointsLeft(g) /\ g.present = present' /\ g.points = points'
        /\ h \in UserStates /\ NoPointsLeft(h) /\ h.present = present /\ h.points = points'
        /\ g.points = h.points /\ g.present = h.present \ {u} /\ h.points[u] = 0
    BY <1>2, <1>3, <1>4 DEF UserStates, NoPointsLeft
  <1> HIDE DEF current, between
  <1>6. CASE points[u] = 0
    <2> DEFINE k == [UserEvent("delete", u) EXCEPT !.key = clock + 1]
    <2>1. Put(<<UserEvent("delete", u)>>)
      <3>1. DeletionEvents(u) = <<UserEvent("delete", u)>>
        BY <1>6 DEF DeletionEvents
      <3> QED  BY <3>1 DEF UserDeleted
    <2>2. /\ clock' = clock + 1 /\ cached' = Newest(cached \o <<k>>)
          /\ stream' = IF es = "open" THEN stream \o <<k>> ELSE stream
      BY <2>1, KeyedOne
    <2>3. PICK e : e = k
      OBVIOUS
    <2>4. e \in Events /\ e.type = "delete" /\ e.user = u /\ e.key = n + 1
      BY <1>1, <1>2, <2>3 DEF UserEvent, Events
    <2>5. Happens(e, H[n], g)
      BY <1>2, <1>3, <1>5, <1>6, <2>4 DEF Happens
    <2> HIDE DEF k
    <2>6. phase = "scores" /\ ~reborn' =>
              /\ \A w \in known : w \in present' => w \in present
              /\ e.type = "create" => e.user \notin known
              /\ e.type = "delete" => e.user \notin present'
      BY <1>3, <2>4
    <2> QED  BY <1>1, <1>2, <1>3, <1>5, <2>2, <2>3, <2>4, <2>5, <2>6, PutOneKeeps
  <1>7. CASE points[u] # 0
    <2> DEFINE k1 == [ScoreEvent(u, 0) EXCEPT !.key = clock + 1]
               k2 == [UserEvent("delete", u) EXCEPT !.key = clock + 2]
    <2>1. /\ clock' = clock + 2 /\ cached' = Newest(cached \o <<k1, k2>>)
          /\ stream' = IF es = "open" THEN stream \o <<k1, k2>> ELSE stream
      <3> DEFINE evs == <<ScoreEvent(u, 0), UserEvent("delete", u)>>
      <3>1. DeletionEvents(u) = evs
        BY <1>7 DEF DeletionEvents
      <3>2. Len(evs) = 2 /\ DOMAIN evs = 1 .. 2
        OBVIOUS
      <3>3. [i \in DOMAIN evs |-> [evs[i] EXCEPT !.key = clock + i]] = <<k1, k2>>
        OBVIOUS
      <3>4. Put(evs)
        BY <3>1 DEF UserDeleted
      <3> HIDE DEF evs, k1, k2
      <3> QED  BY <3>2, <3>3, <3>4 DEF Put
    <2>2. PICK d, e : d = k1 /\ e = k2
      OBVIOUS
    <2>3. /\ d \in Events /\ d.type = "score" /\ d.user = u /\ d.value = 0 /\ d.key = n + 1
          /\ e \in Events /\ e.type = "delete" /\ e.user = u /\ e.key = n + 2
      BY <1>1, <1>2, <2>2 DEF UserEvent, ScoreEvent, Events
    <2>4. Happens(d, H[n], h) /\ Happens(e, h, g)
      BY <1>2, <1>3, <1>5, <2>3 DEF Happens
    <2> HIDE DEF k1, k2
    <2>0. PICK t, G : /\ t = <<d, e>>
                      /\ G = [i \in 0 .. 2 |-> IF i = 0 THEN H[n] ELSE IF i = 1 THEN h ELSE g]
      OBVIOUS
    <2>5. /\ t \in Seq(Events) /\ Len(t) = 2 /\ t[1] = d /\ t[2] = e
          /\ G \in [0 .. 2 -> UserStates] /\ G[0] = H[n] /\ G[1] = h /\ G[2] = g
      BY <1>2, <1>5, <2>0, <2>3
    <2>6. /\ clock' = n + Len(t) /\ cached' = Newest(cached \o t)
          /\ stream' = IF es = "open" THEN stream \o t ELSE stream
      BY <1>1, <2>0, <2>1, <2>2, <2>5
    <2>7. \A i \in 1 .. 2 : (i = 1 /\ i - 1 = 0) \/ (i = 2 /\ i - 1 = 1)
      OBVIOUS
    <2>8. \A i \in 1 .. Len(t) : /\ NoPointsLeft(G[i]) /\ t[i].key = n + i /\ Happens(t[i], G[i - 1], G[i])
      BY <1>5, <2>3, <2>4, <2>5, <2>7
    <2>9. phase = "scores" /\ ~reborn' =>
              /\ \A w \in known : w \in present' => w \in present
              /\ \A i \in 1 .. Len(t) : /\ t[i].type = "create" => t[i].user \notin known
                                        /\ t[i].type = "delete" => t[i].user \notin present'
      BY <1>3, <2>3, <2>5, <2>7
    <2>10. /\ G \in [0 .. Len(t) -> UserStates]
           /\ G[Len(t)].present = present' /\ G[Len(t)].points = points'
      BY <1>5, <2>5
    <2>11. Puts(H, E, n, t, G)
      BY <1>1, <1>2, <1>3, <2>5, <2>6, <2>8, <2>9, <2>10 DEF Puts
    <2> QED  BY <1>1, <2>5, <2>10, <2>11, PutKeeps
  <1> QED  BY <1>6, <1>7

-----------------------------------------------------------------------------
(* The page.                                                               *)

LEMMA ServerStays ==
    ASSUME NEW H, NEW E, PageWith(H, E), UNCHANGED <<present, points, clock>>
    PROVE  History(H, E)' /\ (UNCHANGED cached => EndOf(cached, E, clock)')
  BY DEF PageWith, History, NoPointsLeft, EndOf

LEMMA HistoryFacts ==
    ASSUME NEW H, NEW E, PageWith(H, E)
    PROVE  /\ clock \in Nat /\ MaxPoints \in Nat
           /\ \A k \in 0 .. clock : H[k] \in UserStates /\ H[k].present \subseteq Viewed
                                    /\ H[k].points \in [Viewed -> 0 .. MaxPoints] /\ NoPointsLeft(H[k])
           /\ \A k \in 1 .. clock : E[k] \in Events /\ E[k].user \in Viewed /\ E[k].key = k
                                    /\ Happens(E[k], H[k - 1], H[k])
           /\ H[clock].present = present /\ H[clock].points = points
           /\ present \subseteq Viewed /\ points \in [Viewed -> 0 .. MaxPoints]
           /\ points \in [Viewed -> Nat] /\ shown \in [Viewed -> Nat] /\ known \subseteq Viewed
  <1>1. PageTypes /\ History(H, E) /\ MaxPoints \in Nat /\ clock \in Nat
    BY EventSourceAssumption DEF PageWith, PageTypes
  <1>2. clock \in 0 .. clock
    BY <1>1
  <1>3. \A k \in 0 .. clock : H[k] \in UserStates /\ H[k].present \subseteq Viewed
                              /\ H[k].points \in [Viewed -> 0 .. MaxPoints] /\ NoPointsLeft(H[k])
    BY <1>1 DEF History, UserStates
  <1>4. \A k \in 1 .. clock : E[k] \in Events /\ E[k].user \in Viewed /\ E[k].key = k
                              /\ Happens(E[k], H[k - 1], H[k])
    BY <1>1 DEF History, Events
  <1>5. H[clock].present = present /\ H[clock].points = points
    BY <1>1 DEF History
  <1>6. present \subseteq Viewed /\ points \in [Viewed -> 0 .. MaxPoints]
    BY <1>2, <1>3, <1>5
  <1>7. points \in [Viewed -> Nat] /\ shown \in [Viewed -> Nat] /\ known \subseteq Viewed
    BY <1>1, <1>6 DEF PageTypes
  <1> QED  BY <1>1, <1>3, <1>4, <1>5, <1>6, <1>7

LEMMA UsersKeep ==
    ASSUME NEW H, NEW E, PageWith(H, E), InitUsers
    PROVE  PageWith(H, E)'
  <1>1. /\ phase = "users" /\ known' = present /\ user_init_time' = clock /\ phase' = "scores"
        /\ UNCHANGED <<present, points, clock, cached, shown, rank, score_init_time, url_id, seen_id,
                       last_event_id, es, stream, fetching, missed, raised, reborn>>
    BY DEF InitUsers, serverVars, idVars
  <1>2. History(H, E)' /\ EndOf(cached, E, clock)'
    BY <1>1, ServerStays
  <1>3. PageTypes'
    BY <1>1, HistoryFacts DEF PageWith, PageTypes
  <1>4. Loading(H, E)'
    BY <1>1, HistoryFacts DEF Loading
  <1>5. Following(H, E)'
    BY <1>1 DEF Following, Follows
  <1> QED  BY <1>2, <1>3, <1>4, <1>5 DEF PageWith

LEMMA ScoresKeep ==
    ASSUME NEW H, NEW E, PageWith(H, E), InitScores
    PROVE  PageWith(H, E)'
  <1> DEFINE Scorers == {u \in present : points[u] > 0}
  <1>1. /\ phase = "scores" /\ score_init_time' = clock
        /\ UNCHANGED <<present, points, clock, cached, known, user_init_time, seen_id, es, stream,
                       fetching, missed, raised, reborn>>
    BY DEF InitScores, serverVars
  <1>2. History(H, E)' /\ EndOf(cached, E, clock)'
    BY <1>1, ServerStays
  <1>3. /\ PageTypes /\ Loading(H, E)
        /\ es = "connecting" /\ seen_id = 0 /\ fetching = {} /\ stream = <<>>
    BY <1>1 DEF PageWith, PageTypes
  <1>4. CASE ~(Scorers \subseteq known)
    <2>1. phase' = "broken" /\ UNCHANGED <<shown, rank, url_id, last_event_id>>
      BY <1>4 DEF InitScores
    <2>2. PageTypes'
      BY <1>1, <1>3, <2>1 DEF PageTypes
    <2>3. Loading(H, E)' /\ Following(H, E)'
      BY <2>1 DEF Loading, Following, Follows
    <2> QED  BY <1>2, <2>2, <2>3 DEF PageWith
  <1>5. CASE Scorers \subseteq known
    <2>1. /\ shown' = [u \in Viewed |-> IF u \in known THEN points[u] ELSE 0]
          /\ rank' = [u \in Viewed |-> IF u \in known THEN RankBy(points, u) ELSE 0]
          /\ phase' = "live" /\ url_id' = user_init_time /\ last_event_id' = user_init_time
      BY <1>5 DEF InitScores, FirstEvent
    <2>2. /\ clock \in Nat /\ MaxPoints \in Nat /\ known \subseteq Viewed
          /\ points \in [Viewed -> 0 .. MaxPoints] /\ points \in [Viewed -> Nat]
          /\ H[clock].present = present /\ H[clock].points = points /\ NoPointsLeft(H[clock])
          /\ \A k \in 1 .. clock : E[k].user \in Viewed
      BY HistoryFacts
    <2>3. \A u \in known : RankBy(points, u) \in Nat
      BY <2>2, RankOrder
    <2>4. PageTypes'
      <3>1. shown' \in [Viewed -> 0 .. MaxPoints] /\ rank' \in [Viewed -> Int]
        BY <2>1, <2>2, <2>3
      <3> QED  BY <1>1, <1>3, <2>1, <3>1 DEF PageTypes
    <2>5. Loading(H, E)'
      BY <2>1 DEF Loading
    <2>6. ASSUME ~reborn  PROVE Following(H, E)'
      <3>1. /\ user_init_time \in 0 .. clock /\ known = H[user_init_time].present
            /\ \A k \in user_init_time + 1 .. clock :
                  /\ E[k].type = "create" => E[k].user \notin known
                  /\ E[k].type = "delete" => E[k].user \notin known \/ E[k].user \notin present
        BY <1>1, <1>3, <2>6 DEF Loading
      <3>2. RanksByScore'
        <4>1. \A u \in known : shown'[u] = points[u] /\ rank'[u] = RankBy(points, u)
          BY <2>1, <2>2
        <4>2. \A u \in known : RankBy(shown, u)' = RankBy(points, u)
          BY <1>1, <4>1 DEF RankBy
        <4> QED  BY <1>1, <4>1, <4>2 DEF RanksByScore
      <3>3. Asks'
        BY <1>1, <1>3, <2>1, <2>2, <3>1 DEF Asks
      <3>4. Fetches'
        BY <1>1, <1>3 DEF Fetches
      <3>5. Latest' = clock
        BY <1>1, <2>1, <2>2, <3>1 DEF Latest
      <3>6. \A k \in user_init_time + 1 .. clock :
               E[k].type \in {"create", "delete"} => points[E[k].user] = 0
        <4> SUFFICES ASSUME NEW k \in user_init_time + 1 .. clock, E[k].type \in {"create", "delete"},
                            points[E[k].user] # 0
                     PROVE  FALSE
          OBVIOUS
        <4>1. E[k].user \in Viewed
          BY <2>2, <3>1
        <4>2. E[k].user \in present
          BY <2>2, <4>1 DEF NoPointsLeft
        <4>3. E[k].user \in Scorers
          BY <2>2, <4>1, <4>2
        <4> QED  BY <1>5, <3>1, <4>2, <4>3
      <3>7. Matches(H, E)'
        <4>1. \A u \in known : shown'[u] = points[u]
          BY <2>1, <2>2
        <4> QED  BY <1>1, <1>3, <2>1, <2>2, <3>1, <3>5, <3>6, <4>1 DEF Matches
      <3> QED  BY <1>1, <1>3, <3>2, <3>3, <3>4, <3>7 DEF Following
    <2>7. ASSUME reborn  PROVE Following(H, E)'
      BY <1>1, <2>7 DEF Following, Follows
    <2> QED  BY <1>2, <2>4, <2>5, <2>6, <2>7 DEF PageWith
  <1> QED  BY <1>4, <1>5

LEMMA FollowingFacts ==
    ASSUME NEW H, NEW E, PageWith(H, E), Follows
    PROVE  /\ RanksByScore /\ Asks /\ Fetches
           /\ es = "open" /\ Restarted => Outdated
           /\ InTouch => Matches(H, E)
           /\ es = "open" /\ ~Restarted => EndOf(stream, E, clock) /\ Len(stream) = clock - last_event_id
           /\ last_event_id \in 0 .. clock /\ last_event_id \in Nat /\ clock \in Nat
           /\ score_init_time \in 0 .. clock /\ score_init_time \in Nat
  <1>1. Following(H, E) /\ clock \in Nat
    BY HistoryFacts DEF PageWith
  <1>2. Asks
    BY <1>1 DEF Following
  <1> QED  BY <1>1, <1>2 DEF Following, Asks

(* What the cache has after an identifier.                                 *)
LEMMA MissedIs ==
    ASSUME NEW H, NEW E, PageWith(H, E), NEW id
    PROVE  /\ MissedEvents(id) \in Seq(Events \cup {Reinit})
           /\ id = last_event_id /\ id \in 0 .. clock =>
                 /\ Outdated => MissedEvents(id) = <<Reinit>>
                 /\ ~Outdated => /\ EndOf(MissedEvents(id), E, clock)
                                 /\ MissedEvents(id) \in Seq(Events)
                                 /\ Len(MissedEvents(id)) = clock - id
  <1> DEFINE new == {i \in DOMAIN cached : cached[i].key > id}
             N == Len(cached)
  <1>1. /\ cached \in Seq(Events) /\ EndOf(cached, E, clock) /\ clock \in Nat /\ N \in Nat
        /\ DOMAIN cached = 1 .. N /\ N <= clock
        /\ \A i \in 1 .. N : cached[i] = E[clock - N + i]
    BY DEF PageWith, PageTypes, EndOf
  <1>2. \A i \in 1 .. N : cached[i].key = clock - N + i
    <2> SUFFICES ASSUME NEW i \in 1 .. N  PROVE cached[i].key = clock - N + i
      OBVIOUS
    <2>1. clock - N + i \in 1 .. clock
      BY <1>1
    <2> QED  BY <1>1, <2>1, HistoryFacts
  <1>3. IsFiniteSet(new) /\ Cardinality(new) \in Nat /\ Cardinality(new) <= N
    <2>1. IsFiniteSet(1 .. N) /\ Cardinality(1 .. N) = N
      <3>1. 1 \in Int /\ N \in Int /\ N >= 0
        BY <1>1
      <3> HIDE DEF N
      <3>2. IsFiniteSet(1 .. N) /\ Cardinality(1 .. N) = IF 1 > N THEN 0 ELSE N - 1 + 1
        BY <3>1, FS_Interval
      <3> QED  BY <3>1, <3>2
    <2>2. new \subseteq 1 .. N
      BY <1>1
    <2> HIDE DEF new, N
    <2> QED  BY <2>1, <2>2, FS_Subset, FS_CardinalityType
  <1>4. MissedEvents(id) = IF cached # <<>> /\ id >= cached[1].key
                           THEN SubSeq(cached, N - Cardinality(new) + 1, N) ELSE <<Reinit>>
    BY DEF MissedEvents
  <1>5. (cached # <<>>) <=> N > 0
    BY <1>1
  <1> PICK d : d = N - Cardinality(new)
    OBVIOUS
  <1>6. d \in 0 .. N
    <2> HIDE DEF new, N
    <2> QED  BY <1>1, <1>3
  <1>7. /\ SubSeq(cached, d + 1, Len(cached)) \in Seq(Events)
        /\ Len(SubSeq(cached, d + 1, Len(cached))) = N - d
        /\ EndOf(SubSeq(cached, d + 1, Len(cached)), E, clock)
    BY <1>1, <1>6, EndOfEnd
  <1>8. MissedEvents(id) \in Seq(Events \cup {Reinit})
    <2>1. <<Reinit>> \in Seq(Events \cup {Reinit})
      OBVIOUS
    <2>2. Seq(Events) \subseteq Seq(Events \cup {Reinit})
      OBVIOUS
    <2> QED  BY <1>4, <1>7, <2>1, <2>2
  <1>9. ASSUME id = last_event_id, id \in 0 .. clock, Outdated  PROVE MissedEvents(id) = <<Reinit>>
    <2>1. id <= clock - N
      BY <1>9 DEF Outdated
    <2>2. N > 0 => cached[1].key = clock - N + 1
      BY <1>1, <1>2
    <2>3. ~(cached # <<>> /\ id >= cached[1].key)
      <3> HIDE DEF N
      <3> QED  BY <1>1, <1>5, <1>9, <2>1, <2>2
    <2> QED  BY <1>4, <2>3
  <1>10. ASSUME id = last_event_id, id \in 0 .. clock, ~Outdated
         PROVE  /\ EndOf(MissedEvents(id), E, clock) /\ MissedEvents(id) \in Seq(Events)
                /\ Len(MissedEvents(id)) = clock - id
    <2>1. id > clock - N /\ N > 0
      BY <1>1, <1>10 DEF Outdated
    <2>2. cached # <<>> /\ id >= cached[1].key
      BY <1>1, <1>2, <1>5, <1>10, <2>1
    <2>3. new = (N - (clock - id) + 1) .. N
      BY <1>1, <1>2, <1>10, <2>1
    <2>4. Cardinality(new) = clock - id
      <3>1. N - (clock - id) + 1 \in Int /\ N \in Int
        BY <1>1, <1>10
      <3>2. Cardinality((N - (clock - id) + 1) .. N) = IF N - (clock - id) + 1 > N THEN 0
                                                      ELSE N - (N - (clock - id) + 1) + 1
        BY <3>1, FS_Interval
      <3> HIDE DEF N, new
      <3> QED  BY <1>1, <1>10, <2>3, <3>2
    <2>5. MissedEvents(id) = SubSeq(cached, d + 1, Len(cached))
      BY <1>4, <2>2
    <2>6. N - d = clock - id
      <3> HIDE DEF N, new
      <3> QED  BY <1>1, <1>3, <1>10, <2>4
    <2> QED  BY <1>7, <2>5, <2>6
  <1> QED  BY <1>8, <1>9, <1>10

LEMMA ConnectsKeep ==
    ASSUME NEW H, NEW E, PageWith(H, E), Connects
    PROVE  PageWith(H, E)'
  <1>1. /\ phase = "live" /\ es \in {"connecting", "closed"} /\ es' = "open"
        /\ IF es = "connecting" THEN UNCHANGED <<url_id, seen_id, last_event_id>>
           ELSE url_id' = last_event_id /\ seen_id' = 0 /\ last_event_id' = last_event_id
        /\ UNCHANGED <<present, points, clock, cached, known, shown, rank, phase, user_init_time,
                       score_init_time, fetching, missed, raised, reborn>>
    BY DEF Connects, serverVars, shownVars, initVars, idVars
  <1>2. PICK id : id = IF seen_id' # 0 THEN seen_id' ELSE url_id'
    OBVIOUS
  <1>3. stream' = MissedEvents(id)
    BY <1>2 DEF Connects
  <1>4. History(H, E)' /\ EndOf(cached, E, clock)'
    BY <1>1, ServerStays
  <1>5. PageTypes'
    <2>1. stream' \in Seq(Events \cup {Reinit})
      BY <1>3, MissedIs
    <2> QED  BY <1>1, <2>1 DEF PageWith, PageTypes, Reinit
  <1>6. Loading(H, E)'
    BY <1>1 DEF Loading
  <1>7. Following(H, E)'
    <2> SUFFICES ASSUME Follows
                 PROVE  /\ RanksByScore' /\ Asks' /\ Fetches'
                        /\ Restarted' => Outdated'
                        /\ ~Restarted' => /\ Matches(H, E)' /\ EndOf(stream', E, clock)
                                          /\ Len(stream') = clock - last_event_id
      BY <1>1 DEF Following, Follows, InTouch
    <2>1. /\ RanksByScore /\ Asks /\ Fetches /\ (InTouch => Matches(H, E))
          /\ last_event_id \in 0 .. clock /\ last_event_id \in Nat
      BY FollowingFacts
    <2>2. Asks' /\ id = last_event_id /\ last_event_id' = last_event_id
      BY <1>1, <1>2, <2>1 DEF Asks
    <2>3. RanksByScore' /\ Fetches'
      BY <1>1, <2>1 DEF RanksByScore, RankBy, Fetches, Follows
    <2>4. CASE Outdated
      <3>1. stream' = <<Reinit>>
        BY <1>3, <2>1, <2>2, <2>4, MissedIs
      <3>2. Restarted'
        BY <3>1 DEF Restarted, Reinit
      <3>3. Outdated'
        BY <1>1, <2>2, <2>4 DEF Outdated
      <3> QED  BY <2>2, <2>3, <3>2, <3>3
    <2>5. CASE ~Outdated
      <3>1. EndOf(stream', E, clock) /\ stream' \in Seq(Events) /\ Len(stream') = clock - last_event_id
        BY <1>3, <2>1, <2>2, <2>5, MissedIs
      <3>2. ~Restarted'
        <4>1. stream' # <<>> => stream'[1] \in Events
          BY <3>1
        <4> QED  BY <4>1 DEF Restarted, Events
      <3>3. InTouch
        BY <1>1, <2>5 DEF InTouch
      <3>4. Matches(H, E)'
        BY <1>1, <2>1, <2>2, <3>3 DEF Matches, Latest
      <3> QED  BY <2>2, <2>3, <3>1, <3>2, <3>4
    <2> QED  BY <2>4, <2>5
  <1> QED  BY <1>4, <1>5, <1>6, <1>7 DEF PageWith

LEMMA LostKeeps ==
    ASSUME NEW H, NEW E, PageWith(H, E), ConnectionLost \/ ServerRestarts
    PROVE  PageWith(H, E)'
  <1>1. /\ UNCHANGED <<present, points, clock, known, shown, rank, phase, user_init_time,
                       score_init_time, url_id, seen_id, last_event_id, missed, raised, reborn>>
        /\ stream' = <<>>
    BY DEF ConnectionLost, ServerRestarts, serverVars, shownVars, initVars, idVars
  <1>2. /\ \/ es = "open" /\ es' \in {"connecting", "closed"} /\ UNCHANGED <<cached, fetching>>
           \/ phase = "live" /\ cached' = <<>> /\ fetching' = {} /\ es' \in {"error", "connecting", es} \ {"open"}
    <2>1. CASE ConnectionLost
      BY <2>1 DEF ConnectionLost, serverVars
    <2>2. CASE ServerRestarts
      <3>1. es' \in {"error", "connecting", es} /\ es' # "open"
        BY <2>2 DEF ServerRestarts
      <3> QED  BY <2>2, <3>1 DEF ServerRestarts
    <2> QED  BY <2>1, <2>2
  <1>3. History(H, E)' /\ EndOf(cached, E, clock)' /\ clock \in Nat
    <2>1. History(H, E)' /\ (cached' = cached => EndOf(cached, E, clock)') /\ clock \in Nat
      BY <1>1, ServerStays, HistoryFacts
    <2>2. cached' = <<>> => EndOf(cached, E, clock)'
      BY <1>1, <2>1 DEF EndOf
    <2> QED  BY <1>2, <2>1, <2>2
  <1>4. phase = "live" /\ PageTypes
    BY <1>2 DEF PageWith, PageTypes
  <1>5. PageTypes'
    <2>1. <<>> \in Seq(Events) /\ <<>> \in Seq(Events \cup {Reinit})
      OBVIOUS
    <2>2. es' \in {"connecting", "open", "closed", "error"}
      BY <1>2, <1>4 DEF PageTypes
    <2> QED  BY <1>1, <1>2, <1>4, <2>1, <2>2 DEF PageTypes, Reinit
  <1>6. Loading(H, E)'
    BY <1>1, <1>4 DEF Loading
  <1>7. Following(H, E)'
    <2> SUFFICES ASSUME Follows
                 PROVE  RanksByScore' /\ Asks' /\ Fetches' /\ (InTouch' => Matches(H, E)')
      BY <1>1, <1>2 DEF Following, Follows
    <2>1. /\ RanksByScore /\ Asks /\ Fetches /\ (InTouch => Matches(H, E))
          /\ es = "open" /\ Restarted => Outdated
          /\ last_event_id \in 0 .. clock
      BY FollowingFacts
    <2>2. RanksByScore' /\ Asks' /\ Fetches'
      BY <1>1, <1>2, <2>1 DEF RanksByScore, RankBy, Asks, Fetches, Follows
    <2>3. CASE UNCHANGED <<cached, fetching>> /\ es = "open" /\ es' \in {"connecting", "closed"}
      <3>1. InTouch' => InTouch
        BY <1>1, <2>1, <2>3 DEF InTouch, Outdated
      <3> QED  BY <1>1, <2>1, <2>2, <2>3, <3>1 DEF Matches, Latest
    <2>4. CASE cached' = <<>> /\ es' # "open"
      <3>1. Outdated'
        BY <1>1, <1>3, <2>1, <2>4 DEF Outdated
      <3> QED  BY <2>2, <2>4, <3>1 DEF InTouch
    <2> QED  BY <1>2, <2>3, <2>4
  <1> QED  BY <1>3, <1>5, <1>6, <1>7 DEF PageWith

(* An event that arrives is the one after the last the page has seen.      *)
LEMMA HeadIs ==
    ASSUME NEW H, NEW E, PageWith(H, E), Follows, es = "open", stream # <<>>,
           Head(stream).type # "reinit"
    PROVE  /\ last_event_id + 1 \in 1 .. clock /\ last_event_id \in 0 .. clock
           /\ (last_event_id + 1) - 1 = last_event_id
           /\ Head(stream) = E[last_event_id + 1] /\ Head(stream) \in Events
           /\ Head(stream).key = last_event_id + 1
           /\ Happens(Head(stream), H[last_event_id], H[last_event_id + 1])
           /\ Matches(H, E) /\ EndOf(Tail(stream), E, clock)
           /\ Len(Tail(stream)) = clock - (last_event_id + 1)
           /\ Tail(stream) # <<>> => Tail(stream)[1] \in Events
  <1>1. stream \in Seq(Events \cup {Reinit}) /\ Head(stream) = stream[1] /\ Len(stream) \in Nat
        /\ Len(stream) > 0
    BY DEF PageWith, PageTypes
  <1>2. ~Restarted
    BY <1>1 DEF Restarted
  <1>3. /\ EndOf(stream, E, clock) /\ Len(stream) = clock - last_event_id /\ Matches(H, E)
        /\ last_event_id \in 0 .. clock /\ last_event_id \in Nat /\ clock \in Nat
    BY <1>2, FollowingFacts DEF InTouch
  <1>4. last_event_id + 1 \in 1 .. clock /\ (last_event_id + 1) - 1 = last_event_id
    BY <1>1, <1>3
  <1>5. Head(stream) = E[last_event_id + 1]
    <2>1. 1 \in 1 .. Len(stream) /\ clock - Len(stream) + 1 = last_event_id + 1
      BY <1>1, <1>3
    <2> QED  BY <1>1, <1>3, <2>1 DEF EndOf
  <1>6. /\ Head(stream) \in Events /\ Head(stream).key = last_event_id + 1
        /\ Happens(Head(stream), H[last_event_id], H[last_event_id + 1])
    BY <1>4, <1>5, HistoryFacts
  <1>7. /\ Len(Tail(stream)) = clock - (last_event_id + 1) /\ Len(Tail(stream)) = Len(stream) - 1
        /\ \A i \in 1 .. Len(stream) - 1 : Tail(stream)[i] = stream[i + 1]
    BY <1>1, <1>3
  <1>8. EndOf(Tail(stream), E, clock)
    <2>1. \A i \in 1 .. Len(stream) - 1 :
             i + 1 \in 1 .. Len(stream) /\ clock - Len(stream) + (i + 1) = clock - (Len(stream) - 1) + i
      BY <1>1, <1>3
    <2>2. \A i \in 1 .. Len(stream) - 1 : Tail(stream)[i] = E[clock - (Len(stream) - 1) + i]
      <3>1. \A i \in 1 .. Len(stream) : stream[i] = E[clock - Len(stream) + i]
        BY <1>3 DEF EndOf
      <3> QED  BY <1>7, <2>1, <3>1, Zenon
    <2>3. Len(stream) - 1 <= clock
      BY <1>1, <1>3
    <2> QED  BY <1>7, <2>2, <2>3 DEF EndOf
  <1>9. Tail(stream) # <<>> => Tail(stream)[1] \in Events
    <2> SUFFICES ASSUME Tail(stream) # <<>>  PROVE Tail(stream)[1] \in Events
      OBVIOUS
    <2>1. Tail(stream) \in Seq(Events \cup {Reinit}) /\ Len(Tail(stream)) \in Nat /\ Len(Tail(stream)) > 0
      BY <1>1
    <2>2. 1 \in 1 .. Len(Tail(stream)) /\ clock - Len(Tail(stream)) + 1 \in 1 .. clock
      BY <1>3, <1>7, <2>1
    <2> QED  BY <1>8, <2>2, HistoryFacts DEF EndOf
  <1> QED  BY <1>3, <1>4, <1>5, <1>6, <1>7, <1>8, <1>9

received == <<present, points, clock, cached, phase, user_init_time, score_init_time, url_id, es>>

\* It is enough to see what the page has made of it.
LEMMA ReceivedKeeps ==
    ASSUME NEW H, NEW E, PageWith(H, E), es = "open", stream # <<>>, Head(stream).type # "reinit",
           stream' = Tail(stream), UNCHANGED received,
           missed' = missed /\ reborn' = reborn /\ raised' \in BOOLEAN, raised => raised',
           known' \subseteq Viewed, shown' \in [Viewed -> 0 .. MaxPoints], rank' \in [Viewed -> Int],
           fetching' \in SUBSET (Viewed \X {"asked", "found", "gone"}),
           Follows /\ ~raised' => /\ seen_id' = last_event_id + 1 /\ last_event_id' = last_event_id + 1
                                  /\ RanksByScore' /\ Fetches' /\ Matches(H, E)'
    PROVE  PageWith(H, E)'
  <1>1. UNCHANGED <<present, points, clock, cached, phase, user_init_time, score_init_time, url_id, es>>
    BY DEF received
  <1>2. History(H, E)' /\ EndOf(cached, E, clock)'
    BY <1>1, ServerStays
  <1>3. PageTypes'
    <2>1. Tail(stream) \in Seq(Events \cup {Reinit}) /\ PageTypes /\ phase = "live"
      BY DEF PageWith, PageTypes
    <2> QED  BY <1>1, <2>1 DEF PageTypes, Reinit
  <1>4. Loading(H, E)'
    BY <1>1 DEF Loading, PageWith, PageTypes
  <1>5. Following(H, E)'
    <2> SUFFICES ASSUME Follows, ~raised'
                 PROVE  /\ Asks' /\ ~Restarted' /\ EndOf(stream', E, clock')
                        /\ Len(stream') = clock' - last_event_id'
      BY <1>1 DEF Following, Follows, PageWith, PageTypes
    <2>1. /\ last_event_id + 1 \in 1 .. clock
          /\ EndOf(Tail(stream), E, clock) /\ Len(Tail(stream)) = clock - (last_event_id + 1)
          /\ Tail(stream) # <<>> => Tail(stream)[1] \in Events
      BY HeadIs
    <2>2. Asks /\ clock \in Nat /\ last_event_id \in Nat
      BY FollowingFacts
    <2>3. Asks'
      BY <1>1, <2>1, <2>2 DEF Asks
    <2>4. ~Restarted'
      BY <2>1 DEF Restarted, Events
    <2> QED  BY <1>1, <2>1, <2>3, <2>4
  <1> QED  BY <1>2, <1>3, <1>4, <1>5 DEF PageWith

LEMMA LatestMoves ==
    ASSUME last_event_id \in Nat, score_init_time \in Nat, last_event_id' = last_event_id + 1,
           score_init_time' = score_init_time
    PROVE  /\ last_event_id < score_init_time => Latest = score_init_time /\ Latest' = score_init_time
           /\ last_event_id >= score_init_time => Latest = last_event_id /\ Latest' = last_event_id + 1
           /\ last_event_id < score_init_time =>
                 last_event_id + 1 \in last_event_id + 1 .. score_init_time
           /\ \A k \in last_event_id' + 1 .. score_init_time : k \in last_event_id + 1 .. score_init_time
  BY DEF Latest

LEMMA CreateKeeps ==
    ASSUME NEW H, NEW E, PageWith(H, E), ReceiveCreate
    PROVE  PageWith(H, E)'
  <1> DEFINE e == Head(stream)
             u == e.user
  <1>1. /\ es = "open" /\ stream # <<>> /\ e.type = "create" /\ stream' = Tail(stream)
        /\ UNCHANGED <<present, points, clock, cached, phase, user_init_time, score_init_time, url_id, es,
                       known, shown, rank, missed, raised, reborn>>
        /\ fetching' = IF e.key > user_init_time THEN fetching \cup {<<u, "asked">>} ELSE fetching
        /\ seen_id' = e.key /\ last_event_id' = e.key
    BY DEF ReceiveCreate, serverVars, shownVars, initVars, Noted
  <1>2. PageTypes /\ e \in Events /\ u \in Viewed
    <2>1. PageTypes /\ stream \in Seq(Events \cup {Reinit}) /\ e \in Events \cup {Reinit}
      BY <1>1 DEF PageWith, PageTypes
    <2> QED  BY <1>1, <2>1 DEF Reinit, Events
  <1> HIDE DEF e, u
  <1>3. ASSUME Follows
        PROVE  /\ seen_id' = last_event_id + 1 /\ last_event_id' = last_event_id + 1
               /\ RanksByScore' /\ Fetches' /\ Matches(H, E)'
    <2>1. /\ e = E[last_event_id + 1] /\ e.key = last_event_id + 1
          /\ Happens(e, H[last_event_id], H[last_event_id + 1]) /\ Matches(H, E)
          /\ last_event_id + 1 \in 1 .. clock
      BY <1>1, <1>3, HeadIs DEF e
    <2>2. RanksByScore /\ Fetches /\ Asks /\ last_event_id \in Nat /\ score_init_time \in Nat
          /\ last_event_id \in 0 .. clock
      BY <1>3, FollowingFacts
    <2>3. fetching' = fetching \cup {<<u, "asked">>}
      BY <1>1, <2>1, <2>2 DEF Asks
    <2>4. /\ u \notin H[last_event_id].present
          /\ H[last_event_id + 1].present = H[last_event_id].present \cup {u}
          /\ H[last_event_id + 1].points = H[last_event_id].points
      BY <1>1, <2>1 DEF Happens, u
    <2>5. u \notin known /\ \A f \in fetching : f[1] # u
      BY <2>1, <2>4 DEF Matches
    <2>6. Fetches'
      BY <1>1, <2>2, <2>3, <2>5 DEF Fetches
    <2>7. RanksByScore'
      BY <1>1, <1>3, <2>2 DEF RanksByScore, RankBy, Follows
    <2>8. Matches(H, E)'
      <3>1. /\ last_event_id < score_init_time => Latest = score_init_time /\ Latest' = score_init_time
            /\ last_event_id >= score_init_time => Latest = last_event_id /\ Latest' = last_event_id + 1
            /\ last_event_id < score_init_time =>
                  last_event_id + 1 \in last_event_id + 1 .. score_init_time
            /\ \A k \in last_event_id' + 1 .. score_init_time : k \in last_event_id + 1 .. score_init_time
        BY <1>1, <2>1, <2>2, LatestMoves
      <3>2. H[Latest'].points = H[Latest].points
        BY <2>2, <2>4, <3>1
      <3>3. H[Latest].points[u] = 0
        <4>1. CASE last_event_id < score_init_time
          BY <1>1, <2>1, <3>1, <4>1 DEF Matches, u
        <4>2. CASE last_event_id >= score_init_time
          <5>1. NoPointsLeft(H[last_event_id])
            BY <2>2, HistoryFacts
          <5> QED  BY <1>2, <2>4, <3>1, <4>2, <5>1 DEF NoPointsLeft
        <4> QED  BY <2>2, <4>1, <4>2
      <3>4. {f[1] : f \in fetching'} = {f[1] : f \in fetching} \cup {u}
        <4>1. PICK g : g = <<u, "asked">>
          OBVIOUS
        <4>2. fetching' = fetching \cup {g} /\ g[1] = u
          BY <2>3, <4>1
        <4> QED  BY <4>2
      <3>5. \A f \in fetching' : H[Latest'].points[f[1]] = 0
        BY <2>1, <2>3, <3>2, <3>3 DEF Matches
      <3> QED  BY <1>1, <2>1, <2>4, <3>1, <3>2, <3>4, <3>5 DEF Matches
    <2> QED  BY <1>1, <2>1, <2>6, <2>7, <2>8
  <1>4. fetching' \in SUBSET (Viewed \X {"asked", "found", "gone"})
    BY <1>1, <1>2 DEF PageTypes
  <1>5. es = "open" /\ stream # <<>> /\ Head(stream).type # "reinit" /\ UNCHANGED received
    BY <1>1 DEF received, e
  <1> QED  BY <1>1, <1>2, <1>3, <1>4, <1>5, ReceivedKeeps DEF PageTypes

LEMMA DeleteKeeps ==
    ASSUME NEW H, NEW E, PageWith(H, E), ReceiveDelete
    PROVE  PageWith(H, E)'
  <1> DEFINE e == Head(stream)
             u == e.user
  <1>1. /\ es = "open" /\ stream # <<>> /\ e.type = "delete" /\ stream' = Tail(stream)
        /\ UNCHANGED <<present, points, clock, cached, phase, user_init_time, score_init_time, url_id, es,
                       shown, rank, fetching, missed, reborn>>
        /\ \/ e.key <= user_init_time /\ Noted(e) /\ UNCHANGED <<known, raised>>
           \/ e.key > user_init_time /\ u \in known /\ known' = known \ {u} /\ Noted(e) /\ UNCHANGED raised
           \/ e.key > user_init_time /\ u \notin known /\ Raises(e) /\ UNCHANGED known
    BY DEF ReceiveDelete, serverVars, initVars
  <1>2. PageTypes /\ e \in Events /\ u \in Viewed
    <2>1. PageTypes /\ stream \in Seq(Events \cup {Reinit}) /\ e \in Events \cup {Reinit}
      BY <1>1 DEF PageWith, PageTypes
    <2> QED  BY <1>1, <2>1 DEF Reinit, Events
  <1> HIDE DEF e, u
  <1>3. ASSUME Follows, ~raised'
        PROVE  /\ seen_id' = last_event_id + 1 /\ last_event_id' = last_event_id + 1
               /\ RanksByScore' /\ Fetches' /\ Matches(H, E)'
    <2>1. /\ e = E[last_event_id + 1] /\ e.key = last_event_id + 1
          /\ Happens(e, H[last_event_id], H[last_event_id + 1]) /\ Matches(H, E)
          /\ last_event_id + 1 \in 1 .. clock
      BY <1>1, <1>3, HeadIs DEF e
    <2>2. /\ RanksByScore /\ Fetches /\ Asks /\ last_event_id \in Nat /\ score_init_time \in Nat
          /\ last_event_id \in 0 .. clock
      BY <1>3, FollowingFacts
    <2>3. /\ u \in known /\ known' = known \ {u} /\ UNCHANGED raised
          /\ seen_id' = last_event_id + 1 /\ last_event_id' = last_event_id + 1
      BY <1>1, <1>3, <2>1, <2>2 DEF Asks, Noted, Raises
    <2>4. /\ H[last_event_id].points[u] = 0
          /\ H[last_event_id + 1].present = H[last_event_id].present \ {u}
          /\ H[last_event_id + 1].points = H[last_event_id].points
      BY <1>1, <2>1 DEF Happens, u
    <2>5. /\ last_event_id < score_init_time => Latest = score_init_time /\ Latest' = score_init_time
          /\ last_event_id >= score_init_time => Latest = last_event_id /\ Latest' = last_event_id + 1
          /\ last_event_id < score_init_time =>
                last_event_id + 1 \in last_event_id + 1 .. score_init_time
          /\ \A k \in last_event_id' + 1 .. score_init_time : k \in last_event_id + 1 .. score_init_time
      BY <1>1, <2>2, <2>3, LatestMoves
    <2>6. H[Latest'].points = H[Latest].points
      BY <2>2, <2>4, <2>5
    <2>7. shown[u] = 0
      <3>1. shown[u] = H[Latest].points[u]
        BY <2>1, <2>3 DEF Matches
      <3>2. CASE last_event_id < score_init_time
        BY <1>1, <2>1, <2>5, <3>1, <3>2 DEF Matches, u
      <3>3. CASE last_event_id >= score_init_time
        BY <2>4, <2>5, <3>1, <3>3
      <3> QED  BY <2>2, <3>2, <3>3
    <2>8. Fetches'
      BY <1>1, <2>2, <2>3 DEF Fetches
    <2>9. RanksByScore'
      <3>1. \A w \in known : rank[w] = RankBy(shown, w)
        BY <1>3, <2>2 DEF RanksByScore
      <3>2. \A w \in known' : RankBy(shown, w)' = RankBy(shown, w)
        <4> SUFFICES ASSUME NEW w \in known'  PROVE RankBy(shown, w)' = RankBy(shown, w)
          OBVIOUS
        <4>1. shown[w] \in Nat
          BY <2>3, HistoryFacts
        <4>2. {v \in known' : shown[v] > shown[w]} = {v \in known : shown[v] > shown[w]}
          BY <2>3, <2>7, <4>1
        <4> QED  BY <1>1, <4>2 DEF RankBy
      <3> QED  BY <1>1, <2>3, <3>1, <3>2 DEF RanksByScore
    <2>10. Matches(H, E)'
      <3>1. H[last_event_id].present = known \cup {f[1] : f \in fetching} /\ \A f \in fetching : f[1] # u
        BY <2>1, <2>2, <2>3 DEF Matches, Fetches
      <3>2. H[last_event_id'].present = known' \cup {f[1] : f \in fetching'}
        BY <1>1, <2>3, <2>4, <3>1
      <3> QED  BY <1>1, <2>1, <2>3, <2>5, <2>6, <3>2 DEF Matches
    <2> QED  BY <2>3, <2>8, <2>9, <2>10
  <1>4. known' \subseteq Viewed /\ raised' \in BOOLEAN /\ (raised => raised')
    <2>1. known' \subseteq Viewed
      BY <1>1, <1>2 DEF PageTypes
    <2>2. raised' = raised \/ raised' = TRUE
      BY <1>1 DEF Raises
    <2>3. raised \in BOOLEAN
      BY <1>2 DEF PageTypes
    <2>4. CASE raised' = raised
      BY <2>1, <2>3, <2>4
    <2>5. CASE raised' = TRUE
      BY <2>1, <2>5, Zenon
    <2> QED  BY <2>2, <2>4, <2>5
  <1>5. es = "open" /\ stream # <<>> /\ Head(stream).type # "reinit" /\ UNCHANGED received
    BY <1>1 DEF received, e
  <1> QED  BY <1>1, <1>2, <1>3, <1>4, <1>5, ReceivedKeeps DEF PageTypes

LEMMA ScoreKeeps ==
    ASSUME NEW H, NEW E, PageWith(H, E), ReceiveScore
    PROVE  PageWith(H, E)'
  <1> DEFINE e == Head(stream)
             u == e.user
  <1>1. /\ es = "open" /\ stream # <<>> /\ e.type = "score" /\ stream' = Tail(stream)
        /\ UNCHANGED <<present, points, clock, cached, phase, user_init_time, score_init_time, url_id, es,
                       known, fetching, missed, reborn>>
        /\ \/ e.key <= score_init_time /\ Noted(e) /\ UNCHANGED <<shown, rank, raised>>
           \/ /\ e.key > score_init_time /\ u \in known
              /\ shown' = [shown EXCEPT ![u] = e.value] /\ rank' = UpdatedRank(u, e.value)
              /\ Noted(e) /\ UNCHANGED raised
           \/ e.key > score_init_time /\ u \notin known /\ Raises(e) /\ UNCHANGED <<shown, rank>>
    BY DEF ReceiveScore, serverVars, initVars
  <1>2. PageTypes /\ e \in Events /\ u \in Viewed /\ e.value \in 0 .. MaxPoints /\ e.value \in Nat
    <2>1. PageTypes /\ stream \in Seq(Events \cup {Reinit}) /\ e \in Events \cup {Reinit}
      BY <1>1 DEF PageWith, PageTypes
    <2> QED  BY <1>1, <2>1, EventSourceAssumption DEF Reinit, Events
  <1> HIDE DEF e, u
  <1>3. ASSUME Follows, ~raised'
        PROVE  /\ seen_id' = last_event_id + 1 /\ last_event_id' = last_event_id + 1
               /\ RanksByScore' /\ Fetches' /\ Matches(H, E)'
    <2>1. /\ e = E[last_event_id + 1] /\ e.key = last_event_id + 1
          /\ Happens(e, H[last_event_id], H[last_event_id + 1]) /\ Matches(H, E)
          /\ last_event_id + 1 \in 1 .. clock
      BY <1>1, <1>3, HeadIs DEF e
    <2>2. /\ RanksByScore /\ Fetches /\ Asks /\ last_event_id \in Nat /\ score_init_time \in Nat
          /\ last_event_id \in 0 .. clock
      BY <1>3, FollowingFacts
    <2>3. UNCHANGED raised /\ seen_id' = last_event_id + 1 /\ last_event_id' = last_event_id + 1
      BY <1>1, <1>3, <2>1 DEF Noted, Raises
    <2>4. /\ u \in H[last_event_id].present
          /\ H[last_event_id + 1].present = H[last_event_id].present
          /\ H[last_event_id + 1].points = [H[last_event_id].points EXCEPT ![u] = e.value]
      BY <1>1, <2>1 DEF Happens, u
    <2>5. /\ last_event_id < score_init_time => Latest = score_init_time /\ Latest' = score_init_time
          /\ last_event_id >= score_init_time => Latest = last_event_id /\ Latest' = last_event_id + 1
          /\ \A k \in last_event_id' + 1 .. score_init_time : k \in last_event_id + 1 .. score_init_time
      BY <1>1, <2>2, <2>3, LatestMoves
    <2>6. Fetches'
      BY <1>1, <2>2 DEF Fetches
    <2>7. H[last_event_id'].present = known' \cup {f[1] : f \in fetching'}
      BY <1>1, <2>1, <2>3, <2>4 DEF Matches
    <2>8. CASE last_event_id < score_init_time
      <3>1. UNCHANGED <<shown, rank>>
        BY <1>1, <2>1, <2>2, <2>8
      <3>2. RanksByScore'
        BY <1>1, <1>3, <2>2, <3>1 DEF RanksByScore, RankBy, Follows
      <3>3. Matches(H, E)'
        BY <1>1, <2>1, <2>5, <2>7, <2>8, <3>1 DEF Matches
      <3> QED  BY <2>3, <2>6, <3>2, <3>3
    <2>9. CASE last_event_id >= score_init_time
      <3>1. u \in known /\ shown' = [shown EXCEPT ![u] = e.value] /\ rank' = UpdatedRank(u, e.value)
        BY <1>1, <1>3, <2>1, <2>2, <2>9 DEF Raises
      <3>2. known \subseteq Viewed /\ shown \in [Viewed -> Nat] /\ H[last_event_id].points \in [Viewed -> 0 .. MaxPoints]
        BY <2>2, HistoryFacts
      <3>3. RanksByScore'
        <4>1. \A w \in known : rank[w] = RankBy(shown, w)
          BY <1>3, <2>2 DEF RanksByScore
        <4>2. \A w \in known : UpdatedRank(u, e.value)[w] = RankBy([shown EXCEPT ![u] = e.value], w)
          BY <1>2, <3>1, <3>2, <4>1, RanksCorrected
        <4>3. \A w \in known : RankBy(shown, w)' = RankBy([shown EXCEPT ![u] = e.value], w)
          BY <1>1, <3>1 DEF RankBy
        <4> QED  BY <1>1, <3>1, <4>2, <4>3 DEF RanksByScore
      <3>4. H[Latest'].points = [H[Latest].points EXCEPT ![u] = e.value]
        BY <2>4, <2>5, <2>9
      <3>5. \A w \in known : shown'[w] = H[Latest'].points[w]
        <4>1. \A w \in known : shown[w] = H[Latest].points[w]
          BY <2>1 DEF Matches
        <4>2. H[Latest].points \in [Viewed -> 0 .. MaxPoints]
          BY <2>5, <2>9, <3>2
        <4> QED  BY <3>1, <3>2, <3>4, <4>1, <4>2
      <3>6. \A f \in fetching : H[Latest'].points[f[1]] = 0
        <4>1. \A f \in fetching : H[Latest].points[f[1]] = 0 /\ f[1] # u
          BY <2>1, <2>2, <3>1 DEF Matches, Fetches
        <4>2. \A f \in fetching : f[1] \in Viewed
          BY <1>2 DEF PageTypes
        <4>3. H[Latest].points \in [Viewed -> 0 .. MaxPoints]
          BY <2>5, <2>9, <3>2
        <4> QED  BY <3>4, <4>1, <4>2, <4>3
      <3>7. \A k \in last_event_id' + 1 .. score_init_time : FALSE
        BY <2>2, <2>3, <2>9
      <3>8. Matches(H, E)'
        BY <1>1, <2>7, <3>5, <3>6, <3>7 DEF Matches
      <3> QED  BY <2>3, <2>6, <3>3, <3>8
    <2> QED  BY <2>2, <2>8, <2>9
  <1>4. raised' \in BOOLEAN /\ (raised => raised')
    <2>2. raised' = raised \/ raised' = TRUE
      BY <1>1 DEF Raises
    <2>3. raised \in BOOLEAN
      BY <1>2 DEF PageTypes
    <2>4. CASE raised' = raised
      BY <2>3, <2>4
    <2>5. CASE raised' = TRUE
      BY <2>5, Zenon
    <2> QED  BY <2>2, <2>4, <2>5
  <1>5. shown' \in [Viewed -> 0 .. MaxPoints] /\ rank' \in [Viewed -> Int]
    <2>1. shown \in [Viewed -> 0 .. MaxPoints] /\ rank \in [Viewed -> Int] /\ known \subseteq Viewed
      BY <1>2 DEF PageTypes
    <2>2. ASSUME u \in known  PROVE UpdatedRank(u, e.value) \in [Viewed -> Int]
      <3>1. [shown EXCEPT ![u] = e.value] \in [Viewed -> Nat]
        BY <1>2, <2>1
      <3>2. RankBy([shown EXCEPT ![u] = e.value], u) \in Nat
        BY <2>1, <2>2, <3>1, RankOrder
      <3> QED  BY <2>1, <3>2 DEF UpdatedRank
    <2> QED  BY <1>1, <1>2, <2>1, <2>2
  <1>6. es = "open" /\ stream # <<>> /\ Head(stream).type # "reinit" /\ UNCHANGED received
    BY <1>1 DEF received, e
  <1>7. /\ missed' = missed /\ reborn' = reborn /\ known' \subseteq Viewed
        /\ fetching' \in SUBSET (Viewed \X {"asked", "found", "gone"})
    BY <1>1, <1>2 DEF PageTypes
  <1> QED  BY <1>1, <1>3, <1>4, <1>5, <1>6, <1>7, ReceivedKeeps

LEMMA ReinitKeeps ==
    ASSUME NEW H, NEW E, PageWith(H, E), ReceiveReinit
    PROVE  PageWith(H, E)'
  <1>1. /\ stream # <<>> /\ stream' = Tail(stream) /\ missed' = TRUE
        /\ UNCHANGED <<present, points, clock, cached, known, shown, rank, phase, user_init_time,
                       score_init_time, url_id, seen_id, last_event_id, es, fetching, raised, reborn>>
    BY DEF ReceiveReinit, serverVars, shownVars, initVars, idVars
  <1>2. History(H, E)' /\ EndOf(cached, E, clock)'
    BY <1>1, ServerStays
  <1>3. phase = "live" /\ PageTypes /\ Tail(stream) \in Seq(Events \cup {Reinit})
    BY <1>1 DEF PageWith, PageTypes
  <1>4. PageTypes'
    BY <1>1, <1>3 DEF PageTypes, Reinit
  <1>5. Loading(H, E)' /\ Following(H, E)'
    BY <1>1, <1>3 DEF Loading, Following, Follows
  <1> QED  BY <1>2, <1>4, <1>5 DEF PageWith

\* The answers to the requests for new users.
LEMMA ServeKeeps ==
    ASSUME NEW H, NEW E, PageWith(H, E), NEW f \in fetching, ServeUser(f)
    PROVE  PageWith(H, E)'
  <1>1. /\ UNCHANGED <<present, points, clock, cached, known, shown, rank, phase, user_init_time,
                       score_init_time, url_id, seen_id, last_event_id, es, stream, missed, raised, reborn>>
        /\ \E a \in {"found", "gone"} : fetching' = (fetching \ {f}) \cup {<<f[1], a>>}
    BY DEF ServeUser, serverVars, shownVars, initVars, idVars
  <1>0. PICK a \in {"found", "gone"} : fetching' = (fetching \ {f}) \cup {<<f[1], a>>}
    BY <1>1
  <1>2. PICK g : g = <<f[1], a>> /\ fetching' = (fetching \ {f}) \cup {g}
    BY <1>0
  <1>3. /\ PageTypes /\ phase = "live" /\ f \in Viewed \X {"asked", "found", "gone"} /\ f[1] \in Viewed
        /\ g[1] = f[1] /\ g \in Viewed \X {"asked", "found", "gone"}
    BY <1>2 DEF PageWith, PageTypes
  <1>4. History(H, E)' /\ EndOf(cached, E, clock)'
    BY <1>1, ServerStays
  <1>5. PageTypes'
    <2>1. fetching' \in SUBSET (Viewed \X {"asked", "found", "gone"})
      BY <1>2, <1>3 DEF PageTypes
    <2> QED  BY <1>1, <1>3, <2>1 DEF PageTypes, Reinit
  <1>6. Loading(H, E)'
    BY <1>1, <1>3 DEF Loading
  <1>7. Following(H, E)'
    <2> SUFFICES ASSUME Follows
                 PROVE  RanksByScore' /\ Asks' /\ Fetches' /\ (Matches(H, E) => Matches(H, E)')
      BY <1>1 DEF PageWith, Following, Follows, InTouch, Restarted, Outdated
    <2>1. RanksByScore /\ Asks /\ Fetches
      BY FollowingFacts
    <2>2. RanksByScore' /\ Asks'
      BY <1>1, <2>1 DEF RanksByScore, RankBy, Asks, Follows
    <2>3. Fetches'
      BY <1>1, <1>2, <1>3, <2>1 DEF Fetches
    <2>4. {x[1] : x \in fetching'} = {x[1] : x \in fetching}
      BY <1>2, <1>3
    <2>5. Latest' = Latest
      BY <1>1 DEF Latest
    <2>6. ASSUME Matches(H, E)  PROVE \A x \in fetching' : H[Latest].points[x[1]] = 0
      BY <1>2, <1>3, <2>6 DEF Matches
    <2> QED  BY <1>1, <2>2, <2>3, <2>4, <2>5, <2>6 DEF Matches
  <1> QED  BY <1>4, <1>5, <1>6, <1>7 DEF PageWith

\* A score of zero comes after all the others.
LEMMA UserKeeps ==
    ASSUME NEW H, NEW E, PageWith(H, E), NEW u \in Viewed, CreateUser(u)
    PROVE  PageWith(H, E)'
  <1>1. /\ UNCHANGED <<present, points, clock, cached, phase, user_init_time, score_init_time, url_id,
                       seen_id, last_event_id, es, stream, missed, raised, reborn>>
        /\ known' = known \cup {u} /\ shown' = [shown EXCEPT ![u] = 0]
        /\ rank' = [rank EXCEPT ![u] = RankBy(shown', u)]
    BY DEF CreateUser, serverVars, initVars, idVars
  <1>2. PICK g : g = <<u, "found">> /\ g \in fetching /\ fetching' = fetching \ {g} /\ g[1] = u
    BY DEF CreateUser
  <1>3. PageTypes /\ phase = "live" /\ MaxPoints \in Nat
    BY <1>2, EventSourceAssumption DEF PageWith, PageTypes
  <1>4. History(H, E)' /\ EndOf(cached, E, clock)'
    BY <1>1, ServerStays
  <1>5. /\ shown \in [Viewed -> Nat] /\ known \subseteq Viewed
        /\ shown' \in [Viewed -> Nat] /\ known' \subseteq Viewed /\ shown'[u] = 0
        /\ \A w \in Viewed : w # u => shown'[w] = shown[w]
        /\ \A w \in Viewed : shown[w] \in Nat
    BY <1>1, HistoryFacts
  <1>6. PageTypes'
    <2>1. shown' \in [Viewed -> 0 .. MaxPoints]
      BY <1>1, <1>3 DEF PageTypes
    <2>2. RankBy(shown', u) \in Nat
      <3>1. {v \in known : shown'[v] > shown'[u]} \subseteq Viewed
        BY <1>5
      <3>2. IsFiniteSet({v \in known : shown'[v] > shown'[u]})
        BY <3>1, EventSourceAssumption, FS_Subset
      <3>3. Cardinality({v \in known : shown'[v] > shown'[u]}) \in Nat
        BY <3>2, FS_CardinalityType
      <3> QED  BY <3>3 DEF RankBy
    <2>3. rank' \in [Viewed -> Int]
      BY <1>1, <1>3, <2>2 DEF PageTypes
    <2>4. fetching' \in SUBSET (Viewed \X {"asked", "found", "gone"})
      BY <1>2, <1>3 DEF PageTypes
    <2> QED  BY <1>1, <1>3, <1>5, <2>1, <2>3, <2>4 DEF PageTypes, Reinit
  <1>7. Loading(H, E)'
    BY <1>1, <1>3 DEF Loading
  <1>8. Following(H, E)'
    <2> SUFFICES ASSUME Follows
                 PROVE  RanksByScore' /\ Asks' /\ Fetches' /\ (Matches(H, E) => Matches(H, E)')
      BY <1>1 DEF PageWith, Following, Follows, InTouch, Restarted, Outdated
    <2>1. RanksByScore /\ Asks /\ Fetches
      BY FollowingFacts
    <2>2. u \notin known /\ \A f \in fetching' : f[1] # u
      BY <1>2, <2>1 DEF Fetches
    <2>3. Asks'
      BY <1>1, <2>1 DEF Asks
    <2>4. Fetches'
      BY <1>1, <1>2, <2>1, <2>2 DEF Fetches
    <2>5. RanksByScore'
      <3>1. \A w \in known : rank[w] = RankBy(shown, w)
        BY <2>1 DEF RanksByScore
      <3>2. \A w \in known : RankBy(shown, w)' = RankBy(shown, w)
        <4> SUFFICES ASSUME NEW w \in known  PROVE RankBy(shown, w)' = RankBy(shown, w)
          OBVIOUS
        <4>1. {v \in known' : shown'[v] > shown'[w]} = {v \in known : shown[v] > shown[w]}
          BY <1>1, <1>5, <2>2
        <4> QED  BY <4>1 DEF RankBy
      <3>3. RankBy(shown, u)' = RankBy(shown', u)
        <4>1. {v \in known' : shown'[v] > shown'[u]} = {v \in known : shown'[v] > shown'[u]}
          BY <1>1, <1>5
        <4> QED  BY <4>1 DEF RankBy
      <3>4. rank'[u] = RankBy(shown', u) /\ \A w \in known : rank'[w] = rank[w]
        BY <1>1, <1>3, <2>2 DEF PageTypes
      <3> QED  BY <1>1, <3>1, <3>2, <3>3, <3>4 DEF RanksByScore
    <2>6. ASSUME Matches(H, E)  PROVE Matches(H, E)'
      <3>1. Latest' = Latest
        BY <1>1 DEF Latest
      <3>2. known' \cup {f[1] : f \in fetching'} = known \cup {f[1] : f \in fetching}
        BY <1>1, <1>2, <2>2
      <3>3. \A w \in known' : shown'[w] = H[Latest].points[w]
        BY <1>1, <1>2, <1>5, <2>2, <2>6 DEF Matches
      <3> QED  BY <1>1, <1>2, <2>6, <3>1, <3>2, <3>3 DEF Matches
    <2> QED  BY <2>3, <2>4, <2>5, <2>6
  <1> QED  BY <1>4, <1>6, <1>7, <1>8 DEF PageWith

LEMMA FailsKeeps ==
    ASSUME NEW H, NEW E, PageWith(H, E), NEW u \in Viewed, FetchFails(u)
    PROVE  PageWith(H, E)'
  <1>1. /\ UNCHANGED <<present, points, clock, cached, known, shown, rank, phase, user_init_time,
                       score_init_time, url_id, seen_id, last_event_id, missed, raised, reborn>>
        /\ fetching # {} /\ fetching' \subseteq fetching /\ es' = "error" /\ stream' = <<>>
    BY DEF FetchFails, serverVars, shownVars, initVars, idVars
  <1>2. PageTypes /\ phase = "live"
    BY <1>1 DEF PageWith, PageTypes
  <1>3. History(H, E)' /\ EndOf(cached, E, clock)'
    BY <1>1, ServerStays
  <1>4. PageTypes'
    <2>1. <<>> \in Seq(Events \cup {Reinit})
      OBVIOUS
    <2>2. fetching' \in SUBSET (Viewed \X {"asked", "found", "gone"})
      BY <1>1, <1>2 DEF PageTypes
    <2> QED  BY <1>1, <1>2, <2>1, <2>2 DEF PageTypes, Reinit
  <1>5. Loading(H, E)'
    BY <1>1, <1>2 DEF Loading
  <1>6. Following(H, E)'
    <2> SUFFICES ASSUME Follows
                 PROVE  RanksByScore' /\ Asks' /\ Fetches'
      BY <1>1 DEF Following, Follows, InTouch
    <2>1. RanksByScore /\ Asks /\ Fetches
      BY FollowingFacts
    <2> QED  BY <1>1, <2>1 DEF RanksByScore, RankBy, Asks, Fetches, Follows
  <1> QED  BY <1>3, <1>4, <1>5, <1>6 DEF PageWith

-----------------------------------------------------------------------------
PageInv == \E H, E : PageWith(H, E)

LEMMA PageInit == SourceInit => PageInv
  <1> SUFFICES ASSUME SourceInit  PROVE PageInv
    OBVIOUS
  <1>1. PICK H, E : H = [k \in 0 .. 0 |-> [present |-> present, points |-> points]] /\ E = [k \in 1 .. 0 |-> 0]
    OBVIOUS
  <1>2. clock = 0 /\ cached = <<>> /\ stream = <<>> /\ phase = "users" /\ MaxPoints \in Nat
    BY EventSourceAssumption DEF SourceInit
  <1>3. /\ present \in SUBSET Viewed /\ points \in [Viewed -> 0 .. MaxPoints]
        /\ \A u \in Viewed \ present : points[u] = 0
    BY DEF SourceInit
  <1>4. History(H, E)
    <2>1. /\ 0 .. 0 = {0} /\ 1 .. 0 = {} /\ H[0] = [present |-> present, points |-> points]
          /\ H \in [0 .. 0 -> UserStates]
      BY <1>1, <1>3 DEF UserStates
    <2>2. E \in [1 .. 0 -> Events]
      BY <1>1, <2>1
    <2>3. H[0].present = present /\ H[0].points = points
      BY <2>1
    <2>4. \A k \in 0 .. 0 : NoPointsLeft(H[k])
      BY <1>3, <2>1, <2>3 DEF NoPointsLeft
    <2> QED  BY <1>2, <2>1, <2>2, <2>3, <2>4 DEF History
  <1>5. EndOf(cached, E, clock)
    BY <1>2 DEF EndOf
  <1>6. PageTypes
    <2>1. <<>> \in Seq(Events) /\ <<>> \in Seq(Events \cup {Reinit})
      OBVIOUS
    <2>2. /\ es = "connecting" /\ seen_id = 0 /\ fetching = {} /\ known = {}
          /\ shown = [u \in Viewed |-> 0] /\ rank = [u \in Viewed |-> 0]
      BY DEF SourceInit
    <2>3. {missed, raised, reborn} \subseteq BOOLEAN
      BY DEF SourceInit
    <2>4. shown \in [Viewed -> 0 .. MaxPoints] /\ rank \in [Viewed -> Int]
      BY <1>2, <2>2
    <2> QED  BY <1>2, <2>1, <2>2, <2>3, <2>4 DEF PageTypes
  <1>7. Loading(H, E) /\ Following(H, E)
    BY <1>2 DEF Loading, Following, Follows
  <1> QED  BY <1>4, <1>5, <1>6, <1>7 DEF PageInv, PageWith

LEMMA PageStep == PageInv /\ [SourceNext]_sourceVars => PageInv'
  <1> SUFFICES ASSUME PageInv, [SourceNext]_sourceVars  PROVE PageInv'
    OBVIOUS
  <1>1. PICK H, E : PageWith(H, E)
    BY DEF PageInv
  <1>2. ASSUME \E HH, EE : PageWith(HH, EE)'  PROVE PageInv'
    BY <1>2 DEF PageInv
  <1>3. ASSUME NEW u \in Viewed, UserCreated(u)  PROVE PageInv'
    BY <1>1, <1>2, <1>3, CreatedKeeps
  <1>4. ASSUME NEW u \in Viewed, UserDeleted(u)  PROVE PageInv'
    BY <1>1, <1>2, <1>4, DeletedKeeps
  <1>5. ASSUME NEW u \in Viewed, NEW v \in 0 .. MaxPoints, ScoreChanged(u, v)  PROVE PageInv'
    BY <1>1, <1>2, <1>5, ScoredKeeps
  <1>6. ASSUME NEW u \in Viewed, CreateUser(u)  PROVE PageInv'
    BY <1>1, <1>2, <1>6, UserKeeps
  <1>7. ASSUME NEW u \in Viewed, FetchFails(u)  PROVE PageInv'
    BY <1>1, <1>2, <1>7, FailsKeeps
  <1>8. CASE InitUsers
    BY <1>1, <1>2, <1>8, UsersKeep
  <1>9. CASE InitScores
    BY <1>1, <1>2, <1>9, ScoresKeep
  <1>10. CASE Connects
    BY <1>1, <1>2, <1>10, ConnectsKeep
  <1>11. CASE ConnectionLost \/ ServerRestarts
    BY <1>1, <1>2, <1>11, LostKeeps
  <1>12. CASE ReceiveReinit
    BY <1>1, <1>2, <1>12, ReinitKeeps
  <1>13. CASE ReceiveCreate
    BY <1>1, <1>2, <1>13, CreateKeeps
  <1>14. CASE ReceiveDelete
    BY <1>1, <1>2, <1>14, DeleteKeeps
  <1>15. CASE ReceiveScore
    BY <1>1, <1>2, <1>15, ScoreKeeps
  <1>16. ASSUME NEW f \in fetching, ServeUser(f)  PROVE PageInv'
    BY <1>1, <1>2, <1>16, ServeKeeps
  <1>17. CASE UNCHANGED sourceVars
    <2>1. /\ UNCHANGED <<present, points, clock, cached, known, shown, rank, phase, user_init_time,
                         score_init_time, url_id, seen_id, last_event_id, es, stream, fetching>>
          /\ UNCHANGED <<missed, raised, reborn>>
      BY <1>17 DEF sourceVars, serverVars, shownVars, initVars, idVars
    <2>2. History(H, E)' /\ EndOf(cached, E, clock)'
      BY <1>1, <2>1, ServerStays
    <2>3. PageTypes'
      BY <1>1, <2>1 DEF PageWith, PageTypes, Reinit
    <2>4. Loading(H, E)'
      BY <1>1, <2>1 DEF PageWith, Loading
    <2>5. Following(H, E)'
      BY <1>1, <2>1 DEF PageWith, Following, Follows, RanksByScore, RankBy, Asks, Fetches, Restarted,
                        Outdated, InTouch, Matches, Latest
    <2> QED  BY <1>2, <2>2, <2>3, <2>4, <2>5 DEF PageWith
  <1> QED  BY <1>3, <1>4, <1>5, <1>6, <1>7, <1>8, <1>9, <1>10, <1>11, <1>12, <1>13, <1>14, <1>15, <1>16,
              <1>17 DEF SourceNext

LEMMA PageInvSound == PageInv => PageSound
  <1> SUFFICES ASSUME PageInv, Follows  PROVE PageSound
    BY DEF PageSound, PageCatchesUp, RanksByScore
  <1>1. PICK H, E : PageWith(H, E)
    BY DEF PageInv
  <1>2. /\ RanksByScore /\ (InTouch => Matches(H, E))
        /\ es = "open" /\ ~Restarted => Len(stream) = clock - last_event_id
        /\ last_event_id \in Nat /\ clock \in Nat /\ score_init_time \in 0 .. clock
    BY <1>1, FollowingFacts
  <1>3. ASSUME Quiet  PROVE UpToDate
    <2>1. es = "open" /\ stream = <<>> /\ fetching = {} /\ Len(stream) = 0
      BY <1>3 DEF Quiet
    <2>2. Matches(H, E) /\ last_event_id = clock
      BY <1>2, <2>1 DEF Restarted, InTouch
    <2>3. Latest = clock
      BY <1>2, <2>2 DEF Latest
    <2>4. H[clock].present = present /\ H[clock].points = points
      BY <1>1, HistoryFacts
    <2> QED  BY <2>1, <2>2, <2>3, <2>4 DEF Matches, UpToDate
  <1> QED  BY <1>2, <1>3 DEF PageSound, PageCatchesUp

(* For any users, any size of the cache and any number of events, lost     *)
(* connections and restarts of the server: a page that has received what   *)
(* was sent shows the users and scores of the server, with the ranks of    *)
(* the definition, unless it was told to load again, a listener raised or  *)
(* a user was created again while it was loading.                          *)
THEOREM PagesStaySound == SourceSpec => []PageSound
  BY PageInit, PageStep, PageInvSound, PTL DEF SourceSpec
=============================================================================
