------------------------------ MODULE Checker -------------------------------
(***************************************************************************)
(* Checker asks every service for an echo and notes who does not answer in *)
(* time (cms/service/Checker.py). Time passes in steps of the ten seconds  *)
(* after which a reply is late; the period of the checks is a few of them. *)
(***************************************************************************)
EXTENDS Integers

CONSTANTS
    CheckedServices,
    Unasked,
    CheckPeriod,
    MaxCheckTime

ASSUME CheckerAssumption == CheckPeriod \in Nat \ {0, 1} /\ Unasked \notin Nat

Prompt == 1

VARIABLES
    now,
    checked,        \* when check was called last
    waiting_for,    \* per service: the time of the request, or Unasked
    echoes,         \* the requests without a reply: <<service, time>>
    reachable,
    owing           \* the services that have not answered the last request in
                    \* time (yet)

checkerVars == <<now, checked, waiting_for, echoes, reachable, owing>>

CheckerInit ==
    /\ now = CheckPeriod /\ checked = 0
    /\ waiting_for = [s \in CheckedServices |-> Unasked]
    /\ echoes = {} /\ reachable \in SUBSET CheckedServices /\ owing = {}

Pass ==
    /\ now < MaxCheckTime /\ now' = now + 1
    /\ UNCHANGED <<checked, waiting_for, echoes, reachable, owing>>

Check ==
    /\ now >= checked + CheckPeriod /\ checked' = now
    /\ waiting_for' = [s \in CheckedServices |-> IF s \in reachable THEN now ELSE Unasked]
    /\ echoes' = echoes \cup (reachable \X {now})
    /\ owing' = reachable
    /\ UNCHANGED <<now, reachable>>

(* Mutation: any reply will do.                                            *)
LateUnasked(s, time) == waiting_for[s] = Unasked

Late(s, time) == waiting_for[s] = Unasked \/ now - time > Prompt

EchoCallback(s, time) ==
    /\ <<s, time>> \in echoes /\ echoes' = echoes \ {<<s, time>>}
    /\ waiting_for' = IF Late(s, time) THEN waiting_for
                      ELSE [waiting_for EXCEPT ![s] = Unasked]
    /\ owing' = IF time = checked /\ now - time <= Prompt THEN owing \ {s} ELSE owing
    /\ UNCHANGED <<now, checked, reachable>>

(* The requests that are pending end with an error, which is ignored.      *)
BecomesUnreachable(s) ==
    /\ s \in reachable /\ reachable' = reachable \ {s}
    /\ echoes' = {e \in echoes : e[1] # s}
    /\ UNCHANGED <<now, checked, waiting_for, owing>>

BecomesReachable(s) ==
    /\ s \notin reachable /\ reachable' = reachable \cup {s}
    /\ UNCHANGED <<now, checked, waiting_for, echoes, owing>>

CheckerNext ==
    \/ Pass \/ Check
    \/ \E s \in CheckedServices :
          \/ BecomesUnreachable(s) \/ BecomesReachable(s)
          \/ \E time \in 0 .. MaxCheckTime : EchoCallback(s, time)

CheckerSpec == CheckerInit /\ [][CheckerNext]_checkerVars

-----------------------------------------------------------------------------
(* A service is waited for, and reported at the next check, exactly when   *)
(* it did not answer the last request in time; a late answer to an earlier *)
(* request does not hide that it is stuck.                                 *)
StuckIsReported == {s \in CheckedServices : waiting_for[s] # Unasked} = owing
=============================================================================
