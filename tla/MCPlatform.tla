----------------------------- MODULE MCPlatform -----------------------------
(* The machinery under the services, side by side: one of the components   *)
(* runs in a behaviour and the others stay as they are.                    *)
EXTENDS TriggeredService, RPC, Supervision, Checker, PrintingService

VARIABLE component

Components == {"queue", "rpc", "supervision", "checker", "printing"}

vars == <<component, triggeredVars, rpcVars, supervisionVars, checkerVars, printVars>>

Init ==
    /\ component \in Components
    /\ TriggeredInit /\ RPCInit /\ SupervisionInit /\ CheckerInit /\ PrintInit
    /\ component # "checker" => reachable = {}

Next ==
    \/ /\ component = "queue" /\ TriggeredNext
       /\ UNCHANGED <<component, rpcVars, supervisionVars, checkerVars, printVars>>
    \/ /\ component = "rpc" /\ RPCNext
       /\ UNCHANGED <<component, triggeredVars, supervisionVars, checkerVars, printVars>>
    \/ /\ component = "supervision" /\ SupervisionNext
       /\ UNCHANGED <<component, triggeredVars, rpcVars, checkerVars, printVars>>
    \/ /\ component = "checker" /\ CheckerNext
       /\ UNCHANGED <<component, triggeredVars, rpcVars, supervisionVars, printVars>>
    \/ /\ component = "printing" /\ PrintNext
       /\ UNCHANGED <<component, triggeredVars, rpcVars, supervisionVars, checkerVars>>

-----------------------------------------------------------------------------
(* Fairness, for the component that runs. Greenlets that can go on do; the *)
(* kernel delivers and the server answers, or the connection breaks.       *)
RPCGoesOn ==
    /\ WF_rpcVars(component = "rpc" /\ ReadFails)
    /\ \A c \in Connections : WF_rpcVars(component = "rpc" /\ Connect(c))
    /\ \A k \in Calls :
          /\ WF_rpcVars(component = "rpc" /\ call[k] = "queued" /\ (CallFails(k) \/ ExecuteRPC(k)))
          /\ WF_rpcVars(component = "rpc" /\ WriteResumes(k))
          /\ WF_rpcVars(component = "rpc" /\ WriteFails(k))
          /\ WF_rpcVars(component = "rpc" /\ ReadResponse(k))
          /\ WF_rpcVars(component = "rpc" /\ WebAnswer(k))
          /\ \A c \in Connections :
                /\ WF_rpcVars(component = "rpc" /\ ReceiveRequest(k, c))
                /\ WF_rpcVars(component = "rpc" /\ Respond(k, c))

(* The repeater calls _restart_services for ever, whatever it raises.      *)
SupervisionGoesOn ==
    /\ WF_supervisionVars(/\ component = "supervision"
                          /\ EndTurn \/ \E s \in LocalServices : Visit(s))
    /\ \A p \in Pids : WF_supervisionVars(component = "supervision" /\ RunService(p))

(* The sweeper and the executor go on, and the executor takes each job of  *)
(* the queue, which is in the order of time, in turn.                      *)
PrintingGoesOn ==
    /\ WF_printVars(component = "printing" /\ MissingOperations)
    /\ WF_printVars(component = "printing" /\ ExecutorSteps)
    /\ \A j \in PrintJobs : SF_printVars(component = "printing" /\ Start(j))

Spec ==
    /\ Init /\ [][Next]_vars
    /\ RPCGoesOn /\ SupervisionGoesOn /\ PrintingGoesOn
=============================================================================
