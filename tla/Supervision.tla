---------------------------- MODULE Supervision -----------------------------
(***************************************************************************)
(* ResourceService keeps the services of its machine running               *)
(* (cms/service/ResourceService.py, Service.run and exit in                *)
(* cms/io/service.py). Starting a program switches greenlet; looking at    *)
(* the processes does not.                                                 *)
(***************************************************************************)
EXTENDS Integers, FiniteSetsExt

CONSTANTS
    LocalServices,  \* those that _restart_services does not skip
    Pids,           \* numbers; a new process has one that nobody remembers
    NoProcess,
    MaxDeaths,      \* times a process dies or is killed
    MaxLaunches,    \* processes the user starts
    MaxToggles

VARIABLES
    process,        \* per pid: [service, state]
    procs,          \* _procs: the process found for each service
    will_restart,
    visited,        \* services this turn of _restart_services is done with
    matcher,        \* of this turn: the process of each service when it first
                    \* looked, or <<>> if it did not look yet
    deaths, launches, toggles

supervisionVars ==
    <<process, procs, will_restart, visited, matcher, deaths, launches, toggles>>

Dead == [service |-> NoProcess, state |-> "dead"]

Alive(p) == process[p] # Dead
Of(s) == {p \in Pids : Alive(p) /\ process[p].service = s}
Serving(s) == \E p \in Of(s) : process[p].state = "serving"
IsRunning(p) == p # NoProcess /\ Alive(p)
Free == {p \in Pids : ~Alive(p) /\ \A s \in LocalServices :
            procs[s] # p /\ (matcher # <<>> => matcher[s] # p)}

SupervisionInit ==
    /\ process = [p \in Pids |-> Dead]
    /\ procs = [s \in LocalServices |-> NoProcess]
    /\ will_restart = [s \in LocalServices |-> TRUE]
    /\ visited = {} /\ matcher = <<>>
    /\ deaths = 0 /\ launches = 0 /\ toggles = 0

Launched(s) ==
    [process EXCEPT ![Min(Free)] = [service |-> s, state |-> "starting"]]

-----------------------------------------------------------------------------
(* _restart_services, once per service.                                    *)

(* One of the processes with the command line of the service.              *)
Matches == {m \in [LocalServices -> Pids \cup {NoProcess}] :
              \A s \in LocalServices :
                 IF Of(s) = {} THEN m[s] = NoProcess ELSE m[s] \in Of(s)}

(* Mutation: a process that was found once is never looked for again.      *)
KnownAlways(s) == procs[s] # NoProcess

Known(s) == IsRunning(procs[s])

TurnOver == visited = LocalServices /\ visited' = {} /\ matcher' = <<>>

(* The processes are looked at when the first one is missed, and the       *)
(* answer is kept for the rest of the turn.                                *)
Find(s) ==
    /\ matcher' \in IF matcher = <<>> THEN Matches ELSE {matcher}
    /\ procs' = [procs EXCEPT ![s] = matcher'[s]]

Visit(s) ==
    /\ s \notin visited /\ visited' = visited \cup {s}
    /\ IF ~will_restart[s] \/ Known(s)
       THEN UNCHANGED <<process, procs, matcher>>
       ELSE /\ Find(s)
            /\ process' = IF IsRunning(procs'[s]) THEN process ELSE Launched(s)
    /\ UNCHANGED <<will_restart, deaths, launches, toggles>>

EndTurn ==
    /\ TurnOver
    /\ UNCHANGED <<process, procs, will_restart, deaths, launches, toggles>>

(* _store_resources keeps the processes it finds.                          *)
StoreResources ==
    /\ \E m \in Matches :
          procs' = [s \in LocalServices |->
                      IF ~Known(s) /\ m[s] # NoProcess THEN m[s] ELSE procs[s]]
    /\ procs' # procs
    /\ UNCHANGED <<process, will_restart, visited, matcher, deaths, launches, toggles>>

ToggleAutorestart(s) ==
    /\ toggles < MaxToggles /\ toggles' = toggles + 1
    /\ will_restart' = [will_restart EXCEPT ![s] = ~@]
    /\ UNCHANGED <<process, procs, visited, matcher, deaths, launches>>

-----------------------------------------------------------------------------
(* The services.                                                           *)

(* run: a second instance finds the port in use and quits.                 *)
RunService(p) ==
    /\ process[p].state = "starting"
    /\ process' = [process EXCEPT ![p] =
                      IF Serving(@.service) THEN Dead ELSE [@ EXCEPT !.state = "serving"]]
    /\ UNCHANGED <<procs, will_restart, visited, matcher, deaths, launches, toggles>>

(* A crash, or kill_service: quit stops the server that serves.            *)
Die(p) ==
    /\ Alive(p) /\ deaths < MaxDeaths
    /\ process' = [process EXCEPT ![p] = Dead]
    /\ deaths' = deaths + 1
    /\ UNCHANGED <<procs, will_restart, visited, matcher, launches, toggles>>

UserLaunches(s) ==
    /\ launches < MaxLaunches /\ launches' = launches + 1
    /\ process' = Launched(s)
    /\ UNCHANGED <<procs, will_restart, visited, matcher, deaths, toggles>>

SupervisionNext ==
    \/ \E s \in LocalServices : Visit(s) \/ ToggleAutorestart(s) \/ UserLaunches(s)
    \/ \E p \in Pids : RunService(p) \/ Die(p)
    \/ EndTurn \/ StoreResources

-----------------------------------------------------------------------------
(* As long as the user starts no service, ResourceService has at most one  *)
(* process of each: one it has started is found by the next turn. (If an   *)
(* instance of the user dies in the middle of a turn, a second one may be  *)
(* started, and quits.)                                                    *)
StartedOnce ==
    launches = 0 => \A s \in LocalServices : Cardinality(Of(s)) <= 1

(* While the turns of _restart_services go on, a service that is to be     *)
(* restarted is served again in the end, whatever dies, quits because of a *)
(* second instance, or is started by the user; and it is started once.     *)
ServicesRestarted ==
    /\ []StartedOnce
    /\ []<>(visited = LocalServices) =>
          \A s \in LocalServices : <>[]will_restart[s] => <>[]Serving(s)
=============================================================================
