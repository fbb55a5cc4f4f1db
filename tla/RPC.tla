-------------------------------- MODULE RPC --------------------------------
(***************************************************************************)
(* The RPC protocol between two services (cms/io/rpc.py) and its HTTP      *)
(* front end (cms/io/web_rpc.py): a RemoteServiceClient that keeps one     *)
(* connection open and reconnects when it is lost, and the                 *)
(* RemoteServiceServers at the other end, one per connection. Requests are *)
(* executed by greenlets of their own, and answered in any order.          *)
(*                                                                         *)
(* A connection breaks at some moment for the network; each end notices    *)
(* when it reads or writes. Writing a large request may block: the         *)
(* greenlet of the caller goes on later, with the socket it had.           *)
(***************************************************************************)
EXTENDS Naturals, FiniteSets

CONSTANTS
    Calls,          \* the calls of execute_rpc
    MaxConnections  \* bounds the connections made

ASSUME RPCAssumption == MaxConnections \in Nat \ {0}

Connections == 1 .. MaxConnections

VARIABLES
    link,           \* per connection: "new", "up" or "broken"
    connected,      \* the client's socket: a connection, or 0
    reader,         \* the connection run reads from, or 0 when _run reconnects
    call,           \* per call: what its AsyncResult says, or where it is
    wire,           \* per call: the connection its greenlet writes to, or 0
    pending,        \* pending_outgoing_requests
    travelling,     \* requests and responses on their way: <<kind, call, conn>>
    serving,        \* greenlets of the server: <<call, conn>>
    runs,           \* per call: how often the method was started
    waiting         \* calls an HTTP request waits for

rpcVars == <<link, connected, reader, call, wire, pending, travelling, serving, runs, waiting>>
network == <<link, travelling>>
client == <<connected, reader, call, wire, pending, waiting>>
server == <<serving, runs>>

(* "idle": not made; "queued": _write waits for the lock; "blocked": it    *)
(* has the lock and waits for the network; "sent": the AsyncResult is      *)
(* empty; the others are what it holds in the end.                         *)
Resolved == {"value", "error"}

RPCInit ==
    /\ link = [c \in Connections |-> "new"]
    /\ connected = 0 /\ reader = 0
    /\ call = [k \in Calls |-> "idle"]
    /\ wire = [k \in Calls |-> 0]
    /\ pending = {} /\ travelling = {} /\ serving = {}
    /\ runs = [k \in Calls |-> 0]
    /\ waiting = {}

-----------------------------------------------------------------------------
(* The client.                                                             *)

(* _run and _connect: the attempts that fail change nothing.               *)
Connect(c) ==
    /\ reader = 0 /\ connected = 0
    /\ link[c] = "new" /\ \A d \in Connections : d < c => link[d] # "new"
    /\ link' = [link EXCEPT ![c] = "up"]
    /\ connected' = c /\ reader' = c
    /\ UNCHANGED <<call, wire, pending, travelling, server, waiting>>

(* Mutation: the requests of a lost connection stay in the dictionaries.   *)
FinalizedForgetful(outcome) == outcome

(* finalize: every call in the dictionaries fails, connected or not.       *)
Finalized(outcome) == [k \in Calls |-> IF k \in pending THEN "error" ELSE outcome[k]]

(* execute_rpc: what follows the last byte sent is not interrupted. What   *)
(* is written to a connection that broke unnoticed is lost.                *)
Sent(k, c) ==
    /\ call' = [call EXCEPT ![k] = "sent"]
    /\ pending' = pending \cup {k}
    /\ wire' = [wire EXCEPT ![k] = 0]
    /\ travelling' = IF link[c] = "up" THEN travelling \cup {<<"request", k, c>>}
                                       ELSE travelling

WriteLocked == \E k \in Calls : call[k] = "blocked"

(* _write waits for the lock, and looks again whether there is a           *)
(* connection when it has it.                                              *)
WaitsForLock(k) ==
    /\ call[k] = "idle" /\ connected # 0 /\ WriteLocked
    /\ call' = [call EXCEPT ![k] = "queued"]
    /\ UNCHANGED <<connected, reader, wire, pending, network, server, waiting>>

Starts(k) == call[k] \in {"idle", "queued"} /\ ~WriteLocked

(* There is no connection, or the message is too long.                     *)
CallFails(k) ==
    /\ call[k] = "idle" \/ (Starts(k) /\ connected = 0)
    /\ call' = [call EXCEPT ![k] = "error"]
    /\ UNCHANGED <<connected, reader, wire, pending, network, server, waiting>>

ExecuteRPC(k) ==
    /\ Starts(k) /\ connected # 0
    /\ Sent(k, connected)
    /\ UNCHANGED <<connected, reader, link, server, waiting>>

WriteBlocks(k) ==
    /\ Starts(k) /\ connected # 0
    /\ call' = [call EXCEPT ![k] = "blocked"]
    /\ wire' = [wire EXCEPT ![k] = connected]
    /\ UNCHANGED <<connected, reader, pending, network, server, waiting>>

WriteResumes(k) ==
    /\ call[k] = "blocked" /\ link[wire[k]] = "up"
    /\ Sent(k, wire[k])
    /\ UNCHANGED <<connected, reader, link, server, waiting>>

(* The error finalizes whatever connection there is by now.                *)
WriteFails(k) ==
    /\ call[k] = "blocked" /\ link[wire[k]] = "broken"
    /\ connected' = 0
    /\ call' = [Finalized(call) EXCEPT ![k] = "error"]
    /\ wire' = [wire EXCEPT ![k] = 0]
    /\ pending' = {}
    /\ UNCHANGED <<reader, network, server, waiting>>

(* run: the end of the stream, or an error.                                *)
ReadFails ==
    /\ reader # 0 /\ link[reader] = "broken"
    /\ connected' = 0 /\ reader' = 0
    /\ call' = Finalized(call)
    /\ pending' = {}
    /\ UNCHANGED <<wire, network, server, waiting>>

(* Mutation: a response without a request fills the result all the same.   *)
AnswerOfAny(k) == "value"

AnswerOf(k) == IF k \in pending THEN "value" ELSE call[k]

(* process_incoming_response; a method that raised is answered with an     *)
(* error. A reader whose connection was finalized meanwhile takes one more *)
(* message and then stops.                                                 *)
ReadResponse(k) ==
    /\ reader # 0 /\ <<"response", k, reader>> \in travelling
    /\ travelling' = travelling \ {<<"response", k, reader>>}
    /\ \E a \in {AnswerOf(k), IF k \in pending THEN "error" ELSE call[k]} :
          call' = [call EXCEPT ![k] = a]
    /\ pending' = pending \ {k}
    /\ reader' = IF connected = reader THEN reader ELSE 0
    /\ UNCHANGED <<connected, wire, link, server, waiting>>

(* RPCMiddleware: the HTTP request waits for the result for a minute.      *)
WebCall(k) ==
    /\ k \notin waiting /\ Starts(k) /\ connected # 0
    /\ waiting' = waiting \cup {k}
    /\ Sent(k, connected)
    /\ UNCHANGED <<connected, reader, link, server>>

WebAnswer(k) ==
    /\ k \in waiting
    /\ waiting' = waiting \ {k}
    /\ UNCHANGED <<connected, reader, call, wire, pending, network, server>>

-----------------------------------------------------------------------------
(* The network and the server.                                             *)

(* The last connection of a behaviour does not break.                      *)
LinkBreaks(c) ==
    /\ link[c] = "up" /\ c < MaxConnections
    /\ link' = [link EXCEPT ![c] = "broken"]
    /\ \E lost \in SUBSET {m \in travelling : m[3] = c} : travelling' = travelling \ lost
    /\ UNCHANGED <<client, server>>

(* RemoteServiceServer.run and process_incoming_request. What was received *)
(* before the connection broke is still read.                              *)
ReceiveRequest(k, c) ==
    /\ <<"request", k, c>> \in travelling
    /\ travelling' = travelling \ {<<"request", k, c>>}
    /\ serving' = serving \cup {<<k, c>>}
    /\ runs' = [runs EXCEPT ![k] = @ + 1]
    /\ UNCHANGED <<client, link>>

(* The method returned or raised; the answer is lost with the connection.  *)
Respond(k, c) ==
    /\ <<k, c>> \in serving
    /\ serving' = serving \ {<<k, c>>}
    /\ travelling' = IF link[c] = "up" THEN travelling \cup {<<"response", k, c>>}
                                       ELSE travelling
    /\ UNCHANGED <<client, link, runs>>

(* finalize of the server kills the greenlets, wherever they are in the    *)
(* methods they run.                                                       *)
ServerFinalizes(c) ==
    /\ link[c] = "broken"
    /\ \E s \in serving : s[2] = c
    /\ serving' = {s \in serving : s[2] # c}
    /\ UNCHANGED <<client, network, runs>>

RPCNext ==
    \/ \E c \in Connections : Connect(c) \/ LinkBreaks(c) \/ ServerFinalizes(c)
    \/ \E k \in Calls : \/ WaitsForLock(k) \/ CallFails(k) \/ ExecuteRPC(k) \/ WriteBlocks(k)
                        \/ WriteResumes(k) \/ WriteFails(k)
                        \/ ReadResponse(k) \/ WebCall(k) \/ WebAnswer(k)
    \/ \E k \in Calls, c \in Connections : ReceiveRequest(k, c) \/ Respond(k, c)
    \/ ReadFails

RPCSpec == RPCInit /\ [][RPCNext]_rpcVars

-----------------------------------------------------------------------------
(* A result is given once: the answer to a request that was already failed *)
(* because its connection was lost, and that arrives late, is dropped by   *)
(* process_incoming_response; and a request that waits for its answer is   *)
(* in the dictionaries, whichever greenlet finalized the connection while  *)
(* another one was still sending.                                          *)
ResultGivenOnce ==
    /\ [](pending = {k \in Calls : call[k] = "sent"})
    /\ [][\A k \in Calls : call[k] \in Resolved => call'[k] = call[k]]_rpcVars

(* Every call gets a result or an error, so that no caller waits for ever: *)
(* finalize fails what was sent over a connection that is lost.            *)
EveryCallEnds == \A k \in Calls : call[k] \in {"queued", "blocked", "sent"} ~> call[k] \in Resolved
=============================================================================
