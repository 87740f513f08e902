---------------------------- MODULE TulipServer -----------------------------
(***************************************************************************)
(* TulipServer: the request thread, the EtherCAT thread and run(), from    *)
(* the start of the threads to the end of the process.  What the handlers  *)
(* and the steps do to the platform is the subject of PlatformDriver; here *)
(* they return or raise.                                                   *)
(***************************************************************************)
EXTENDS TulipChannel

VARIABLES
    shouldStop,     \* the Event
    socketOpen,     \* the REP socket
    rpc,            \* request thread: test, recv, handle, send; done, crashed, killed
    request,        \* the request it works on
    response,       \* its response: ok or error
    handled,        \* requests whose handler has returned (history)
    executions,     \* how many times a handler has returned (history)
    epc,            \* EtherCAT thread: test, step; done, crashed
    stepped,        \* a step has completed, so _process_data is not empty
    mpc             \* run(): join, close, term, exited

serverVars == <<shouldStop, socketOpen, rpc, request, response, handled, executions, epc, stepped, mpc>>

ServerInit ==
    /\ shouldStop = FALSE /\ socketOpen = TRUE
    /\ rpc = "test" /\ request = NoCall /\ response = "ok" /\ handled = {} /\ executions = 0
    /\ epc = "test" /\ stepped = FALSE
    /\ mpc = "join"

-----------------------------------------------------------------------------
(* _request_loop. *)

RequestTest ==
    /\ rpc = "test"
    /\ rpc' = IF shouldStop THEN "done" ELSE "recv"
    /\ UNCHANGED <<shouldStop, socketOpen, request, response, handled, executions, epc, stepped, mpc, channelVars>>

RequestRecv(call) ==
    /\ rpc = "recv" /\ socketOpen /\ call \in inbox
    /\ inbox' = inbox \ {call}
    /\ request' = call /\ rpc' = "handle"
    /\ UNCHANGED <<shouldStop, socketOpen, response, handled, executions, epc, stepped, mpc, outbox>>

\* The exceptions no handler catches: no handler for the class (KeyError), no
\* process data to index until the first step has read some (IndexError).
Raises(call) == call.kind = "unknown" \/ (call.kind = "aligned" /\ ~stepped)
Returns(call) == ~Raises(call) \/ (call.kind = "aligned" /\ epc = "step")

\* Mutant: a handler that forgets to return a response.
ResponseForgotten(call) == IF call.kind = "illegal_velocity" THEN "none" ELSE "ok"
\* The ValueError of an illegal target makes an ErrorResponse.
Response(call) == IF call.kind = "illegal_velocity" THEN "error" ELSE "ok"

\* Mutant: the Event is set only if the EtherCAT thread is between steps.
SetsStopBetweenSteps(call) == call.kind = "stop" /\ epc # "step"
SetsStop(call) == call.kind = "stop"

\* _handle_request returns a response ...
RequestHandle ==
    /\ rpc = "handle" /\ Returns(request)
    /\ rpc' = "send"
    /\ shouldStop' = (shouldStop \/ SetsStop(request))
    /\ response' = Response(request)
    /\ handled' = handled \cup {request} /\ executions' = executions + 1
    /\ UNCHANGED <<socketOpen, request, epc, stepped, mpc, channelVars>>

\* ... or raises, which ends the request thread.
RequestCrash ==
    /\ rpc = "handle" /\ Raises(request)
    /\ rpc' = "crashed"
    /\ UNCHANGED <<shouldStop, socketOpen, request, response, handled, executions, epc, stepped, mpc, channelVars>>

\* Mutants: the loop ends after an ErrorResponse; it does not look at the Event.
AfterSendBreaks == IF response = "ok" THEN "test" ELSE "done"
AfterSendForever == "recv"
AfterSend == "test"

\* A closed socket raises ZMQError.
RequestSend ==
    /\ rpc = "send"
    /\ IF socketOpen
       THEN rpc' = AfterSend /\ outbox' = outbox \cup {[call |-> request, response |-> response]}
       ELSE rpc' = "crashed" /\ UNCHANGED outbox
    /\ UNCHANGED <<shouldStop, socketOpen, request, response, handled, executions, epc, stepped, mpc, inbox>>

RequestRecvClosed ==
    /\ rpc = "recv" /\ ~socketOpen
    /\ rpc' = "crashed"
    /\ UNCHANGED <<shouldStop, socketOpen, request, response, handled, executions, epc, stepped, mpc, channelVars>>

RequestLoop == RequestTest \/ RequestHandle \/ RequestCrash \/ RequestSend \/ RequestRecvClosed

-----------------------------------------------------------------------------
(* _ethercat_loop. *)

EthercatTest ==
    /\ epc = "test"
    /\ epc' = IF shouldStop THEN "done" ELSE "step"
    /\ UNCHANGED <<shouldStop, socketOpen, rpc, request, response, handled, executions, stepped, mpc, channelVars>>

\* platform.step() and the sleep.
EthercatStep ==
    /\ epc = "step"
    /\ epc' = "test" /\ stepped' = TRUE
    /\ UNCHANGED <<shouldStop, socketOpen, rpc, request, response, handled, executions, mpc, channelVars>>

\* A step may raise at any time: there is no platform to step when init_ethercat
\* failed, whose result nobody looks at (line 96), or a handler races with the
\* step (see PlatformDriver, Odometry).
EthercatCrash ==
    /\ epc = "step"
    /\ epc' = "crashed"
    /\ UNCHANGED <<shouldStop, socketOpen, rpc, request, response, handled, executions, stepped, mpc, channelVars>>

EthercatLoop == EthercatTest \/ EthercatStep \/ EthercatCrash

-----------------------------------------------------------------------------
(* run, after the start of the threads. *)

MainJoin ==
    /\ mpc = "join" /\ epc \in {"done", "crashed"}
    /\ mpc' = "close"
    /\ UNCHANGED <<shouldStop, socketOpen, rpc, request, response, handled, executions, epc, stepped, channelVars>>

MainClose ==
    /\ mpc = "close"
    /\ mpc' = "term" /\ socketOpen' = FALSE
    /\ UNCHANGED <<shouldStop, rpc, request, response, handled, executions, epc, stepped, channelVars>>

\* term() lets the replies already sent go out; then the process ends, and the
\* request thread, a daemon, with it.
MainTerm ==
    /\ mpc = "term"
    /\ mpc' = "exited"
    /\ rpc' = IF rpc \in {"done", "crashed"} THEN rpc ELSE "killed"
    /\ UNCHANGED <<shouldStop, socketOpen, request, response, handled, executions, epc, stepped, channelVars>>

Run == MainJoin \/ MainClose \/ MainTerm

ServerNext == RequestLoop \/ (\E call \in inbox : RequestRecv(call)) \/ EthercatLoop \/ Run
=============================================================================
