---------------------------- MODULE TulipSystem -----------------------------
(***************************************************************************)
(* A TulipServer and its KELORobile clients, joined by their channel.      *)
(***************************************************************************)
EXTENDS KELORobile, TulipServer

vars == <<channelVars, clientVars, serverVars>>

Init == ChannelInit /\ KELORobileInit /\ ServerInit

Next == \/ ClientNext /\ UNCHANGED serverVars
        \/ ServerNext /\ UNCHANGED clientVars

Spec == Init /\ [][Next]_vars

(***************************************************************************)
(* The threads run; a waiting client gives up or takes its answer; the REP *)
(* socket serves its peers in turn, so no client's request waits for ever. *)
(***************************************************************************)
Fairness ==
    /\ WF_vars(RequestLoop /\ UNCHANGED clientVars)
    /\ WF_vars(EthercatLoop /\ UNCHANGED clientVars)
    /\ WF_vars(Run /\ UNCHANGED clientVars)
    /\ \A c \in Clients :
         SF_vars(\E call \in inbox : call.client = c /\ RequestRecv(call) /\ UNCHANGED clientVars)

FairSpec == Spec /\ Fairness

-----------------------------------------------------------------------------
(* Properties. *)

\* Every variable keeps its type.
TypeOK ==
    /\ inbox \subseteq Call /\ outbox \subseteq Reply
    /\ pc \in [Clients -> {"closed", "ready", "waiting", "stuck"}]
    /\ session \in [Clients -> 0..MaxSessions]
    /\ calls \in [Clients -> 0..MaxCalls]
    /\ current \in [Clients -> Call \cup {NoCall}]
    /\ result \in [Clients -> Results]
    /\ made \subseteq Call /\ received \subseteq Reply
    /\ shouldStop \in BOOLEAN /\ socketOpen \in BOOLEAN
    /\ rpc \in {"test", "recv", "handle", "send", "done", "crashed", "killed"}
    /\ request \in Call \cup {NoCall} /\ response \in {"ok", "error"}
    /\ handled \subseteq Call /\ executions \in Nat /\ answers \in Nat
    /\ epc \in {"test", "step", "done", "crashed"}
    /\ stepped \in BOOLEAN
    /\ mpc \in {"join", "close", "term", "exited"}

\* The system is a request/reply service: calls are executed at most once and
\* answers, late ones included, are only taken for the call they answer.
Service == INSTANCE RequestReply WITH
    AnyCall  <- Call,
    executed <- handled,
    answered <- {reply.call : reply \in received},
    waitsFor <- [c \in Clients |-> IF pc[c] = "waiting" THEN current[c] ELSE NoCall]

ServiceSpec == Service!Spec

StopHandled == \E call \in handled : call.kind = "stop"

\* A stop that was handled ends the process, and so does an exception in a step:
\* the EtherCAT loop ends and run() returns, whatever the request thread is doing.
StopEndsProcess == StopHandled \/ epc = "crashed" ~> mpc = "exited"

\* The n-th call of a client is in a set of calls.
NthCallIn(c, n, set) == \E call \in set : call.client = c /\ call.n = n

\* While the server runs and no handler has raised, every request that arrives
\* is handled: no thread or client keeps another one out.
RequestsAreHandled ==
    \A c \in Clients, n \in 1..MaxCalls :
        NthCallIn(c, n, inbox)
            ~> NthCallIn(c, n, handled) \/ mpc = "exited" \/ rpc = "crashed"

\* Once a stop was handled no call is executed any more, although other clients'
\* requests are queued and the process has not ended yet.
NothingAfterStop == [][StopHandled => UNCHANGED executions]_vars

-----------------------------------------------------------------------------
(* What the code's documentation says, and the code does not keep. *)

\* stop_server "Returns: A ResponseMessage object indicating the response
\* status of the request": the process does not end while a client waits for
\* the answer to a stop that was handled, unless the answer is on its way.
StopIsAnswered ==
    mpc = "exited" =>
        \A c \in Clients :
            pc[c] = "waiting" /\ current[c].kind = "stop" /\ current[c] \in handled
                => \E reply \in outbox : reply.call = current[c]
=============================================================================
