----------------------------- MODULE KELORobile -----------------------------
(***************************************************************************)
(* The KELORobile clients.  A client is an object with one REQ socket; the *)
(* user may close it and create another, which starts with a handshake.    *)
(* A REQ socket sends only when no answer is outstanding: after a receive  *)
(* timeout every further send raises zmq.ZMQError (EFSM).                  *)
(***************************************************************************)
EXTENDS TulipChannel

VARIABLES
    pc,         \* closed, ready, waiting (for the answer) or stuck (REQ after a timeout)
    session,    \* number of the current socket
    calls,      \* number of calls made so far
    current,    \* the call the client made last
    result,     \* how the last method call ended
    made, received, \* all calls made, and all replies taken (history)
    answers         \* how many times a reply was taken (history)

clientVars == <<pc, session, calls, current, result, made, received, answers>>

Results == {"none", "ok", "KELORobileError", "RuntimeError", "ZMQError"}

KELORobileInit ==
    /\ pc = [c \in Clients |-> "closed"]
    /\ session = [c \in Clients |-> 0]
    /\ calls = [c \in Clients |-> 0]
    /\ current = [c \in Clients |-> NoCall]
    /\ result = [c \in Clients |-> "none"]
    /\ made = {} /\ received = {} /\ answers = 0

\* send_pyobj on a REQ socket that may send.
SendRequest(c, s, kind) ==
    LET call == [client |-> c, session |-> s, n |-> calls[c] + 1, kind |-> kind]
    IN  /\ calls[c] < MaxCalls
        /\ calls' = [calls EXCEPT ![c] = @ + 1]
        /\ current' = [current EXCEPT ![c] = call]
        /\ inbox' = inbox \cup {call}
        /\ pc' = [pc EXCEPT ![c] = "waiting"]
        /\ result' = [result EXCEPT ![c] = "none"]
        /\ made' = made \cup {call}
        /\ UNCHANGED <<received, answers, outbox>>

\* KELORobile(): a new socket, whose first message is the handshake.
Connect(c) ==
    /\ pc[c] = "closed" /\ session[c] < MaxSessions
    /\ session' = [session EXCEPT ![c] = @ + 1]
    /\ SendRequest(c, session[c] + 1, "handshake")

\* One of the methods that send a message.
CallMethod(c, kind) ==
    /\ pc[c] = "ready"
    /\ SendRequest(c, session[c], kind)
    /\ UNCHANGED session

\* A method called on a socket that still waits: send_pyobj raises ZMQError.
CallStuck(c) ==
    /\ pc[c] = "stuck"
    /\ result' = [result EXCEPT ![c] = "ZMQError"]
    /\ UNCHANGED <<pc, session, calls, current, made, received, answers, channelVars>>

\* recv_pyobj returns the reply that arrived on this socket.
Receive(c, reply) ==
    /\ pc[c] = "waiting" /\ reply \in outbox
    /\ reply.call.client = c /\ reply.call.session = session[c]
    /\ outbox' = outbox \ {reply}
    /\ pc' = [pc EXCEPT ![c] = "ready"]
    /\ result' = [result EXCEPT ![c] = IF reply.response = "ok" THEN "ok" ELSE "KELORobileError"]
    /\ received' = received \cup {reply} /\ answers' = answers + 1
    /\ UNCHANGED <<session, calls, current, made, inbox>>

\* zmq.Again in the constructor leaves no object; later, a socket that cannot send.
AfterTimeout(c) == IF current[c].kind = "handshake" THEN "closed" ELSE "stuck"

\* Mutant: the request is sent once more.
InboxAfterTimeoutResent(c) == inbox \cup {current[c]}
InboxAfterTimeout(c) == inbox

\* 500 ms without an answer: zmq.Again, raised on as RuntimeError.
Timeout(c) ==
    /\ pc[c] = "waiting"
    /\ pc' = [pc EXCEPT ![c] = AfterTimeout(c)]
    /\ result' = [result EXCEPT ![c] = "RuntimeError"]
    /\ inbox' = InboxAfterTimeout(c)
    /\ UNCHANGED <<session, calls, current, made, received, answers, outbox>>

\* close(): answers still under way to this socket reach nobody.
Close(c) ==
    /\ pc[c] \in {"ready", "stuck"}
    /\ pc' = [pc EXCEPT ![c] = "closed"]
    /\ UNCHANGED <<session, calls, current, result, made, received, answers, channelVars>>

ClientNext ==
    \E c \in Clients :
        \/ Connect(c) \/ Timeout(c) \/ CallStuck(c) \/ Close(c)
        \/ \E kind \in Kinds : CallMethod(c, kind)
        \/ \E reply \in outbox : Receive(c, reply)
=============================================================================
