------------------------- MODULE TulipSystemProofs --------------------------
(* Theorems about TulipSystem, for any clients, message classes and bounds. *)
EXTENDS TulipSystem, TLAPS

\* The groups of variables an action leaves alone.
USE DEF channelVars, clientVars, serverVars

-----------------------------------------------------------------------------
(* Types. *)

\* A client that sends makes a call, and leaves everything else in its type.
LEMMA SendType ==
    ASSUME TypeOK, NEW c \in Clients, NEW s \in 1..MaxSessions, NEW kind \in Kinds \cup {"handshake"},
           SendRequest(c, s, kind)
    PROVE  /\ current'[c] \in Call /\ current'[c].client = c /\ current'[c].session = s
           /\ current'[c].n = calls[c] + 1
           /\ inbox' = inbox \cup {current'[c]} /\ made' = made \cup {current'[c]}
           /\ inbox' \subseteq Call /\ made' \subseteq Call
           /\ calls' \in [Clients -> 0..MaxCalls] /\ current' \in [Clients -> Call \cup {NoCall}]
           /\ pc' \in [Clients -> {"closed", "ready", "waiting", "stuck"}]
           /\ result' \in [Clients -> Results]
<1> DEFINE call == [client |-> c, session |-> s, n |-> calls[c] + 1, kind |-> kind]
<1>1. calls[c] + 1 \in 1..MaxCalls
  BY TulipChannelAssumption DEF SendRequest, TypeOK
<1>2. call \in Call
  BY <1>1 DEF Call
<1>3. current'[c] = call /\ inbox' = inbox \cup {call} /\ made' = made \cup {call}
  BY DEF SendRequest, TypeOK
<1>4. calls' \in [Clients -> 0..MaxCalls]
  BY <1>1, TulipChannelAssumption DEF SendRequest, TypeOK
<1>5. current' \in [Clients -> Call \cup {NoCall}]
  BY <1>2 DEF SendRequest, TypeOK
<1>6. /\ pc' \in [Clients -> {"closed", "ready", "waiting", "stuck"}]
      /\ result' \in [Clients -> Results]
  BY DEF SendRequest, TypeOK, Results
<1> QED BY <1>2, <1>3, <1>4, <1>5, <1>6 DEF TypeOK

\* A socket exists, and has a number, as long as its client is not closed.
OpenSession == \A c \in Clients : pc[c] # "closed" => session[c] # 0

\* While it handles or answers, the request thread has a request.
Busy == rpc \in {"handle", "send"} => request \in Call

\* The types of the server's flags.
Flags == /\ shouldStop \in BOOLEAN /\ socketOpen \in BOOLEAN /\ response \in {"ok", "error"}
         /\ stepped \in BOOLEAN

TypeInv == TypeOK /\ OpenSession /\ Busy

\* The invariant that carries the types.
THEOREM TypeInvariant == Spec => []TypeInv
<1>1. Init => TypeInv
  <2> SUFFICES ASSUME Init PROVE TypeInv
    OBVIOUS
  <2>1. session \in [Clients -> 0..MaxSessions] /\ calls \in [Clients -> 0..MaxCalls]
    BY TulipChannelAssumption DEF Init, KELORobileInit
  <2>2. shouldStop \in BOOLEAN /\ socketOpen \in BOOLEAN /\ response \in {"ok", "error"}
        /\ stepped \in BOOLEAN
    BY DEF Init, ServerInit
  <2> QED
    BY <2>1, <2>2 DEF Init, ChannelInit, KELORobileInit, ServerInit, TypeOK, Results, OpenSession, TypeInv, Busy
<1>2. TypeInv /\ [Next]_vars => TypeInv'
  <2> SUFFICES ASSUME TypeInv, [Next]_vars PROVE TypeInv'
    OBVIOUS
  <2>1. ASSUME NEW c \in Clients, NEW s \in 1..MaxSessions, NEW kind \in Kinds \cup {"handshake"},
               SendRequest(c, s, kind), UNCHANGED serverVars,
               session' = [session EXCEPT ![c] = s]
        PROVE  TypeInv'
    <3>1. /\ inbox' \subseteq Call /\ made' \subseteq Call
          /\ calls' \in [Clients -> 0..MaxCalls] /\ current' \in [Clients -> Call \cup {NoCall}]
          /\ pc' \in [Clients -> {"closed", "ready", "waiting", "stuck"}]
          /\ result' \in [Clients -> Results]
      BY <2>1, SendType DEF TypeInv
    <3>2. session' \in [Clients -> 0..MaxSessions]
      BY <2>1, TulipChannelAssumption DEF TypeInv, TypeOK
    <3>3. UNCHANGED <<received, answers, outbox>> /\ pc' = [pc EXCEPT ![c] = "waiting"]
      BY <2>1 DEF SendRequest
    <3>4. OpenSession'
      BY <2>1, <3>3 DEF TypeInv, OpenSession, TypeOK
    <3>5. Busy'
      BY <2>1 DEF TypeInv, Busy
    <3> QED BY <2>1, <3>1, <3>2, <3>3, <3>4, <3>5 DEF TypeInv, TypeOK
  <2>2. ASSUME NEW c \in Clients, Connect(c), UNCHANGED serverVars PROVE TypeInv'
    <3>1. session[c] + 1 \in 1..MaxSessions
      BY <2>2, TulipChannelAssumption DEF Connect, TypeInv, TypeOK
    <3>2. SendRequest(c, session[c] + 1, "handshake") /\ session' = [session EXCEPT ![c] = session[c] + 1]
      BY <2>2 DEF Connect
    <3> QED BY <2>1, <2>2, <3>1, <3>2
  <2>3. ASSUME NEW c \in Clients, NEW kind \in Kinds, CallMethod(c, kind), UNCHANGED serverVars
        PROVE  TypeInv'
    <3>1. session[c] \in 1..MaxSessions
      BY <2>3, TulipChannelAssumption DEF CallMethod, TypeInv, OpenSession, TypeOK
    <3>2. SendRequest(c, session[c], kind) /\ session' = [session EXCEPT ![c] = session[c]]
      BY <2>3 DEF CallMethod, TypeInv, TypeOK
    <3> QED BY <2>1, <2>3, <3>1, <3>2
  <2>4. ASSUME NEW c \in Clients, Timeout(c), UNCHANGED serverVars PROVE TypeInv'
    BY <2>4 DEF Timeout, AfterTimeout, InboxAfterTimeout, TypeInv, TypeOK, OpenSession, Busy, Results
  <2>5. ASSUME NEW c \in Clients, CallStuck(c), UNCHANGED serverVars PROVE TypeInv'
    BY <2>5 DEF CallStuck, TypeInv, TypeOK, OpenSession, Busy, Results
  <2>6. ASSUME NEW c \in Clients, Close(c), UNCHANGED serverVars PROVE TypeInv'
    BY <2>6 DEF Close, TypeInv, TypeOK, OpenSession, Busy
  <2>7. ASSUME NEW c \in Clients, NEW reply \in outbox, Receive(c, reply), UNCHANGED serverVars
        PROVE  TypeInv'
    BY <2>7 DEF Receive, TypeInv, TypeOK, OpenSession, Busy, Results
  <2>8. ASSUME ServerNext, UNCHANGED clientVars PROVE TypeInv'
    <3>1. OpenSession' BY <2>8 DEF TypeInv, OpenSession
    <3>2. Flags'
      BY <2>8
      DEF TypeInv, TypeOK, Flags, ServerNext, RequestLoop, EthercatLoop, Run, RequestTest, RequestRecv, RequestHandle,
          RequestCrash, RequestSend, RequestRecvClosed, EthercatTest, EthercatStep, EthercatCrash,
          MainJoin, MainClose, MainTerm, SetsStop, Response
    <3>3. /\ inbox' \subseteq Call /\ outbox' \subseteq Reply
          /\ request' \in Call \cup {NoCall} /\ handled' \subseteq Call /\ executions' \in Nat /\ Busy'
      BY <2>8
      DEF TypeInv, TypeOK, Busy, ServerNext, RequestLoop, EthercatLoop, Run, RequestTest, RequestRecv, RequestHandle,
          RequestCrash, RequestSend, RequestRecvClosed, EthercatTest, EthercatStep, EthercatCrash,
          MainJoin, MainClose, MainTerm, Reply
    <3>4. /\ rpc' \in {"test", "recv", "handle", "send", "done", "crashed", "killed"}
          /\ epc' \in {"test", "step", "done", "crashed"}
          /\ mpc' \in {"join", "close", "term", "exited"}
      BY <2>8
      DEF TypeInv, TypeOK, ServerNext, RequestLoop, EthercatLoop, Run, RequestTest, RequestRecv, RequestHandle,
          RequestCrash, RequestSend, RequestRecvClosed, EthercatTest, EthercatStep, EthercatCrash,
          MainJoin, MainClose, MainTerm, AfterSend
    <3> QED BY <2>8, <3>1, <3>2, <3>3, <3>4 DEF TypeInv, TypeOK, Flags
  <2>9. CASE UNCHANGED vars
    BY <2>9 DEF vars, TypeInv, TypeOK, OpenSession, Busy
  <2> QED
    BY <2>2, <2>3, <2>4, <2>5, <2>6, <2>7, <2>8, <2>9 DEF Next, ClientNext
<1> QED BY <1>1, <1>2, PTL DEF Spec

\* Every variable of the clients, the server and their channel keeps its type.
THEOREM Typing == Spec => []TypeOK
<1>1. TypeInv => TypeOK BY DEF TypeInv
<1> QED BY <1>1, TypeInvariant, PTL

-----------------------------------------------------------------------------
(***************************************************************************)
(* The request/reply service.  A call is in one place at a time: waiting   *)
(* in the inbox, worked on by the request thread, or answered by one reply *)
(* that is under way or taken.  A socket that may send has no call         *)
(* anywhere, and one that may not has no other call than its last.         *)
(***************************************************************************)

Answered == {reply.call : reply \in received}
UnderWay == {reply.call : reply \in outbox}

\* The calls that a reply may still come for.
Pending(call) ==
    \/ call \in inbox
    \/ rpc \in {"handle", "send"} /\ call = request
    \/ call \in UnderWay

\* The numbers of calls and sockets are fresh.
Numbered == \A call \in made : call.n <= calls[call.client] /\ call.session <= session[call.client]

OnePlace ==
    /\ inbox \subseteq made /\ inbox \cap handled = {}
    /\ handled \subseteq made
    /\ rpc = "handle" => request \in made /\ request \notin handled /\ request \notin inbox
    /\ rpc = "send" => request \in handled /\ request \notin UnderWay /\ request \notin Answered
    /\ UnderWay \subseteq handled /\ Answered \subseteq handled
    /\ UnderWay \cap Answered = {}
    /\ \A r, s \in outbox : r.call = s.call => r = s

\* A REQ socket alternates: what is pending in a client's socket is its last
\* call, and nothing is when it may send.
Alternating ==
    \A call \in made :
        Pending(call) /\ call.session = session[call.client] =>
            pc[call.client] # "ready" /\ call = current[call.client]

WaitsForCall == \A c \in Clients : pc[c] = "waiting" => current[c] \in made

CallInv == Numbered /\ OnePlace /\ Alternating /\ WaitsForCall

\* The call each client waits for: the refinement mapping's last component.
WaitsFor == [c \in Clients |-> IF pc[c] = "waiting" THEN current[c] ELSE NoCall]

\* A call a client makes on a socket with nothing pending is new, and the service's Make.
LEMMA SendMakesCall ==
    ASSUME TypeInv, CallInv, NEW c \in Clients, NEW s \in 1..MaxSessions,
           NEW kind \in Kinds \cup {"handshake"},
           SendRequest(c, s, kind), UNCHANGED serverVars,
           pc[c] # "waiting", session[c] <= s, session' = [session EXCEPT ![c] = s],
           \A call \in made : Pending(call) /\ call.client = c => call.session # s
    PROVE  CallInv' /\ \E call \in Call : Service!Make(c, call)
<1> DEFINE new == current'[c]
<1>1. /\ new \in Call /\ new.client = c /\ new.session = s /\ new.n = calls[c] + 1
      /\ inbox' = inbox \cup {new} /\ made' = made \cup {new}
  BY SendType DEF TypeInv
<1>2. /\ calls' = [calls EXCEPT ![c] = @ + 1] /\ pc' = [pc EXCEPT ![c] = "waiting"]
      /\ received' = received /\ answers' = answers /\ outbox' = outbox
      /\ current' = [current EXCEPT ![c] = new]
  BY DEF SendRequest, TypeInv, TypeOK
<1> HIDE DEF new
<1>3. calls \in [Clients -> 0..MaxCalls] /\ session \in [Clients -> 0..MaxSessions]
      /\ pc \in [Clients -> {"closed", "ready", "waiting", "stuck"}]
      /\ current \in [Clients -> Call \cup {NoCall}] /\ made \subseteq Call
  BY DEF TypeInv, TypeOK
<1>4. \A call \in made : /\ call.client \in Clients /\ call.n \in Nat /\ call.session \in Nat
                         /\ call.n <= calls[call.client] /\ call.session <= session[call.client]
  BY <1>3, TulipChannelAssumption DEF CallInv, Numbered, Call
<1>5. new \notin made
  BY <1>1, <1>3, <1>4, TulipChannelAssumption
<1>6. Numbered'
  <2>1. \A call \in made' : call.n <= calls'[call.client] /\ call.session <= session'[call.client]
    <3> TAKE call \in made'
    <3>1. CASE call = new
      BY <1>1, <1>2, <1>3, <3>1, TulipChannelAssumption
    <3>2. CASE call \in made /\ call.client = c
      BY <1>2, <1>3, <1>4, <3>2, TulipChannelAssumption
    <3>3. CASE call \in made /\ call.client # c
      BY <1>2, <1>3, <1>4, <3>3
    <3> QED BY <1>1, <3>1, <3>2, <3>3
  <2> QED BY <2>1 DEF Numbered
<1>7. OnePlace'
  <2>1. new \notin handled BY <1>5 DEF CallInv, OnePlace
  <2>2. rpc = "handle" => request # new BY <1>5 DEF CallInv, OnePlace
  <2> QED BY <1>1, <1>2, <2>1, <2>2 DEF CallInv, OnePlace, UnderWay, Answered
<1>8. Alternating'
  <2>1. \A call \in made' : Pending(call)' /\ call.session = session'[call.client] =>
            pc'[call.client] # "ready" /\ call = current'[call.client]
    <3> TAKE call \in made'
    <3>1. CASE call = new
      BY <1>1, <1>2, <1>3, <3>1
    <3>2. CASE call \in made /\ call # new
      <4>1. Pending(call)' => Pending(call)
        BY <1>1, <1>2, <3>2 DEF Pending, UnderWay
      <4>2. CASE call.client = c
        BY <4>1, <4>2, <3>2, <1>3
      <4>3. CASE call.client # c
        BY <4>1, <4>3, <3>2, <1>2, <1>3, <1>4 DEF CallInv, Alternating
      <4> QED BY <4>2, <4>3
    <3> QED BY <1>1, <3>1, <3>2
  <2> QED BY <2>1 DEF Alternating
<1>9. WaitsForCall'
  BY <1>1, <1>2, <1>3 DEF CallInv, WaitsForCall
<1>10. Service!Make(c, new)
  <2>1. WaitsFor[c] = NoCall BY DEF WaitsFor
  <2>2. WaitsFor' = [WaitsFor EXCEPT ![c] = new]
    BY <1>1, <1>2, <1>3 DEF WaitsFor
  <2> QED BY <1>1, <1>2, <1>5, <2>1, <2>2 DEF Service!Make, WaitsFor
<1>11. \E call \in Call : Service!Make(c, call) BY <1>1, <1>10 DEF Service!Make
<1>12. CallInv' BY <1>6, <1>7, <1>8, <1>9 DEF CallInv
<1> QED BY <1>11, <1>12

\* What a client does is a step of the service, or none.
LEMMA ClientStep ==
    ASSUME TypeInv, CallInv, ClientNext, UNCHANGED serverVars
    PROVE  /\ CallInv'
           /\ Service!Next \/ UNCHANGED <<made, handled, Answered, WaitsFor, executions, answers>>
<1>1. ASSUME NEW c \in Clients, Connect(c) PROVE CallInv' /\ Service!Next
  <2>1. session[c] + 1 \in 1..MaxSessions /\ session[c] <= session[c] + 1
    BY <1>1, TulipChannelAssumption DEF Connect, TypeInv, TypeOK
  <2>2. /\ SendRequest(c, session[c] + 1, "handshake") /\ pc[c] # "waiting"
        /\ session' = [session EXCEPT ![c] = session[c] + 1]
    BY <1>1 DEF Connect
  <2>3. \A call \in made : call.client = c => call.session # session[c] + 1
    BY TulipChannelAssumption DEF CallInv, Numbered, TypeInv, TypeOK, Call
  <2>4. CallInv' /\ \E call \in Call : Service!Make(c, call)
    BY <2>1, <2>2, <2>3, SendMakesCall
  <2> QED BY <2>4 DEF Service!Next
<1>2. ASSUME NEW c \in Clients, NEW kind \in Kinds, CallMethod(c, kind) PROVE CallInv' /\ Service!Next
  <2>1. session[c] \in 1..MaxSessions /\ session[c] <= session[c]
    BY <1>2, TulipChannelAssumption DEF CallMethod, TypeInv, OpenSession, TypeOK
  <2>2. /\ SendRequest(c, session[c], kind) /\ pc[c] = "ready"
        /\ session' = [session EXCEPT ![c] = session[c]]
    BY <1>2 DEF CallMethod, TypeInv, TypeOK
  <2>3. \A call \in made : Pending(call) /\ call.client = c => call.session # session[c]
    BY <2>2 DEF CallInv, Alternating
  <2>4. CallInv' /\ \E call \in Call : Service!Make(c, call)
    BY <2>1, <2>2, <2>3, SendMakesCall
  <2> QED BY <2>4 DEF Service!Next
<1>3. ASSUME NEW c \in Clients, NEW reply \in outbox, Receive(c, reply) PROVE CallInv' /\ Service!Next
  <2> DEFINE call == reply.call
  <2>1. /\ call.client = c /\ call.session = session[c] /\ pc[c] = "waiting"
        /\ call \in made /\ call \in handled /\ call \in UnderWay /\ call \notin Answered
    BY <1>3 DEF Receive, CallInv, OnePlace, UnderWay, Answered
  <2>2. call = current[c]
    BY <2>1 DEF CallInv, Alternating, Pending
  <2>3. /\ outbox' = outbox \ {reply} /\ received' = received \cup {reply} /\ answers' = answers + 1
        /\ pc' = [pc EXCEPT ![c] = "ready"]
        /\ UNCHANGED <<session, calls, current, made, inbox>>
    BY <1>3 DEF Receive
  <2>4. UnderWay' = UnderWay \ {call} /\ Answered' = Answered \cup {call}
    BY <2>3 DEF UnderWay, Answered, CallInv, OnePlace
  <2> HIDE DEF call
  <2>5. \A d \in made : Pending(d)' => Pending(d) /\ d # call
    BY <2>1, <2>3, <2>4 DEF Pending, CallInv, OnePlace
  <2>6. Numbered' BY <2>3 DEF CallInv, Numbered
  <2>7. OnePlace'
    <3>1. \A r, s \in outbox' : r.call = s.call => r = s BY <2>3 DEF CallInv, OnePlace
    <3> QED BY <2>1, <2>3, <2>4, <3>1 DEF CallInv, OnePlace
  <2>8. pc \in [Clients -> {"closed", "ready", "waiting", "stuck"}] /\ \A d \in made : d.client \in Clients
    BY DEF TypeInv, TypeOK, Call
  <2>9. Alternating'
    <3>1. \A d \in made' : Pending(d)' /\ d.session = session'[d.client] =>
              pc'[d.client] # "ready" /\ d = current'[d.client]
      <4> SUFFICES ASSUME NEW d \in made, Pending(d)', d.session = session[d.client]
                   PROVE  pc'[d.client] # "ready" /\ d = current[d.client]
        BY <2>3
      <4>1. pc[d.client] # "ready" /\ d = current[d.client] /\ d # call
        BY <2>5 DEF CallInv, Alternating
      <4>2. d.client # c BY <2>2, <4>1
      <4> QED BY <2>3, <2>8, <4>1, <4>2
    <3> QED BY <3>1 DEF Alternating
  <2>10. WaitsForCall' BY <2>3, <2>8 DEF CallInv, WaitsForCall
  <2>11. Service!Answer(c)
    <3>1. WaitsFor[c] = call BY <2>1, <2>2 DEF WaitsFor
    <3>2. WaitsFor' = [WaitsFor EXCEPT ![c] = NoCall]
      BY <2>3, <2>8 DEF WaitsFor
    <3> QED BY <2>1, <2>3, <2>4, <3>1, <3>2 DEF Service!Answer, WaitsFor, Answered
  <2> QED BY <2>6, <2>7, <2>9, <2>10, <2>11 DEF CallInv, Service!Next
<1>4. ASSUME NEW c \in Clients, Timeout(c) PROVE CallInv' /\ Service!Next
  <2>1. /\ pc[c] = "waiting" /\ pc' = [pc EXCEPT ![c] = AfterTimeout(c)]
        /\ UNCHANGED <<session, calls, current, made, received, answers, inbox, outbox>>
    BY <1>4 DEF Timeout, InboxAfterTimeout
  <2>2. AfterTimeout(c) \in {"closed", "stuck"} BY DEF AfterTimeout
  <2>3. pc \in [Clients -> {"closed", "ready", "waiting", "stuck"}] BY DEF TypeInv, TypeOK
  <2>4. CallInv'
    BY <2>1, <2>2, <2>3
    DEF CallInv, Numbered, OnePlace, Alternating, WaitsForCall, Pending, UnderWay, Answered
  <2>5. Service!GiveUp(c)
    <3>1. WaitsFor[c] # NoCall
      BY <2>1, TulipChannelAssumption DEF WaitsFor, CallInv, WaitsForCall, TypeInv, TypeOK
    <3>2. WaitsFor' = [WaitsFor EXCEPT ![c] = NoCall]
      BY <2>1, <2>2, <2>3 DEF WaitsFor
    <3> QED BY <2>1, <3>1, <3>2 DEF Service!GiveUp, WaitsFor
  <2> QED BY <2>4, <2>5 DEF Service!Next
<1>5. ASSUME NEW c \in Clients, CallStuck(c) \/ Close(c)
      PROVE  CallInv' /\ UNCHANGED <<made, handled, Answered, WaitsFor, executions, answers>>
  <2>1. /\ pc[c] \in {"ready", "stuck"}
        /\ pc' = pc \/ pc' = [pc EXCEPT ![c] = "closed"]
        /\ UNCHANGED <<session, calls, current, made, received, answers, inbox, outbox>>
    BY <1>5 DEF CallStuck, Close
  <2>2. pc \in [Clients -> {"closed", "ready", "waiting", "stuck"}] BY DEF TypeInv, TypeOK
  <2>3. Numbered' /\ OnePlace'
    BY <2>1 DEF CallInv, Numbered, OnePlace, UnderWay, Answered
  <2>4. \A d \in Clients : /\ pc'[d] = "waiting" => pc[d] = "waiting"
                           /\ pc[d] # "ready" => pc'[d] # "ready"
    BY <2>1, <2>2
  <2>5. \A call \in made : call.client \in Clients /\ (Pending(call)' <=> Pending(call))
    BY <2>1 DEF Pending, UnderWay, TypeInv, TypeOK, Call
  <2>6. Alternating' BY <2>1, <2>4, <2>5 DEF CallInv, Alternating
  <2>7. WaitsForCall' BY <2>1, <2>4 DEF CallInv, WaitsForCall
  <2>8. WaitsFor' = WaitsFor /\ Answered' = Answered
    BY <2>1, <2>2 DEF WaitsFor, Answered
  <2> QED BY <2>1, <2>3, <2>6, <2>7, <2>8 DEF CallInv
<1> QED BY <1>1, <1>2, <1>3, <1>4, <1>5 DEF ClientNext

\* What the server does is a step of the service, or none.
LEMMA ServerStep ==
    ASSUME TypeInv, CallInv, ServerNext, UNCHANGED clientVars
    PROVE  /\ CallInv'
           /\ Service!Next \/ UNCHANGED <<made, handled, Answered, WaitsFor, executions, answers>>
<1>1. Answered' = Answered /\ WaitsFor' = WaitsFor /\ Numbered' /\ WaitsForCall'
  BY DEF Answered, WaitsFor, Numbered, WaitsForCall, CallInv
<1>2. ASSUME OnePlace', \A call \in made : Pending(call)' => Pending(call) PROVE CallInv'
  BY <1>1, <1>2 DEF CallInv, Alternating
<1>3. ASSUME NEW call \in inbox, RequestRecv(call) PROVE CallInv' /\ UNCHANGED <<handled, executions>>
  <2>1. /\ rpc = "recv" /\ rpc' = "handle" /\ request' = call /\ inbox' = inbox \ {call}
        /\ UNCHANGED <<outbox, handled, executions>>
    BY <1>3 DEF RequestRecv
  <2>2. OnePlace'
    BY <2>1 DEF CallInv, OnePlace, UnderWay, Answered
  <2>3. \A d \in made : Pending(d)' => Pending(d)
    BY <2>1 DEF Pending, UnderWay
  <2> QED BY <1>2, <2>1, <2>2, <2>3
<1>4. CASE RequestHandle
  <2>1. /\ rpc = "handle" /\ rpc' = "send" /\ handled' = handled \cup {request}
        /\ executions' = executions + 1
        /\ UNCHANGED <<request, inbox, outbox>>
    BY <1>4 DEF RequestHandle
  <2>2. OnePlace'
    BY <2>1 DEF CallInv, OnePlace, UnderWay, Answered
  <2>3. \A d \in made : Pending(d)' => Pending(d)
    BY <2>1 DEF Pending, UnderWay
  <2>4. Service!Execute(request)
    BY <1>1, <2>1 DEF Service!Execute, CallInv, OnePlace, Answered, WaitsFor
  <2>5. request \in made BY <2>1 DEF CallInv, OnePlace
  <2> QED BY <1>2, <2>2, <2>3, <2>4, <2>5 DEF Service!Next
<1>5. CASE RequestSend
  <2>1. rpc = "send" /\ UNCHANGED <<request, inbox, handled, executions>>
    BY <1>5 DEF RequestSend
  <2>2. CASE rpc' = "test" /\ outbox' = outbox \cup {[call |-> request, response |-> response]}
    <3>1. UnderWay' = UnderWay \cup {request}
      <4> DEFINE sent == [call |-> request, response |-> response]
      <4>1. sent.call = request OBVIOUS
      <4> HIDE DEF sent
      <4>2. {r.call : r \in outbox \cup {sent}} = {r.call : r \in outbox} \cup {sent.call}
        OBVIOUS
      <4> QED BY <2>2, <4>1, <4>2 DEF UnderWay, sent
    <3>2. \A r, s \in outbox' : r.call = s.call => r = s
      BY <2>1, <2>2 DEF CallInv, OnePlace, UnderWay
    <3>3. OnePlace'
      BY <1>1, <2>1, <2>2, <3>1, <3>2 DEF CallInv, OnePlace
    <3>4. \A d \in made : Pending(d)' => Pending(d)
      BY <2>1, <2>2, <3>1 DEF Pending
    <3> QED BY <1>1, <1>2, <2>1, <3>3, <3>4
  <2>3. CASE rpc' = "crashed" /\ UNCHANGED outbox
    <3>1. OnePlace'
      BY <2>1, <2>3 DEF CallInv, OnePlace, UnderWay, Answered
    <3>2. \A d \in made : Pending(d)' => Pending(d)
      BY <2>1, <2>3 DEF Pending, UnderWay
    <3> QED BY <1>1, <1>2, <2>1, <3>1, <3>2
  <2> QED BY <1>5, <2>2, <2>3 DEF RequestSend, AfterSend
<1>6. ASSUME rpc' = rpc \/ rpc' \notin {"handle", "send"}, UNCHANGED <<request, inbox, outbox, handled, executions>>
      PROVE  CallInv' /\ UNCHANGED <<handled, executions>>
  <2>1. OnePlace'
    BY <1>6 DEF CallInv, OnePlace, UnderWay, Answered
  <2>2. \A d \in made : Pending(d)' => Pending(d)
    BY <1>6 DEF Pending, UnderWay
  <2> QED BY <1>2, <1>6, <2>1, <2>2
<1>7. CASE RequestTest \/ RequestCrash \/ RequestRecvClosed \/ EthercatLoop \/ Run
  BY <1>1, <1>6, <1>7
  DEF RequestTest, RequestCrash, RequestRecvClosed, EthercatLoop, EthercatTest, EthercatStep, EthercatCrash,
      Run, MainJoin, MainClose, MainTerm
<1> QED BY <1>1, <1>3, <1>4, <1>5, <1>7 DEF ServerNext, RequestLoop

\* The invariant of the calls always holds.
LEMMA CallInvariant == Spec => [](TypeInv /\ CallInv)
<1>1. Init => CallInv
  BY DEF Init, ChannelInit, KELORobileInit, ServerInit, CallInv, Numbered, OnePlace, Alternating, WaitsForCall,
         Pending, UnderWay, Answered
<1>2. TypeInv /\ CallInv /\ [Next]_vars => CallInv'
  <2>1. ASSUME TypeInv, CallInv, Next PROVE CallInv'
    BY <2>1, ClientStep, ServerStep DEF Next
  <2>2. ASSUME CallInv, UNCHANGED vars PROVE CallInv'
    BY <2>2 DEF vars, CallInv, Numbered, OnePlace, Alternating, WaitsForCall, Pending, UnderWay, Answered
  <2> QED BY <2>1, <2>2
<1> QED BY <1>1, <1>2, TypeInvariant, PTL DEF Spec

\* The clients, the server's threads and their channel are a request/reply
\* service: a call is executed at most once, and an answer that a client gets
\* is the one to its last call, after its execution.
THEOREM Implementation == Spec => ServiceSpec
<1>1. Init => Service!Init
  BY DEF Init, KELORobileInit, ServerInit, Service!Init
<1>2. TypeInv /\ CallInv /\ [Next]_vars =>
        [Service!Next]_<<made, handled, {reply.call : reply \in received},
                         [c \in Clients |-> IF pc[c] = "waiting" THEN current[c] ELSE NoCall],
                         executions, answers>>
  <2> SUFFICES ASSUME TypeInv, CallInv, [Next]_vars
               PROVE  Service!Next \/ UNCHANGED <<made, handled, Answered, WaitsFor, executions, answers>>
    BY DEF Answered, WaitsFor
  <2>1. CASE Next
    BY <2>1, ClientStep, ServerStep DEF Next
  <2>2. CASE UNCHANGED vars
    BY <2>2 DEF vars, Answered, WaitsFor
  <2> QED BY <2>1, <2>2
<1> QED BY <1>1, <1>2, CallInvariant, PTL DEF Spec, ServiceSpec, Service!Spec

-----------------------------------------------------------------------------
(***************************************************************************)
(* What follows a stop.  The Event is set before the stop counts as        *)
(* handled, nobody clears it, and the request thread tests it before it    *)
(* takes another call.                                                     *)
(***************************************************************************)

StopInv == StopHandled => shouldStop /\ rpc \notin {"recv", "handle"}

\* After a stop was handled no call is executed any more.
THEOREM NothingFollowsStop == Spec => NothingAfterStop
<1>1. Init => StopInv
  BY DEF Init, ServerInit, StopInv, StopHandled
<1>2. StopInv /\ [Next]_vars => StopInv' /\ [StopHandled => UNCHANGED executions]_vars
  <2> SUFFICES ASSUME StopInv, [Next]_vars
               PROVE  StopInv' /\ (StopHandled => UNCHANGED executions)
    OBVIOUS
  <2> USE DEF StopInv, StopHandled
  <2>1. CASE ClientNext /\ UNCHANGED serverVars
    BY <2>1 DEF serverVars
  <2>2. ASSUME NEW call \in inbox, RequestRecv(call)
        PROVE  StopInv' /\ (StopHandled => UNCHANGED executions)
    BY <2>2 DEF RequestRecv
  <2>3. CASE RequestHandle
    BY <2>3 DEF RequestHandle, SetsStop
  <2>4. CASE RequestTest \/ RequestCrash \/ RequestSend \/ RequestRecvClosed
    BY <2>4 DEF RequestTest, RequestCrash, RequestSend, RequestRecvClosed, AfterSend
  <2>5. CASE EthercatLoop
    BY <2>5 DEF EthercatLoop, EthercatTest, EthercatStep, EthercatCrash
  <2>6. CASE Run
    BY <2>6 DEF Run, MainJoin, MainClose, MainTerm
  <2>7. CASE UNCHANGED vars
    BY <2>7 DEF vars, serverVars
  <2> QED
    BY <2>1, <2>2, <2>3, <2>4, <2>5, <2>6, <2>7 DEF Next, ServerNext, RequestLoop
<1> QED BY <1>1, <1>2, PTL DEF Spec, NothingAfterStop
=============================================================================
