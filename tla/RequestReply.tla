---------------------------- MODULE RequestReply ----------------------------
(***************************************************************************)
(* What the server promises its clients, whatever happens to threads,      *)
(* sockets and answers: a call is executed at most once, and a client that *)
(* gets an answer gets the answer to the call it made last, after it was   *)
(* executed.  A call whose client gave up may still be executed.           *)
(***************************************************************************)
EXTENDS Naturals

CONSTANTS Clients, AnyCall, NoCall

VARIABLES
    made,       \* the calls made
    executed,   \* the calls executed
    answered,   \* the calls whose answer a client has
    waitsFor,   \* the call each client waits for, NoCall when it waits for none
    executions, answers     \* how often calls were executed, and answers taken

Init ==
    /\ made = {} /\ executed = {} /\ answered = {}
    /\ waitsFor = [c \in Clients |-> NoCall]
    /\ executions = 0 /\ answers = 0

Make(c, call) ==
    /\ waitsFor[c] = NoCall
    /\ call \notin made
    /\ made' = made \cup {call}
    /\ waitsFor' = [waitsFor EXCEPT ![c] = call]
    /\ UNCHANGED <<executed, answered, executions, answers>>

Execute(call) ==
    /\ call \in made \ executed
    /\ executed' = executed \cup {call}
    /\ executions' = executions + 1
    /\ UNCHANGED <<made, answered, waitsFor, answers>>

Answer(c) ==
    /\ waitsFor[c] \in executed \ answered
    /\ answered' = answered \cup {waitsFor[c]}
    /\ waitsFor' = [waitsFor EXCEPT ![c] = NoCall]
    /\ answers' = answers + 1
    /\ UNCHANGED <<made, executed, executions>>

GiveUp(c) ==
    /\ waitsFor[c] # NoCall
    /\ waitsFor' = [waitsFor EXCEPT ![c] = NoCall]
    /\ UNCHANGED <<made, executed, answered, executions, answers>>

Next == \/ \E c \in Clients, call \in AnyCall : Make(c, call)
        \/ \E call \in made : Execute(call)
        \/ \E c \in Clients : Answer(c) \/ GiveUp(c)

Spec == Init /\ [][Next]_<<made, executed, answered, waitsFor, executions, answers>>
=============================================================================
