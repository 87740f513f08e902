------------------------------ MODULE NicDriver ------------------------------
(***************************************************************************)
(* The frame layer of the EtherCAT stack on Linux (oshw/linux/nicdrv.c),   *)
(* with the datagram primitives of ethercatbase.c and the process data     *)
(* exchange of ethercatmain.c that are built on it.                        *)
(*                                                                         *)
(* Threads share one port: a pool of EC_MAXBUF frame slots, found again by *)
(* the index byte that a frame carries round the ring of slaves, and one   *)
(* socket from which a thread may read the frame another one waits for.    *)
(* Handler is the thread that exchanges process data (EtherCATMaster's     *)
(* ethercatHandler); every thread calls the blocking primitives.           *)
(*                                                                         *)
(* A request is numbered, and a number is all a frame carries besides its  *)
(* index: the answer to a request is the frame with its number.  The port  *)
(* is not redundant (redstate = ECT_RED_NONE), as ecx_init sets it up.     *)
(***************************************************************************)
EXTENDS Integers, Sequences, FiniteSets

CONSTANTS
  Threads,      \* threads that use the port
  Handler,      \* the one that exchanges process data
  NoThread,     \* nobody, as the owner of rx_mutex
  EC_MAXBUF,    \* number of frame slots (16 in the code)
  NSegments,    \* frames of one process data exchange
  MaxRequests,  \* bound: datagrams issued in a behaviour
  MaxAge,       \* timely: a frame is read from the socket, or lost, before
                \* MaxAge more indices are handed out
  MaxHold,      \* timely: a slot is given back before MaxHold more indices
                \* are handed out
  MaxLeaks,     \* timely: no more slots have leaked
  MaxFrames     \* bound: frames under way at once

ASSUME PortAssumption ==
  /\ Handler \in Threads
  /\ NoThread \notin Threads
  /\ EC_MAXBUF \in Nat \ {0}
  /\ NSegments \in 1 .. EC_MAXBUF
  /\ MaxRequests \in Nat
  /\ MaxAge \in Nat \ {0}
  /\ MaxHold \in Nat \ {0}
  /\ MaxLeaks \in Nat
  /\ MaxFrames \in Nat

(* While all is timely, the pool is larger than what is under way or lost  *)
(* at a time: as the scan goes once round the slots, it passes MaxLeaks of *)
(* them, and more indices are handed out than any frame or call lives for. *)
ASSUME TimingAssumption ==
  MaxAge + MaxLeaks < EC_MAXBUF /\ MaxHold + MaxLeaks < EC_MAXBUF

VARIABLES
  rxbufstat,  \* status of each slot
  rxbuf,      \* the request whose answer each receive buffer holds; 0: none
  lastidx,    \* index handed out last
  rx_mutex,   \* thread inside ecx_inframe's critical section, or NoThread
  idxstack,   \* frames of the exchange under way, in the order sent
  requests,   \* number of requests issued so far
  wire,       \* frames on the ring of slaves and in the socket, oldest first
  th,         \* state of each thread
  timely      \* history: every index was handed out while all was timely

issued == <<requests, timely>>

vars == <<rxbufstat, rxbuf, lastidx, rx_mutex, idxstack, issued, wire, th>>

Idx == 0 .. EC_MAXBUF - 1
Requests == 1 .. MaxRequests

Frame == [idx : Idx, req : Requests]
NoFrame == [idx |-> 0, req |-> 0]

(* What a thread is doing: a blocking primitive that reads or writes slave *)
(* memory, or the exchange of process data.                                *)
Calls == {"primitive", "process"}

(* pc: between calls | outframe: slot taken, frame not sent yet | pd: some *)
(* frames of an exchange are out | poll: testing the slot | lock: going to *)
(* the socket | store: holding rx_mutex with another thread's frame in     *)
(* hand | timer: nothing came, look at the timer | answered: the answer is *)
(* in the receive buffer, to be copied out | gaveup: out of time.          *)
Pcs == {"idle", "outframe", "pd", "poll", "lock", "store", "timer",
        "answered", "gaveup"}

Idle == [pc |-> "idle", call |-> "primitive", own |-> NoFrame,
         other |-> NoFrame]

Init ==
  /\ rxbufstat = [i \in Idx |-> "EMPTY"]
  /\ rxbuf = [i \in Idx |-> 0]
  /\ lastidx = 0
  /\ rx_mutex = NoThread
  /\ idxstack = <<>>
  /\ requests = 0
  /\ wire = <<>>
  /\ th = [t \in Threads |-> Idle]
  /\ timely = TRUE

Set(t, rec) == th' = [th EXCEPT ![t] = rec]
Goto(t, pc) == th' = [th EXCEPT ![t].pc = pc]

-----------------------------------------------------------------------------
(* Handing out slots.                                                      *)

(* The k-th slot that ecx_getindex looks at. *)
CandidateFromZero(k) == (k - 1) % EC_MAXBUF

Candidate(k) == (lastidx + k) % EC_MAXBUF

(* The scan takes the first empty slot; after EC_MAXBUF full ones it takes  *)
(* the one it started from, whoever uses it.                               *)
Handed(i) ==
  \/ \E k \in 1 .. EC_MAXBUF :
        /\ i = Candidate(k)
        /\ rxbufstat[i] = "EMPTY"
        /\ \A j \in 1 .. k - 1 : rxbufstat[Candidate(j)] # "EMPTY"
  \/ i = Candidate(1) /\ \A j \in Idx : rxbufstat[j] # "EMPTY"

(* Frames a thread has a slot for: the one it works on and, for the handler,*)
(* those of the exchange still to be received.                             *)
Held(t) ==
  (IF th[t].pc \in {"idle", "pd"} THEN {} ELSE {th[t].own})
    \cup (IF t = Handler THEN {idxstack[k] : k \in 1 .. Len(idxstack)} ELSE {})

HeldIdx(t) == {f.idx : f \in Held(t)}

AllHeld == UNION {HeldIdx(t) : t \in Threads}

(* Slots that stay taken although nobody waits for them. *)
Leaked == {i \in Idx : rxbufstat[i] # "EMPTY" /\ i \notin AllHeld}

(* Frames pass the ring, and calls end, fast next to the handing out of    *)
(* indices, and few slots have leaked.  Nothing in the code sees to it.    *)
Timely ==
  /\ \A k \in 1 .. Len(wire) : requests - wire[k].req < MaxAge
  /\ \A t \in Threads :
       /\ \A f \in Held(t) : requests - f.req < MaxHold
       /\ th[t].pc = "store" => requests - th[t].other.req < MaxAge
  /\ Cardinality(Leaked) <= MaxLeaks

(* ecx_getindex and ecx_setupdatagram, for a new request. *)
TakeSlot(t, call) ==
  \E i \in Idx :
    /\ requests < MaxRequests
    /\ Handed(i)
    /\ rxbufstat' = [rxbufstat EXCEPT ![i] = "ALLOC"]
    /\ lastidx' = i
    /\ requests' = requests + 1 /\ timely' = (timely /\ Timely)
    /\ Set(t, [Idle EXCEPT !.pc = "outframe", !.call = call,
                           !.own = [idx |-> i, req |-> requests + 1]])
    /\ UNCHANGED <<rxbuf, rx_mutex, idxstack, wire>>

(* A primitive of ethercatbase.c begins: ecx_BWR, ecx_FPRD, ... *)
Primitive(t) ==
  /\ th[t].pc = "idle"
  /\ TakeSlot(t, "primitive")

(* ecx_main_send_processdata: one frame per segment, none waited for. *)
SendSegment ==
  /\ th[Handler].pc \in {"idle", "pd"}
  /\ Len(idxstack) < NSegments
  /\ TakeSlot(Handler, "process")

(* ecx_pushindex; NSegments never exceeds the depth of the stack. *)
PushIndex(frame) == idxstack' = Append(idxstack, frame)

(* ecx_outframe: the slot is marked before the frame goes out and unmarked *)
(* when the socket refuses it.  A frame of an exchange is pushed either    *)
(* way, and the exchange goes on with the next segment.                    *)
OutFrame(t) ==
  LET own == th[t].own
      process == th[t].call = "process"
  IN
  /\ th[t].pc = "outframe"
  /\ \/ /\ rxbufstat' = [rxbufstat EXCEPT ![own.idx] = "TX"]
        /\ Len(wire) < MaxFrames
        /\ wire' = Append(wire, own)
     \/ /\ rxbufstat' = [rxbufstat EXCEPT ![own.idx] = "EMPTY"]
        /\ wire' = wire
  /\ IF process THEN PushIndex(own) ELSE UNCHANGED idxstack
  /\ Goto(t, IF process THEN "pd" ELSE "poll")
  /\ UNCHANGED <<rxbuf, lastidx, rx_mutex, issued>>

(* ecx_receive_processdata_group: wait for the frames in the order sent. *)
ReceiveSegment ==
  /\ th[Handler].pc = "pd"
  /\ Len(idxstack) = NSegments
  /\ Set(Handler, [Idle EXCEPT !.pc = "poll", !.call = "process",
                               !.own = Head(idxstack)])
  /\ UNCHANGED <<rxbufstat, rxbuf, lastidx, rx_mutex, idxstack, issued,
                 wire>>

-----------------------------------------------------------------------------
(* Waiting: ecx_inframe, called until something came or the timer ran out. *)

(* The answer is in.  Whatever the work counter says, 0 too, the wait is    *)
(* over: it ends on wkc > EC_NOFRAME.                                      *)
Complete(t) == Goto(t, "answered")

(* Another thread has put the answer in the slot: tested without a lock. *)
FindReceived(t) ==
  /\ th[t].pc = "poll"
  /\ IF rxbufstat[th[t].own.idx] = "RCVD"
     THEN /\ rxbufstat' = [rxbufstat EXCEPT ![th[t].own.idx] = "COMPLETE"]
          /\ Complete(t)
     ELSE Goto(t, "lock") /\ UNCHANGED rxbufstat
  /\ UNCHANGED <<rxbuf, lastidx, rx_mutex, idxstack, issued, wire>>

(* Under rx_mutex: nothing has come back from the ring yet. *)
RecvNothing(t) ==
  /\ th[t].pc = "lock" /\ rx_mutex = NoThread
  /\ Goto(t, "timer")
  /\ UNCHANGED <<rxbufstat, rxbuf, lastidx, rx_mutex, idxstack, issued,
                 wire>>

(* Under rx_mutex: the frame has the index this thread waits for. *)
RecvOwn(t) ==
  /\ th[t].pc = "lock" /\ rx_mutex = NoThread
  /\ wire # <<>> /\ Head(wire).idx = th[t].own.idx
  /\ wire' = Tail(wire)
  /\ rxbuf' = [rxbuf EXCEPT ![th[t].own.idx] = Head(wire).req]
  /\ rxbufstat' = [rxbufstat EXCEPT ![th[t].own.idx] = "COMPLETE"]
  /\ Complete(t)
  /\ UNCHANGED <<lastidx, rx_mutex, idxstack, issued>>

(* Under rx_mutex: the frame has another index.  It is dropped unless that *)
(* slot is waited for; the lock is kept while it is copied.                *)
RecvOther(t) ==
  /\ th[t].pc = "lock" /\ rx_mutex = NoThread
  /\ wire # <<>> /\ Head(wire).idx # th[t].own.idx
  /\ wire' = Tail(wire)
  /\ IF rxbufstat[Head(wire).idx] = "TX"
     THEN /\ rx_mutex' = t
          /\ Set(t, [th[t] EXCEPT !.pc = "store", !.other = Head(wire)])
     ELSE Goto(t, "timer") /\ UNCHANGED rx_mutex
  /\ UNCHANGED <<rxbufstat, rxbuf, lastidx, idxstack, issued>>

MutexAfterReturn == rx_mutex

MutexAfterStore == NoThread

(* The copy is over: the slot is marked, whatever became of it meanwhile. *)
StoreOther(t) ==
  LET other == th[t].other IN
  /\ th[t].pc = "store"
  /\ rxbuf' = [rxbuf EXCEPT ![other.idx] = other.req]
  /\ rxbufstat' = [rxbufstat EXCEPT ![other.idx] = "RCVD"]
  /\ rx_mutex' = MutexAfterStore
  /\ Set(t, [th[t] EXCEPT !.pc = "timer", !.other = NoFrame])
  /\ UNCHANGED <<lastidx, idxstack, issued, wire>>

(* ecx_waitinframe_red goes round again. *)
PollAgain(t) ==
  /\ th[t].pc = "timer"
  /\ Goto(t, "poll")
  /\ UNCHANGED <<rxbufstat, rxbuf, lastidx, rx_mutex, idxstack, issued,
                 wire>>

(* ecx_srconfirm: the partial timeout for one answer has passed (timer2)    *)
(* but not the caller's (timer1), so the same frame is sent once more.     *)
Resend(t) ==
  /\ th[t].pc = "timer"
  /\ th[t].call = "primitive"
  /\ Goto(t, "outframe")
  /\ UNCHANGED <<rxbufstat, rxbuf, lastidx, rx_mutex, idxstack, issued,
                 wire>>

ClearedUnlessAnswered(t) ==
  IF th[t].pc = "answered" THEN rxbufstat
  ELSE [rxbufstat EXCEPT ![th[t].own.idx] = "EMPTY"]

Cleared(t) == [rxbufstat EXCEPT ![th[t].own.idx] = "EMPTY"]

(* ecx_srconfirm and ecx_waitinframe find the caller's time over: the slot  *)
(* is cleared here and once more by the caller.                            *)
GiveUp(t) ==
  /\ th[t].pc = "timer"
  /\ rxbufstat' = Cleared(t)
  /\ Goto(t, "gaveup")
  /\ UNCHANGED <<rxbuf, lastidx, rx_mutex, idxstack, issued, wire>>

(* ecx_setbufstat(EC_BUF_EMPTY), last in every primitive, after the answer  *)
(* was copied, and for every frame of an exchange, which then goes on with *)
(* the next one.                                                           *)
Release(t) ==
  LET rest == IF th[t].call = "process" THEN Tail(idxstack) ELSE idxstack IN
  /\ th[t].pc \in {"answered", "gaveup"}
  /\ rxbufstat' = Cleared(t)
  /\ idxstack' = rest
  /\ Set(t, IF th[t].call = "process" /\ rest # <<>>
            THEN [Idle EXCEPT !.pc = "poll", !.call = "process",
                              !.own = Head(rest)]
            ELSE Idle)
  /\ UNCHANGED <<rxbuf, lastidx, rx_mutex, issued, wire>>

-----------------------------------------------------------------------------
(* The ring of slaves and the socket (external) keep the order of frames,  *)
(* and may lose any of them.                                               *)
Lose ==
  /\ wire # <<>>
  /\ wire' = Tail(wire)
  /\ UNCHANGED <<rxbufstat, rxbuf, lastidx, rx_mutex, idxstack, issued, th>>

Step(t) ==
  \/ Primitive(t)
  \/ OutFrame(t)
  \/ FindReceived(t)
  \/ RecvNothing(t)
  \/ RecvOwn(t)
  \/ RecvOther(t)
  \/ StoreOther(t)
  \/ PollAgain(t)
  \/ Resend(t)
  \/ GiveUp(t)
  \/ Release(t)

Next ==
  \/ \E t \in Threads : Step(t)
  \/ SendSegment
  \/ ReceiveSegment
  \/ Lose

Spec == Init /\ [][Next]_vars

-----------------------------------------------------------------------------
(* Properties.                                                             *)

Statuses == {"EMPTY", "ALLOC", "TX", "RCVD", "COMPLETE"}

(* Types, and that the lock of the receive path is held by the thread that *)
(* stores another one's frame and by no other (ecx_inframe unlocks on      *)
(* every way out).                                                         *)
TypeOK ==
  /\ rxbufstat \in [Idx -> Statuses]
  /\ rxbuf \in [Idx -> 0 .. MaxRequests]
  /\ lastidx \in Idx
  /\ rx_mutex \in Threads \cup {NoThread}
  /\ idxstack \in Seq(Frame)
  /\ requests \in 0 .. MaxRequests /\ timely \in BOOLEAN
  /\ wire \in Seq(Frame)
  /\ th \in [Threads -> [pc : Pcs, call : Calls,
                         own : Frame \cup {NoFrame},
                         other : Frame \cup {NoFrame}]]
  /\ \A t \in Threads : rx_mutex = t <=> th[t].pc = "store"

(* As long as all was timely, an answer that a call copies out of its slot  *)
(* is the answer to that call's request: neither a late frame of an         *)
(* earlier use of the index nor one that another thread stored there        *)
(* (ecx_inframe, "strange things happend").                                 *)
AnswerIsOwn ==
  timely => \A t \in Threads :
    th[t].pc = "answered" => rxbuf[th[t].own.idx] = th[t].own.req

(* A slot that is not empty and that nobody has is one whose answer was    *)
(* stored after its owner gave up: no other slot leaks, whichever way a    *)
(* call ends, and although two calls share a slot when all were taken.     *)
OnlyReceivedLeak == \A i \in Leaked : rxbufstat[i] = "RCVD"
=============================================================================
