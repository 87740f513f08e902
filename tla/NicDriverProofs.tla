---------------------------- MODULE NicDriverProofs ----------------------------
(***************************************************************************)
(* The slots of the frame layer, for any number of threads, slots and      *)
(* segments: types with the lock of the receive path, and that the only    *)
(* slots that leak are those answered after their owner gave up.  A slot   *)
(* changes hands only along with the frame: from the thread to the stack   *)
(* of an exchange when the frame goes out, and back when it is waited for. *)
(* The invariant says so: a thread that waits for a frame of an exchange   *)
(* has the oldest of the stack in its hand, so that clearing the one and   *)
(* pulling the other is the same slot.                                     *)
(*                                                                         *)
(* Then, from TimingAssumption, that as long as all was timely every       *)
(* answer belongs to the request it is taken for.                          *)
(***************************************************************************)
EXTENDS NicDriver, FiniteSetTheorems, FunctionTheorems, WellFoundedInduction,
        TLAPS

USE DEF issued

Thread == [pc : Pcs, call : Calls, own : Frame \cup {NoFrame},
           other : Frame \cup {NoFrame}]

(* States in which ecx_waitinframe is under way, and all in which a thread *)
(* has a slot in its hand.                                                 *)
Waiting == {"poll", "lock", "store", "timer", "answered", "gaveup"}
Working == Waiting \cup {"outframe"}

Types ==
  /\ rxbufstat \in [Idx -> Statuses]
  /\ rxbuf \in [Idx -> 0 .. MaxRequests]
  /\ lastidx \in Idx
  /\ rx_mutex \in Threads \cup {NoThread}
  /\ idxstack \in Seq(Frame)
  /\ requests \in 0 .. MaxRequests /\ timely \in BOOLEAN
  /\ wire \in Seq(Frame)
  /\ th \in [Threads -> Thread]

(* The lock is held by the thread that stores another one's frame.         *)
MutexOK == \A t \in Threads : rx_mutex = t <=> th[t].pc = "store"

(* What a thread has in its hand. *)
HandOK ==
  \A t \in Threads :
    /\ th[t].pc \in Working => th[t].own \in Frame
    /\ th[t].call = "process" => t = Handler
    /\ th[t].pc = "pd" => th[t].call = "process"
    /\ th[t].call = "process" /\ th[t].pc \in Waiting =>
         idxstack # <<>> /\ th[t].own = Head(idxstack)

(* A slot in use is in a thread's hand or on the stack. *)
InHand(i) == \E t \in Threads : th[t].pc \in Working /\ th[t].own.idx = i
OnStack(i) == \E k \in 1 .. Len(idxstack) : idxstack[k].idx = i
SlotsOK ==
  \A i \in Idx : rxbufstat[i] \notin {"EMPTY", "RCVD"} => InHand(i) \/ OnStack(i)

IndInv == Types /\ MutexOK /\ HandOK /\ SlotsOK

-----------------------------------------------------------------------------
LEMMA InitInv == Init => IndInv
<1> SUFFICES ASSUME Init PROVE IndInv
  OBVIOUS
<1> USE PortAssumption DEF Init
<1>1. Types
  BY DEF Types, Idx, Statuses, Thread, Idle, Pcs, Calls
<1>2. MutexOK /\ HandOK
  BY DEF MutexOK, HandOK, Idle, Working, Waiting
<1>3. SlotsOK
  BY DEF SlotsOK
<1> QED
  BY <1>1, <1>2, <1>3 DEF IndInv

(* A thread's new state, when it has a slot in its hand before and after,  *)
(* or a slot that is in no use, or gets one: what the lock says of it.     *)
LEMMA MutexKept ==
  ASSUME Types, MutexOK, NEW t \in Threads, NEW rec \in Thread, Set(t, rec),
         UNCHANGED rx_mutex, rec.pc # "store", th[t].pc # "store"
  PROVE  MutexOK'
BY DEF Types, MutexOK, Set

(* ecx_getindex: the slot handed out comes into the caller's hand.         *)
LEMMA TakeSlotInv ==
  ASSUME IndInv, NEW t \in Threads, NEW call \in Calls, TakeSlot(t, call),
         th[t].pc = "idle" \/ (th[t].pc = "pd" /\ t = Handler),
         call = "process" => t = Handler
  PROVE  IndInv'
<1>1. PICK i \in Idx :
        /\ requests < MaxRequests
        /\ rxbufstat' = [rxbufstat EXCEPT ![i] = "ALLOC"]
        /\ lastidx' = i
        /\ requests' = requests + 1 /\ timely' \in BOOLEAN
        /\ Set(t, [Idle EXCEPT !.pc = "outframe", !.call = call,
                               !.own = [idx |-> i, req |-> requests + 1]])
        /\ UNCHANGED <<rxbuf, rx_mutex, idxstack, wire>>
  BY DEF TakeSlot
<1> DEFINE frame == [idx |-> i, req |-> requests + 1]
           rec == [Idle EXCEPT !.pc = "outframe", !.call = call, !.own = frame]
<1>2. frame \in Frame /\ frame.idx = i
  BY <1>1, PortAssumption DEF IndInv, Types, Frame, Requests
<1>3. Set(t, rec)
  BY <1>1
<1> HIDE DEF frame
<1>0. /\ rec \in Thread
      /\ rec.pc = "outframe" /\ rec.call = call /\ rec.own = frame
  BY <1>2 DEF Idle, Thread, Pcs, Calls
<1> HIDE DEF rec
<1>4. Types'
  <2>1. requests' \in 0 .. MaxRequests /\ timely' \in BOOLEAN
    BY <1>1, PortAssumption DEF IndInv, Types
  <2>2. th' \in [Threads -> Thread]
    BY <1>0, <1>3 DEF IndInv, Types, Set
  <2>3. rxbufstat' \in [Idx -> Statuses]
    BY <1>1 DEF IndInv, Types, Statuses
  <2> QED
    BY <1>1, <2>1, <2>2, <2>3 DEF IndInv, Types, Idx
<1>5. MutexOK'
  BY <1>1, <1>0, <1>3, MutexKept DEF IndInv
<1>6. HandOK'
  BY <1>1, <1>2, <1>0, <1>3 DEF IndInv, Types, HandOK, Set, Waiting
<1>7. SlotsOK'
  <2> SUFFICES ASSUME NEW j \in Idx, rxbufstat'[j] \notin {"EMPTY", "RCVD"}
               PROVE  (InHand(j) \/ OnStack(j))'
    BY DEF SlotsOK, Idx
  <2>1. CASE j = i
    <3>1. th'[t].pc \in Working /\ th'[t].own.idx = i
      BY <1>2, <1>0, <1>3 DEF IndInv, Types, Set, Working
    <3> QED
      BY <2>1, <3>1 DEF InHand
  <2>2. CASE j # i
    <3>1. InHand(j) \/ OnStack(j)
      BY <1>1, <2>2 DEF IndInv, Types, SlotsOK
    <3>2. \A u \in Threads : th[u].pc \in Working => th'[u] = th[u]
      BY <1>3 DEF IndInv, Types, Set, Working, Waiting
    <3> QED
      BY <1>1, <3>1, <3>2 DEF InHand, OnStack
  <2> QED
    BY <2>1, <2>2
<1> QED
  BY <1>4, <1>5, <1>6, <1>7 DEF IndInv

-----------------------------------------------------------------------------
(* Steps of a thread that keeps the slot it has in its hand.               *)

LEMMA GotoKeeps ==
  ASSUME IndInv, NEW t \in Threads, NEW pc \in Working \ {"store"}, Goto(t, pc),
         th[t].pc \in Working \ {"store"},
         th[t].call = "process" => th[t].pc \in Waiting,
         UNCHANGED <<rx_mutex, idxstack>>
  PROVE  /\ th' \in [Threads -> Thread]
         /\ MutexOK' /\ HandOK'
         /\ \A u \in Threads : /\ th[u].pc \in Working => th'[u].pc \in Working
                               /\ th'[u].own = th[u].own
<1>1. th' \in [Threads -> Thread]
  <2> DEFINE r == th[t]
             n == [r EXCEPT !.pc = pc]
  <2>1. th \in [Threads -> Thread] /\ th' = [th EXCEPT ![t] = n]
    BY DEF Goto, IndInv, Types
  <2>2. r \in Thread /\ pc \in Pcs
    BY <2>1 DEF Pcs, Working, Waiting
  <2>3. n \in Thread
    <3> HIDE DEF r
    <3> QED
      BY <2>2 DEF Thread
  <2> HIDE DEF n
  <2> QED
    BY <2>1, <2>3
<1>2. /\ th'[t].pc = pc
      /\ th'[t].own = th[t].own /\ th'[t].call = th[t].call
      /\ \A u \in Threads \ {t} : th'[u] = th[u]
  BY DEF Goto, IndInv, Types, Thread
<1>3. MutexOK'
  BY <1>2 DEF IndInv, MutexOK
<1>4. HandOK'
  BY <1>2 DEF IndInv, HandOK, Working, Waiting
<1> QED
  BY <1>1, <1>2, <1>3, <1>4

LEMMA SlotsKept ==
  ASSUME IndInv, NEW t \in Threads, th[t].pc \in Working,
         UNCHANGED idxstack,
         \A u \in Threads : /\ th[u].pc \in Working => th'[u].pc \in Working
                            /\ th'[u].own = th[u].own,
         \A j \in Idx : j # th[t].own.idx =>
                          rxbufstat'[j] \in {rxbufstat[j], "RCVD"}
  PROVE  SlotsOK'
<1> SUFFICES ASSUME NEW j \in Idx, rxbufstat'[j] \notin {"EMPTY", "RCVD"}
             PROVE  (InHand(j) \/ OnStack(j))'
  BY DEF SlotsOK, Idx
<1>1. InHand(j) \/ OnStack(j)
  BY DEF IndInv, SlotsOK, InHand
<1> QED
  BY <1>1 DEF InHand, OnStack

(* The thread takes the answer, or has nothing, or gives up. *)
LEMMA FindReceivedInv ==
  ASSUME IndInv, NEW t \in Threads, FindReceived(t) PROVE IndInv'
<1>1. th[t].own.idx \in Idx
  BY DEF FindReceived, IndInv, HandOK, Working, Waiting, Frame
<1>2. \E pc \in Working \ {"store"} : Goto(t, pc)
  BY DEF FindReceived, Complete, Working, Waiting
<1>3. th[t].pc \in Waiting \ {"store"}
  BY DEF FindReceived, Waiting
<1>4. Types'
  BY <1>1, <1>2, <1>3, GotoKeeps
     DEF FindReceived, IndInv, Types, Statuses, Working
<1>5. MutexOK' /\ HandOK'
  BY <1>2, <1>3, GotoKeeps DEF FindReceived, Working
<1>6. SlotsOK'
  BY <1>1, <1>2, <1>3, GotoKeeps, SlotsKept
     DEF FindReceived, IndInv, Types, Working
<1> QED
  BY <1>4, <1>5, <1>6 DEF IndInv

LEMMA RecvNothingInv ==
  ASSUME IndInv, NEW t \in Threads, RecvNothing(t) PROVE IndInv'
<1>1. Goto(t, "timer") /\ th[t].pc \in Waiting \ {"store"}
      /\ "timer" \in Working \ {"store"}
  BY DEF RecvNothing, Waiting, Working
<1>2. Types' /\ MutexOK' /\ HandOK'
  BY <1>1, GotoKeeps DEF RecvNothing, IndInv, Types, Working
<1>3. SlotsOK'
  BY <1>1, GotoKeeps, SlotsKept DEF RecvNothing, Working
<1> QED
  BY <1>2, <1>3 DEF IndInv

LEMMA RecvOwnInv ==
  ASSUME IndInv, NEW t \in Threads, RecvOwn(t) PROVE IndInv'
<1>1. Goto(t, "answered") /\ th[t].pc \in Waiting \ {"store"}
      /\ "answered" \in Working \ {"store"}
  BY DEF RecvOwn, Complete, Waiting, Working
<1>2. th[t].own.idx \in Idx
  BY <1>1 DEF IndInv, HandOK, Working, Frame
<1>3. /\ wire' \in Seq(Frame)
      /\ Head(wire) \in Frame
  BY DEF RecvOwn, IndInv, Types
<1>4. rxbuf' \in [Idx -> 0 .. MaxRequests]
  BY <1>2, <1>3, PortAssumption DEF RecvOwn, IndInv, Types, Frame, Requests
<1>5. Types' /\ MutexOK' /\ HandOK'
  BY <1>1, <1>2, <1>3, <1>4, GotoKeeps
     DEF RecvOwn, IndInv, Types, Statuses, Working
<1>6. SlotsOK'
  BY <1>1, <1>2, GotoKeeps, SlotsKept DEF RecvOwn, IndInv, Types, Working
<1> QED
  BY <1>5, <1>6 DEF IndInv

(* The thread has another one's frame in hand, under the lock. *)
LEMMA RecvOtherInv ==
  ASSUME IndInv, NEW t \in Threads, RecvOther(t) PROVE IndInv'
<1>1. th[t].pc = "lock" /\ rx_mutex = NoThread
      /\ wire' \in Seq(Frame) /\ Head(wire) \in Frame
  BY DEF RecvOther, IndInv, Types
<1>2. /\ th' \in [Threads -> Thread]
      /\ th'[t].pc = IF rx_mutex' = t THEN "store" ELSE "timer"
      /\ th'[t].own = th[t].own /\ th'[t].call = th[t].call
      /\ \A u \in Threads \ {t} : th'[u] = th[u]
      /\ rx_mutex' \in {t, NoThread}
  <2>1. CASE rxbufstat[Head(wire).idx] = "TX"
    <3> DEFINE rec == [th[t] EXCEPT !.pc = "store", !.other = Head(wire)]
    <3>1. rec \in Thread /\ rec.pc = "store" /\ rec.own = th[t].own
          /\ rec.call = th[t].call
      BY <1>1 DEF IndInv, Types, Thread, Pcs
    <3>2. th' = [th EXCEPT ![t] = rec] /\ rx_mutex' = t
      BY <2>1 DEF RecvOther, Set
    <3> HIDE DEF rec
    <3> QED
      BY <3>1, <3>2 DEF IndInv, Types
  <2>2. CASE rxbufstat[Head(wire).idx] # "TX"
    <3> DEFINE rec == [th[t] EXCEPT !.pc = "timer"]
    <3>1. rec \in Thread /\ rec.pc = "timer" /\ rec.own = th[t].own
          /\ rec.call = th[t].call
      BY DEF IndInv, Types, Thread, Pcs
    <3>2. th' = [th EXCEPT ![t] = rec] /\ rx_mutex' = NoThread
      BY <1>1, <2>2 DEF RecvOther, Goto
    <3>3. t # NoThread
      BY PortAssumption
    <3> HIDE DEF rec
    <3> QED
      BY <3>1, <3>2, <3>3 DEF IndInv, Types
  <2> QED
    BY <2>1, <2>2
<1>3. Types'
  BY <1>1, <1>2 DEF RecvOther, IndInv, Types
<1>4. MutexOK'
  BY <1>1, <1>2, PortAssumption DEF IndInv, MutexOK
<1>5. HandOK'
  BY <1>1, <1>2 DEF RecvOther, IndInv, HandOK, Working, Waiting
<1>6. SlotsOK'
  BY <1>1, <1>2, SlotsKept DEF RecvOther, Working, Waiting
<1> QED
  BY <1>3, <1>4, <1>5, <1>6 DEF IndInv

(* The copy is over: the slot of the other frame is marked received,       *)
(* whoever has it by now.                                                  *)
LEMMA StoreOtherInv ==
  ASSUME IndInv, NEW t \in Threads, StoreOther(t) PROVE IndInv'
<1>1. th[t].pc = "store" /\ rx_mutex = t /\ rx_mutex' = NoThread
  BY DEF StoreOther, MutexAfterStore, IndInv, MutexOK
<1>2. th[t].other.idx \in Idx /\ th[t].other.req \in 0 .. MaxRequests
  BY PortAssumption
     DEF IndInv, Types, Thread, Frame, NoFrame, Idx, Requests
<1>3. /\ th' \in [Threads -> Thread]
      /\ th'[t].pc = "timer"
      /\ th'[t].own = th[t].own /\ th'[t].call = th[t].call
      /\ \A u \in Threads \ {t} : th'[u] = th[u]
  BY DEF StoreOther, Set, IndInv, Types, Thread, Pcs
<1>4. Types'
  BY <1>1, <1>2, <1>3 DEF StoreOther, IndInv, Types, Statuses
<1>5. MutexOK'
  BY <1>1, <1>3, PortAssumption DEF IndInv, MutexOK
<1>6. HandOK'
  BY <1>1, <1>3 DEF StoreOther, IndInv, HandOK, Working, Waiting
<1>7. SlotsOK'
  <2>1. \A j \in Idx : rxbufstat'[j] \in {rxbufstat[j], "RCVD"}
    BY <1>2 DEF StoreOther, IndInv, Types
  <2> QED
    BY <1>1, <1>3, <2>1, SlotsKept DEF StoreOther, Working, Waiting
<1> QED
  BY <1>4, <1>5, <1>6, <1>7 DEF IndInv

LEMMA PollAgainInv ==
  ASSUME IndInv, NEW t \in Threads, PollAgain(t) PROVE IndInv'
<1>1. Goto(t, "poll") /\ th[t].pc \in Waiting \ {"store"}
      /\ "poll" \in Working \ {"store"}
  BY DEF PollAgain, Waiting, Working
<1>2. Types' /\ MutexOK' /\ HandOK'
  BY <1>1, GotoKeeps DEF PollAgain, IndInv, Types, Working
<1>3. SlotsOK'
  BY <1>1, GotoKeeps, SlotsKept DEF PollAgain, Working
<1> QED
  BY <1>2, <1>3 DEF IndInv

(* ecx_srconfirm sends the same frame again. *)
LEMMA ResendInv ==
  ASSUME IndInv, NEW t \in Threads, Resend(t) PROVE IndInv'
<1>1. Goto(t, "outframe") /\ th[t].pc \in Waiting \ {"store"}
      /\ "outframe" \in Working \ {"store"}
  BY DEF Resend, Waiting, Working
<1>2. Types' /\ MutexOK' /\ HandOK'
  BY <1>1, GotoKeeps DEF Resend, IndInv, Types, Working
<1>3. SlotsOK'
  BY <1>1, GotoKeeps, SlotsKept DEF Resend, Working
<1> QED
  BY <1>2, <1>3 DEF IndInv

(* Out of time: the slot is cleared while it is still in hand. *)
LEMMA GiveUpInv ==
  ASSUME IndInv, NEW t \in Threads, GiveUp(t) PROVE IndInv'
<1>1. Goto(t, "gaveup") /\ th[t].pc \in Waiting \ {"store"}
      /\ "gaveup" \in Working \ {"store"}
  BY DEF GiveUp, Waiting, Working
<1>2. th[t].own.idx \in Idx
  BY <1>1 DEF IndInv, HandOK, Working, Frame
<1>3. Types' /\ MutexOK' /\ HandOK'
  BY <1>1, <1>2, GotoKeeps
     DEF GiveUp, Cleared, IndInv, Types, Statuses, Working
<1>4. SlotsOK'
  BY <1>1, <1>2, GotoKeeps, SlotsKept
     DEF GiveUp, Cleared, IndInv, Types, Working
<1> QED
  BY <1>3, <1>4 DEF IndInv

-----------------------------------------------------------------------------
(* Steps in which the slot passes from hand to hand.                       *)

(* The frame is out: a primitive waits for it, an exchange pushes it.      *)
LEMMA OutFrameInv ==
  ASSUME IndInv, NEW t \in Threads, OutFrame(t) PROVE IndInv'
<1> DEFINE own == th[t].own
           process == th[t].call = "process"
<1>1. th[t].pc = "outframe" /\ own \in Frame /\ (process => t = Handler)
  BY DEF OutFrame, IndInv, HandOK, Working
<1>2. own.idx \in Idx
  BY <1>1 DEF Frame
<1>3. /\ th' \in [Threads -> Thread]
      /\ th'[t].pc = IF process THEN "pd" ELSE "poll"
      /\ th'[t].own = own /\ th'[t].call = th[t].call
      /\ \A u \in Threads \ {t} : th'[u] = th[u]
  <2> DEFINE pc == IF process THEN "pd" ELSE "poll"
             rec == [th[t] EXCEPT !.pc = pc]
  <2>1. pc \in Pcs
    BY DEF Pcs
  <2>2. th' = [th EXCEPT ![t] = rec]
    BY DEF OutFrame, Goto
  <2> HIDE DEF pc
  <2>3. /\ rec \in Thread /\ rec.pc = pc
        /\ rec.own = own /\ rec.call = th[t].call
    BY <2>1 DEF IndInv, Types, Thread
  <2> HIDE DEF rec
  <2>4. /\ th' \in [Threads -> Thread]
        /\ th'[t] = rec
        /\ \A u \in Threads \ {t} : th'[u] = th[u]
    BY <2>2, <2>3 DEF IndInv, Types
  <2> QED
    BY <2>3, <2>4 DEF pc
<1>4. /\ idxstack' = IF process THEN Append(idxstack, own) ELSE idxstack
      /\ idxstack \in Seq(Frame)
  BY DEF OutFrame, PushIndex, IndInv, Types
<1>5. Types'
  <2>1. rxbufstat' \in [Idx -> Statuses]
    BY <1>2 DEF OutFrame, IndInv, Types, Statuses
  <2>2. wire' \in Seq(Frame)
    <3>1. wire \in Seq(Frame) /\ Append(wire, own) \in Seq(Frame)
      BY <1>1 DEF IndInv, Types
    <3>2. wire' \in {wire, Append(wire, own)}
      BY DEF OutFrame
    <3> QED
      BY <3>1, <3>2
  <2>3. idxstack' \in Seq(Frame)
    BY <1>1, <1>4
  <2> QED
    BY <1>3, <2>1, <2>2, <2>3 DEF OutFrame, IndInv, Types
<1>6. MutexOK'
  BY <1>1, <1>3 DEF OutFrame, IndInv, MutexOK
<1>7. HandOK'
  BY <1>1, <1>3, <1>4 DEF IndInv, HandOK, Working, Waiting
<1>8. SlotsOK'
  <2> SUFFICES ASSUME NEW j \in Idx, rxbufstat'[j] \notin {"EMPTY", "RCVD"}
               PROVE  (InHand(j) \/ OnStack(j))'
    BY DEF SlotsOK, Idx
  <2>1. \A u \in Threads \ {t} : th'[u] = th[u]
    BY <1>3
  <2>2. \A i \in Idx : OnStack(i) => OnStack(i)'
    BY <1>1, <1>4 DEF OnStack
  <2>3. CASE j = own.idx
    <3>1. CASE process
      <4>1. Len(idxstack') = Len(idxstack) + 1
            /\ idxstack'[Len(idxstack) + 1] = own
        BY <1>1, <1>4, <3>1
      <4> QED
        BY <2>3, <1>4, <4>1 DEF OnStack
    <3>2. CASE ~process
      BY <1>3, <2>3, <3>2 DEF InHand, Working, Waiting
    <3> QED
      BY <3>1, <3>2
  <2>4. CASE j # own.idx
    <3>1. InHand(j) \/ OnStack(j)
      BY <1>2, <2>4 DEF OutFrame, IndInv, Types, SlotsOK
    <3> QED
      BY <2>1, <2>2, <2>4, <3>1 DEF InHand
  <2> QED
    BY <2>3, <2>4
<1> QED
  BY <1>5, <1>6, <1>7, <1>8 DEF IndInv

(* The oldest frame of the exchange is waited for: its slot is on the      *)
(* stack and in hand.                                                      *)
LEMMA ReceiveSegmentInv ==
  ASSUME IndInv, ReceiveSegment PROVE IndInv'
<1> DEFINE rec == [Idle EXCEPT !.pc = "poll", !.call = "process",
                               !.own = Head(idxstack)]
<1>1. /\ Handler \in Threads /\ th[Handler].pc = "pd"
      /\ idxstack # <<>> /\ idxstack \in Seq(Frame) /\ Head(idxstack) \in Frame
      /\ idxstack' = idxstack /\ rx_mutex' = rx_mutex
  BY PortAssumption DEF ReceiveSegment, IndInv, Types
<1>2. /\ rec \in Thread /\ rec.pc = "poll" /\ rec.call = "process"
      /\ rec.own = Head(idxstack)
  BY <1>1 DEF Idle, Thread, Pcs, Calls
<1>3. Set(Handler, rec)
  BY DEF ReceiveSegment
<1> HIDE DEF rec
<1>4. Types'
  BY <1>1, <1>2, <1>3 DEF ReceiveSegment, Set, IndInv, Types
<1>5. MutexOK'
  BY <1>1, <1>2, <1>3, MutexKept DEF IndInv
<1>6. HandOK'
  BY <1>1, <1>2, <1>3 DEF Set, IndInv, Types, HandOK
<1>7. SlotsOK'
  <2> SUFFICES ASSUME NEW j \in Idx, rxbufstat'[j] \notin {"EMPTY", "RCVD"}
               PROVE  (InHand(j) \/ OnStack(j))'
    BY DEF SlotsOK, Idx
  <2>1. InHand(j) \/ OnStack(j)
    BY DEF ReceiveSegment, IndInv, SlotsOK
  <2>2. \A u \in Threads : th[u].pc \in Working => th'[u] = th[u]
    BY <1>1, <1>3 DEF Set, IndInv, Types, Working, Waiting
  <2> QED
    BY <1>1, <2>1, <2>2 DEF InHand, OnStack
<1> QED
  BY <1>4, <1>5, <1>6, <1>7 DEF IndInv

(* The slot is cleared and leaves the hand, and the stack with it when it  *)
(* belongs to an exchange.                                                 *)
LEMMA ReleaseInv ==
  ASSUME IndInv, NEW t \in Threads, Release(t) PROVE IndInv'
<1> DEFINE process == th[t].call = "process"
           rest == IF process THEN Tail(idxstack) ELSE idxstack
           rec == IF process /\ rest # <<>>
                  THEN [Idle EXCEPT !.pc = "poll", !.call = "process",
                                    !.own = Head(rest)]
                  ELSE Idle
           own == th[t].own
<1>1. /\ th[t].pc \in {"answered", "gaveup"}
      /\ own \in Frame /\ own.idx \in Idx
      /\ process => t = Handler /\ idxstack # <<>> /\ own = Head(idxstack)
      /\ idxstack \in Seq(Frame)
  BY DEF Release, IndInv, Types, HandOK, Working, Waiting, Frame
<1>2. /\ rxbufstat' = [rxbufstat EXCEPT ![own.idx] = "EMPTY"]
      /\ idxstack' = rest /\ Set(t, rec)
      /\ UNCHANGED <<rxbuf, lastidx, rx_mutex, requests, wire, timely>>
  BY DEF Release, Cleared
<1>3. rest \in Seq(Frame)
  BY <1>1
<1>4. /\ rec \in Thread
      /\ rec.pc \in {"idle", "poll"}
      /\ rec.pc = "idle" => rec.call = "primitive"
      /\ rec.pc = "poll" => /\ process /\ rec.call = "process"
                            /\ rest # <<>> /\ rec.own = Head(rest)
                            /\ rec.own \in Frame
  <2>1. CASE process /\ rest # <<>>
    <3>1. Head(rest) \in Frame
      BY <1>3, <2>1
    <3> HIDE DEF rest
    <3> QED
      BY <2>1, <3>1 DEF Idle, Thread, Pcs, Calls
  <2>2. CASE ~(process /\ rest # <<>>)
    <3>1. rec = Idle
      BY <2>2
    <3> HIDE DEF rec, rest
    <3> QED
      BY <3>1 DEF Idle, Thread, Pcs, Calls
  <2> QED
    BY <2>1, <2>2
<1>5. \A u \in Threads \ {t} : th'[u] = th[u]
  BY <1>2 DEF Set, IndInv, Types
<1>6. th'[t] = rec
  BY <1>2 DEF Set, IndInv, Types
<1> HIDE DEF rec
<1>7. Types'
  BY <1>1, <1>2, <1>3, <1>4 DEF Set, IndInv, Types, Statuses
<1>8. MutexOK'
  BY <1>1, <1>2, <1>4, MutexKept DEF IndInv
<1>9. HandOK'
  <2>1. \A u \in Threads \ {t} : process => th[u].call # "process"
    BY <1>1 DEF IndInv, HandOK
  <2>2. ~process => idxstack' = idxstack
    BY <1>2
  <2> HIDE DEF process, rest
  <2>3. process => t = Handler
    BY <1>1 DEF process
  <2> QED
    BY <1>2, <1>4, <1>5, <1>6, <2>1, <2>2, <2>3
       DEF IndInv, HandOK, Working, Waiting
<1>10. SlotsOK'
  <2> SUFFICES ASSUME NEW j \in Idx, rxbufstat'[j] \notin {"EMPTY", "RCVD"}
               PROVE  (InHand(j) \/ OnStack(j))'
    BY DEF SlotsOK, Idx
  <2>1. j # own.idx /\ (InHand(j) \/ OnStack(j))
    BY <1>1, <1>2 DEF IndInv, Types, SlotsOK
  <2>2. InHand(j) => InHand(j)'
    BY <1>5, <2>1 DEF InHand
  <2>3. ASSUME OnStack(j) PROVE OnStack(j)'
    <3>1. CASE process
      <4>1. PICK k \in 1 .. Len(idxstack) : idxstack[k].idx = j
        BY <2>3 DEF OnStack
      <4>2. k # 1
        BY <1>1, <2>1, <3>1, <4>1
      <4>3. /\ Len(rest) = Len(idxstack) - 1
            /\ \A l \in 1 .. Len(rest) : rest[l] = idxstack[l + 1]
        BY <1>1, <3>1
      <4>4. k - 1 \in 1 .. Len(rest) /\ rest[k - 1] = idxstack[k]
        BY <1>1, <4>1, <4>2, <4>3
      <4> HIDE DEF rest
      <4> QED
        BY <1>2, <4>1, <4>4 DEF OnStack
    <3>2. CASE ~process
      BY <1>2, <2>3, <3>2 DEF OnStack
    <3> QED
      BY <3>1, <3>2
  <2> QED
    BY <2>1, <2>2, <2>3
<1> QED
  BY <1>7, <1>8, <1>9, <1>10 DEF IndInv

(* The ring loses a frame, or nothing happens.                             *)
LEMMA LoseInv == ASSUME IndInv, Lose PROVE IndInv'
BY DEF Lose, IndInv, Types, MutexOK, HandOK, SlotsOK, InHand, OnStack

LEMMA StutterInv == ASSUME IndInv, UNCHANGED vars PROVE IndInv'
BY DEF vars, IndInv, Types, MutexOK, HandOK, SlotsOK, InHand, OnStack

LEMMA StepInv == ASSUME IndInv, NEW t \in Threads, Step(t) PROVE IndInv'
<1>1. CASE Primitive(t)
  BY <1>1, TakeSlotInv DEF Primitive, Calls
<1> QED
  BY <1>1, OutFrameInv, FindReceivedInv, RecvNothingInv, RecvOwnInv,
     RecvOtherInv, StoreOtherInv, PollAgainInv, ResendInv, GiveUpInv,
     ReleaseInv DEF Step

LEMMA Invariance == Spec => []IndInv
<1>1. ASSUME IndInv, SendSegment PROVE IndInv'
  BY <1>1, TakeSlotInv, PortAssumption DEF SendSegment, Calls
<1>2. IndInv /\ [Next]_vars => IndInv'
  BY <1>1, StepInv, ReceiveSegmentInv, LoseInv, StutterInv DEF Next
<1> QED
  BY InitInv, <1>2, PTL DEF Spec

-----------------------------------------------------------------------------
(* Types, and that the lock of the receive path is held exactly by the     *)
(* thread that stores another one's frame (ecx_inframe unlocks on every    *)
(* way out).                                                               *)
THEOREM TypeCorrect == Spec => []TypeOK
<1>1. IndInv => TypeOK
  BY DEF IndInv, Types, MutexOK, Thread, TypeOK
<1> QED
  BY Invariance, <1>1, PTL

(* Whichever way a call ends, the only slots that stay taken without an    *)
(* owner are those whose answer another thread stored after the owner gave *)
(* up (ecx_inframe against ecx_waitinframe).                               *)
THEOREM LeaksAreReceived == Spec => []OnlyReceivedLeak
<1>1. IndInv => OnlyReceivedLeak
  <2> SUFFICES ASSUME IndInv, NEW i \in Leaked PROVE rxbufstat[i] = "RCVD"
    BY DEF OnlyReceivedLeak
  <2>1. i \in Idx /\ rxbufstat[i] # "EMPTY" /\ i \notin AllHeld
    BY DEF Leaked
  <2>2. ASSUME InHand(i) PROVE FALSE
    <3>1. PICK t \in Threads : th[t].pc \in Working /\ th[t].own.idx = i
      BY <2>2 DEF InHand
    <3>2. th[t].own \in Held(t)
      BY <3>1 DEF Held, Working, Waiting
    <3>3. i \in HeldIdx(t)
      BY <3>1, <3>2 DEF HeldIdx
    <3> QED
      BY <2>1, <3>3 DEF AllHeld
  <2>3. ASSUME OnStack(i) PROVE FALSE
    <3>1. PICK k \in 1 .. Len(idxstack) : idxstack[k].idx = i
      BY <2>3 DEF OnStack
    <3>2. idxstack[k] \in Held(Handler)
      BY <3>1 DEF Held
    <3>3. i \in HeldIdx(Handler)
      BY <3>1, <3>2 DEF HeldIdx
    <3> QED
      BY <2>1, <3>3, PortAssumption DEF AllHeld
  <2> QED
    BY <2>1, <2>2, <2>3 DEF IndInv, SlotsOK
<1> QED
  BY Invariance, <1>1, PTL

-----------------------------------------------------------------------------
(* Whose answer is in a slot.  A frame is known by its index alone, and     *)
(* indices come round: what keeps a late frame apart from a later use of    *)
(* its index is that the scan of ecx_getindex does not come round to a slot *)
(* while a frame with that index is of use.  FrameInv says how far the scan *)
(* has moved since a frame was sent, one slot for each request and for each *)
(* leaked slot, and that older frames are farther behind.                   *)

(* Frames that are still of use: under way, waited for, or in the hand of  *)
(* a thread that stores them for another one.                              *)
Live ==
  {f \in Frame :
     \/ \E k \in 1 .. Len(wire) : wire[k] = f
     \/ \E t \in Threads : f \in Held(t)
     \/ \E t \in Threads : th[t].pc = "store" /\ th[t].other = f}

(* How many slots the scan has passed since slot i, and which.             *)
Behind(i) == IF i <= lastidx THEN lastidx - i ELSE lastidx - i + EC_MAXBUF
Arc(i) == {j \in Idx : Behind(j) < Behind(i)}

(* The scan has passed one slot per request since f, and leaked ones.      *)
Near ==
  \A f \in Live :
    /\ f.req <= requests
    /\ Behind(f.idx) <= (requests - f.req) + Cardinality(Leaked \cap Arc(f.idx))

(* Older frames are farther behind: no two have the same index.            *)
Ordered ==
  \A f, g \in Live :
    /\ f.req < g.req => Behind(g.idx) < Behind(f.idx)
    /\ f.req = g.req => f = g

(* A request is one thread's.                                              *)
Owned ==
  \A t, u \in Threads : t # u =>
    \A f \in Held(t), g \in Held(u) : f.req # g.req

(* What is received in a slot is the answer its owner waits for.           *)
Answers ==
  \A t \in Threads :
    /\ \A f \in Held(t) : rxbufstat[f.idx] = "RCVD" => rxbuf[f.idx] = f.req
    /\ th[t].pc = "answered" => rxbuf[th[t].own.idx] = th[t].own.req

(* What the storing thread has in hand is a frame.                         *)
StoreOK == \A t \in Threads : th[t].pc = "store" => th[t].other \in Frame

FrameInv == Near /\ Ordered /\ Owned /\ Answers /\ StoreOK

(* A step round the slots, without the modulus. *)
LEMMA ModWrap ==
  ASSUME NEW M \in Nat \ {0}, NEW a \in 0 .. M - 1, NEW c \in 1 .. M
  PROVE  (a + c) % M = IF a + c < M THEN a + c ELSE a + c - M
<1> DEFINE q == (a + c) \div M
           r == (a + c) % M
<1>1. a + c = M * q + r /\ r \in 0 .. M - 1 /\ q \in Int
  OBVIOUS
<1>2. a + c \in 0 .. 2 * M - 1
  OBVIOUS
<1> HIDE DEF q, r
<1>3. q >= 0
  BY <1>1, <1>2
<1>4. q <= 1
  BY <1>1, <1>2
<1>5. q = 0 \/ q = 1
  BY <1>1, <1>3, <1>4
<1>6. CASE q = 0
  BY <1>1, <1>2, <1>6 DEF r
<1>7. CASE q = 1
  BY <1>1, <1>2, <1>7 DEF r
<1> QED
  BY <1>5, <1>6, <1>7

(* The slot c steps ahead of the scan is EC_MAXBUF - c behind it.          *)
LEMMA CandidateBehind ==
  ASSUME lastidx \in Idx
  PROVE  /\ \A i \in Idx : /\ Behind(i) \in 0 .. EC_MAXBUF - 1
                           /\ Candidate(EC_MAXBUF - Behind(i)) = i
         /\ \A c \in 1 .. EC_MAXBUF :
              /\ Candidate(c) \in Idx
              /\ Behind(Candidate(c)) = EC_MAXBUF - c
<1>1. EC_MAXBUF \in Nat \ {0} /\ lastidx \in 0 .. EC_MAXBUF - 1
  BY PortAssumption DEF Idx
<1>2. \A c \in 1 .. EC_MAXBUF :
        Candidate(c) = IF lastidx + c < EC_MAXBUF THEN lastidx + c
                       ELSE lastidx + c - EC_MAXBUF
  BY <1>1, ModWrap DEF Candidate
<1>3. \A i \in Idx : Behind(i) \in 0 .. EC_MAXBUF - 1
  BY <1>1 DEF Behind, Idx
<1>4. ASSUME NEW i \in Idx PROVE Candidate(EC_MAXBUF - Behind(i)) = i
  <2>1. EC_MAXBUF - Behind(i) \in 1 .. EC_MAXBUF
    BY <1>1, <1>3
  <2> QED
    BY <1>1, <1>2, <2>1 DEF Behind, Idx
<1>5. \A c \in 1 .. EC_MAXBUF : Candidate(c) \in Idx
  BY <1>1, <1>2 DEF Idx
<1>6. \A c \in 1 .. EC_MAXBUF : Behind(Candidate(c)) = EC_MAXBUF - c
  BY <1>1, <1>2 DEF Behind
<1> QED
  BY <1>3, <1>4, <1>5, <1>6

(* The next n slots that the scan looks at.                                *)
Passed(n) == {Candidate(c) : c \in 1 .. n}

LEMMA PassedCount ==
  ASSUME lastidx \in Idx, NEW n \in 0 .. EC_MAXBUF
  PROVE  IsFiniteSet(Passed(n)) /\ Cardinality(Passed(n)) = n
<1> DEFINE step == [c \in 1 .. n |-> Candidate(c)]
<1>1. EC_MAXBUF \in Nat \ {0} /\ 1 .. n \subseteq 1 .. EC_MAXBUF /\ n \in Nat
  BY PortAssumption
<1>2. \A c, d \in 1 .. n : Candidate(c) = Candidate(d) => c = d
  BY <1>1, CandidateBehind
<1>3. step \in Bijection(1 .. n, Passed(n))
  BY <1>2 DEF Passed, Bijection, Injection, Surjection, IsInjective
<1>4. IsFiniteSet(1 .. n) /\ Cardinality(1 .. n) = n
  BY <1>1, FS_Interval
<1>5. ExistsBijection(1 .. n, Passed(n))
  BY <1>3 DEF ExistsBijection
<1> QED
  BY <1>4, <1>5, FS_Bijection

LEMMA LeakedFinite ==
  /\ IsFiniteSet(Idx)
  /\ \A X : X \subseteq Idx => IsFiniteSet(X) /\ Cardinality(X) \in Nat
<1>1. IsFiniteSet(Idx)
  BY PortAssumption, FS_Interval DEF Idx
<1>2. ASSUME NEW X, X \subseteq Idx
      PROVE IsFiniteSet(X) /\ Cardinality(X) \in Nat
  BY <1>1, <1>2, FS_Subset, FS_CardinalityType
<1> QED
  BY <1>1, <1>2

-----------------------------------------------------------------------------
(* Steps that hand out no index.                                           *)

(* What a thread holds are frames of use, with slots that are held.        *)
LEMMA HeldFrames ==
  ASSUME IndInv, NEW t \in Threads
  PROVE  /\ Held(t) \subseteq Frame
         /\ th[t].pc \in Working => th[t].own \in Held(t)
         /\ \A f \in Held(t) : f.idx \in AllHeld /\ f \in Live
<1>1. th[t].pc \notin {"idle", "pd"} => th[t].own \in Frame
  BY DEF IndInv, Types, Thread, Pcs, HandOK, Working, Waiting
<1>2. \A k \in 1 .. Len(idxstack) : idxstack[k] \in Frame
  BY DEF IndInv, Types
<1>3. Held(t) \subseteq Frame
  BY <1>1, <1>2 DEF Held
<1>4. \A f \in Held(t) : f.idx \in AllHeld /\ f \in Live
  BY <1>3 DEF AllHeld, HeldIdx, Live
<1> QED
  BY <1>3, <1>4 DEF Held, Working, Waiting

(* Two frames of use with one index are one. *)
LEMMA SameIndex ==
  ASSUME Ordered, Types, NEW f \in Live, NEW g \in Live, f.idx = g.idx
  PROVE  f = g
<1>1. lastidx \in Idx /\ f.idx \in Idx /\ f.req \in Int /\ g.req \in Int
  BY PortAssumption DEF Types, Live, Frame, Requests
<1>2. Behind(f.idx) \in Int
  BY <1>1, CandidateBehind
<1>3. f.req < g.req \/ g.req < f.req \/ f.req = g.req
  BY <1>1
<1> QED
  BY <1>2, <1>3 DEF Ordered

(* A step that hands out no index. *)
Quiet ==
  /\ UNCHANGED <<lastidx, requests>>
  /\ \A t \in Threads : Held(t)' \subseteq Held(t)
  /\ \A k \in 1 .. Len(wire') : wire'[k] \in Live
  /\ \A t \in Threads : th'[t].pc = "store" => th'[t].other \in Live
  /\ \A i \in Idx : rxbufstat'[i] = "EMPTY" => rxbufstat[i] = "EMPTY" \/ i \in AllHeld

(* Such a step makes no frame of use, and no leak disappear; what it says  *)
(* of the slots and the frames stays true.                                 *)
LEMMA QuietLive == ASSUME IndInv, Quiet PROVE Live' \subseteq Live
<1> SUFFICES ASSUME NEW f \in Live' PROVE f \in Live
  OBVIOUS
<1>1. f \in Frame
  BY DEF Live, Frame, Idx
<1>2. CASE \E k \in 1 .. Len(wire') : wire'[k] = f
  BY <1>2 DEF Quiet
<1>3. CASE \E t \in Threads : f \in Held(t)'
  BY <1>3, HeldFrames DEF Quiet
<1>4. CASE \E t \in Threads : th'[t].pc = "store" /\ th'[t].other = f
  BY <1>4 DEF Quiet
<1> QED
  BY <1>2, <1>3, <1>4 DEF Live

LEMMA QuietLeaked == ASSUME IndInv, Quiet PROVE Leaked \subseteq Leaked'
<1>1. \A i \in Idx : i \in AllHeld' => i \in AllHeld
  BY DEF Quiet, AllHeld, HeldIdx
<1> QED
  BY <1>1 DEF Quiet, Leaked, Idx

LEMMA QuietInv ==
  ASSUME IndInv, IndInv', FrameInv, Quiet
  PROVE  Near' /\ Ordered' /\ Owned' /\ StoreOK'
<1>1. Live' \subseteq Live /\ Leaked \subseteq Leaked'
  BY QuietLive, QuietLeaked
<1>2. lastidx' = lastidx /\ requests' = requests
  BY DEF Quiet
<1>3. \A i : Behind(i)' = Behind(i) /\ Arc(i)' = Arc(i)
  BY <1>2 DEF Behind, Arc, Idx
<1>4. Near'
  <2> SUFFICES ASSUME NEW f \in Live'
               PROVE  /\ f.req <= requests
                      /\ Behind(f.idx) <= (requests - f.req)
                                 + Cardinality(Leaked' \cap Arc(f.idx))
    BY <1>2, <1>3 DEF Near
  <2>1. f \in Live /\ f.idx \in Idx /\ f.req \in Int
    BY <1>1 DEF Live, Frame, Requests
  <2> DEFINE X == Leaked \cap Arc(f.idx)
             Y == Leaked' \cap Arc(f.idx)
  <2>2. X \subseteq Y /\ Y \subseteq Idx
    BY <1>1 DEF Arc
  <2>3. Cardinality(X) <= Cardinality(Y)
    BY <2>2, LeakedFinite, FS_Subset
  <2>4. Cardinality(X) \in Nat /\ Cardinality(Y) \in Nat
    BY <2>2, LeakedFinite
  <2>5. lastidx \in Idx /\ requests \in Int
    BY PortAssumption DEF IndInv, Types
  <2>8. Behind(f.idx) \in Int
    BY <2>1, <2>5, CandidateBehind
  <2>6. f.req <= requests /\ Behind(f.idx) <= (requests - f.req) + Cardinality(X)
    BY <2>1 DEF FrameInv, Near
  <2> HIDE DEF X, Y
  <2>7. Behind(f.idx) <= (requests - f.req) + Cardinality(Y)
    BY <2>1, <2>3, <2>4, <2>5, <2>6, <2>8
  <2> QED
    BY <2>6, <2>7 DEF Y
<1>5. Ordered'
  BY <1>1, <1>3 DEF FrameInv, Ordered
<1>6. Owned'
  BY DEF FrameInv, Owned, Quiet
<1>7. StoreOK'
  BY DEF Quiet, StoreOK, Live, Frame, Idx
<1> QED
  BY <1>4, <1>5, <1>6, <1>7

(* What becomes of the answers when only threads change ... *)
LEMMA AnswersKept ==
  ASSUME IndInv, FrameInv, Quiet, rxbuf' = rxbuf,
         \A i \in Idx : rxbufstat'[i] = "RCVD" => rxbufstat[i] = "RCVD",
         \A t \in Threads : th'[t].pc = "answered" =>
           /\ th'[t].own = th[t].own
           /\ \/ th[t].pc = "answered"
              \/ rxbuf[th[t].own.idx] = th[t].own.req
  PROVE  Answers'
<1> SUFFICES ASSUME NEW t \in Threads
             PROVE  /\ \A f \in Held(t)' : rxbufstat'[f.idx] = "RCVD" =>
                                             rxbuf[f.idx] = f.req
                    /\ th'[t].pc = "answered" =>
                         rxbuf[th'[t].own.idx] = th'[t].own.req
  BY DEF Answers
<1>1. \A f \in Held(t)' : f \in Held(t) /\ f.idx \in Idx
  BY HeldFrames DEF Quiet, Frame
<1> QED
  BY <1>1 DEF FrameInv, Answers

(* ... and when a frame of use is stored in its slot. *)
LEMMA AnswersStored ==
  ASSUME IndInv, FrameInv, Quiet, NEW g \in Live,
         rxbuf' = [rxbuf EXCEPT ![g.idx] = g.req],
         \A i \in Idx : rxbufstat'[i] = "RCVD" =>
                          rxbufstat[i] = "RCVD" \/ i = g.idx,
         \A t \in Threads : th'[t].pc = "answered" =>
           /\ th'[t].own = th[t].own
           /\ th[t].own \in Held(t)
           /\ th[t].pc = "answered" \/ th[t].own.idx = g.idx
  PROVE  Answers'
<1>0. g.idx \in Idx /\ rxbuf \in [Idx -> 0 .. MaxRequests]
  BY DEF Live, Frame, IndInv, Types
<1>1. \A t \in Threads : \A f \in Held(t) :
        f.idx \in Idx /\ (f.idx = g.idx => f = g)
  BY HeldFrames, SameIndex DEF IndInv, FrameInv, Frame
<1> SUFFICES ASSUME NEW t \in Threads
             PROVE  /\ \A f \in Held(t)' : rxbufstat'[f.idx] = "RCVD" =>
                                             rxbuf'[f.idx] = f.req
                    /\ th'[t].pc = "answered" =>
                         rxbuf'[th'[t].own.idx] = th'[t].own.req
  BY DEF Answers
<1>2. ASSUME NEW f \in Held(t)', rxbufstat'[f.idx] = "RCVD"
      PROVE  rxbuf'[f.idx] = f.req
  <2>1. f \in Held(t)
    BY <1>2 DEF Quiet
  <2> QED
    BY <1>0, <1>1, <1>2, <2>1 DEF FrameInv, Answers
<1>3. ASSUME th'[t].pc = "answered"
      PROVE  rxbuf'[th'[t].own.idx] = th'[t].own.req
  BY <1>0, <1>1, <1>3 DEF FrameInv, Answers
<1> QED
  BY <1>2, <1>3

(* A frame on the ring stays one of use; so does the first.                *)
LEMMA WireLive ==
  ASSUME IndInv
  PROVE  /\ \A k \in 1 .. Len(wire) : wire[k] \in Live
         /\ \A k \in 1 .. Len(Tail(wire)) : wire # <<>> => Tail(wire)[k] \in Live
         /\ wire # <<>> => Head(wire) \in Live
<1>1. wire \in Seq(Frame)
  BY DEF IndInv, Types
<1>2. \A k \in 1 .. Len(wire) : wire[k] \in Live
  BY <1>1 DEF Live
<1>3. wire # <<>> => \A k \in 1 .. Len(Tail(wire)) :
                       k + 1 \in 1 .. Len(wire) /\ Tail(wire)[k] = wire[k + 1]
  BY <1>1
<1>4. wire # <<>> => 1 \in 1 .. Len(wire) /\ Head(wire) = wire[1]
  BY <1>1
<1> QED
  BY <1>2, <1>3, <1>4

(* The thread keeps what it has in hand. *)
LEMMA QuietHand ==
  ASSUME IndInv, FrameInv, NEW t \in Threads, th[t].pc \in Working,
         UNCHANGED <<lastidx, requests, idxstack>>,
         th'[t].own = th[t].own,
         \A u \in Threads \ {t} : th'[u] = th[u],
         \A k \in 1 .. Len(wire') : wire'[k] \in Live,
         th'[t].pc = "store" => th'[t].other \in Live,
         \A i \in Idx : rxbufstat'[i] = "EMPTY" =>
                          rxbufstat[i] = "EMPTY" \/ i = th[t].own.idx
  PROVE  Quiet
<1>1. \A u \in Threads : Held(u)' \subseteq Held(u)
  BY DEF Held, Working, Waiting
<1>2. \A u \in Threads \ {t} : th[u].pc = "store" => th[u].other \in Live
  BY DEF Live, StoreOK, FrameInv
<1>3. th[t].own.idx \in AllHeld
  BY HeldFrames
<1> QED
  BY <1>1, <1>2, <1>3 DEF Quiet

(* Steps of a call in hand, one by one.                                    *)
LEMMA HandGoto ==
  ASSUME IndInv, NEW t \in Threads, NEW pc, Goto(t, pc)
  PROVE  /\ th'[t].pc = pc /\ th'[t].own = th[t].own /\ th'[t].other = th[t].other
         /\ \A u \in Threads \ {t} : th'[u] = th[u]
BY DEF Goto, IndInv, Types, Thread

LEMMA FindReceivedFrames ==
  ASSUME IndInv, IndInv', FrameInv, NEW t \in Threads, FindReceived(t)
  PROVE  FrameInv'
<1>1. /\ th[t].pc = "poll" /\ th[t].pc \in Working
      /\ rxbuf' = rxbuf
      /\ UNCHANGED <<lastidx, requests, idxstack, wire>>
  BY DEF FindReceived, Working, Waiting
<1>2. th[t].own \in Held(t) /\ th[t].own \in Frame /\ th[t].own.idx \in Idx
  BY <1>1, HeldFrames DEF Frame
<1>3. /\ th'[t].pc # "store" /\ th'[t].own = th[t].own
      /\ th'[t].pc = "answered" => rxbufstat[th[t].own.idx] = "RCVD"
      /\ \A u \in Threads \ {t} : th'[u] = th[u]
  BY HandGoto DEF FindReceived, Complete
<1>4. \A i \in Idx : rxbufstat'[i] = rxbufstat[i] \/ rxbufstat'[i] = "COMPLETE"
  BY <1>2 DEF FindReceived, IndInv, Types
<1>5. Quiet
  BY <1>1, <1>3, <1>4, QuietHand, WireLive
<1>6. Answers'
  <2>1. th'[t].pc = "answered" => rxbuf[th[t].own.idx] = th[t].own.req
    BY <1>2, <1>3 DEF FrameInv, Answers
  <2> QED
    BY <1>1, <1>3, <1>4, <1>5, <2>1, AnswersKept
<1> QED
  BY <1>5, <1>6, QuietInv DEF FrameInv

LEMMA WaitFrames ==
  ASSUME IndInv, IndInv', FrameInv, NEW t \in Threads,
         RecvNothing(t) \/ PollAgain(t) \/ Resend(t)
  PROVE  FrameInv'
<1>1. /\ th[t].pc \in Working /\ UNCHANGED <<rxbufstat, rxbuf>>
      /\ UNCHANGED <<lastidx, requests, idxstack, wire>>
      /\ \E pc \in Pcs \ {"store", "answered"} : Goto(t, pc)
  BY DEF RecvNothing, PollAgain, Resend, Working, Waiting, Pcs
<1>2. /\ th'[t].pc \notin {"store", "answered"} /\ th'[t].own = th[t].own
      /\ \A u \in Threads \ {t} : th'[u] = th[u]
  BY <1>1, HandGoto
<1>3. Quiet
  BY <1>1, <1>2, QuietHand, WireLive
<1>4. Answers'
  BY <1>1, <1>2, <1>3, AnswersKept
<1> QED
  BY <1>3, <1>4, QuietInv DEF FrameInv

(* A frame with the index of a call in hand is the frame of that call.     *)
LEMMA RecvOwnFrames ==
  ASSUME IndInv, IndInv', FrameInv, NEW t \in Threads, RecvOwn(t)
  PROVE  FrameInv'
<1>1. /\ th[t].pc = "lock" /\ th[t].pc \in Working
      /\ wire # <<>> /\ Head(wire).idx = th[t].own.idx /\ wire' = Tail(wire)
      /\ UNCHANGED <<lastidx, requests, idxstack>>
  BY DEF RecvOwn, Working, Waiting
<1>2. th[t].own \in Held(t) /\ th[t].own \in Live /\ th[t].own.idx \in Idx
  BY <1>1, HeldFrames DEF Frame
<1>3. /\ th'[t].pc = "answered" /\ th'[t].own = th[t].own
      /\ \A u \in Threads \ {t} : th'[u] = th[u]
  BY HandGoto DEF RecvOwn, Complete
<1>4. \A i \in Idx : rxbufstat'[i] = rxbufstat[i] \/ rxbufstat'[i] = "COMPLETE"
  BY <1>2 DEF RecvOwn, IndInv, Types
<1>5. \A k \in 1 .. Len(wire') : wire'[k] \in Live
  BY <1>1, WireLive
<1>6. Quiet
  BY <1>1, <1>3, <1>4, <1>5, QuietHand
<1>7. rxbuf' = [rxbuf EXCEPT ![th[t].own.idx] = th[t].own.req]
  <2>1. Head(wire) = th[t].own
    BY <1>1, <1>2, WireLive, SameIndex DEF IndInv, FrameInv
  <2> QED
    BY <2>1 DEF RecvOwn
<1>8. Answers'
  <2>1. \A u \in Threads : th'[u].pc = "answered" =>
          /\ th'[u].own = th[u].own /\ th[u].own \in Held(u)
          /\ th[u].pc = "answered" \/ th[u].own.idx = th[t].own.idx
    BY <1>2, <1>3 DEF Held
  <2> QED
    BY <1>2, <1>4, <1>6, <1>7, <2>1, AnswersStored
<1> QED
  BY <1>6, <1>8, QuietInv DEF FrameInv

LEMMA RecvOtherFrames ==
  ASSUME IndInv, IndInv', FrameInv, NEW t \in Threads, RecvOther(t)
  PROVE  FrameInv'
<1>1. /\ th[t].pc = "lock" /\ th[t].pc \in Working
      /\ wire # <<>> /\ wire' = Tail(wire)
      /\ UNCHANGED <<lastidx, requests, idxstack, rxbuf, rxbufstat>>
  BY DEF RecvOther, Working, Waiting
<1>2. /\ th'[t].own = th[t].own
      /\ th'[t].pc = "store" => th'[t].other = Head(wire)
      /\ th'[t].pc # "answered"
      /\ \A u \in Threads \ {t} : th'[u] = th[u]
  <2>1. CASE rxbufstat[Head(wire).idx] = "TX"
    <3> DEFINE rec == [th[t] EXCEPT !.pc = "store", !.other = Head(wire)]
    <3>1. rec.pc = "store" /\ rec.own = th[t].own /\ rec.other = Head(wire)
      BY DEF IndInv, Types, Thread
    <3>2. th' = [th EXCEPT ![t] = rec]
      BY <2>1 DEF RecvOther, Set
    <3> HIDE DEF rec
    <3> QED
      BY <3>1, <3>2 DEF IndInv, Types
  <2>2. CASE rxbufstat[Head(wire).idx] # "TX"
    BY <2>2, HandGoto DEF RecvOther
  <2> QED
    BY <2>1, <2>2
<1>3. \A k \in 1 .. Len(wire') : wire'[k] \in Live
  BY <1>1, WireLive
<1>4. th'[t].pc = "store" => th'[t].other \in Live
  BY <1>1, <1>2, WireLive
<1>5. Quiet
  BY <1>1, <1>2, <1>3, <1>4, QuietHand
<1>6. Answers'
  BY <1>1, <1>2, <1>5, AnswersKept
<1> QED
  BY <1>5, <1>6, QuietInv DEF FrameInv

(* The frame in the hand of the storing thread is of use: whoever has its  *)
(* slot waits for it.                                                      *)
LEMMA StoreOtherFrames ==
  ASSUME IndInv, IndInv', FrameInv, NEW t \in Threads, StoreOther(t)
  PROVE  FrameInv'
<1> DEFINE g == th[t].other
<1>1. /\ th[t].pc = "store" /\ th[t].pc \in Working
      /\ UNCHANGED <<lastidx, requests, idxstack, wire>>
      /\ rxbuf' = [rxbuf EXCEPT ![g.idx] = g.req]
      /\ rxbufstat' = [rxbufstat EXCEPT ![g.idx] = "RCVD"]
  BY DEF StoreOther, Working, Waiting
<1>2. g \in Live /\ g.idx \in Idx
  BY <1>1 DEF FrameInv, StoreOK, Live, Frame
<1>3. /\ th'[t].own = th[t].own /\ th'[t].pc = "timer"
      /\ \A u \in Threads \ {t} : th'[u] = th[u]
  BY DEF StoreOther, Set, IndInv, Types, Thread
<1>4. \A i \in Idx : rxbufstat'[i] = rxbufstat[i] \/
                     (i = g.idx /\ rxbufstat'[i] = "RCVD")
  BY <1>1, <1>2 DEF IndInv, Types
<1>5. Quiet
  BY <1>1, <1>3, <1>4, QuietHand, WireLive
<1>6. \A u \in Threads : th'[u].pc = "answered" =>
        /\ th'[u].own = th[u].own /\ th[u].own \in Held(u)
        /\ th[u].pc = "answered"
  BY <1>3 DEF Held
<1>7. Answers'
  BY <1>1, <1>2, <1>4, <1>5, <1>6, AnswersStored
<1> QED
  BY <1>5, <1>7, QuietInv DEF FrameInv

LEMMA GiveUpFrames ==
  ASSUME IndInv, IndInv', FrameInv, NEW t \in Threads, GiveUp(t)
  PROVE  FrameInv'
<1>1. /\ th[t].pc = "timer" /\ th[t].pc \in Working
      /\ UNCHANGED <<lastidx, requests, idxstack, wire, rxbuf>>
  BY DEF GiveUp, Working, Waiting
<1>2. th[t].own.idx \in Idx
  BY <1>1, HeldFrames DEF Frame
<1>3. /\ th'[t].pc = "gaveup" /\ th'[t].own = th[t].own
      /\ \A u \in Threads \ {t} : th'[u] = th[u]
  BY HandGoto DEF GiveUp
<1>4. \A i \in Idx : rxbufstat'[i] = rxbufstat[i] \/
                     (i = th[t].own.idx /\ rxbufstat'[i] = "EMPTY")
  BY <1>2 DEF GiveUp, Cleared, IndInv, Types
<1>5. Quiet
  BY <1>1, <1>3, <1>4, QuietHand, WireLive
<1>6. Answers'
  BY <1>1, <1>3, <1>4, <1>5, AnswersKept
<1> QED
  BY <1>5, <1>6, QuietInv DEF FrameInv

(* The frame goes out, and to the stack when it is one of an exchange.     *)
LEMMA OutFrameFrames ==
  ASSUME IndInv, IndInv', FrameInv, NEW t \in Threads, OutFrame(t)
  PROVE  FrameInv'
<1> DEFINE own == th[t].own
           process == th[t].call = "process"
<1>1. /\ th[t].pc = "outframe" /\ th[t].pc \in Working
      /\ process => t = Handler
      /\ wire \in Seq(Frame) /\ idxstack \in Seq(Frame)
      /\ UNCHANGED <<lastidx, requests, rxbuf>>
      /\ idxstack' = IF process THEN Append(idxstack, own) ELSE idxstack
      /\ wire' \in {wire, Append(wire, own)}
  BY DEF OutFrame, PushIndex, Working, Waiting, IndInv, Types, HandOK
<1>2. /\ own \in Held(t) /\ own \in Live /\ own \in Frame
      /\ own.idx \in Idx /\ own.idx \in AllHeld
  BY <1>1, HeldFrames DEF Frame
<1>3. /\ th'[t].pc \in {"pd", "poll"} /\ th'[t].own = own
      /\ \A u \in Threads \ {t} : th'[u] = th[u]
  BY HandGoto DEF OutFrame
<1>4. \A i \in Idx : rxbufstat'[i] = rxbufstat[i] \/
                     (i = own.idx /\ rxbufstat'[i] \in {"TX", "EMPTY"})
  BY <1>2 DEF OutFrame, IndInv, Types
<1>5. \A k \in 1 .. Len(wire') : wire'[k] \in Live
  <2>1. \A k \in 1 .. Len(Append(wire, own)) :
          \/ k \in 1 .. Len(wire) /\ Append(wire, own)[k] = wire[k]
          \/ Append(wire, own)[k] = own
    BY <1>1, <1>2
  <2> QED
    BY <1>1, <1>2, <2>1, WireLive
<1>6. \A u \in Threads : Held(u)' \subseteq Held(u)
  <2>1. \A k \in 1 .. Len(idxstack') :
          \/ k \in 1 .. Len(idxstack) /\ idxstack'[k] = idxstack[k]
          \/ process /\ idxstack'[k] = own
    <3>1. \A k \in 1 .. Len(Append(idxstack, own)) :
            \/ k \in 1 .. Len(idxstack) /\ Append(idxstack, own)[k] = idxstack[k]
            \/ Append(idxstack, own)[k] = own
      BY <1>1, <1>2
    <3> QED
      BY <1>1, <3>1
  <2>2. th'[t].pc \notin {"idle"} /\ th[t].pc \notin {"idle", "pd"}
    BY <1>1, <1>3
  <2>3. process => t = Handler
    BY <1>1
  <2> HIDE DEF process
  <2>4. Held(t)' \subseteq Held(t)
    BY <1>3, <2>1, <2>2, <2>3 DEF Held
  <2>5. \A u \in Threads \ {t} : Held(u)' \subseteq Held(u)
    BY <1>3, <2>1, <2>3 DEF Held
  <2> QED
    BY <2>4, <2>5
<1>7. Quiet
  BY <1>1, <1>2, <1>3, <1>4, <1>5, <1>6 DEF Quiet, FrameInv, StoreOK, Live
<1>8. Answers'
  BY <1>1, <1>3, <1>4, <1>7, AnswersKept
<1> QED
  BY <1>7, <1>8, QuietInv DEF FrameInv

(* The oldest frame of the exchange comes from the stack to the hand.      *)
LEMMA ReceiveSegmentFrames ==
  ASSUME IndInv, IndInv', FrameInv, ReceiveSegment
  PROVE  FrameInv'
<1>1. /\ Handler \in Threads /\ idxstack # <<>> /\ idxstack \in Seq(Frame)
      /\ UNCHANGED <<rxbufstat, rxbuf, lastidx, idxstack, requests, wire>>
  BY PortAssumption DEF ReceiveSegment, IndInv, Types, HandOK, Pcs
<1>2. /\ th'[Handler].pc = "poll" /\ th'[Handler].own = Head(idxstack)
      /\ \A u \in Threads \ {Handler} : th'[u] = th[u]
  BY <1>1 DEF ReceiveSegment, Set, Idle, IndInv, Types
<1>3. 1 \in 1 .. Len(idxstack) /\ Head(idxstack) = idxstack[1]
  BY <1>1
<1>4. \A u \in Threads : Held(u)' \subseteq Held(u)
  BY <1>1, <1>2, <1>3 DEF Held
<1>5. Quiet
  BY <1>1, <1>2, <1>4, WireLive DEF Quiet, FrameInv, StoreOK, Live
<1>6. Answers'
  BY <1>1, <1>2, <1>5, AnswersKept
<1> QED
  BY <1>5, <1>6, QuietInv DEF FrameInv

(* The slot of the hand is cleared; the next frame is one of the stack.    *)
LEMMA ReleaseFrames ==
  ASSUME IndInv, IndInv', FrameInv, NEW t \in Threads, Release(t)
  PROVE  FrameInv'
<1> DEFINE process == th[t].call = "process"
           rest == IF process THEN Tail(idxstack) ELSE idxstack
           rec == IF process /\ rest # <<>>
                  THEN [Idle EXCEPT !.pc = "poll", !.call = "process",
                                    !.own = Head(rest)]
                  ELSE Idle
           own == th[t].own
<1>1. /\ th[t].pc \in Working /\ th[t].pc \in Waiting
      /\ process => t = Handler /\ idxstack # <<>>
      /\ idxstack \in Seq(Frame)
      /\ idxstack' = rest /\ Set(t, rec)
      /\ UNCHANGED <<rxbuf, lastidx, requests, wire>>
  BY DEF Release, IndInv, Types, HandOK, Working, Waiting
<1>2. own \in Held(t) /\ own.idx \in Idx /\ own.idx \in AllHeld
  BY <1>1, HeldFrames DEF Frame
<1>3. \A i \in Idx : rxbufstat'[i] = rxbufstat[i] \/
                     (i = own.idx /\ rxbufstat'[i] = "EMPTY")
  BY <1>2 DEF Release, Cleared, IndInv, Types
<1>4. \A k \in 1 .. Len(rest) :
        \E l \in 1 .. Len(idxstack) : rest[k] = idxstack[l]
  <2>1. process => \A k \in 1 .. Len(Tail(idxstack)) :
          k + 1 \in 1 .. Len(idxstack) /\ Tail(idxstack)[k] = idxstack[k + 1]
    BY <1>1
  <2> QED
    BY <2>1
<1>5. rest \in Seq(Frame)
  BY <1>1
<1>6. /\ rec.pc \in {"idle", "poll"}
      /\ rec.pc = "poll" => process /\ rest # <<>> /\ rec.own = Head(rest)
  <2>1. CASE process /\ rest # <<>>
    <3> HIDE DEF rest
    <3> QED
      BY <2>1 DEF Idle
  <2>2. CASE ~(process /\ rest # <<>>)
    <3>1. rec = Idle
      BY <2>2
    <3> HIDE DEF rec, rest
    <3> QED
      BY <3>1 DEF Idle
  <2> QED
    BY <2>1, <2>2
<1>7. th'[t] = rec /\ \A u \in Threads \ {t} : th'[u] = th[u]
  BY <1>1 DEF Set, IndInv, Types
<1> HIDE DEF rec
<1>8. \A u \in Threads : Held(u)' \subseteq Held(u)
  <2>1. rest # <<>> => 1 \in 1 .. Len(rest) /\ Head(rest) = rest[1]
    BY <1>5
  <2>2. idxstack' = rest
    BY <1>1
  <2>3. process => t = Handler
    BY <1>1
  <2> HIDE DEF rest, process
  <2> QED
    BY <1>4, <1>6, <1>7, <2>1, <2>2, <2>3 DEF Held
<1>9. Quiet
  <2>1. \A u \in Threads : th'[u].pc = "store" => th'[u].other \in Live
    BY <1>6, <1>7 DEF FrameInv, StoreOK, Live
  <2> QED
    BY <1>1, <1>2, <1>3, <1>8, <2>1, WireLive DEF Quiet
<1>10. Answers'
  <2>1. \A i \in Idx : rxbufstat'[i] = "RCVD" => rxbufstat[i] = "RCVD"
    BY <1>3
  <2>2. \A u \in Threads : th'[u].pc = "answered" =>
          th'[u].own = th[u].own /\ th[u].pc = "answered"
    BY <1>6, <1>7
  <2> QED
    BY <1>1, <1>9, <2>1, <2>2, AnswersKept
<1> QED
  BY <1>9, <1>10, QuietInv DEF FrameInv

(* The ring loses a frame, or nothing happens.                             *)
LEMMA RestFrames ==
  ASSUME IndInv, IndInv', FrameInv, Lose \/ UNCHANGED vars
  PROVE  FrameInv'
<1>1. UNCHANGED <<rxbufstat, rxbuf, lastidx, idxstack, requests, th>>
  BY DEF Lose, vars
<1>2. \A k \in 1 .. Len(wire') : wire'[k] \in Live
  BY WireLive DEF Lose, vars
<1>3. Quiet
  BY <1>1, <1>2 DEF Quiet, Held, FrameInv, StoreOK, Live
<1>4. Answers'
  BY <1>1, <1>3, AnswersKept
<1> QED
  BY <1>3, <1>4, QuietInv DEF FrameInv

-----------------------------------------------------------------------------
(* The step that hands one out.                                            *)

(* A set of numbers has a least one.                                       *)
LEMMA LeastNat ==
  ASSUME NEW S, S \subseteq Nat, S # {}
  PROVE  \E m \in S : \A n \in S : m <= n
<1> DEFINE R == OpToRel(<, Nat)
<1>1. IsWellFoundedOn(R, Nat)
  BY NatLessThanWellFounded
<1>2. \A m, n \in Nat : m < n => <<m, n>> \in R
  BY DEF OpToRel
<1> HIDE DEF R
<1>3. \E m \in S : \A n \in S : ~ (<<n, m>> \in R)
  BY <1>1, WFMin
<1>4. \A m, n \in S : ~ (<<n, m>> \in R) => m <= n
  BY <1>2
<1> QED
  BY <1>3, <1>4

(* What the environment promises, of every frame of use.                   *)
LEMMA Young ==
  ASSUME IndInv, FrameInv, Timely, NEW f \in Live
  PROVE  /\ f.idx \in Idx /\ f.req \in Nat /\ requests \in Nat
         /\ Behind(f.idx) \in 0 .. EC_MAXBUF - 1
         /\ Cardinality(Leaked \cap Arc(f.idx)) \in Nat
         /\ Behind(f.idx) + MaxLeaks + 1
              < EC_MAXBUF + Cardinality(Leaked \cap Arc(f.idx))
<1>1. /\ f \in Frame /\ f.idx \in Idx /\ f.req \in Nat
      /\ lastidx \in Idx /\ requests \in Nat
  BY PortAssumption DEF Live, Frame, Requests, IndInv, Types
<1>2. Behind(f.idx) \in 0 .. EC_MAXBUF - 1
  BY <1>1, CandidateBehind
<1>3. Cardinality(Leaked \cap Arc(f.idx)) \in Nat
  BY LeakedFinite DEF Arc
<1>4. requests - f.req < MaxAge \/ requests - f.req < MaxHold
  BY DEF Live, Timely
<1>5. /\ MaxAge + MaxLeaks < EC_MAXBUF /\ MaxHold + MaxLeaks < EC_MAXBUF
      /\ MaxAge \in Nat /\ MaxHold \in Nat /\ MaxLeaks \in Nat
      /\ EC_MAXBUF \in Nat
  BY PortAssumption, TimingAssumption
<1>6. Behind(f.idx) <= (requests - f.req) + Cardinality(Leaked \cap Arc(f.idx))
  BY DEF FrameInv, Near
<1> DEFINE c == Cardinality(Leaked \cap Arc(f.idx))
           b == Behind(f.idx)
<1>7. b + MaxLeaks + 1 < EC_MAXBUF + c
  <2> b \in Int /\ c \in Int /\ b <= (requests - f.req) + c
    BY <1>2, <1>3, <1>6
  <2> HIDE DEF b, c
  <2> QED
    BY <1>1, <1>4, <1>5
<1> QED
  BY <1>1, <1>2, <1>3, <1>7

(* The scan stops before it comes round to a slot that is still of use:    *)
(* up to the first one it would have passed leaked slots only, and they    *)
(* are too few.                                                            *)
LEMMA ScanStopsShort ==
  ASSUME IndInv, FrameInv, Timely, NEW k \in 1 .. EC_MAXBUF,
         \A j \in 1 .. k - 1 : rxbufstat[Candidate(j)] # "EMPTY",
         NEW f \in Live
  PROVE  k + Behind(f.idx) < EC_MAXBUF
<1>0. \A g \in Live : Behind(g.idx) \in 0 .. EC_MAXBUF - 1
  BY Young
<1> SUFFICES ASSUME EC_MAXBUF - Behind(f.idx) <= k PROVE FALSE
  BY <1>0, PortAssumption
<1> DEFINE Ahead == {EC_MAXBUF - Behind(g.idx) : g \in Live}
<1>1. EC_MAXBUF \in Nat \ {0} /\ lastidx \in Idx /\ k \in Nat /\ k <= EC_MAXBUF
  BY PortAssumption DEF IndInv, Types
<1>2. Ahead \subseteq Nat /\ Ahead # {}
  BY <1>0, <1>1
<1>3. PICK m \in Ahead : \A n \in Ahead : m <= n
  BY <1>2, LeastNat
<1>4. PICK g \in Live : m = EC_MAXBUF - Behind(g.idx)
  BY <1>3
<1>5. Behind(g.idx) \in 0 .. EC_MAXBUF - 1
  BY Young
<1>6. m \in 1 .. k /\ Behind(g.idx) = EC_MAXBUF - m
  <2>1. m <= EC_MAXBUF - Behind(f.idx)
    BY <1>3
  <2> QED
    BY <1>0, <1>1, <1>4, <1>5, <2>1
<1>7. Passed(m - 1) \subseteq Leaked
  <2> SUFFICES ASSUME NEW j \in 1 .. m - 1 PROVE Candidate(j) \in Leaked
    BY DEF Passed
  <2>1. j \in 1 .. EC_MAXBUF /\ j \in 1 .. k - 1 /\ j < m
    BY <1>1, <1>6
  <2>2. Candidate(j) \in Idx /\ Behind(Candidate(j)) = EC_MAXBUF - j
    BY <1>1, <2>1, CandidateBehind
  <2>3. ASSUME Candidate(j) \in AllHeld PROVE FALSE
    <3>1. PICK t \in Threads : \E h \in Held(t) : h.idx = Candidate(j)
      BY <2>3 DEF AllHeld, HeldIdx
    <3>2. PICK h \in Live : h.idx = Candidate(j)
      BY <3>1, HeldFrames
    <3>3. EC_MAXBUF - Behind(h.idx) \in Ahead
      OBVIOUS
    <3> QED
      BY <1>1, <1>3, <1>6, <2>1, <2>2, <3>2, <3>3
  <2> QED
    BY <2>1, <2>2, <2>3 DEF Leaked
<1>8. Passed(m - 1) \cap (Leaked \cap Arc(g.idx)) = {}
  <2>1. \A j \in 1 .. m - 1 : Behind(Candidate(j)) = EC_MAXBUF - j
    BY <1>1, <1>6, CandidateBehind
  <2>2. \A j \in 1 .. m - 1 : ~(EC_MAXBUF - j < EC_MAXBUF - m)
    BY <1>1, <1>6
  <2> QED
    BY <1>6, <2>1, <2>2 DEF Passed, Arc
<1> DEFINE X == Passed(m - 1)
           Y == Leaked \cap Arc(g.idx)
<1>9. IsFiniteSet(X) /\ Cardinality(X) = m - 1
  BY <1>1, <1>6, PassedCount
<1>10. /\ IsFiniteSet(Y) /\ Cardinality(Y) \in Nat
       /\ IsFiniteSet(Leaked) /\ Cardinality(Leaked) \in Nat
  BY LeakedFinite DEF Leaked
<1>11. X \cup Y \subseteq Leaked /\ X \cap Y = {}
  BY <1>7, <1>8
<1>12. Behind(g.idx) + MaxLeaks + 1 < EC_MAXBUF + Cardinality(Y)
  BY Young
<1> HIDE DEF X, Y
<1>13. Cardinality(X \cup Y) = (m - 1) + Cardinality(Y)
  <2>1. Cardinality(X \cap Y) = 0
    BY <1>11, FS_EmptySet
  <2>2. Cardinality(X \cup Y)
          = Cardinality(X) + Cardinality(Y) - Cardinality(X \cap Y)
    BY <1>9, <1>10, FS_Union
  <2> QED
    BY <1>1, <1>6, <1>9, <1>10, <2>1, <2>2
<1>14. Cardinality(X \cup Y) <= Cardinality(Leaked)
  BY <1>10, <1>11, FS_Subset
<1>15. Cardinality(Leaked) <= MaxLeaks /\ MaxLeaks \in Nat
  BY PortAssumption DEF Timely
<1> QED
  BY <1>1, <1>6, <1>10, <1>12, <1>13, <1>14, <1>15

(* What the scan does to the distances. *)
LEMMA ScanMoves ==
  ASSUME lastidx \in Idx, NEW k \in 1 .. EC_MAXBUF, lastidx' = Candidate(k)
  PROVE  /\ \A i \in Idx : Behind(i) + k < EC_MAXBUF => Behind(i)' = Behind(i) + k
         /\ \A c \in 1 .. k : \A i : i = Candidate(c) => Behind(i)' = k - c
<1>1. EC_MAXBUF \in Nat \ {0} /\ lastidx \in 0 .. EC_MAXBUF - 1
  BY PortAssumption DEF Idx
<1>2. \A c \in 1 .. EC_MAXBUF :
        Candidate(c) = IF lastidx + c < EC_MAXBUF THEN lastidx + c
                       ELSE lastidx + c - EC_MAXBUF
  BY <1>1, ModWrap DEF Candidate
<1>3. lastidx' = IF lastidx + k < EC_MAXBUF THEN lastidx + k
                 ELSE lastidx + k - EC_MAXBUF
  BY <1>2
<1>4. ASSUME NEW i \in Idx, Behind(i) + k < EC_MAXBUF
      PROVE  Behind(i)' = Behind(i) + k
  BY <1>1, <1>3, <1>4 DEF Behind, Idx
<1>5. ASSUME NEW c \in 1 .. k, NEW i, i = Candidate(c) PROVE Behind(i)' = k - c
  <2>1. c \in 1 .. EC_MAXBUF
    BY <1>1
  <2>2. i = IF lastidx + c < EC_MAXBUF THEN lastidx + c
            ELSE lastidx + c - EC_MAXBUF
    BY <1>2, <1>5, <2>1
  <2> QED
    BY <1>1, <1>3, <2>2 DEF Behind
<1> QED
  BY <1>4, <1>5

(* A request more, and the scan farther by the leaked slots that it passed. *)
LEMMA TakeSlotFrames ==
  ASSUME IndInv, IndInv', FrameInv, Timely, NEW t \in Threads, NEW call,
         TakeSlot(t, call), th[t].pc \in {"idle", "pd"}
  PROVE  FrameInv'
<1>1. PICK i \in Idx :
        /\ Handed(i)
        /\ rxbufstat' = [rxbufstat EXCEPT ![i] = "ALLOC"]
        /\ lastidx' = i
        /\ requests' = requests + 1
        /\ Set(t, [Idle EXCEPT !.pc = "outframe", !.call = call,
                               !.own = [idx |-> i, req |-> requests + 1]])
        /\ UNCHANGED <<rxbuf, rx_mutex, idxstack, wire>>
  BY DEF TakeSlot
<1>2. PICK k \in 1 .. EC_MAXBUF :
        /\ i = Candidate(k)
        /\ \A j \in 1 .. k - 1 : rxbufstat[Candidate(j)] # "EMPTY"
  BY <1>1, PortAssumption DEF Handed
<1> DEFINE new == [idx |-> i, req |-> requests + 1]
<1>3. /\ EC_MAXBUF \in Nat \ {0} /\ lastidx \in Idx /\ requests \in Nat
      /\ k \in Nat \ {0} /\ k <= EC_MAXBUF
  BY PortAssumption DEF IndInv, Types
<1>4. /\ \A f \in Live : /\ f.idx \in Idx /\ f.req \in Nat
                         /\ Behind(f.idx) \in 0 .. EC_MAXBUF - 1
                         /\ k + Behind(f.idx) < EC_MAXBUF
  BY <1>1, <1>2, Young, ScanStopsShort
<1>5. /\ \A j \in Idx : Behind(j) + k < EC_MAXBUF => Behind(j)' = Behind(j) + k
      /\ \A c \in 1 .. k : \A j : j = Candidate(c) => Behind(j)' = k - c
  BY <1>1, <1>2, <1>3, ScanMoves
<1>6. Behind(i) = EC_MAXBUF - k /\ Behind(i)' = 0
  <2>1. Behind(i) = EC_MAXBUF - k
    BY <1>2, <1>3, CandidateBehind
  <2>2. k \in 1 .. k /\ k - k = 0
    BY <1>3
  <2> QED
    BY <1>2, <1>5, <2>1, <2>2
<1>7. \A f \in Live : Behind(f.idx)' = Behind(f.idx) + k /\ f.idx # i
  <2> SUFFICES ASSUME NEW f \in Live
               PROVE  Behind(f.idx)' = Behind(f.idx) + k /\ f.idx # i
    OBVIOUS
  <2>1. Behind(f.idx) + k < EC_MAXBUF /\ f.idx \in Idx
    BY <1>3, <1>4
  <2>2. f.idx # i
    BY <1>3, <1>4, <1>6, <2>1
  <2> QED
    BY <1>5, <2>1, <2>2
<1>8. /\ th'[t].pc = "outframe" /\ th'[t].own = new
      /\ \A u \in Threads \ {t} : th'[u] = th[u]
  <2> DEFINE rec == [Idle EXCEPT !.pc = "outframe", !.call = call, !.own = new]
  <2>1. rec.pc = "outframe" /\ rec.own = new
    BY DEF Idle
  <2>2. th' = [th EXCEPT ![t] = rec]
    BY <1>1 DEF Set
  <2> HIDE DEF rec
  <2> QED
    BY <2>1, <2>2 DEF IndInv, Types
<1>9. new.idx = i /\ new.req = requests + 1
  OBVIOUS
<1> HIDE DEF new
<1>10. /\ Held(t)' = Held(t) \cup {new}
       /\ \A u \in Threads \ {t} : Held(u)' = Held(u)
  BY <1>1, <1>8 DEF Held
<1>11. Live' \subseteq Live \cup {new}
  <2> SUFFICES ASSUME NEW f \in Live', f # new PROVE f \in Live
    OBVIOUS
  <2>1. f \in Frame
    BY DEF Live, Frame, Idx
  <2> QED
    BY <1>1, <1>8, <1>10, <2>1 DEF Live
<1>12. \A f \in Live : f.req <= requests
  BY DEF FrameInv, Near
<1>13. Passed(k - 1) \subseteq Leaked
  <2> SUFFICES ASSUME NEW j \in 1 .. k - 1 PROVE Candidate(j) \in Leaked
    BY DEF Passed
  <2>1. j \in 1 .. EC_MAXBUF
    BY <1>3
  <2>2. Candidate(j) \in Idx /\ Behind(Candidate(j)) = EC_MAXBUF - j
    BY <1>3, <2>1, CandidateBehind
  <2>3. ASSUME Candidate(j) \in AllHeld PROVE FALSE
    <3>1. PICK u \in Threads : \E h \in Held(u) : h.idx = Candidate(j)
      BY <2>3 DEF AllHeld, HeldIdx
    <3>2. PICK h \in Live : h.idx = Candidate(j)
      BY <3>1, HeldFrames
    <3> QED
      BY <1>3, <1>4, <2>2, <3>2
  <2> QED
    BY <1>2, <2>2, <2>3 DEF Leaked
<1>14. Leaked \ {i} \subseteq Leaked'
  <2>1. AllHeld' \subseteq AllHeld \cup {i}
    BY <1>9, <1>10 DEF AllHeld, HeldIdx
  <2>2. \A j \in Idx : j # i => rxbufstat'[j] = rxbufstat[j]
    BY <1>1 DEF IndInv, Types
  <2> QED
    BY <2>1, <2>2 DEF Leaked, Idx
<1>15. Near'
  <2> SUFFICES ASSUME NEW f \in Live'
               PROVE  /\ f.req <= requests'
                      /\ Behind(f.idx)' <= (requests' - f.req)
                           + Cardinality(Leaked \cap Arc(f.idx))'
    BY DEF Near
  <2> DEFINE Z == (Leaked \cap Arc(f.idx))'
  <2>1. Z \subseteq Idx
    BY DEF Leaked, Idx
  <2>2. IsFiniteSet(Z) /\ Cardinality(Z) \in Nat
    BY <2>1, LeakedFinite
  <2>3. Cardinality(Leaked \cap Arc(f.idx))' = Cardinality(Z)
    OBVIOUS
  <2>4. CASE f = new
    <3> HIDE DEF Z
    <3> QED
      BY <1>1, <1>3, <1>6, <1>9, <2>2, <2>3, <2>4
  <2>5. CASE f \in Live
    <3> DEFINE X == Passed(k - 1)
               Y == Leaked \cap Arc(f.idx)
    <3>1. IsFiniteSet(X) /\ Cardinality(X) = k - 1
      BY <1>3, PassedCount
    <3>2. IsFiniteSet(Y) /\ Cardinality(Y) \in Nat
      BY LeakedFinite DEF Leaked
    <3>3. \A j \in X : j \in Idx /\ Behind(j) > EC_MAXBUF - k
                       /\ Behind(j)' < k
      <4> SUFFICES ASSUME NEW c \in 1 .. k - 1, NEW j, j = Candidate(c)
                   PROVE  j \in Idx /\ Behind(j) > EC_MAXBUF - k /\ Behind(j)' < k
        BY DEF Passed
      <4>1. c \in 1 .. EC_MAXBUF /\ c \in 1 .. k
        BY <1>3
      <4>2. j \in Idx /\ Behind(j) = EC_MAXBUF - c
        BY <1>3, <4>1, CandidateBehind
      <4>3. Behind(j)' = k - c
        BY <1>5, <4>1
      <4> QED
        BY <1>3, <4>2, <4>3
    <3>4. \A j \in Y : /\ j \in Idx /\ Behind(j) < Behind(f.idx)
                       /\ Behind(j) \in 0 .. EC_MAXBUF - 1
                       /\ Behind(j)' = Behind(j) + k
      <4> SUFFICES ASSUME NEW j \in Y
                   PROVE  /\ j \in Idx /\ Behind(j) < Behind(f.idx)
                          /\ Behind(j) \in 0 .. EC_MAXBUF - 1
                          /\ Behind(j)' = Behind(j) + k
        OBVIOUS
      <4>1. j \in Idx /\ Behind(j) < Behind(f.idx)
        BY DEF Arc
      <4>2. Behind(j) \in 0 .. EC_MAXBUF - 1
        BY <1>3, <4>1, CandidateBehind
      <4>3. Behind(j) + k < EC_MAXBUF
        BY <1>3, <1>4, <2>5, <4>1, <4>2
      <4> QED
        BY <1>5, <4>1, <4>2, <4>3
    <3>5. X \cap Y = {}
      <4> HIDE DEF X, Y
      <4> QED
        BY <1>3, <1>4, <2>5, <3>3, <3>4
    <3>6. X \cup Y \subseteq Z
      <4>1. X \cup Y \subseteq Leaked \ {i}
        <5>1. \A j \in X \cup Y : j # i
          <6> HIDE DEF X, Y
          <6> QED
            BY <1>3, <1>4, <1>6, <2>5, <3>3, <3>4
        <5> QED
          BY <1>13, <5>1
      <4>2. \A j \in X \cup Y : Behind(j)' < Behind(f.idx)'
        <5>1. Behind(f.idx)' = Behind(f.idx) + k
          BY <1>7, <2>5
        <5>2. Behind(f.idx) \in Nat /\ k \in Nat
          BY <1>3, <1>4, <2>5
        <5>3. k <= Behind(f.idx) + k
          BY <5>2
        <5>4. ASSUME NEW j \in X PROVE Behind(j)' < Behind(f.idx) + k
          <6>1. \E c \in 1 .. k - 1 : j = Candidate(c)
            BY DEF Passed
          <6>2. \E c \in 1 .. k : c \in Nat \ {0} /\ Behind(j)' = k - c
            BY <1>3, <1>5, <6>1
          <6> QED
            BY <5>2, <6>2
        <5>5. ASSUME NEW j \in Y PROVE Behind(j)' < Behind(f.idx) + k
          <6>1. /\ Behind(j) < Behind(f.idx) /\ Behind(j) \in Int
                /\ Behind(j)' = Behind(j) + k
            BY <3>4
          <6> QED
            BY <5>2, <6>1
        <5> HIDE DEF X, Y
        <5> QED
          BY <5>1, <5>4, <5>5
      <4>3. \A j \in X \cup Y : j \in Idx
        BY <3>3, <3>4
      <4> HIDE DEF X, Y
      <4> QED
        BY <1>14, <4>1, <4>2, <4>3 DEF Arc, Idx
    <3> HIDE DEF X, Z
    <3>7. Cardinality(X \cup Y) = (k - 1) + Cardinality(Y)
      <4>1. Cardinality(X \cap Y) = 0
        BY <3>5, FS_EmptySet
      <4>2. Cardinality(X \cup Y)
              = Cardinality(X) + Cardinality(Y) - Cardinality(X \cap Y)
        BY <3>1, <3>2, FS_Union
      <4> QED
        BY <1>3, <3>1, <3>2, <4>1, <4>2
    <3>8. Cardinality(X \cup Y) <= Cardinality(Z)
      BY <2>2, <3>6, FS_Subset
    <3>9. Behind(f.idx) <= (requests - f.req) + Cardinality(Y)
      BY <2>5 DEF FrameInv, Near
    <3> HIDE DEF Y
    <3> QED
      BY <1>1, <1>3, <1>4, <1>7, <1>12, <2>2, <2>3, <2>5, <3>2, <3>7, <3>8, <3>9
  <2> QED
    BY <1>11, <2>4, <2>5
<1>16. Ordered'
  <2> SUFFICES ASSUME NEW f \in Live', NEW g \in Live'
               PROVE  /\ f.req < g.req => Behind(g.idx)' < Behind(f.idx)'
                      /\ f.req = g.req => f = g
    BY DEF Ordered
  <2>1. CASE f \in Live /\ g \in Live
    BY <1>3, <1>4, <1>7, <2>1 DEF FrameInv, Ordered
  <2>2. CASE f \in Live /\ g = new
    BY <1>3, <1>4, <1>6, <1>7, <1>9, <1>12, <2>2
  <2>3. CASE f = new /\ g \in Live
    BY <1>3, <1>4, <1>9, <1>12, <2>3
  <2>4. CASE f = new /\ g = new
    BY <1>3, <1>9, <2>4
  <2> QED
    BY <1>11, <2>1, <2>2, <2>3, <2>4
<1>17. Owned'
  <2>1. \A u \in Threads : \A g \in Held(u) : g.req # new.req
    BY <1>3, <1>4, <1>9, <1>12, HeldFrames
  <2> QED
    BY <1>10, <2>1 DEF FrameInv, Owned
<1>18. Answers'
  <2>1. ASSUME NEW u \in Threads, NEW f \in Held(u)', rxbufstat'[f.idx] = "RCVD"
        PROVE  rxbuf'[f.idx] = f.req
    <3>1. f # new
      BY <1>1, <1>9, <2>1 DEF IndInv, Types
    <3>2. f \in Held(u) /\ f \in Live
      BY <1>10, <2>1, <3>1, HeldFrames
    <3>3. rxbufstat'[f.idx] = rxbufstat[f.idx]
      BY <1>1, <1>4, <1>7, <3>2 DEF IndInv, Types
    <3> QED
      BY <1>1, <2>1, <3>2, <3>3 DEF FrameInv, Answers
  <2>2. ASSUME NEW u \in Threads, th'[u].pc = "answered"
        PROVE  rxbuf'[th'[u].own.idx] = th'[u].own.req
    BY <1>1, <1>8, <2>2 DEF FrameInv, Answers
  <2> QED
    BY <2>1, <2>2 DEF Answers
<1>19. StoreOK'
  BY <1>8 DEF FrameInv, StoreOK, Frame, Idx
<1> QED
  BY <1>15, <1>16, <1>17, <1>18, <1>19 DEF FrameInv

-----------------------------------------------------------------------------
LEMMA InitFrames == Init => FrameInv
<1> SUFFICES ASSUME Init PROVE FrameInv
  OBVIOUS
<1>1. \A t \in Threads : th[t].pc = "idle" /\ Held(t) = {}
  BY DEF Init, Idle, Held
<1>2. Live = {}
  BY <1>1 DEF Init, Live
<1> QED
  BY <1>1, <1>2 DEF FrameInv, Near, Ordered, Owned, Answers, StoreOK

LEMMA FrameInvariance == Spec => [](IndInv /\ (timely => FrameInv))
<1>1. ASSUME IndInv, IndInv', timely => FrameInv, timely', NEW t \in Threads, Step(t)
      PROVE  FrameInv'
  <2>1. CASE Primitive(t)
    <3>1. th[t].pc = "idle" /\ TakeSlot(t, "primitive") /\ timely /\ Timely
      BY <1>1, <2>1 DEF Primitive, TakeSlot
    <3> QED
      BY <1>1, <3>1, TakeSlotFrames
  <2>2. CASE ~ Primitive(t)
    <3>1. timely' = timely
      BY <1>1, <2>2
      DEF Step, OutFrame, FindReceived, RecvNothing, RecvOwn, RecvOther,
          StoreOther, PollAgain, Resend, GiveUp, Release
    <3> QED
      BY <1>1, <2>2, <3>1, OutFrameFrames, FindReceivedFrames, WaitFrames,
         RecvOwnFrames, RecvOtherFrames, StoreOtherFrames, GiveUpFrames,
         ReleaseFrames DEF Step
  <2> QED
    BY <2>1, <2>2
<1>2. ASSUME IndInv, IndInv', timely => FrameInv, timely', SendSegment
      PROVE  FrameInv'
  <2>1. /\ Handler \in Threads /\ th[Handler].pc \in {"idle", "pd"}
        /\ TakeSlot(Handler, "process") /\ timely /\ Timely
    BY <1>2, PortAssumption DEF SendSegment, TakeSlot
  <2> QED
    BY <1>2, <2>1, TakeSlotFrames
<1>3. ASSUME IndInv, IndInv', timely => FrameInv, timely',
             ReceiveSegment \/ Lose \/ UNCHANGED vars
      PROVE  FrameInv'
  <2>1. timely' = timely
    BY <1>3 DEF ReceiveSegment, Lose, vars
  <2> QED
    BY <1>3, <2>1, ReceiveSegmentFrames, RestFrames
<1>4. IndInv /\ IndInv' /\ (timely => FrameInv) /\ [Next]_vars => (timely => FrameInv)'
  BY <1>1, <1>2, <1>3 DEF Next
<1> QED
  BY InitFrames, Invariance, <1>4, PTL DEF Spec

(* As long as all was timely, an answer that a call copies out of its slot  *)
(* is the answer to that call's request, though indices come round, frames *)
(* are late, lost or stored by another thread, and calls give up and are   *)
(* repeated (ecx_inframe, ecx_waitinframe_red, ecx_srconfirm).             *)
THEOREM AnswersAreOwn == Spec => []AnswerIsOwn
<1>1. (timely => FrameInv) => AnswerIsOwn
  BY DEF FrameInv, Answers, AnswerIsOwn
<1> QED
  BY FrameInvariance, <1>1, PTL
=============================================================================
