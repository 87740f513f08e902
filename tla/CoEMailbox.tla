------------------------------ MODULE CoEMailbox -----------------------------
(***************************************************************************)
(* SDO transfers over the mailboxes of one slave: the mailbox functions of *)
(* ethercatmain.c (ecx_mbxempty, ecx_mbxsend, ecx_mbxreceive) and          *)
(* ecx_SDOread and ecx_SDOwrite of ethercatcoe.c, expedited and segmented, *)
(* single subindex and complete access.                                    *)
(*                                                                         *)
(* The slave is external: it answers requests in order, keeps its last     *)
(* message for a repeat request, and may send an emergency while it serves *)
(* one.  Which frames may be lost, and whether the slave may be slower     *)
(* than the master's timer, is fixed for a behaviour.  Polling the status  *)
(* of a mailbox is a guard, not a step.  The mailbox counter is left out:  *)
(* no answer's is looked at, and no request is sent twice.                 *)
(***************************************************************************)
EXTENDS Integers, Sequences

CONSTANTS
  Od,            \* object dictionary: Od[index] is the values from subindex 1
  EntryBytes,    \* size of such a value
  Chunk,         \* values that fit in one mailbox
  Environments   \* lossy: the frames that may be lost, slow: whether an answer
                 \* may come after the master's timer has run out; bounds on
                 \* the frames lost (losses), the emergencies sent and
                 \* the calls made

ASSUME MailboxAssumption ==
  /\ Chunk \in Nat \ {0}
  /\ Environments \subseteq [lossy : SUBSET {"write", "read", "repeat"},
                              slow : BOOLEAN, losses : Nat,
                              emergencies : Nat, calls : Nat]

VARIABLES
  env,       \* the environment of this behaviour
  sdo,       \* the transfer under way and, once it is idle, its result
  inMbx,     \* mailbox to the slave (SM0): a request or NoMsg
  outMbx,    \* mailbox from the slave (SM1): a message or NoMsg
  repeatReq, \* repeat request bit of SM1STAT
  repeatAck, \* its acknowledgement in SM1CONTR
  slave,     \* request being served, last message, segmented transfer
  stored,    \* what has been written to the slave, per index
  losses,    \* frames lost so far
  emergencies \* emergencies sent so far

mvars == <<env, sdo, inMbx, outMbx, repeatReq, repeatAck, slave, stored,
           losses, emergencies>>

Indices == DOMAIN Od
ALL == -1        \* complete access to an object, in place of a subindex

(* Objects are numbered from 0x1000 on, their values are natural numbers.  *)
ASSUME DictionaryAssumption ==
  /\ Indices \subseteq Nat
  /\ \A i \in Indices : /\ i >= 4096
                         /\ Od[i] \in Seq(Nat) /\ Len(Od[i]) < 256
                         /\ EntryBytes[i] \in Nat \ {0}

(* What a read of the slave's memory gives. *)
Value(index, sub) ==
  CASE sub = ALL -> <<Len(Od[index])>> \o Od[index]
    [] sub = 0 -> <<Len(Od[index])>>
    [] OTHER -> <<Od[index][sub]>>

Exists(index, sub) ==
  index \in Indices /\ (sub = ALL \/ sub \in 0 .. Len(Od[index]))

(* The size in bytes of such a value; in complete access the number of     *)
(* values takes two.                                                       *)
Bytes(index, sub) ==
  CASE sub = ALL -> 2 + Len(Od[index]) * EntryBytes[index]
    [] sub = 0 -> 1 [] OTHER -> EntryBytes[index]

First(seq) == SubSeq(seq, 1, IF Len(seq) < Chunk THEN Len(seq) ELSE Chunk)
Rest(seq) == SubSeq(seq, Chunk + 1, Len(seq))

Msg(kind, index, sub, data, last, toggle) ==
  [kind |-> kind, index |-> index, sub |-> sub, data |-> data, last |-> last,
   toggle |-> toggle]
NoMsg == Msg("none", 0, 0, <<>>, TRUE, FALSE)

(* pc: idle | drain: about to empty the out mailbox | send: placing a      *)
(* request | wait: for the out mailbox to fill | read: taking the message  *)
(* out | ack: waiting for a repeated message, which the slave acknowledges *)
(* with the bit want.  room is the size of the caller's buffer, left the   *)
(* data still to be written.                                               *)
SdoIdle == [pc |-> "idle", op |-> "read", index |-> 0, sub |-> 0, room |-> 0,
            segment |-> FALSE, toggle |-> FALSE, left |-> <<>>, got |-> <<>>,
            ok |-> FALSE, want |-> FALSE]

SlaveIdle == [todo |-> NoMsg, last |-> NoMsg, op |-> "read", index |-> 0,
              data |-> <<>>, toggle |-> FALSE]

MInit ==
  /\ env \in Environments
  /\ sdo = SdoIdle
  /\ inMbx = NoMsg /\ outMbx = NoMsg
  /\ repeatReq = FALSE /\ repeatAck = FALSE
  /\ slave = SlaveIdle
  /\ stored = [i \in Indices |-> <<>>]
  /\ losses = 0 /\ emergencies = 0

MayLose(frame) == frame \in env.lossy /\ losses < env.losses

-----------------------------------------------------------------------------
(* The master.                                                             *)

SDOread(index, sub, room) ==
  /\ sdo.pc = "idle"
  /\ sdo' = [SdoIdle EXCEPT !.pc = "drain", !.op = "read", !.index = index,
                            !.sub = sub, !.room = room]
  /\ UNCHANGED <<env, inMbx, outMbx, repeatReq, repeatAck, slave, stored,
                 losses, emergencies>>

SDOwrite(index, data) ==
  /\ sdo.pc = "idle"
  /\ sdo' = [SdoIdle EXCEPT !.pc = "drain", !.op = "write", !.index = index,
                            !.sub = ALL, !.left = data, !.got = data]
  /\ UNCHANGED <<env, inMbx, outMbx, repeatReq, repeatAck, slave, stored,
                 losses, emergencies>>

RequestRepeatSet(emptied, lost) ==
  /\ outMbx' = IF emptied THEN NoMsg ELSE outMbx
  /\ repeatReq' = TRUE /\ losses' = losses + lost

(* The read of the out mailbox got lost, before or after the slave saw it, *)
(* or found nothing: the repeat request bit is toggled, by a write whose   *)
(* own result nobody looks at.                                             *)
RequestRepeat(emptied, lost) ==
  /\ outMbx' = IF emptied THEN NoMsg ELSE outMbx
  /\ \/ repeatReq' = ~repeatReq /\ losses' = losses + lost
     \/ /\ "repeat" \in env.lossy /\ losses + lost < env.losses
        /\ repeatReq' = repeatReq /\ losses' = losses + lost + 1

(* ecx_mbxreceive with timeout 0, before every transfer. *)
Drain ==
  /\ sdo.pc = "drain"
  /\ sdo' = [sdo EXCEPT !.pc = "send"]
  /\ \/ outMbx' = NoMsg /\ UNCHANGED <<repeatReq, losses>>
     \/ /\ outMbx # NoMsg /\ MayLose("read")
        /\ \E emptied \in BOOLEAN : RequestRepeat(emptied, 1)
  /\ UNCHANGED <<env, inMbx, repeatAck, slave, stored, emergencies>>

(* The data of this round of a write. *)
DataFromStart == First(sdo.got)

Data == First(sdo.left)

(* The request of this round of the transfer. *)
Request ==
  CASE sdo.op = "read" /\ ~sdo.segment ->
         Msg("up", sdo.index, sdo.sub, <<>>, TRUE, FALSE)
    [] sdo.op = "read" /\ sdo.segment ->
         Msg("segup", sdo.index, sdo.sub, <<>>, TRUE, sdo.toggle)
    [] sdo.op = "write" /\ ~sdo.segment ->
         Msg("down", sdo.index, sdo.sub, Data, Rest(sdo.left) = <<>>, FALSE)
    [] OTHER ->
         Msg("segdown", 0, 0, Data, Rest(sdo.left) = <<>>, sdo.toggle)

(* The transfer once the request was handed to ecx_mbxsend: the data count *)
(* as sent and the toggle bit flips whatever comes of it.                  *)
Sent == [sdo EXCEPT !.left = Rest(@),
                    !.toggle = IF sdo.segment THEN ~@ ELSE @]

Finish(s, ok) == [s EXCEPT !.pc = "idle", !.ok = ok]
NextSegment(s) == [s EXCEPT !.pc = "send", !.segment = TRUE]

(* The work counter of ecx_mbxsend or ecx_mbxreceive was not positive.     *)
(* Outside the segment loop that ends the transfer; a segmented read asks  *)
(* for the next segment, a segmented write goes on with the data it has.   *)
NoAnswer(s) ==
  IF s.segment /\ (s.op = "read" \/ s.left # <<>>)
  THEN NextSegment(s)
  ELSE Finish(s, FALSE)

(* ecx_mbxsend: wait for the in mailbox to be empty, write it.  A frame    *)
(* that got lost may have reached the slave or not.                        *)
MbxSend ==
  /\ sdo.pc = "send" /\ inMbx = NoMsg
  /\ \/ /\ inMbx' = Request
        /\ sdo' = [Sent EXCEPT !.pc = "wait"]
        /\ UNCHANGED losses
     \/ /\ MayLose("write")
        /\ inMbx' \in {NoMsg, Request}
        /\ sdo' = NoAnswer(Sent)
        /\ losses' = losses + 1
  /\ UNCHANGED <<env, outMbx, repeatReq, repeatAck, slave, stored,
                 emergencies>>

(* The slave did not take the previous request in time. *)
SendTimeout ==
  /\ sdo.pc = "send" /\ inMbx # NoMsg /\ env.slow
  /\ sdo' = NoAnswer(Sent)
  /\ UNCHANGED <<env, inMbx, outMbx, repeatReq, repeatAck, slave, stored,
                 losses, emergencies>>

AcknowledgedInverted == repeatAck # sdo.want

Acknowledged == repeatAck = sdo.want

(* ecx_mbxreceive: the out mailbox is full, or the repeat is acknowledged  *)
(* and it is.                                                              *)
MbxAvailable ==
  /\ \/ sdo.pc = "wait"
     \/ sdo.pc = "ack" /\ Acknowledged
  /\ outMbx # NoMsg
  /\ sdo' = [sdo EXCEPT !.pc = "read"]
  /\ UNCHANGED <<env, inMbx, outMbx, repeatReq, repeatAck, slave, stored,
                 losses, emergencies>>

AnyAnswerToRead(m) == m.kind \in {"up", "down"}

AnswerToRead(m) == m.kind \in {"up", "down"} /\ m.index = sdo.index

(* The size that an answer announces. *)
Announced(m) == IF m.kind = "down" THEN 0 ELSE Bytes(m.index, m.sub)

(* What the transfer makes of an answer.  Of the first one, ecx_SDOread    *)
(* compares the index, ecx_SDOwrite the index and the subindex.            *)
Received(m) ==
  IF ~sdo.segment
  THEN IF sdo.op = "read"
       THEN IF AnswerToRead(m) /\ Announced(m) <= sdo.room
            THEN LET s == [sdo EXCEPT !.got = m.data]
                 IN IF m.last THEN Finish(s, TRUE) ELSE NextSegment(s)
            ELSE Finish(sdo, FALSE)
       ELSE IF /\ m.kind \in {"up", "down"}
               /\ m.index = sdo.index /\ m.sub = sdo.sub
            THEN IF sdo.left = <<>> THEN Finish(sdo, TRUE) ELSE NextSegment(sdo)
            ELSE Finish(sdo, FALSE)
  ELSE IF sdo.op = "read"
       THEN IF m.kind = "seg"
            THEN LET s == [sdo EXCEPT !.got = @ \o m.data]
                 IN IF m.last THEN Finish(s, TRUE) ELSE NextSegment(s)
            ELSE Finish(sdo, FALSE)
       ELSE IF m.kind = "segdown"
            THEN IF sdo.left = <<>> THEN Finish(sdo, TRUE) ELSE NextSegment(sdo)
            ELSE Finish(sdo, FALSE)

(* The message is read.  An emergency is dealt with here and the mailbox is *)
(* read again at once.                                                     *)
MbxReceive ==
  /\ sdo.pc = "read" /\ outMbx # NoMsg
  /\ outMbx' = NoMsg
  /\ sdo' = IF outMbx.kind = "emcy" THEN sdo ELSE Received(outMbx)
  /\ UNCHANGED <<env, inMbx, repeatReq, repeatAck, slave, stored, losses,
                 emergencies>>

MbxReadLost ==
  /\ sdo.pc = "read"
  /\ sdo' = [sdo EXCEPT !.pc = "ack", !.want = ~repeatReq]
  /\ \/ /\ outMbx # NoMsg /\ MayLose("read")
        /\ \E emptied \in BOOLEAN : RequestRepeat(emptied, 1)
     \/ outMbx = NoMsg /\ RequestRepeat(FALSE, 0)
  /\ UNCHANGED <<env, inMbx, repeatAck, slave, stored, emergencies>>

(* What the master waits for is on its way. *)
Coming ==
  IF sdo.pc = "ack" /\ repeatAck # sdo.want
  THEN repeatReq = sdo.want
  ELSE outMbx # NoMsg \/ inMbx # NoMsg \/ slave.todo # NoMsg

(* ecx_mbxreceive's timer runs out before anything came. *)
ReceiveTimeout ==
  /\ sdo.pc \in {"wait", "ack"}
  /\ env.slow \/ ~Coming
  /\ sdo' = NoAnswer(sdo)
  /\ UNCHANGED <<env, inMbx, outMbx, repeatReq, repeatAck, slave, stored,
                 losses, emergencies>>

-----------------------------------------------------------------------------
(* The slave (external).                                                   *)

SlaveTake ==
  /\ inMbx # NoMsg /\ slave.todo = NoMsg
  /\ slave' = [slave EXCEPT !.todo = inMbx]
  /\ inMbx' = NoMsg
  /\ UNCHANGED <<env, sdo, outMbx, repeatReq, repeatAck, stored, losses,
                 emergencies>>

(* The out mailbox gets message m, kept for a repeat; the transfer goes on *)
(* as s says.                                                              *)
Answer(m, s) ==
  /\ outMbx' = m
  /\ slave' = [s EXCEPT !.todo = NoMsg, !.last = m]

AnswerUpload(req) ==
  LET value == Value(req.index, req.sub) IN
  /\ req.kind = "up" /\ Exists(req.index, req.sub)
  /\ Answer(Msg("up", req.index, req.sub, First(value), Rest(value) = <<>>,
                FALSE),
            [slave EXCEPT !.op = "read", !.data = Rest(value),
                          !.toggle = FALSE])
  /\ UNCHANGED stored

InTransfer(req, kind, op) ==
  req.kind = kind /\ slave.op = op /\ slave.data # <<>>
    /\ req.toggle = slave.toggle

AnswerSegment(req) ==
  /\ InTransfer(req, "segup", "read")
  /\ Answer(Msg("seg", 0, 0, First(slave.data), Rest(slave.data) = <<>>,
                req.toggle),
            [slave EXCEPT !.data = Rest(@), !.toggle = ~@])
  /\ UNCHANGED stored

AnswerDownload(req) ==
  /\ req.kind = "down" /\ req.index \in Indices
  /\ Answer(Msg("down", req.index, req.sub, <<>>, TRUE, FALSE),
            [slave EXCEPT !.op = "write", !.index = req.index,
                          !.data = IF req.last THEN <<>> ELSE req.data,
                          !.toggle = FALSE])
  /\ stored' = IF req.last THEN [stored EXCEPT ![req.index] = req.data]
                           ELSE stored

AnswerDownSegment(req) ==
  LET data == slave.data \o req.data IN
  /\ InTransfer(req, "segdown", "write")
  /\ Answer(Msg("segdown", 0, 0, <<>>, TRUE, req.toggle),
            [slave EXCEPT !.data = IF req.last THEN <<>> ELSE data,
                          !.toggle = ~@])
  /\ stored' = IF req.last THEN [stored EXCEPT ![slave.index] = data]
                           ELSE stored

AnswerAbort(req) ==
  /\ ~\/ req.kind = "up" /\ Exists(req.index, req.sub)
      \/ req.kind = "down" /\ req.index \in Indices
      \/ InTransfer(req, "segup", "read")
      \/ InTransfer(req, "segdown", "write")
  /\ Answer(Msg("abort", 0, 0, <<>>, TRUE, FALSE), [slave EXCEPT !.data = <<>>])
  /\ UNCHANGED stored

SlaveAnswer ==
  /\ slave.todo # NoMsg /\ outMbx = NoMsg
  /\ \/ AnswerUpload(slave.todo)
     \/ AnswerSegment(slave.todo)
     \/ AnswerDownload(slave.todo)
     \/ AnswerDownSegment(slave.todo)
     \/ AnswerAbort(slave.todo)
  /\ UNCHANGED <<env, sdo, inMbx, repeatReq, repeatAck, losses, emergencies>>

(* A repeat request: a message that was not read yet stays, one that was is *)
(* put in the mailbox again.                                               *)
SlaveRepeat ==
  /\ repeatReq # repeatAck
  /\ repeatAck' = repeatReq
  /\ outMbx' = IF outMbx = NoMsg THEN slave.last ELSE outMbx
  /\ UNCHANGED <<env, sdo, inMbx, repeatReq, slave, stored, losses,
                 emergencies>>

SlaveEmergency ==
  LET emcy == Msg("emcy", 0, 0, <<>>, TRUE, FALSE) IN
  /\ emergencies < env.emergencies /\ outMbx = NoMsg
  /\ slave.todo # NoMsg
  /\ outMbx' = emcy
  /\ slave' = [slave EXCEPT !.last = emcy]
  /\ emergencies' = emergencies + 1
  /\ UNCHANGED <<env, sdo, inMbx, repeatReq, repeatAck, stored, losses>>

Master ==
  \/ Drain
  \/ MbxSend
  \/ SendTimeout
  \/ MbxAvailable
  \/ MbxReceive
  \/ MbxReadLost
  \/ ReceiveTimeout

MNext ==
  \/ Master
  \/ SlaveTake
  \/ SlaveAnswer
  \/ SlaveRepeat
  \/ SlaveEmergency

-----------------------------------------------------------------------------
(* Properties.                                                             *)

(* Only frames that bring a message from the slave get lost. *)
Gentle == env.lossy \subseteq {"read"} /\ ~env.slow

Succeeded(op) == sdo.pc = "idle" /\ sdo.op = op /\ sdo.ok

(* With losses that repeat requests make good, a read that reports success *)
(* returns the value of the object and subindex it asked for: no repeated  *)
(* answer of another one, no segment twice or missing, although neither    *)
(* counter nor toggle bit of an answer is looked at (ecx_SDOread).         *)
ReadIsRight ==
  Gentle /\ Succeeded("read") => sdo.got = Value(sdo.index, sdo.sub)

(* Whatever is lost or late, a read of one value that reports success      *)
(* returns one of the object it asked for, or nothing.                     *)
ReadIndexIsRight ==
  Succeeded("read") /\ sdo.sub # ALL =>
    \/ sdo.got = <<>>
    \/ \E sub \in 0 .. Len(Od[sdo.index]) : sdo.got = Value(sdo.index, sub)

(* With such losses, a write that reports success is what the slave has    *)
(* stored (ecx_SDOwrite).                                                  *)
WriteIsRight ==
  Gentle /\ Succeeded("write") => stored[sdo.index] = sdo.got

(* With such losses, every transfer comes to an end. *)
TransferEnds == Gentle /\ sdo.pc # "idle" ~> sdo.pc = "idle"
=============================================================================
