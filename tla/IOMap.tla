-------------------------------- MODULE IOMap --------------------------------
(***************************************************************************)
(* The process image of the EtherCAT master.  ecx_config_map_group and     *)
(* ecx_config_overlap_map_group of ethercatconfig.c lay the outputs and    *)
(* inputs of the slaves out in a logical address space, one FMMU at a      *)
(* time, and cut it into segments; ecx_main_send_processdata and           *)
(* ecx_receive_processdata_group of ethercatmain.c exchange it, one        *)
(* datagram per segment.                                                   *)
(*                                                                         *)
(* What a slave has is an input here; PdoMapping is about finding it out.  *)
(* The work counter is counted by the slaves (external), once per FMMU     *)
(* that a datagram reaches, as outputsWKC and inputsWKC expect it.         *)
(***************************************************************************)
EXTENDS Integers, Sequences, FiniteSets

CONSTANTS
  N,                \* number of slaves
  Kinds,            \* what a slave may have, see Kind
  MaxSegment,       \* EC_MAXLRWDATA - EC_FIRSTDCDATAGRAM
  EC_MAXIOSEGMENTS

(* For outputs (O) and inputs (I) the sync managers in order, with their   *)
(* addresses and lengths, and the number of bits; LRW may be unsupported.  *)
SM == [start : Nat, len : Nat \ {0}]
Kind == [O : Seq(SM), Obits : Nat, I : Seq(SM), Ibits : Nat, noLRW : BOOLEAN]

Total(f, n) ==
  LET sum[k \in 0 .. n] == IF k = 0 THEN 0 ELSE sum[k - 1] + f[k] IN sum[n]

SumLen(seq) == Total([k \in 1 .. Len(seq) |-> seq[k].len], Len(seq))
BytesOf(bits) == (bits + 7) \div 8

(* The sync managers hold the bits; a slave fits a segment behind a partly *)
(* used byte (the code has no answer to one that does not).                *)
ASSUME IOMapAssumption ==
  /\ N \in Nat \ {0}
  /\ Kinds \subseteq Kind
  /\ \A k \in Kinds : /\ BytesOf(k.Obits) <= SumLen(k.O)
                       /\ BytesOf(k.Ibits) <= SumLen(k.I)
                       /\ BytesOf(k.Obits) + 1 <= MaxSegment
                       /\ BytesOf(k.Ibits) + 1 <= MaxSegment
  /\ MaxSegment \in Nat \ {0}
  /\ EC_MAXIOSEGMENTS \in Nat \ {0}

VARIABLES
  slaves,    \* what each slave has
  overlap,   \* which of the two functions does the mapping
  hasdc,     \* the group has distributed clocks
  m,         \* locals of the mapping
  fmmus,     \* FMMUs programmed, in order
  IOsegment, \* lengths of the segments
  group,     \* the other results: counters, sizes, start of the inputs
  x          \* the exchange under way

vars == <<slaves, overlap, hasdc, m, fmmus, IOsegment, group, x>>

Dirs == {"O", "I"}
Bits(s, dir) == IF dir = "O" THEN slaves[s].Obits ELSE slaves[s].Ibits
SMs(s, dir) == IF dir = "O" THEN slaves[s].O ELSE slaves[s].I

(* Obytes and Ibytes, as ecx_map_sm sets them: 0 for a bit oriented slave. *)
Bytes(s, dir) == IF Bits(s, dir) > 7 THEN BytesOf(Bits(s, dir)) ELSE 0

MIdle == [phase |-> "O", slave |-> 1, sm |-> 1, ByteCount |-> 0,
          FMMUdone |-> 0, start |-> 0, so |-> 0, LogAddr |-> 0, oLogAddr |-> 0,
          BitPos |-> 0, currentsegment |-> 1, segmentsize |-> 0]

XIdle == [phase |-> "idle", seg |-> 1, length |-> 0, LogAdr |-> 0,
          frames |-> <<>>, present |-> {}, pulled |-> 0, first |-> FALSE,
          wkc |-> 0, done |-> {}, misread |-> FALSE]

Init ==
  /\ slaves \in [1 .. N -> Kinds]
  /\ overlap \in BOOLEAN
  /\ hasdc \in BOOLEAN
  /\ m = MIdle
  /\ fmmus = <<>>
  /\ IOsegment = <<>>
  /\ group = [outputsWKC |-> 0, inputsWKC |-> 0, Obytes |-> 0, Ibytes |-> 0,
              nsegments |-> 0, Isegment |-> 1, Ioffset |-> 0]
  /\ x = XIdle

blockLRW == \E s \in 1 .. N : slaves[s].noLRW

-----------------------------------------------------------------------------
(* FMMUs: one round of the loops in ecx_config_create_output_mappings and  *)
(* ecx_config_create_input_mappings.                                       *)

(* The last of the sync managers, from m.sm on, that share an FMMU: their  *)
(* addresses connect, and their bits are not all there before.             *)
LastShared(sms, bits) ==
  CHOOSE j \in m.sm .. Len(sms) :
    /\ \A k \in m.sm .. j - 1 :
         /\ 8 * (m.ByteCount + SumLen(SubSeq(sms, m.sm, k))) < bits
         /\ sms[k + 1].start <= sms[k].start + sms[k].len
    /\ \/ j = Len(sms)
       \/ 8 * (m.ByteCount + SumLen(SubSeq(sms, m.sm, j))) >= bits
       \/ sms[j + 1].start > sms[j].start + sms[j].len

BitFMMUUnwrapped(bits) ==
  [start |-> m.LogAddr, startbit |-> m.BitPos, length |-> 1,
   endbit |-> m.BitPos + bits - 1,
   LogAddr |-> m.LogAddr, BitPos |-> m.BitPos + bits]

(* A slave of at most 7 bits goes on at the next free bit. *)
BitFMMU(bits) ==
  LET endpos == m.BitPos + bits - 1
      after == m.LogAddr * 8 + m.BitPos + bits
  IN [start |-> m.LogAddr, startbit |-> m.BitPos,
      length |-> endpos \div 8 + 1, endbit |-> endpos % 8,
      LogAddr |-> after \div 8, BitPos |-> after % 8]

StartInPartlyUsedByte == m.LogAddr

StartAtByte == IF m.BitPos > 0 THEN m.LogAddr + 1 ELSE m.LogAddr

(* Any other starts at a byte; ByteCount goes on over the slave's FMMUs.   *)
ByteFMMU(bytes, ByteCount) ==
  LET size == IF ByteCount + m.FMMUdone > bytes THEN bytes - m.FMMUdone
                                                ELSE ByteCount
  IN [start |-> StartAtByte, startbit |-> 0, length |-> size, endbit |-> 7,
      LogAddr |-> StartAtByte + size, BitPos |-> 0]

MoreFMMUs(s, dir) == m.FMMUdone < BytesOf(Bits(s, dir))

CountedOncePerSlave(g, dir) ==
  IF m.FMMUdone > 0 THEN g
  ELSE IF dir = "O" THEN [g EXCEPT !.outputsWKC = @ + 1]
  ELSE [g EXCEPT !.inputsWKC = @ + 1]

Counted(g, dir) ==
  IF dir = "O" THEN [g EXCEPT !.outputsWKC = @ + 1]
               ELSE [g EXCEPT !.inputsWKC = @ + 1]

CreateFMMU ==
  LET s == m.slave
      dir == m.phase
      sms == SMs(s, dir)
      last == LastShared(sms, Bits(s, dir))
      shared == SumLen(SubSeq(sms, m.sm, last))
      f == IF Bytes(s, dir) = 0 THEN BitFMMU(Bits(s, dir))
           ELSE ByteFMMU(Bytes(s, dir), m.ByteCount + shared)
  IN
  /\ dir \in Dirs /\ s <= N
  /\ MoreFMMUs(s, dir) /\ m.sm <= Len(sms)
  /\ fmmus' = Append(fmmus, [slave |-> s, dir |-> dir, start |-> f.start,
                             startbit |-> f.startbit, length |-> f.length,
                             endbit |-> f.endbit, memory |-> shared])
  /\ m' = [m EXCEPT !.LogAddr = f.LogAddr, !.BitPos = f.BitPos,
                    !.sm = last + 1, !.ByteCount = @ + shared,
                    !.FMMUdone = @ + f.length]
  /\ group' = Counted(group, dir)
  /\ UNCHANGED <<slaves, overlap, hasdc, IOsegment, x>>

-----------------------------------------------------------------------------
(* Segments.                                                               *)

AccountFromZero(r, diff) ==
  IF r.segmentsize + diff <= MaxSegment
  THEN [r EXCEPT !.segmentsize = @ + diff]
  ELSE IF r.currentsegment < EC_MAXIOSEGMENTS
  THEN [r EXCEPT !.currentsegment = @ + 1, !.segmentsize = 0]
  ELSE r

(* diff more bytes: a full segment is closed.  IOsegment and currentsegment *)
(* count from 1 here; the last segment there is cannot be followed.        *)
Account(r, diff) ==
  IF r.segmentsize + diff <= MaxSegment
  THEN [r EXCEPT !.segmentsize = @ + diff]
  ELSE IF r.currentsegment < EC_MAXIOSEGMENTS
  THEN [r EXCEPT !.currentsegment = @ + 1, !.segmentsize = diff]
  ELSE r

Closed(diff) ==
  IF m.segmentsize + diff > MaxSegment
  THEN SubSeq(IOsegment, 1, m.currentsegment - 1) \o <<m.segmentsize>>
  ELSE IOsegment

NextSlave(r) ==
  [r EXCEPT !.slave = @ + 1, !.sm = 1, !.ByteCount = 0, !.FMMUdone = 0]

NeverPadded == 0

(* A partly used byte is finished. *)
Padded == IF m.BitPos > 0 THEN 1 ELSE 0

(* ecx_config_map_group: after the outputs, or the inputs, of one slave. *)
EndSlave ==
  LET diff == m.LogAddr - m.oLogAddr IN
  /\ ~overlap /\ m.phase \in Dirs /\ m.slave <= N
  /\ ~MoreFMMUs(m.slave, m.phase)
  /\ m' = NextSlave(Account([m EXCEPT !.oLogAddr = m.LogAddr], diff))
  /\ IOsegment' = Closed(diff)
  /\ UNCHANGED <<slaves, overlap, hasdc, fmmus, group, x>>

(* After the outputs, or the inputs, of all slaves. *)
EndOutputs ==
  LET end == m.LogAddr + Padded
      r == Account([m EXCEPT !.LogAddr = end, !.oLogAddr = end, !.BitPos = 0],
                   Padded)
  IN
  /\ ~overlap /\ m.phase = "O" /\ m.slave > N
  /\ m' = [r EXCEPT !.phase = "I", !.slave = 1]
  /\ IOsegment' = Closed(Padded)
  /\ group' = [group EXCEPT !.Obytes = end, !.Isegment = r.currentsegment,
                            !.Ioffset = r.segmentsize]
  /\ UNCHANGED <<slaves, overlap, hasdc, fmmus, x>>

EndInputs ==
  LET end == m.LogAddr + Padded
      r == Account([m EXCEPT !.LogAddr = end, !.oLogAddr = end, !.BitPos = 0],
                   Padded)
  IN
  /\ ~overlap /\ m.phase = "I" /\ m.slave > N
  /\ m' = [r EXCEPT !.phase = "mapped"]
  /\ IOsegment' = SubSeq(Closed(Padded), 1, r.currentsegment - 1)
                    \o <<r.segmentsize>>
  /\ group' = [group EXCEPT !.Ibytes = end - group.Obytes,
                            !.nsegments = r.currentsegment]
  /\ UNCHANGED <<slaves, overlap, hasdc, fmmus, x>>

(* ecx_config_overlap_map_group: the inputs of a slave start where its     *)
(* outputs did.                                                            *)
EndSlaveOutputs ==
  /\ overlap /\ m.phase = "O" /\ m.slave <= N
  /\ ~MoreFMMUs(m.slave, "O")
  /\ m' = [m EXCEPT !.phase = "I", !.sm = 1, !.ByteCount = 0, !.FMMUdone = 0,
                    !.so = m.LogAddr + Padded, !.LogAddr = m.start,
                    !.BitPos = 0]
  /\ UNCHANGED <<slaves, overlap, hasdc, fmmus, IOsegment, group, x>>

EndSlaveInputs ==
  LET si == m.LogAddr + Padded
      end == IF si > m.so THEN si ELSE m.so
      diff == end - m.start
      r == NextSlave(Account([m EXCEPT !.phase = "O", !.start = end,
                                       !.LogAddr = end, !.BitPos = 0], diff))
  IN
  /\ overlap /\ m.phase = "I" /\ ~MoreFMMUs(m.slave, "I")
  /\ IF m.slave < N
     THEN /\ m' = r
          /\ IOsegment' = Closed(diff)
          /\ UNCHANGED group
     ELSE /\ m' = [r EXCEPT !.phase = "mapped"]
          /\ IOsegment' = SubSeq(Closed(diff), 1, r.currentsegment - 1)
                            \o <<r.segmentsize>>
          /\ group' = [group EXCEPT !.Obytes = m.so, !.Ibytes = si,
                                    !.nsegments = r.currentsegment]
  /\ UNCHANGED <<slaves, overlap, hasdc, fmmus, x>>

-----------------------------------------------------------------------------
(* The exchange.                                                           *)

Size ==
  IF ~overlap THEN group.Obytes + group.Ibytes
  ELSE IF group.Obytes > group.Ibytes THEN group.Obytes ELSE group.Ibytes

Exchange(phase) ==
  [x EXCEPT !.phase = phase,
            !.seg = IF phase = "LRD" THEN group.Isegment ELSE 1,
            !.length = CASE phase = "LRW" -> Size
                         [] phase = "LRD" -> group.Ibytes
                         [] phase = "LWR" -> group.Obytes
                         [] OTHER -> 0,
            !.LogAdr = IF phase = "LRD" THEN group.Obytes ELSE 0]

(* What is sent after the phase that is over. *)
AfterLRD(r) ==
  IF group.Obytes > 0
  THEN [r EXCEPT !.phase = "LWR", !.seg = 1, !.length = group.Obytes,
                 !.LogAdr = 0]
  ELSE [r EXCEPT !.phase = "receive"]

(* ecx_main_send_processdata is called; present are the slaves that answer. *)
StartExchange ==
  /\ m.phase = "mapped" /\ x.phase = "idle" /\ Size > 0
  /\ \E present \in SUBSET (1 .. N) :
       LET r == [Exchange(IF ~blockLRW THEN "LRW" ELSE "LRD")
                 EXCEPT !.present = present]
       IN x' = IF blockLRW /\ group.Ibytes = 0 THEN AfterLRD(r) ELSE r
  /\ UNCHANGED <<slaves, overlap, hasdc, m, fmmus, IOsegment, group>>

SublengthWhole ==
  IF x.phase = "LWR" /\ IOsegment[x.seg] > x.length THEN x.length
                                                   ELSE IOsegment[x.seg]

(* One datagram: the part of the segment that this command is for. *)
Sublength ==
  LET whole == IOsegment[x.seg] IN
  CASE x.phase = "LRD" /\ x.seg = group.Isegment -> whole - group.Ioffset
    [] x.phase = "LWR" /\ whole > x.length -> x.length
    [] OTHER -> whole

SendDatagram ==
  LET sent == [x EXCEPT !.seg = @ + 1, !.length = @ - Sublength,
                        !.LogAdr = @ + Sublength,
                        !.frames = Append(@, [cmd |-> x.phase,
                                              start |-> x.LogAdr,
                                              length |-> Sublength])]
      more == sent.length # 0 /\ sent.seg <= group.nsegments
  IN
  /\ x.phase \in {"LRD", "LWR", "LRW"}
  /\ x' = IF more THEN sent
          ELSE IF x.phase = "LRD" THEN AfterLRD(sent)
          ELSE [sent EXCEPT !.phase = "receive"]
  /\ UNCHANGED <<slaves, overlap, hasdc, m, fmmus, IOsegment, group>>

Reaches(f, d) ==
  /\ d.length > 0
  /\ f.start < d.start + d.length
  /\ d.start < f.start + f.length

Reached(d, dir) ==
  {k \in 1 .. Len(fmmus) : /\ fmmus[k].dir = dir
                           /\ fmmus[k].slave \in x.present
                           /\ Reaches(fmmus[k], d)}

(* What a datagram comes back with; the code counts LWR twice, as LRW does. *)
Wkc(d) ==
  (IF d.cmd # "LRD" THEN 2 * Cardinality(Reached(d, "O")) ELSE 0)
    + (IF d.cmd # "LWR" THEN Cardinality(Reached(d, "I")) ELSE 0)

Expected == 2 * group.outputsWKC + group.inputsWKC

(* ecx_receive_processdata_group: the frames in the order sent, each come  *)
(* back or lost.  With distributed clocks the clock datagram is in the     *)
(* first frame sent, but is looked for in the first one that came back:    *)
(* what is read from another frame at that offset may be any counter.      *)
ReceiveDatagram ==
  LET d == x.frames[x.pulled + 1]
      misread == hasdc /\ ~x.first /\ x.pulled > 0
      counters == IF misread THEN {0, Wkc(d), Expected} ELSE {Wkc(d)}
  IN
  /\ x.phase = "receive" /\ x.pulled < Len(x.frames)
  /\ \/ x' = [x EXCEPT !.pulled = @ + 1]
     \/ \E wkc \in counters :
          x' = [x EXCEPT !.pulled = @ + 1, !.first = TRUE,
                         !.misread = @ \/ misread,
                         !.wkc = @ + wkc,
                         !.done = @ \cup (IF d.cmd = "LWR" THEN {}
                                         ELSE Reached(d, "I"))
                                    \cup (IF d.cmd = "LRD" THEN {}
                                         ELSE Reached(d, "O"))]
  /\ UNCHANGED <<slaves, overlap, hasdc, m, fmmus, IOsegment, group>>

EndExchange ==
  /\ x.phase = "receive" /\ x.pulled = Len(x.frames)
  /\ x' = XIdle
  /\ UNCHANGED <<slaves, overlap, hasdc, m, fmmus, IOsegment, group>>

Next ==
  \/ CreateFMMU
  \/ EndSlave
  \/ EndOutputs
  \/ EndInputs
  \/ EndSlaveOutputs
  \/ EndSlaveInputs
  \/ StartExchange
  \/ SendDatagram
  \/ ReceiveDatagram
  \/ EndExchange

Spec == Init /\ [][Next]_vars

-----------------------------------------------------------------------------
(* Properties.                                                             *)

TypeOK ==
  /\ m.phase \in Dirs \cup {"mapped"}
  /\ m.slave \in 1 .. N + 1
  /\ m.BitPos \in 0 .. 7
  /\ m.currentsegment \in 1 .. EC_MAXIOSEGMENTS
  /\ \A k \in 1 .. Len(IOsegment) : IOsegment[k] \in Nat
  /\ x.phase \in {"idle", "LRD", "LWR", "LRW", "receive"}
  /\ x.pulled \in 0 .. Len(x.frames)

(* The bits of an FMMU in the logical address space. *)
FirstBit(f) == 8 * f.start + f.startbit
LastBit(f) == 8 * (f.start + f.length - 1) + f.endbit

(* No two slaves, and no two FMMUs of one, have a bit of the process image *)
(* in common; with overlapping images that holds for each direction.       *)
MappingsAreDisjoint ==
  \A i, j \in 1 .. Len(fmmus) :
    i < j /\ (overlap => fmmus[i].dir = fmmus[j].dir) =>
      \/ LastBit(fmmus[i]) < FirstBit(fmmus[j])
      \/ LastBit(fmmus[j]) < FirstBit(fmmus[i])

(* The image the mapping reports holds every FMMU: outputs in its first    *)
(* Obytes, inputs in the Ibytes after them, or with overlapping images in  *)
(* the first Ibytes, also when the last byte is not full                   *)
(* (ecx_config_map_group, lines 1200-1218; ecx_config_overlap_map_group).  *)
MappingsLieInImage ==
  m.phase = "mapped" =>
    \A k \in 1 .. Len(fmmus) :
      LET f == fmmus[k]
          first == IF ~overlap /\ f.dir = "I" THEN group.Obytes ELSE 0
          size == IF f.dir = "O" THEN group.Obytes ELSE group.Ibytes
      IN 8 * first <= FirstBit(f) /\ LastBit(f) < 8 * (first + size)

(* The FMMUs share the process image out: each lies within it, and no two  *)
(* of them have a bit in common (ecx_config_create_output_mappings,        *)
(* ..._input_mappings and the two functions that call them).               *)
MappingsShareImage == MappingsAreDisjoint /\ MappingsLieInImage

(* The segments the mapping reports make up the whole process image, and   *)
(* none of them is too long for a frame (IOsegment, lines 1122-1425).      *)
SegmentsMakeUpImage ==
  m.phase = "mapped" =>
    /\ Total(IOsegment, Len(IOsegment)) = Size
    /\ Len(IOsegment) = group.nsegments
    /\ \A k \in 1 .. Len(IOsegment) : IOsegment[k] <= MaxSegment

(* The datagrams of these commands are sent one after the other, each      *)
(* starts where the one before it ends, and together they are first .. last. *)
Covers(cmds, first, last) ==
  \E a, b \in 1 .. Len(x.frames) :
    /\ a <= b
    /\ \A k \in 1 .. Len(x.frames) : x.frames[k].cmd \in cmds <=> k \in a .. b
    /\ x.frames[a].start = first
    /\ x.frames[b].start + x.frames[b].length = last
    /\ \A k \in a .. b - 1 :
         x.frames[k + 1].start = x.frames[k].start + x.frames[k].length

InputsFrom == IF blockLRW /\ ~overlap THEN group.Obytes ELSE 0

(* With one command for both directions, or separate images: the datagrams *)
(* that write are contiguous and cover all outputs, those that read are    *)
(* contiguous and cover all inputs, whatever the segments                  *)
(* (ecx_main_send_processdata).                                            *)
DatagramsCoverImage ==
  x.phase = "receive" /\ ~(overlap /\ blockLRW) =>
    /\ group.Obytes > 0 =>
         Covers({"LWR", "LRW"}, 0, IF blockLRW THEN group.Obytes ELSE Size)
    /\ group.Ibytes > 0 => Covers({"LRD", "LRW"}, InputsFrom, Size)

(* A bit oriented slave whose FMMU lies in two segments is counted twice.  *)
Straddling(f) ==
  \E i, j \in 1 .. Len(x.frames) :
    /\ i # j /\ x.frames[i].cmd = x.frames[j].cmd
    /\ Reaches(f, x.frames[i]) /\ Reaches(f, x.frames[j])

(* A work counter as high as EtherCATMaster expects it                     *)
(* (2 * outputsWKC + inputsWKC) means that every slave took its outputs    *)
(* and delivered its inputs, whichever frames were lost and slaves silent; *)
(* except for a straddling FMMU or a misread first frame, see the README.  *)
ExpectedMeansComplete ==
  /\ x.phase = "receive" /\ x.pulled = Len(x.frames) /\ x.wkc >= Expected
  /\ ~x.misread /\ ~\E k \in 1 .. Len(fmmus) : Straddling(fmmus[k])
  => x.done = 1 .. Len(fmmus)
=============================================================================
