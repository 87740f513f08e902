------------------------------ MODULE PdoMapping -----------------------------
(***************************************************************************)
(* How the master finds out which process data a slave has: ecx_readPDOmap *)
(* and ecx_readPDOmapCA of ethercatcoe.c, called by ecx_map_coe_soe of     *)
(* ethercatconfig.c for a slave with CoE, one SDO read after the other.    *)
(* A caller may also write an object (ecx_SDOwrite) between two mappings.  *)
(***************************************************************************)
EXTENDS CoEMailbox

CONSTANT
  WriteData    \* what a caller writes to an object

ASSUME WriteAssumption == WriteData \subseteq Seq(Nat)

VARIABLES
  map,    \* the mapping under way: locals of the functions
  buf,    \* SMcommtype[0], PDOassign[0] and PDOdesc[0] of the context
  SMtype, \* sync manager types found, from SM2 on
  bits,   \* Obits and Ibits of the slave
  calls   \* calls made

pvars == <<map, buf, SMtype, bits, calls>>
vars == <<mvars, pvars>>

EC_MAXSM == 8
ECT_SDO_SMCOMMTYPE == 7168
ECT_SDO_PDOASSIGN == 7184
Large == 1000      \* size of the structures that complete access fills

(* The objects that a PDO assignment lists have entries of four bytes, as  *)
(* they are read: index, subindex and length of what is mapped.            *)
ASSUME PdoAssumption ==
  \A i \in 2 .. EC_MAXSM - 1 :
    ECT_SDO_PDOASSIGN + i \in Indices =>
      \A k \in 1 .. Len(Od[ECT_SDO_PDOASSIGN + i]) :
        Od[ECT_SDO_PDOASSIGN + i][k] \in Indices =>
          EntryBytes[Od[ECT_SDO_PDOASSIGN + i][k]] = 4

(* pc: idle | types, type, counted, pdoindex, entries, bits: an SDO is     *)
(* being read, the number of sync managers, the type of one, the number of *)
(* PDOs assigned to it, the index of one, its number of entries, the size  *)
(* of an entry | sm, count, pdo, desc, entry: before the next such read.   *)
MapIdle == [pc |-> "idle", ca |-> FALSE, iSM |-> 2, nSM |-> 0, bug |-> 0,
            idxloop |-> 1, nidx |-> 0, idx |-> 0, subidxloop |-> 1,
            subidx |-> 0, bsize |-> 0, Osize |-> 0, Isize |-> 0, ret |-> FALSE]

Init ==
  /\ MInit
  /\ map = MapIdle
  /\ buf = [types |-> <<0>>, assign |-> <<0>>, desc |-> <<0>>]
  /\ SMtype = [i \in 2 .. EC_MAXSM - 1 |-> 0]
  /\ bits = [O |-> 0, I |-> 0]
  /\ calls = 0

At(seq, k) == IF k \in 1 .. Len(seq) THEN seq[k] ELSE 0

(* A structure after its count was cleared and a read copied into it, which *)
(* may have ended early.                                                   *)
Filled(old) ==
  [k \in 1 .. (IF Len(sdo.got) > Len(old) THEN Len(sdo.got) ELSE Len(old)) |->
     IF k <= Len(sdo.got) THEN sdo.got[k] ELSE IF k = 1 THEN 0 ELSE old[k]]

Total(f, n) ==
  LET sum[k \in 0 .. n] == IF k = 0 THEN 0 ELSE sum[k - 1] + f[k] IN sum[n]

(* One of the blocking reads: m is what the caller knows while it waits. *)
Read(m, pc, index, sub, room) ==
  /\ SDOread(index, IF m.ca THEN ALL ELSE sub, IF m.ca THEN Large ELSE room)
  /\ map' = [m EXCEPT !.pc = pc]
  /\ UNCHANGED <<buf, SMtype, bits, calls>>

Returned(pc) == map.pc = pc /\ sdo.pc = "idle"

-----------------------------------------------------------------------------
(* ecx_map_coe_soe: with complete access where the slave has it. *)
StartMapping ==
  /\ map.pc = "idle" /\ sdo.pc = "idle" /\ calls < env.calls
  /\ calls' = calls + 1
  /\ \E ca \in BOOLEAN :
       /\ map' = [MapIdle EXCEPT !.pc = "types", !.ca = ca]
       /\ SDOread(ECT_SDO_SMCOMMTYPE, IF ca THEN ALL ELSE 0,
                  IF ca THEN Large ELSE 1)
  /\ UNCHANGED <<buf, SMtype, bits>>

(* The mapping ends; one with complete access that found nothing is done   *)
(* again without.  buf is left to the action.                              *)
EndMapping(m) ==
  LET found == m.Isize > 0 \/ m.Osize > 0 IN
  IF m.ca /\ ~found
  THEN /\ map' = [MapIdle EXCEPT !.pc = "types"]
       /\ SDOread(ECT_SDO_SMCOMMTYPE, 0, 1)
       /\ UNCHANGED <<SMtype, bits, calls>>
  ELSE /\ map' = [m EXCEPT !.pc = "idle", !.ret = found]
       /\ bits' = [O |-> m.Osize, I |-> m.Isize]
       /\ UNCHANGED <<mvars, SMtype, calls>>

TypesRead ==
  /\ Returned("types")
  /\ LET types == IF map.ca THEN Filled(buf.types) ELSE buf.types
         n == IF map.ca THEN types[1] ELSE At(sdo.got, 1)
     IN /\ buf' = [buf EXCEPT !.types = types]
        /\ IF sdo.ok /\ n > 2
           THEN /\ map' = [map EXCEPT !.pc = "sm",
                             !.nSM = IF n > EC_MAXSM THEN EC_MAXSM ELSE n]
                /\ UNCHANGED <<mvars, SMtype, bits, calls>>
           ELSE EndMapping(map)

(* The types some slaves get wrong are corrected: a type 2 at SM2 shifts   *)
(* all by one, and without complete access a 0 is taken for a 3 or a 4.    *)
Corrected(t, bug) ==
  LET shifted == IF t > 0 THEN t + bug ELSE t IN
  IF shifted = 0 /\ ~map.ca /\ map.iSM \in {2, 3} THEN map.iSM + 1 ELSE shifted

UseType(t) ==
  LET bug == IF map.iSM = 2 /\ t = 2 THEN 1 ELSE map.bug
      tSM == Corrected(t, bug)
  IN /\ SMtype' = [SMtype EXCEPT ![map.iSM] = tSM]
     /\ map' = IF tSM \in {3, 4}
               THEN [map EXCEPT !.pc = "count", !.bug = bug]
               ELSE [map EXCEPT !.pc = "sm", !.bug = bug, !.iSM = @ + 1]
     /\ UNCHANGED <<mvars, buf, bits, calls>>

NextSM ==
  /\ map.pc = "sm" /\ map.iSM < map.nSM
  /\ IF map.ca THEN UseType(At(buf.types, map.iSM + 2))
     ELSE Read(map, "type", ECT_SDO_SMCOMMTYPE, map.iSM + 1, 1)

LastSM ==
  /\ map.pc = "sm" /\ map.iSM >= map.nSM
  /\ EndMapping(map)
  /\ UNCHANGED buf

TypeRead ==
  /\ Returned("type")
  /\ IF sdo.ok THEN UseType(At(sdo.got, 1))
     ELSE /\ map' = [map EXCEPT !.pc = "sm", !.iSM = @ + 1]
          /\ UNCHANGED <<mvars, buf, SMtype, bits, calls>>

-----------------------------------------------------------------------------
(* ecx_readPDOassign and ecx_readPDOassignCA. *)

ReadCount ==
  map.pc = "count" /\ Read(map, "counted", ECT_SDO_PDOASSIGN + map.iSM, 0, 2)

(* The sync manager's size goes to the outputs or the inputs. *)
Assigned(m, size) ==
  LET out == SMtype[m.iSM] = 3 IN
  [m EXCEPT !.pc = "sm", !.iSM = @ + 1,
            !.Osize = IF out THEN @ + size ELSE @,
            !.Isize = IF out THEN @ ELSE @ + size]

FirstPDOKeepingSize(n) == [map EXCEPT !.pc = "pdo", !.nidx = n, !.idxloop = 1]

FirstPDO(n) ==
  [map EXCEPT !.pc = "pdo", !.nidx = n, !.idxloop = 1, !.bsize = 0]

Counted ==
  /\ Returned("counted")
  /\ LET assign == IF map.ca THEN Filled(buf.assign) ELSE buf.assign
         n == IF map.ca THEN assign[1] ELSE At(sdo.got, 1)
     IN /\ buf' = [buf EXCEPT !.assign = assign]
        /\ map' = IF sdo.ok /\ n > 0
                  THEN FirstPDO(n)
                  ELSE Assigned(map, 0)
  /\ UNCHANGED <<mvars, SMtype, bits, calls>>

(* The index of a PDO, which counts even if its read failed: it is 0 then. *)
UsePDO(idx) ==
  IF idx > 0 THEN [map EXCEPT !.pc = "desc", !.idx = idx]
  ELSE [map EXCEPT !.pc = "pdo", !.idxloop = @ + 1]

PDOsDoneLate == map.idxloop > map.nidx + 1

PDOsDone == map.idxloop > map.nidx

NextPDO ==
  /\ map.pc = "pdo"
  /\ IF PDOsDone
     THEN map' = Assigned(map, map.bsize)
          /\ UNCHANGED <<mvars, buf, SMtype, bits, calls>>
     ELSE IF map.ca
     THEN map' = UsePDO(At(buf.assign, map.idxloop + 1))
          /\ UNCHANGED <<mvars, buf, SMtype, bits, calls>>
     ELSE Read(map, "pdoindex", ECT_SDO_PDOASSIGN + map.iSM, map.idxloop, 2)

PDOIndexRead ==
  /\ Returned("pdoindex")
  /\ map' = UsePDO(At(sdo.got, 1))
  /\ UNCHANGED <<mvars, buf, SMtype, bits, calls>>

ReadEntries == map.pc = "desc" /\ Read(map, "entries", map.idx, 0, 1)

EntriesRead ==
  /\ Returned("entries")
  /\ LET desc == Filled(buf.desc) IN
     IF map.ca
     THEN /\ buf' = [buf EXCEPT !.desc = desc]
          /\ map' = [map EXCEPT !.pc = "pdo", !.idxloop = @ + 1,
                       !.bsize = @ + Total([k \in 1 .. desc[1] |->
                                              At(desc, k + 1)], desc[1])]
     ELSE /\ map' = [map EXCEPT !.pc = "entry", !.subidx = At(sdo.got, 1),
                                !.subidxloop = 1]
          /\ UNCHANGED buf
  /\ UNCHANGED <<mvars, SMtype, bits, calls>>

NextEntry ==
  /\ map.pc = "entry"
  /\ IF map.subidxloop <= map.subidx
     THEN Read(map, "bits", map.idx, map.subidxloop, 4)
     ELSE /\ map' = [map EXCEPT !.pc = "pdo", !.idxloop = @ + 1]
          /\ UNCHANGED <<mvars, buf, SMtype, bits, calls>>

BitsRead ==
  /\ Returned("bits")
  /\ map' = [map EXCEPT !.pc = "entry", !.subidxloop = @ + 1,
                        !.bsize = @ + At(sdo.got, 1)]
  /\ UNCHANGED <<mvars, buf, SMtype, bits, calls>>

-----------------------------------------------------------------------------
(* Any caller, between two mappings. *)
Write ==
  /\ map.pc = "idle" /\ sdo.pc = "idle" /\ calls < env.calls
  /\ calls' = calls + 1
  /\ \E i \in Indices, data \in WriteData : SDOwrite(i, data)
  /\ UNCHANGED <<map, buf, SMtype, bits>>

Mapping ==
  \/ TypesRead
  \/ NextSM
  \/ LastSM
  \/ TypeRead
  \/ ReadCount
  \/ Counted
  \/ NextPDO
  \/ PDOIndexRead
  \/ ReadEntries
  \/ EntriesRead
  \/ NextEntry
  \/ BitsRead

Next ==
  \/ StartMapping
  \/ Mapping
  \/ Write
  \/ MNext /\ UNCHANGED pvars

Spec == Init /\ [][Next]_vars

(* The master's calls block, so it goes on as soon as it can; the slave    *)
(* keeps serving its mailboxes, also when emergencies and repeats come in  *)
(* between.                                                                *)
FairSpec ==
  /\ Spec
  /\ WF_vars(Mapping)
  /\ WF_vars(Master /\ UNCHANGED pvars)
  /\ WF_vars(SlaveTake /\ UNCHANGED pvars)
  /\ SF_vars(SlaveAnswer /\ UNCHANGED pvars)
  /\ WF_vars(SlaveRepeat /\ UNCHANGED pvars)

-----------------------------------------------------------------------------
(* Properties.                                                             *)

TypeOK ==
  /\ sdo.pc \in {"idle", "drain", "send", "wait", "read", "ack"}
  /\ repeatReq \in BOOLEAN /\ repeatAck \in BOOLEAN
  /\ losses \in 0 .. env.losses /\ emergencies \in 0 .. env.emergencies
  /\ map.iSM \in 2 .. EC_MAXSM /\ map.nSM \in 0 .. EC_MAXSM
  /\ map.pc # "idle" => map.idxloop \in 1 .. map.nidx + 1
  /\ SMtype \in [2 .. EC_MAXSM - 1 -> Nat]
  /\ calls \in 0 .. env.calls

(* The process data of direction t (3: outputs, 4: inputs) according to    *)
(* the object dictionary.                                                  *)
PDOBits(pdo) == Total(Od[pdo], Len(Od[pdo]))

SMBits(i) ==
  LET assign == Od[ECT_SDO_PDOASSIGN + i]
  IN Total([k \in 1 .. Len(assign) |-> PDOBits(assign[k])], Len(assign))

TrueBits(t) ==
  LET types == Od[ECT_SDO_SMCOMMTYPE]
      n == Len(types) - 2
  IN Total([k \in 1 .. n |-> IF types[k + 2] = t THEN SMBits(k + 1) ELSE 0], n)

(* The dictionary of a slave that needs none of the corrections: the types  *)
(* of its sync managers are right and no more than there is room for, what  *)
(* it refers to is there, and every object fits the buffer read into.      *)
WellFormed ==
  LET types == Od[ECT_SDO_SMCOMMTYPE] IN
  /\ ECT_SDO_SMCOMMTYPE \in Indices /\ EntryBytes[ECT_SDO_SMCOMMTYPE] = 1
  /\ Len(types) <= EC_MAXSM
  /\ Len(types) >= 3 => types[3] \notin {0, 2}
  /\ Len(types) >= 4 => types[4] # 0
  /\ \A i \in 2 .. Len(types) - 1 :
       types[i + 1] \in {3, 4} =>
         /\ ECT_SDO_PDOASSIGN + i \in Indices
         /\ EntryBytes[ECT_SDO_PDOASSIGN + i] <= 2
         /\ \A k \in 1 .. Len(Od[ECT_SDO_PDOASSIGN + i]) :
              Od[ECT_SDO_PDOASSIGN + i][k] \in Indices
  /\ \A i \in Indices : Bytes(i, ALL) <= Large

(* A mapping that is reported successful has the sizes of the slave's      *)
(* process data: "@return >0 if mapping succesful" (ecx_readPDOmap).       *)
MappingIsRight ==
  map.pc = "idle" /\ map.ret => bits = [O |-> TrueBits(3), I |-> TrueBits(4)]

(* That holds with losses that repeat requests make good, with complete    *)
(* access and without, whatever was read or written before.                *)
GentleMappingIsRight == Gentle => MappingIsRight
=============================================================================
