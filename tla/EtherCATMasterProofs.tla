------------------------- MODULE EtherCATMasterProofs -------------------------
(***************************************************************************)
(* The types of the KELO EtherCAT master and the station addresses of the  *)
(* slaves, for every number of slaves.  No slave answers at another's      *)
(* address because ecx_recover_slave gives a slave's address to what it    *)
(* found at the temporary one only if the identities agree, and identities *)
(* are unique (MasterAssumption).  The invariant is inductive together     *)
(* with where the check thread is: SOEM's record of a slave holds another  *)
(* address than its own only between the two halves of ecx_recover_slave.  *)
(***************************************************************************)
EXTENDS EtherCATMaster, FiniteSetTheorems, TLAPS

CheckPcs == {"off", "test", "read", "slave", "branch", "write", "lost",
             "toINIT", "toPRE_OP", "toSAFE_OP", "temporary", "identify",
             "assign", "remove", "ended"}

(* From the write of the temporary address to the write of another one.    *)
TempPcs == {"identify", "assign", "remove"}

Slave == [al : {INIT, PRE_OP, SAFE_OP, OPERATIONAL}, err : BOOLEAN,
          req : {NoReq} \cup (0 .. 31), adr : 0 .. TEMPNODE, fmmu : BOOLEAN]

Known == [state : 0 .. 31, islost : BOOLEAN, configadr : 1 .. TEMPNODE]

RingOK == /\ ring \in Seq(S)
          /\ \A i, j \in 1 .. Len(ring) : ring[i] = ring[j] => i = j

CountsOK == wkc \in 0 .. N /\ wkcErrorCount \in 0 .. WkcErrorLimit

(* The check thread is started after the initialisation is over.           *)
CheckOK ==
  /\ check \in [pc : CheckPcs, slave : S]
  /\ main \in {"init", "config", "safeop", "op"} => check.pc = "off"

(* SOEM's address of a slave is temporary only while it is identified.     *)
TemporaryOK ==
  \A s \in S : slaves[s].configadr # s =>
    check.slave = s /\ check.pc \in TempPcs

IndInv ==
  /\ real \in [S -> Slave] /\ strayed \in BOOLEAN
  /\ RingOK
  /\ slaves \in [S -> Known]
  /\ CountsOK
  /\ CheckOK
  /\ TemporaryOK

(* As long as no slave came back with the temporary address: at most one   *)
(* slave on the line has it, and once the identities have been compared it *)
(* is the slave whose address is written next.                             *)
OwnInv ==
  ~strayed =>
    /\ \A s \in S : real[s].adr \in {0, s, TEMPNODE}
    /\ \A p, q \in OnRing : real[p].adr = TEMPNODE /\ real[q].adr = TEMPNODE
                             => p = q
    /\ check.pc = "assign" =>
         \A p \in OnRing : real[p].adr = TEMPNODE => p = check.slave

USE DEF INIT, PRE_OP, BOOT, SAFE_OP, OPERATIONAL, NONE, ERROR, NoReq

-----------------------------------------------------------------------------
(* Lemmas about the operators.                                             *)

(* The slaves on the line are slaves. *)
LEMMA OnRingInS == ASSUME RingOK PROVE OnRing \subseteq S
BY DEF RingOK, OnRing

(* A read of the AL status brings a state, with or without the error flag. *)
LEMMA StatusType ==
  ASSUME IndInv, NEW a PROVE Status(a) \in 0 .. 31
<1>1. AtAddress(a) \subseteq S
  BY OnRingInS DEF AtAddress, IndInv
<1>2. CASE AtAddress(a) = {}
  BY <1>2 DEF Status
<1>3. CASE AtAddress(a) # {}
  <2> DEFINE t == CHOOSE s \in AtAddress(a) : TRUE
  <2>1. t \in S
    BY <1>1, <1>3
  <2> HIDE DEF t
  <2>2. StateOf(t) \in 0 .. 31
    BY <2>1 DEF StateOf, IndInv, Slave
  <2>3. Status(a) = StateOf(t)
    BY <1>3 DEF Status, t
  <2> QED
    BY <2>2, <2>3
<1> QED
  BY <1>2, <1>3

(* The states of all slaves or-ed together. *)
LEMMA MergedType == Merged \in 0 .. 31
BY DEF Merged

(* ecx_readstate keeps the addresses and the marks of lost slaves. *)
LEMMA ReadStatesType ==
  ASSUME IndInv
  PROVE  /\ ReadStates \in [S -> Known]
         /\ \A s \in S : ReadStates[s].configadr = slaves[s].configadr
<1>1. \A s \in S : slaves[s] \in Known
  BY DEF IndInv
<1>2. \A s \in S :
        (IF LooksUniform THEN Merged ELSE Status(slaves[s].configadr)) \in 0 .. 31
  BY StatusType, MergedType
<1> QED
  BY <1>1, <1>2 DEF ReadStates, Known

(* A request leaves the addresses alone. *)
LEMMA AskedType ==
  ASSUME real \in [S -> Slave], NEW who, NEW req \in 0 .. 31
  PROVE  /\ Asked(who, req) \in [S -> Slave]
         /\ \A s \in S : Asked(who, req)[s].adr = real[s].adr
BY DEF Asked, Slave

(* The work counter counts slaves. *)
LEMMA CountingType == ASSUME IndInv PROVE Cardinality(Counting) \in 0 .. N
<1>1. Counting \subseteq 1 .. N
  BY OnRingInS DEF Counting, IndInv, S
<1>2. N \in Nat
  BY MasterAssumption
<1>3. IsFiniteSet(1 .. N) /\ Cardinality(1 .. N) = N
  BY <1>2, FS_Interval
<1>4. Cardinality(Counting) \in Nat /\ Cardinality(Counting) <= N
  BY <1>1, <1>3, FS_Subset, FS_CardinalityType
<1> QED
  BY <1>4, <1>2

-----------------------------------------------------------------------------
(* One lemma per thread: its steps keep the invariant.                     *)

LEMMA InitInv == Init => IndInv
<1> SUFFICES ASSUME Init PROVE IndInv
  OBVIOUS
<1> USE MasterAssumption DEF Init
<1>1. real \in [S -> Slave]
  BY DEF Fresh, Slave, S, TEMPNODE
<1>5. strayed \in BOOLEAN
  OBVIOUS
<1>2. RingOK
  <2>1. PICK k \in 0 .. N : ring = [i \in 1 .. k |-> i]
    OBVIOUS
  <2>2. ring \in Seq(S) /\ Len(ring) = k
    BY <2>1 DEF S
  <2> QED
    BY <2>1, <2>2 DEF RingOK
<1>3. slaves \in [S -> Known] /\ TemporaryOK
  BY DEF FreshList, Known, TemporaryOK, S, TEMPNODE
<1>4. CountsOK /\ CheckOK
  BY DEF CountsOK, CheckOK, CheckPcs, S
<1> QED
  BY <1>1, <1>2, <1>3, <1>4, <1>5 DEF IndInv

(* main and initEthercat. *)
LEMMA MainInv == IndInv /\ Main => IndInv'
<1> SUFFICES ASSUME IndInv, Main PROVE IndInv'
  OBVIOUS
<1> USE MasterAssumption
<1>1. CASE InitContext
  BY <1>1 DEF InitContext, env, IndInv, RingOK, CountsOK,
              CheckOK, TemporaryOK
<1>2. CASE ConfigInit
  <2>1. real' \in [S -> Slave] /\ strayed' \in BOOLEAN
    BY <1>2 DEF ConfigInit, IndInv, Slave, S, TEMPNODE
  <2>2. slaves' \in [S -> Known] /\ TemporaryOK'
    BY <1>2 DEF ConfigInit, FreshList, Known, TemporaryOK, S, TEMPNODE
  <2>3. RingOK' /\ CountsOK' /\ CheckOK'
    BY <1>2 DEF ConfigInit, IndInv, RingOK, CountsOK, CheckOK
  <2> QED
    BY <2>1, <2>2, <2>3 DEF IndInv
<1>3. CASE RequestOP
  <2>1. real' \in [S -> Slave] /\ strayed' \in BOOLEAN
    BY <1>3, AskedType DEF RequestOP, IndInv
  <2>2. slaves' \in [S -> Known] /\ TemporaryOK'
    BY <1>3, ReadStatesType DEF RequestOP, IndInv, TemporaryOK
  <2>3. RingOK' /\ CountsOK' /\ CheckOK'
    BY <1>3 DEF RequestOP, IndInv, RingOK, CountsOK, CheckOK
  <2> QED
    BY <2>1, <2>2, <2>3 DEF IndInv
<1>4. CASE StartCheck
  <2>1. CountsOK' /\ CheckOK'
    BY <1>4 DEF StartCheck, IndInv, CountsOK, CheckOK, CheckPcs
  <2>2. TemporaryOK'
    <3>1. check.pc = "off"
      BY <1>4 DEF StartCheck, IndInv, CheckOK
    <3>2. \A s \in S : slaves[s].configadr = s
      BY <3>1 DEF IndInv, TemporaryOK, TempPcs
    <3> QED
      BY <1>4, <3>2 DEF StartCheck, TemporaryOK
  <2>3. real' \in [S -> Slave] /\ strayed' \in BOOLEAN /\ RingOK'
        /\ slaves' \in [S -> Known]
    BY <1>4 DEF StartCheck, env, IndInv, RingOK
  <2> QED
    BY <2>1, <2>2, <2>3 DEF IndInv
<1>5. CASE StartHandler
  BY <1>5 DEF StartHandler, env, IndInv, RingOK, CountsOK,
              CheckOK, TemporaryOK
<1>6. CASE Exit
  BY <1>6 DEF Exit, env, shared, IndInv, RingOK,
              CountsOK, CheckOK, TemporaryOK
<1> QED
  BY <1>1, <1>2, <1>3, <1>4, <1>5, <1>6 DEF Main

(* ethercatHandler. *)
LEMMA HandlerInv == IndInv /\ Handler => IndInv'
<1> SUFFICES ASSUME IndInv, Handler PROVE IndInv'
  OBVIOUS
<1>1. CASE Receive
  BY <1>1, CountingType DEF Receive, hvars, env, IndInv, RingOK, CountsOK, CheckOK, TemporaryOK
<1>2. CASE HandlerEnds
  BY <1>2 DEF HandlerEnds, hvars, env, IndInv, RingOK,
              CountsOK, CheckOK, TemporaryOK
<1>3. CASE HandlerReadState
  BY <1>3, ReadStatesType DEF HandlerReadState, hvars, env, IndInv,
              RingOK, CountsOK, CheckOK, TemporaryOK
<1>4. CASE RequestSafeOp
  <2>1. real' \in [S -> Slave] /\ strayed' \in BOOLEAN
    BY <1>4, AskedType DEF RequestSafeOp, IndInv
  <2> QED
    BY <1>4, <2>1 DEF RequestSafeOp, shared, IndInv, RingOK, CountsOK,
                      CheckOK, TemporaryOK
<1>5. CASE Close
  BY <1>5 DEF Close, hvars, env, IndInv, RingOK, CountsOK,
              CheckOK, TemporaryOK
<1>6. CASE Stop
  BY <1>6 DEF Stop, hvars, env, IndInv, RingOK, CountsOK,
              CheckOK, TemporaryOK
<1> QED
  BY <1>1, <1>2, <1>3, <1>4, <1>5, <1>6 DEF Handler

(* Outside ecx_recover_slave every slave is looked for at its own address. *)
LEMMA OwnConfigadr ==
  ASSUME IndInv, check.pc \notin TempPcs
  PROVE  \A s \in S : slaves[s].configadr = s
BY DEF IndInv, TemporaryOK

(* The check thread goes on, on this slave or on the next one.             *)
LEMMA GotoType ==
  ASSUME CheckOK, main' = main, check.pc # "off",
         NEW pc \in CheckPcs, goto(pc) \/ NextSlave \/ UNCHANGED check
  PROVE  CheckOK'
<1>1. CASE goto(pc)
  BY <1>1 DEF goto, CheckOK
<1>2. CASE NextSlave
  BY <1>2, MasterAssumption DEF NextSlave, CheckOK, CheckPcs, S
<1>3. CASE UNCHANGED check
  BY <1>3 DEF CheckOK
<1> QED
  BY <1>1, <1>2, <1>3

(* A step of the check thread that keeps the addresses on both sides.      *)
LEMMA CheckKeeps ==
  ASSUME IndInv, check.pc \notin TempPcs, check.pc # "off",
         NEW pc \in CheckPcs, goto(pc) \/ NextSlave \/ UNCHANGED check,
         UNCHANGED cvars,
         real' \in [S -> Slave],
         slaves' \in [S -> Known],
         \A s \in S : slaves'[s].configadr = slaves[s].configadr,
         wkcErrorCount' \in 0 .. WkcErrorLimit
  PROVE  IndInv'
<1>1. strayed' \in BOOLEAN
  BY DEF cvars, IndInv
<1>2. CheckOK'
  BY GotoType DEF cvars, IndInv
<1>3. RingOK' /\ CountsOK'
  BY DEF cvars, IndInv, RingOK, CountsOK
<1>4. TemporaryOK'
  BY OwnConfigadr DEF TemporaryOK
<1> QED
  BY <1>1, <1>2, <1>3, <1>4 DEF IndInv

(* One step of ecx_reconfig_slave. *)
LEMMA ReconfigStepInv ==
  ASSUME IndInv, NEW pc \in CheckPcs \ (TempPcs \cup {"off"}), NEW reached,
         NEW req \in 0 .. 31, NEW next \in CheckPcs,
         ReconfigStep(pc, reached, req, next)
  PROVE  IndInv'
<1> DEFINE s == check.slave
           state == Status(slaves[s].configadr)
           to == IF state % ERROR = reached THEN next ELSE "lost"
<1>1. s \in S /\ state \in 0 .. 31 /\ to \in CheckPcs
  BY StatusType DEF IndInv, CheckOK, CheckPcs
<1>2. real' \in [S -> Slave] /\ \A t \in S : real'[t].adr = real[t].adr
  BY AskedType DEF ReconfigStep, IndInv
<1>3. /\ slaves' \in [S -> Known]
      /\ \A t \in S : slaves'[t].configadr = slaves[t].configadr
  BY <1>1 DEF ReconfigStep, IndInv, Known
<1>4. goto(to) /\ UNCHANGED cvars /\ UNCHANGED wkcErrorCount
      /\ check.pc = pc
  BY DEF ReconfigStep
<1> HIDE DEF to
<1> QED
  BY <1>1, <1>2, <1>3, <1>4, CheckKeeps DEF TempPcs, IndInv, CountsOK

(* ecx_recover_slave gives the temporary address, *)
LEMMA GiveTemporaryInv == ASSUME IndInv, GiveTemporary PROVE IndInv'
<1> DEFINE s == check.slave
           there == AtPosition(s)
<1>1. s \in S /\ check.pc = "temporary"
  BY DEF IndInv, CheckOK, GiveTemporary
<1>2. \A t \in S : slaves[t].configadr = t
  BY <1>1, OwnConfigadr DEF TempPcs
<1>3. {0, TEMPNODE} \subseteq 0 .. TEMPNODE /\ TEMPNODE \in 1 .. TEMPNODE
  BY MasterAssumption DEF TEMPNODE
<1>4. real' \in [S -> Slave]
  <2>1. \A p \in S : real'[p] \in {real[p], [real[p] EXCEPT !.adr = TEMPNODE],
                                   [real[p] EXCEPT !.adr = 0]}
    BY DEF GiveTemporary, IndInv, Slave
  <2>2. \A p \in S : real'[p] \in Slave
    BY <1>3, <2>1 DEF IndInv, Slave
  <2> QED
    BY <2>2 DEF GiveTemporary
<1>5. CASE there = {}
  <2>1. slaves' \in [S -> Known]
        /\ \A t \in S : slaves'[t].configadr = slaves[t].configadr
    BY <1>1, <1>5 DEF GiveTemporary, IndInv, Known
  <2>2. NextSlave /\ UNCHANGED cvars /\ UNCHANGED wkcErrorCount
    BY <1>5 DEF GiveTemporary
  <2> QED
    BY <1>1, <1>4, <2>1, <2>2, CheckKeeps DEF IndInv, CountsOK, CheckPcs, TempPcs
<1>6. CASE there # {}
  <2>1. slaves' = [slaves EXCEPT ![s].configadr = TEMPNODE]
        /\ goto("identify")
    BY <1>6 DEF GiveTemporary
  <2>2. slaves' \in [S -> Known]
    <3> DEFINE r == [slaves[s] EXCEPT !.configadr = TEMPNODE]
    <3>1. slaves' = [slaves EXCEPT ![s] = r]
      BY <1>1, <2>1 DEF IndInv
    <3>2. slaves[s] \in Known
      BY <1>1 DEF IndInv
    <3>3. r \in Known
      BY <3>2, <1>3 DEF Known
    <3> HIDE DEF r, s
    <3> QED
      BY <1>1, <3>1, <3>3 DEF IndInv
  <2>3. TemporaryOK'
    <3>1. check'.pc = "identify" /\ check'.slave = s
      BY <2>1, <1>1 DEF goto, IndInv, CheckOK
    <3>2. \A t \in S \ {s} : slaves'[t].configadr = t
      BY <1>1, <1>2, <2>1 DEF IndInv
    <3> QED
      BY <3>1, <3>2 DEF TemporaryOK, TempPcs
  <2>4. CheckOK'
    BY <1>1, <2>1, GotoType DEF GiveTemporary, cvars, IndInv, CheckPcs
  <2>5. RingOK' /\ CountsOK' /\ strayed' \in BOOLEAN
    BY DEF GiveTemporary, cvars, IndInv, RingOK, CountsOK
  <2> QED
    BY <1>4, <2>2, <2>3, <2>4, <2>5 DEF IndInv
<1> QED
  BY <1>5, <1>6

(* compares the identity, *)
LEMMA IdentifyInv == ASSUME IndInv, Identify PROVE IndInv'
<1>1. /\ check.pc = "identify"
      /\ UNCHANGED <<cvars, real, slaves, docheckstate, wkcErrorCount>>
      /\ goto("remove") \/ goto("assign")
  BY DEF Identify
<1>2. CheckOK'
  BY <1>1, GotoType DEF cvars, IndInv, CheckPcs
<1>3. TemporaryOK'
  <2>1. check'.slave = check.slave /\ check'.pc \in {"remove", "assign"}
    BY <1>1 DEF goto, IndInv, CheckOK
  <2> QED
    BY <1>1, <2>1 DEF IndInv, TemporaryOK, TempPcs
<1> QED
  BY <1>1, <1>2, <1>3 DEF cvars, IndInv, RingOK, CountsOK

(* and writes the address of the slave looked for, or none. *)
LEMMA AssignInv == ASSUME IndInv, Assign PROVE IndInv'
<1> DEFINE s == check.slave
           there == AtAddress(TEMPNODE)
           lost == \/ check.pc = "remove"
                   \/ there = {} /\ context = "open" /\ ring # <<>>
<1>1. s \in S /\ check.pc \in {"assign", "remove"}
  BY DEF IndInv, CheckOK, Assign
<1>2. S \subseteq 1 .. TEMPNODE /\ {0, s} \subseteq 0 .. TEMPNODE
  BY <1>1, MasterAssumption DEF S, TEMPNODE
<1>3. real' \in [S -> Slave]
  <2>1. \A p \in S : real'[p] \in {real[p], [real[p] EXCEPT !.adr = s],
                                   [real[p] EXCEPT !.adr = 0]}
    BY DEF Assign
  <2>2. \A p \in S : real'[p] \in Slave
    BY <1>2, <2>1 DEF IndInv, Slave
  <2> QED
    BY <2>2 DEF Assign
<1>4. slaves' \in [S -> Known] /\ \A t \in S : slaves'[t].configadr = t
  <2>1. slaves' = [slaves EXCEPT ![s].configadr = s, ![s].islost = lost]
    BY DEF Assign, Restored
  <2>2. lost \in BOOLEAN
    OBVIOUS
  <2>3. \A t \in S \ {s} : slaves[t].configadr = t
    BY <1>1 DEF IndInv, TemporaryOK
  <2> DEFINE r == [slaves[s] EXCEPT !.configadr = s, !.islost = lost]
  <2> HIDE DEF lost
  <2>4. slaves' = [slaves EXCEPT ![s] = r]
    BY <1>1, <2>1 DEF IndInv
  <2>5. r \in Known /\ r.configadr = s
    <3>1. slaves[s] \in Known /\ s \in 1 .. TEMPNODE
      BY <1>1, <1>2 DEF IndInv
    <3> QED
      BY <2>2, <3>1 DEF Known
  <2> HIDE DEF r, s
  <2> QED
    BY <1>1, <2>3, <2>4, <2>5 DEF IndInv
<1>5. CheckOK'
  BY <1>1, GotoType DEF Assign, cvars, IndInv, CheckPcs
<1>6. RingOK' /\ CountsOK' /\ TemporaryOK' /\ strayed' \in BOOLEAN
  BY <1>4 DEF Assign, cvars, IndInv, RingOK, CountsOK, TemporaryOK
<1> QED
  BY <1>3, <1>4, <1>5, <1>6 DEF IndInv

(* ethercatCheck. *)
LEMMA CheckInv == IndInv /\ Check => IndInv'
<1> SUFFICES ASSUME IndInv, Check PROVE IndInv'
  OBVIOUS
<1> DEFINE s == check.slave
<1>0. s \in S /\ check.pc \in CheckPcs
  BY DEF IndInv, CheckOK
<1>1. CASE CheckTest
  <2>1. wkcErrorCount' \in 0 .. WkcErrorLimit
    <3> DEFINE count == IF inOP /\ wkc < N /\ wkcErrorCount < WkcErrorLimit
                        THEN wkcErrorCount + 1 ELSE 0
    <3>1. count \in 0 .. WkcErrorLimit
      BY MasterAssumption DEF IndInv, CountsOK
    <3>2. wkcErrorCount' \in {wkcErrorCount, count}
      BY <1>1 DEF CheckTest
    <3> QED
      BY <3>1, <3>2 DEF IndInv, CountsOK
  <2>2. \E pc \in CheckPcs : goto(pc) \/ UNCHANGED check
    BY <1>1 DEF CheckTest, CheckPcs
  <2> QED
    BY <1>1, <2>1, <2>2, CheckKeeps DEF TempPcs, CheckTest, IndInv
<1>2. CASE CheckReadState
  BY <1>2, ReadStatesType, CheckKeeps
     DEF TempPcs, CheckReadState, IndInv, CountsOK, CheckPcs
<1>3. CASE CheckSlave
  <2>1. \E pc \in CheckPcs : goto(pc)
    BY <1>3 DEF CheckSlave, CheckPcs
  <2> QED
    BY <1>3, <2>1, CheckKeeps DEF TempPcs, CheckSlave, IndInv, CountsOK
<1>4. CASE StoreState
  <2>1. slaves' \in [S -> Known]
        /\ \A t \in S : slaves'[t].configadr = slaves[t].configadr
    <3> DEFINE r == slaves[s]
               n == [r EXCEPT !.state = NewState(r.state)]
    <3>1. s \in S /\ slaves \in [S -> Known] /\ r \in Known
      BY <1>0, <1>4 DEF StoreState, IndInv
    <3>2. slaves' = [slaves EXCEPT ![s] = n]
      BY <1>4 DEF StoreState
    <3>3. NewState(r.state) \in 0 .. 31
      BY <3>1 DEF NewState, Known
    <3>4. n \in Known /\ n.configadr = r.configadr
      <4> DEFINE e == NewState(r.state)
      <4>1. r \in Known /\ e \in 0 .. 31 /\ n = [r EXCEPT !.state = e]
        BY <3>1, <3>3
      <4> HIDE DEF r, e, n
      <4> QED
        BY <4>1 DEF Known
    <3> HIDE DEF n
    <3> QED
      BY <3>1, <3>2, <3>4
  <2> QED
    BY <1>4, <2>1, CheckKeeps DEF TempPcs, StoreState, IndInv, CountsOK, CheckPcs
<1>5. CASE WriteState
  <2>1. slaves[s].state \in 0 .. 31
    BY <1>0 DEF IndInv, Known
  <2>2. real' \in [S -> Slave] /\ \A t \in S : real'[t].adr = real[t].adr
    BY <1>5, <2>1, AskedType DEF WriteState, IndInv
  <2> QED
    BY <1>5, <2>2, CheckKeeps DEF TempPcs, WriteState, IndInv, CountsOK, CheckPcs
<1>6. CASE Recheck
  <2>1. slaves' \in [S -> Known]
        /\ \A t \in S : slaves'[t].configadr = slaves[t].configadr
    BY <1>0, <1>6, StatusType DEF Recheck, IndInv, Known
  <2> QED
    BY <1>6, <2>1, CheckKeeps DEF TempPcs, Recheck, IndInv, CountsOK, CheckPcs
<1>7. CASE Reconfig
  <2>1. real' \in [S -> Slave] /\ \A t \in S : real'[t].adr = real[t].adr
    BY <1>7, AskedType DEF Reconfig, IndInv
  <2>2. \E pc \in CheckPcs : goto(pc)
    BY <1>7 DEF Reconfig, CheckPcs
  <2> QED
    BY <1>7, <2>1, <2>2, CheckKeeps DEF TempPcs, Reconfig, IndInv, CountsOK
<1>8. CASE ReconfigInit
  BY <1>8, ReconfigStepInv DEF ReconfigInit, CheckPcs, TempPcs
<1>9. CASE ReconfigPreOp
  BY <1>9, ReconfigStepInv DEF ReconfigPreOp, CheckPcs, TempPcs
<1>10. CASE ReconfigSafeOp
  <2>1. real' \in [S -> Slave] /\ \A t \in S : real'[t].adr = real[t].adr
    BY <1>10 DEF ReconfigSafeOp, IndInv, Slave
  <2>2. slaves' \in [S -> Known]
        /\ \A t \in S : slaves'[t].configadr = slaves[t].configadr
    BY <1>0, <1>10, StatusType DEF ReconfigSafeOp, IndInv, Known
  <2> QED
    BY <1>10, <2>1, <2>2, CheckKeeps
       DEF TempPcs, ReconfigSafeOp, IndInv, CountsOK, CheckPcs
<1>11. CASE Found
  <2>1. slaves' \in [S -> Known]
        /\ \A t \in S : slaves'[t].configadr = slaves[t].configadr
    BY <1>0, <1>11 DEF Found, IndInv, Known
  <2> QED
    BY <1>11, <2>1, CheckKeeps DEF TempPcs, Found, IndInv, CountsOK, CheckPcs
<1>12. CASE Recover
  <2>1. slaves' \in [S -> Known]
        /\ \A t \in S : slaves'[t].configadr = slaves[t].configadr
    <3> DEFINE lost == ~\E p \in AtPosition(s) : real[p].adr = slaves[s].configadr
    <3>1. slaves' = [slaves EXCEPT ![s].islost = lost] /\ lost \in BOOLEAN
      BY <1>12 DEF Recover
    <3> HIDE DEF lost
    <3> QED
      BY <1>0, <3>1 DEF IndInv, Known
  <2>2. goto("temporary") \/ NextSlave
    BY <1>12 DEF Recover
  <2> QED
    BY <1>12, <2>1, <2>2, CheckKeeps
       DEF Recover, IndInv, CountsOK, CheckPcs, TempPcs
<1>13. CASE GiveTemporary
  BY <1>13, GiveTemporaryInv
<1>14. CASE Identify
  BY <1>14, IdentifyInv
<1>15. CASE Assign
  BY <1>15, AssignInv
<1> QED
  BY <1>1, <1>2, <1>3, <1>4, <1>5, <1>6, <1>7, <1>8, <1>9, <1>10, <1>11,
     <1>12, <1>13, <1>14, <1>15 DEF Check

(* The line and the slaves. *)
LEMMA EnvironmentInv == IndInv /\ Environment => IndInv'
<1> SUFFICES ASSUME IndInv, Environment PROVE IndInv'
  OBVIOUS
<1>0. UNCHANGED <<shared, wkcErrorCount, main, check>> =>
        /\ slaves' \in [S -> Known]
        /\ CountsOK' /\ CheckOK' /\ TemporaryOK'
  BY DEF shared, IndInv, CountsOK, CheckOK, TemporaryOK
<1>1. ASSUME NEW s \in S, Obey(s) PROVE IndInv'
  <2>1. real' \in [S -> Slave] /\ \A t \in S : real'[t].adr = real[t].adr
    <3> DEFINE r == real[s]
               to == r.req % ERROR
               err == r.err /\ r.req < ERROR
               next == CASE to = INIT -> [r EXCEPT !.al = INIT, !.err = FALSE,
                                                   !.req = NoReq]
                         [] to = r.al -> [r EXCEPT !.err = err, !.req = NoReq]
                         [] ~err /\ <<r.al, to>> \in Steps ->
                              [r EXCEPT !.al = to, !.err = FALSE, !.req = NoReq]
                         [] OTHER -> [r EXCEPT !.err = TRUE, !.req = NoReq]
    <3>1. real' = [real EXCEPT ![s] = next]
      BY <1>1 DEF Obey
    <3>2. r \in Slave
      BY DEF IndInv
    <3>3. next \in Slave /\ next.adr = r.adr
      <4>1. <<r.al, to>> \in Steps => to \in {INIT, PRE_OP, SAFE_OP, OPERATIONAL}
        BY DEF Steps
      <4> HIDE DEF r, to
      <4>2. CASE to = INIT
        BY <3>2, <4>2 DEF Slave
      <4>3. CASE to # INIT /\ to = r.al
        <5>1. next = [r EXCEPT !.err = err, !.req = NoReq]
          BY <4>3
        <5>2. err \in BOOLEAN
          BY <3>2 DEF Slave
        <5> QED
          BY <3>2, <5>1, <5>2 DEF Slave
      <4>4. CASE to # INIT /\ to # r.al /\ ~err /\ <<r.al, to>> \in Steps
        <5>1. next = [r EXCEPT !.al = to, !.err = FALSE, !.req = NoReq]
          BY <4>4
        <5> QED
          BY <3>2, <4>1, <4>4, <5>1 DEF Slave
      <4>5. CASE to # INIT /\ to # r.al /\ ~(~err /\ <<r.al, to>> \in Steps)
        <5>1. next = [r EXCEPT !.err = TRUE, !.req = NoReq]
          BY <4>5
        <5> QED
          BY <3>2, <5>1 DEF Slave
      <4> QED
        BY <4>2, <4>3, <4>4, <4>5
    <3> HIDE DEF next
    <3> QED
      BY <3>1, <3>3 DEF IndInv
  <2>2. RingOK' /\ strayed' \in BOOLEAN
    BY <1>1 DEF Obey, IndInv, RingOK
  <2> QED
    BY <1>0, <1>1, <2>1, <2>2 DEF Obey, IndInv
<1>2. ASSUME NEW s \in S, Watchdog(s) PROVE IndInv'
  <2>1. real' \in [S -> Slave] /\ \A t \in S : real'[t].adr = real[t].adr
    <3>1. real \in [S -> Slave] /\ real[s] \in Slave
      BY <1>2 DEF IndInv
    <3>2. /\ real' = [real EXCEPT ![s] = Expired(real[s])]
          /\ real[s].al = OPERATIONAL
      BY <1>2 DEF Watchdog
    <3> DEFINE r == real[s]
               e == [r EXCEPT !.al = SAFE_OP, !.err = TRUE]
    <3>3. Expired(real[s]) = e
      BY <3>2 DEF Expired
    <3>4. e \in Slave /\ e.adr = r.adr
      <4>1. r \in Slave
        BY <3>1
      <4> HIDE DEF r
      <4> QED
        BY <4>1 DEF Slave
    <3> HIDE DEF e
    <3> QED
      BY <3>1, <3>2, <3>3, <3>4
  <2>2. RingOK' /\ strayed' \in BOOLEAN
    BY <1>2 DEF Watchdog, IndInv, RingOK
  <2> QED
    BY <1>0, <1>2, <2>1, <2>2 DEF Watchdog, IndInv
<1>3. ASSUME NEW s \in S, Return(s) PROVE IndInv'
  <2>1. RingOK'
    BY <1>3 DEF Return, IndInv, RingOK, OnRing
  <2> QED
    BY <1>0, <1>3, <2>1 DEF Return, IndInv
<1>4. ASSUME NEW k \in S, NEW power \in BOOLEAN, Cut(k, power) PROVE IndInv'
  <2>1. real' \in [S -> Slave] /\ strayed' \in BOOLEAN
    <3>1. \A s \in S : real'[s] \in {real[s], Fresh,
                                     [Expired(real[s]) EXCEPT !.req = NoReq]}
      BY <1>4 DEF Cut
    <3>2. Fresh \in Slave /\ Fresh.adr = 0
      BY MasterAssumption DEF Fresh, Slave, TEMPNODE
    <3>5. \A s \in S :
            LET e == [Expired(real[s]) EXCEPT !.req = NoReq]
            IN  e \in Slave /\ e.adr = real[s].adr
      <4>1. \A s \in S : Expired(real[s]) \in Slave
                         /\ Expired(real[s]).adr = real[s].adr
        BY DEF IndInv, Slave, Expired
      <4> QED
        BY <4>1 DEF Slave
    <3>3. \A s \in S : real'[s] \in Slave
      BY <3>1, <3>2, <3>5 DEF IndInv
    <3> QED
      BY <1>4, <3>3 DEF Cut, IndInv
  <2>2. RingOK'
    <3>1. k \in Nat \ {0} /\ k - 1 \in 0 .. Len(ring)
      BY <1>4, MasterAssumption, SMTT(30) DEF Cut, S, IndInv, RingOK
    <3>2. /\ ring' \in Seq(S) /\ Len(ring') = k - 1
          /\ \A i \in 1 .. k - 1 : ring'[i] = ring[i]
      BY <1>4, <3>1 DEF Cut, IndInv, RingOK
    <3> QED
      BY <3>1, <3>2 DEF IndInv, RingOK
  <2> QED
    BY <1>0, <1>4, <2>1, <2>2 DEF Cut, IndInv
<1> QED
  BY <1>1, <1>2, <1>3, <1>4 DEF Environment

LEMMA StutterInv == IndInv /\ UNCHANGED vars => IndInv'
BY DEF vars, env, shared, IndInv, RingOK, CountsOK, CheckOK,
       TemporaryOK

-----------------------------------------------------------------------------
(* The station addresses.                                                  *)

(* A step that writes no address but 0 or the slave's own.                 *)
LEMMA OwnKept ==
  ASSUME IndInv, OwnInv, strayed' = strayed, OnRing' \subseteq OnRing,
         \A s \in S : real'[s].adr \in {0, s, real[s].adr},
         check' = check \/ check'.pc # "assign"
  PROVE  OwnInv'
<1> SUFFICES ASSUME ~strayed PROVE OwnInv'
  BY DEF OwnInv
<1>1. TEMPNODE \notin {0} \cup S
  BY MasterAssumption DEF TEMPNODE, S
<1>2. \A s \in S : real'[s].adr = TEMPNODE => real[s].adr = TEMPNODE
  BY <1>1
<1>3. OnRing \subseteq S
  BY OnRingInS DEF IndInv
<1>4. \A s \in S : real'[s].adr \in {0, s, TEMPNODE'}
  BY DEF OwnInv, TEMPNODE
<1>5. TEMPNODE' = TEMPNODE /\ S' = S
  BY DEF TEMPNODE, S
<1> QED
  BY <1>2, <1>3, <1>4, <1>5 DEF OwnInv

(* Nothing but the list of slaves and the threads' own variables changes.  *)
LEMMA OwnUntouched ==
  ASSUME IndInv, OwnInv, UNCHANGED <<real, ring, strayed>>,
         check' = check \/ check'.pc # "assign"
  PROVE  OwnInv'
<1>1. OnRing' = OnRing
  BY DEF OnRing
<1> QED
  BY <1>1, OwnKept

(* Where the check thread goes next.                                       *)
LEMMA NotAssigning ==
  ASSUME IndInv, NEW pc \in CheckPcs \ {"assign"}, goto(pc) \/ NextSlave
  PROVE  check'.pc # "assign"
BY DEF goto, NextSlave, IndInv, CheckOK, CheckPcs

LEMMA MainOwn == IndInv /\ OwnInv /\ Main => OwnInv'
<1> SUFFICES ASSUME IndInv, OwnInv, Main PROVE OwnInv'
  OBVIOUS
<1>1. CASE InitContext
  BY <1>1, OwnUntouched DEF InitContext, env
<1>2. CASE ConfigInit
  <2>1. \A s \in S : real'[s].adr \in {0, s, real[s].adr}
    BY <1>2 DEF ConfigInit
  <2>2. OnRing' = OnRing /\ strayed' = strayed /\ check' = check
    BY <1>2 DEF ConfigInit, OnRing
  <2> QED
    BY <2>1, <2>2, OwnKept
<1>3. CASE RequestOP
  <2>1. \A s \in S : real'[s].adr = real[s].adr
    BY <1>3, AskedType DEF RequestOP, IndInv
  <2>2. OnRing' = OnRing /\ strayed' = strayed /\ check' = check
    BY <1>3 DEF RequestOP, OnRing
  <2> QED
    BY <2>1, <2>2, OwnKept
<1>4. CASE StartCheck
  BY <1>4, OwnUntouched DEF StartCheck, env, IndInv, CheckOK
<1>5. CASE StartHandler
  BY <1>5, OwnUntouched DEF StartHandler, env
<1>6. CASE Exit
  BY <1>6, OwnUntouched DEF Exit, env
<1> QED
  BY <1>1, <1>2, <1>3, <1>4, <1>5, <1>6 DEF Main

LEMMA HandlerOwn == IndInv /\ OwnInv /\ Handler => OwnInv'
<1> SUFFICES ASSUME IndInv, OwnInv, Handler PROVE OwnInv'
  OBVIOUS
<1>1. CASE RequestSafeOp
  <2>1. \A s \in S : real'[s].adr = real[s].adr
    BY <1>1, AskedType DEF RequestSafeOp, IndInv
  <2>2. OnRing' = OnRing /\ strayed' = strayed /\ check' = check
    BY <1>1 DEF RequestSafeOp, OnRing
  <2> QED
    BY <2>1, <2>2, OwnKept
<1>2. CASE Receive \/ HandlerEnds \/ HandlerReadState \/ Close \/ Stop
  BY <1>2, OwnUntouched
     DEF Receive, HandlerEnds, HandlerReadState, Close, Stop, hvars, env
<1> QED
  BY <1>1, <1>2 DEF Handler

(* The slave at the position gets the temporary address; any other slave   *)
(* on the line has lost it.                                                *)
LEMMA GiveTemporaryOwn ==
  ASSUME IndInv, OwnInv, GiveTemporary PROVE OwnInv'
<1> DEFINE s == check.slave
           there == AtPosition(s)
<1>1. CASE there = {}
  <2>1. \A p \in S : real'[p].adr \in {0, p, real[p].adr}
    BY <1>1 DEF GiveTemporary, IndInv, Slave
  <2>2. OnRing' = OnRing /\ strayed' = strayed
    BY DEF GiveTemporary, cvars, OnRing
  <2>3. check'.pc # "assign"
    BY <1>1, NotAssigning DEF GiveTemporary, CheckPcs
  <2> QED
    BY <2>1, <2>2, <2>3, OwnKept
<1>2. CASE there # {}
  <2> SUFFICES ASSUME ~strayed PROVE OwnInv'
    BY DEF OwnInv, GiveTemporary, cvars
  <2>1. there = {ring[s]} /\ context = "open"
    BY <1>2 DEF AtPosition
  <2>2. \A p \in S : real'[p].adr = IF p \in there THEN TEMPNODE
                 ELSE IF p \in AtAddress(TEMPNODE) THEN 0 ELSE real[p].adr
    BY DEF GiveTemporary, IndInv, Slave
  <2>3. OnRing' = OnRing /\ OnRing \subseteq S
    BY OnRingInS DEF GiveTemporary, cvars, OnRing, IndInv
  <2>4. TEMPNODE # 0 /\ TEMPNODE' = TEMPNODE /\ S' = S
    BY MasterAssumption DEF TEMPNODE, S
  <2>5. \A p \in OnRing : real'[p].adr = TEMPNODE => p = ring[s]
    BY <2>1, <2>2, <2>3, <2>4 DEF AtAddress
  <2>6. \A p \in S : real'[p].adr \in {0, p, TEMPNODE}
    BY <2>2 DEF OwnInv
  <2>7. check'.pc # "assign"
    BY <1>2, NotAssigning DEF GiveTemporary, CheckPcs
  <2> QED
    BY <2>3, <2>4, <2>5, <2>6, <2>7 DEF OwnInv
<1> QED
  BY <1>1, <1>2

(* The identity is the one looked for only at the slave looked for.        *)
LEMMA IdentifyOwn == ASSUME IndInv, OwnInv, Identify PROVE OwnInv'
<1> DEFINE s == check.slave
<1>1. UNCHANGED <<real, ring, strayed>> /\ check.pc = "identify"
  BY DEF Identify, cvars
<1>2. CASE goto("remove")
  BY <1>1, <1>2, NotAssigning, OwnUntouched DEF CheckPcs
<1>3. CASE goto("assign")
  <2> SUFFICES ASSUME ~strayed PROVE OwnInv'
    BY <1>1 DEF OwnInv
  <2>1. check'.slave = s /\ check'.pc = "assign" /\ s \in S
    BY <1>3 DEF goto, IndInv, CheckOK
  <2>2. PICK p \in AtAddress(TEMPNODE) : IsSame(p, s)
    <3>1. ~goto("remove")
      BY <2>1, <1>3 DEF goto, IndInv, CheckOK
    <3> QED
      BY <3>1 DEF Identify
  <2>3. p \in OnRing /\ real[p].adr = TEMPNODE /\ p \in S
    BY <2>2, OnRingInS DEF AtAddress, IndInv
  <2>4. p = s
    BY <2>1, <2>2, <2>3, MasterAssumption DEF IsSame, S
  <2>5. OnRing' = OnRing /\ TEMPNODE' = TEMPNODE /\ S' = S
    BY <1>1 DEF OnRing, TEMPNODE, S
  <2> QED
    BY <1>1, <2>1, <2>3, <2>4, <2>5 DEF OwnInv
<1> QED
  BY <1>2, <1>3 DEF Identify

(* Its address is written to that slave alone.                             *)
LEMMA AssignOwn == ASSUME IndInv, OwnInv, Assign PROVE OwnInv'
<1>1. OnRing' = OnRing /\ strayed' = strayed
  BY DEF Assign, cvars, OnRing
<1>2. check'.pc # "assign"
  <2>1. NextSlave /\ "test" \in CheckPcs \ {"assign"}
    BY DEF Assign, CheckPcs
  <2> QED
    BY <2>1, NotAssigning
<1> SUFFICES ASSUME ~strayed PROVE OwnInv'
  BY <1>1 DEF OwnInv
<1>3. \A p \in S : real'[p].adr \in {0, p, real[p].adr}
  <2> SUFFICES ASSUME NEW p \in S
               PROVE  real'[p].adr \in {0, p, real[p].adr}
    OBVIOUS
  <2>1. CASE p \notin AtAddress(TEMPNODE)
    BY <2>1 DEF Assign
  <2>2. CASE p \in AtAddress(TEMPNODE)
    <3>1. real'[p].adr = IF check.pc = "assign" THEN check.slave ELSE 0
      BY <2>2 DEF Assign, IndInv, Slave
    <3>2. check.pc = "assign" => p = check.slave
      BY <2>2 DEF OwnInv, AtAddress
    <3> QED
      BY <3>1, <3>2
  <2> QED
    BY <2>1, <2>2
<1> QED
  BY <1>1, <1>2, <1>3, OwnKept

LEMMA CheckOwn == IndInv /\ OwnInv /\ Check => OwnInv'
<1> SUFFICES ASSUME IndInv, OwnInv, Check PROVE OwnInv'
  OBVIOUS
<1>0. cvars' = cvars => strayed' = strayed /\ OnRing' = OnRing /\ ring' = ring
  BY DEF cvars, OnRing
<1>1. CASE CheckTest
  <2>1. check' = check \/ check'.pc # "assign"
    BY <1>1, NotAssigning DEF CheckTest, CheckPcs
  <2> QED
    BY <1>0, <1>1, <2>1, OwnUntouched DEF CheckTest
<1>2. CASE CheckReadState \/ CheckSlave \/ StoreState \/ Recheck \/ Found
           \/ Recover
  <2>1. check'.pc # "assign"
    BY <1>2, NotAssigning DEF CheckReadState, CheckSlave, StoreState, Recheck,
       Found, Recover, CheckPcs
  <2>2. UNCHANGED <<real, cvars>>
    BY <1>2 DEF CheckReadState, CheckSlave, StoreState, Recheck, Found, Recover
  <2> QED
    BY <1>0, <2>1, <2>2, OwnUntouched
<1>3. CASE WriteState
  <2>1. slaves[check.slave].state \in 0 .. 31
    BY DEF IndInv, CheckOK, Known
  <2>2. \A s \in S : real'[s].adr = real[s].adr
    BY <1>3, <2>1, AskedType DEF WriteState, IndInv
  <2>3. check'.pc # "assign"
    BY <1>3, NotAssigning DEF WriteState, CheckPcs
  <2> QED
    BY <1>0, <1>3, <2>2, <2>3, OwnKept DEF WriteState
<1>4. CASE Reconfig
  <2>2. \A s \in S : real'[s].adr = real[s].adr
    BY <1>4, AskedType DEF Reconfig, IndInv
  <2>3. check'.pc # "assign"
    BY <1>4, NotAssigning DEF Reconfig, CheckPcs
  <2> QED
    BY <1>0, <1>4, <2>2, <2>3, OwnKept DEF Reconfig
<1>5. ASSUME NEW pc, NEW reached, NEW req \in 0 .. 31,
             NEW next \in CheckPcs \ {"assign"},
             ReconfigStep(pc, reached, req, next)
      PROVE  OwnInv'
  <2>2. \A s \in S : real'[s].adr = real[s].adr
    BY <1>5, AskedType DEF ReconfigStep, IndInv
  <2>3. check'.pc # "assign"
    BY <1>5, NotAssigning DEF ReconfigStep, CheckPcs
  <2> QED
    BY <1>0, <1>5, <2>2, <2>3, OwnKept DEF ReconfigStep
<1>6. CASE ReconfigInit \/ ReconfigPreOp
  BY <1>5, <1>6 DEF ReconfigInit, ReconfigPreOp, CheckPcs
<1>7. CASE ReconfigSafeOp
  <2>2. \A s \in S : real'[s].adr = real[s].adr
    BY <1>7 DEF ReconfigSafeOp, IndInv, Slave
  <2>3. check'.pc # "assign"
    BY <1>7, NotAssigning DEF ReconfigSafeOp, CheckPcs
  <2> QED
    BY <1>0, <1>7, <2>2, <2>3, OwnKept DEF ReconfigSafeOp
<1> QED
  BY <1>1, <1>2, <1>3, <1>4, <1>6, <1>7, GiveTemporaryOwn, IdentifyOwn,
     AssignOwn DEF Check

LEMMA EnvironmentOwn == IndInv /\ OwnInv /\ Environment => OwnInv'
<1> SUFFICES ASSUME IndInv, OwnInv, Environment PROVE OwnInv'
  OBVIOUS
<1>1. ASSUME NEW s \in S, Obey(s) PROVE OwnInv'
  <2>1. \A t \in S : real'[t].adr = real[t].adr
    BY <1>1 DEF Obey, IndInv, Slave
  <2>2. OnRing' = OnRing /\ strayed' = strayed /\ check' = check
    BY <1>1 DEF Obey, OnRing
  <2> QED
    BY <2>1, <2>2, OwnKept
<1>2. ASSUME NEW s \in S, Watchdog(s) PROVE OwnInv'
  <2>1. \A t \in S : real'[t].adr = real[t].adr
    BY <1>2 DEF Watchdog, Expired, IndInv, Slave
  <2>2. OnRing' = OnRing /\ strayed' = strayed /\ check' = check
    BY <1>2 DEF Watchdog, OnRing
  <2> QED
    BY <2>1, <2>2, OwnKept
<1>3. ASSUME NEW s \in S, Return(s) PROVE OwnInv'
  <2> SUFFICES ASSUME ~strayed' PROVE OwnInv'
    BY DEF OwnInv
  <2>1. ~strayed /\ real[s].adr # TEMPNODE
    BY <1>3 DEF Return
  <2>2. OnRing' = OnRing \cup {s}
    BY <1>3 DEF Return, OnRing, IndInv, RingOK
  <2>3. TEMPNODE' = TEMPNODE /\ S' = S
    BY DEF TEMPNODE, S
  <2> QED
    BY <1>3, <2>1, <2>2, <2>3 DEF OwnInv, Return
<1>4. ASSUME NEW k \in S, NEW power \in BOOLEAN, Cut(k, power) PROVE OwnInv'
  <2>1. \A s \in S : real'[s].adr \in {0, real[s].adr}
    <3>1. \A s \in S : real'[s] \in {real[s], Fresh,
                                     [Expired(real[s]) EXCEPT !.req = NoReq]}
      BY <1>4 DEF Cut
    <3>2. \A s \in S : [Expired(real[s]) EXCEPT !.req = NoReq].adr
                        = real[s].adr
      <4>1. \A s \in S : Expired(real[s]) \in Slave
                         /\ Expired(real[s]).adr = real[s].adr
        BY DEF IndInv, Slave, Expired
      <4> QED
        BY <4>1 DEF Slave
    <3>3. Fresh.adr = 0
      BY DEF Fresh
    <3> DEFINE e(s) == [Expired(real[s]) EXCEPT !.req = NoReq]
    <3>4. \A s \in S : real'[s] \in {real[s], Fresh, e(s)}
                      /\ e(s).adr = real[s].adr
      BY <3>1, <3>2
    <3> HIDE DEF e
    <3> QED
      BY <3>3, <3>4
  <2>2. OnRing' \subseteq OnRing
    <3>1. k \in Nat \ {0} /\ k - 1 \in 0 .. Len(ring)
      BY <1>4, MasterAssumption, SMTT(30) DEF Cut, S, IndInv, RingOK
    <3>2. Len(ring') = k - 1 /\ \A i \in 1 .. k - 1 : ring'[i] = ring[i]
      BY <1>4, <3>1 DEF Cut, IndInv, RingOK
    <3>3. 1 .. k - 1 \subseteq 1 .. Len(ring)
      BY <3>1 DEF IndInv, RingOK
    <3> QED
      BY <3>2, <3>3 DEF OnRing
  <2>3. strayed' = strayed /\ check' = check
    BY <1>4 DEF Cut
  <2> QED
    BY <2>1, <2>2, <2>3, OwnKept
<1> QED
  BY <1>1, <1>2, <1>3, <1>4 DEF Environment

-----------------------------------------------------------------------------
(* The invariant holds, whatever the order in which the threads, the ring  *)
(* and the slaves take their steps.                                        *)
LEMMA Invariance == Spec => []IndInv
<1>1. IndInv /\ [Next]_vars => IndInv'
  BY MainInv, HandlerInv, CheckInv, EnvironmentInv, StutterInv DEF Next
<1> QED
  BY InitInv, <1>1, PTL DEF Spec

LEMMA OwnInvariance == Spec => []OwnInv
<1>1. Init => OwnInv
  <2> SUFFICES ASSUME Init PROVE OwnInv
    OBVIOUS
  <2>1. \A s \in S : real[s].adr = 0
    BY DEF Init, Fresh
  <2>2. OnRing \subseteq S /\ check.pc = "off"
    BY InitInv, OnRingInS DEF IndInv, Init
  <2>3. TEMPNODE # 0
    BY MasterAssumption DEF TEMPNODE
  <2> QED
    BY <2>1, <2>2, <2>3 DEF OwnInv
<1>2. IndInv /\ OwnInv /\ [Next]_vars => OwnInv'
  <2> SUFFICES ASSUME IndInv, OwnInv, [Next]_vars PROVE OwnInv'
    OBVIOUS
  <2>1. CASE UNCHANGED vars
    BY <2>1, OwnUntouched DEF vars, env
  <2> QED
    BY <2>1, MainOwn, HandlerOwn, CheckOwn, EnvironmentOwn DEF Next
<1> QED
  BY Invariance, <1>1, <1>2, PTL DEF Spec

(* Types; and SOEM holds a temporary address for a slave only while the    *)
(* check thread identifies that very slave (ecx_recover_slave).            *)
THEOREM TypeCorrect == Spec => []TypeOK
<1>1. IndInv => TypeOK
  BY DEF IndInv, RingOK, CountsOK, CheckOK, TemporaryOK, TempPcs, Slave,
         Known, TypeOK
<1> QED
  BY Invariance, <1>1, PTL

(* However often the line is cut, also between the transfers of            *)
(* ecx_recover_slave, and in whatever order it is plugged together again:  *)
(* no slave has the station address of another one, unless one was plugged *)
(* in that still held the temporary address.                               *)
THEOREM AddressesOwn == Spec => []AddressesAreOwn
<1>1. OwnInv => AddressesAreOwn
  BY DEF OwnInv, AddressesAreOwn
<1> QED
  BY OwnInvariance, <1>1, PTL
=============================================================================
