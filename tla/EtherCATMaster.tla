---------------------------- MODULE EtherCATMaster ----------------------------
(***************************************************************************)
(* The KELO EtherCAT master: initEthercat, the handler thread that          *)
(* exchanges process data and steps the modules, the check thread that     *)
(* brings slaves back to OPERATIONAL (EtherCATMaster.cpp), the program     *)
(* around them (TulipMain.cpp), and the functions of SOEM that read, write *)
(* and restore the states of slaves (ecx_readstate, ecx_writestate,        *)
(* ecx_statecheck, ecx_reconfig_slave, ecx_recover_slave).                 *)
(*                                                                         *)
(* The slaves are external: a line that may be cut, slaves that may lose   *)
(* power, come back at its end, or fall out of OPERATIONAL when their      *)
(* watchdog expires; each moves to the state it is asked for in its time.  *)
(***************************************************************************)
EXTENDS Integers, Sequences, FiniteSets

CONSTANTS
  N,              \* slaves the modules were configured for
  Id,             \* what the EEPROM of each says it is, serial number
                  \* included: no two are the same
  SafeOpCounts,   \* whether a slave in SAFE_OP counts its process data
  Retries,        \* bound: failed initialisations that are tried again
  WkcErrorLimit,  \* 100 in the code
  MaxFaults       \* bound: cuts and watchdog expiries

ASSUME MasterAssumption ==
  /\ N \in Nat \ {0}
  /\ SafeOpCounts \in BOOLEAN
  /\ Retries \in Nat
  /\ WkcErrorLimit \in Nat \ {0, 1}
  /\ MaxFaults \in Nat \ {0}
  /\ \A p, s \in 1 .. N : Id[p] = Id[s] => p = s

VARIABLES
  real,     \* the slaves: AL state, error flag, request not obeyed yet,
            \* station address, whether the FMMUs are programmed
  ring,     \* slaves on the line, in order
  faults,   \* number of cuts and expiries
  strayed,  \* history: a slave came back with the temporary address
  slaves,   \* ecx_slave: state, islost, configadr
  context,  \* SOEM's socket: closed, open
  stopThread, inOP, docheckstate,
  wkc, wkcErrorCount,
  ethercatInitialized,
  tries,    \* initialisations so far
  main, handler, check  \* the threads

env == <<real, ring, faults, strayed>>
shared == <<slaves, context, stopThread, inOP, docheckstate, wkc>>
vars == <<env, shared, wkcErrorCount, ethercatInitialized, tries, main,
          handler, check>>

S == 1 .. N
NONE == 0
INIT == 1
PRE_OP == 2
BOOT == 3
SAFE_OP == 4
OPERATIONAL == 8
ERROR == 16      \* error flag of a state, acknowledgement of a request
TEMPNODE == N + 1
NoReq == -1

Fresh == [al |-> INIT, err |-> FALSE, req |-> NoReq, adr |-> 0,
          fmmu |-> FALSE]

FreshList == [s \in S |-> [state |-> NONE, islost |-> FALSE, configadr |-> s]]

Init ==
  /\ real = [s \in S |-> Fresh]
  /\ \E k \in 0 .. N : ring = [i \in 1 .. k |-> i]
  /\ faults = 0 /\ strayed = FALSE
  /\ slaves = FreshList
  /\ context = "closed"
  /\ stopThread \in BOOLEAN     \* the constructor does not set it
  /\ inOP = FALSE /\ docheckstate = FALSE
  /\ wkc = 0 /\ wkcErrorCount = 0
  /\ ethercatInitialized = FALSE
  /\ tries = 0
  /\ main = "init" /\ handler = "off"
  /\ check = [pc |-> "off", slave |-> 1]

-----------------------------------------------------------------------------
(* The line (external).                                                    *)

OnRing == {ring[i] : i \in 1 .. Len(ring)}

AtAddress(a) ==
  IF context = "open" THEN {s \in OnRing : real[s].adr = a} ELSE {}

StateOf(s) == real[s].al + (IF real[s].err THEN ERROR ELSE 0)

(* What a read of the AL status at a station address brings. *)
Status(a) == IF AtAddress(a) = {} THEN NONE
             ELSE StateOf(CHOOSE s \in AtAddress(a) : TRUE)

(* A write of the AL control register of some slaves. *)
Asked(who, req) ==
  [s \in S |-> IF s \in who THEN [real[s] EXCEPT !.req = req] ELSE real[s]]

Steps == {<<INIT, PRE_OP>>, <<PRE_OP, SAFE_OP>>, <<SAFE_OP, OPERATIONAL>>,
          <<OPERATIONAL, SAFE_OP>>}

(* A slave obeys: one state up at a time, none with an error that is not   *)
(* acknowledged, INIT always.                                              *)
Obey(s) ==
  LET r == real[s]
      to == r.req % ERROR
      err == r.err /\ r.req < ERROR
  IN
  /\ s \in OnRing /\ r.req # NoReq
  /\ real' = [real EXCEPT ![s] =
       CASE to = INIT -> [r EXCEPT !.al = INIT, !.err = FALSE, !.req = NoReq]
         [] to = r.al -> [r EXCEPT !.err = err, !.req = NoReq]
         [] ~err /\ <<r.al, to>> \in Steps ->
              [r EXCEPT !.al = to, !.err = FALSE, !.req = NoReq]
         [] OTHER -> [r EXCEPT !.err = TRUE, !.req = NoReq]]
  /\ UNCHANGED <<ring, faults, strayed, shared, wkcErrorCount,
                 ethercatInitialized, tries, main, handler, check>>

Expired(r) == IF r.al = OPERATIONAL
              THEN [r EXCEPT !.al = SAFE_OP, !.err = TRUE] ELSE r

(* Bound: the line is touched while the handler thread is in its loop.    *)
Exchanging == main = "loop" /\ handler \in {"test", "readstate"}

Watchdog(s) ==
  /\ Exchanging /\ faults < MaxFaults
  /\ s \in OnRing /\ real[s].al = OPERATIONAL
  /\ faults' = faults + 1
  /\ real' = [real EXCEPT ![s] = Expired(@)]
  /\ UNCHANGED <<ring, strayed, shared, wkcErrorCount, ethercatInitialized,
                 tries, main, handler, check>>

(* The line is cut before its k-th slave; those behind it also lose power, *)
(* or only the master.                                                     *)
Cut(k, power) ==
  LET gone == {ring[i] : i \in k .. Len(ring)} IN
  /\ Exchanging /\ faults < MaxFaults /\ gone # {}
  /\ faults' = faults + 1
  /\ ring' = SubSeq(ring, 1, k - 1)
  /\ real' = [s \in S |->
       IF s \notin gone THEN real[s]
       ELSE IF power THEN Fresh
       ELSE [Expired(real[s]) EXCEPT !.req = NoReq]]
  /\ UNCHANGED <<strayed, shared, wkcErrorCount, ethercatInitialized,
                 tries, main, handler, check>>

(* A slave is on the line again: at first in the order of the             *)
(* configuration, later in any.                                            *)
Return(s) ==
  /\ s \notin OnRing
  /\ Exchanging \/ (handler = "off" /\ s = Len(ring) + 1)
  /\ ring' = Append(ring, s)
  /\ strayed' = (strayed \/ real[s].adr = TEMPNODE)
  /\ UNCHANGED <<real, faults, shared, wkcErrorCount, ethercatInitialized,
                 tries, main, handler, check>>

-----------------------------------------------------------------------------
(* ecx_readstate: one broadcast that brings the states of all slaves or-ed *)
(* together, and one read per slave if that does not look like one state.  *)

Merged ==
  LET states == {real[s].al : s \in OnRing}
      bit(b) == IF b \in states THEN b ELSE 0
  IN bit(INIT) + bit(PRE_OP) + bit(SAFE_OP) + bit(OPERATIONAL)

LooksUniform ==
  /\ context = "open" /\ Len(ring) >= N
  /\ \A s \in OnRing : ~real[s].err
  /\ Merged \in {INIT, PRE_OP, BOOT, SAFE_OP, OPERATIONAL}

ReadStates ==
  [s \in S |-> [slaves[s] EXCEPT
     !.state = IF LooksUniform THEN Merged ELSE Status(slaves[s].configadr)]]

-----------------------------------------------------------------------------
(* main and initEthercat.                                                  *)

(* initEthercat returned false. *)
InitFails ==
  /\ tries' = tries + 1
  /\ main' = IF tries < Retries THEN "init" ELSE "failed"

InitContext ==
  /\ main = "init"
  /\ \/ /\ context' = "open" /\ ethercatInitialized' = TRUE
        /\ main' = "config"
        /\ UNCHANGED tries
     \/ /\ ~ethercatInitialized
        /\ InitFails
        /\ UNCHANGED <<context, ethercatInitialized>>
  /\ UNCHANGED <<env, slaves, stopThread, inOP, docheckstate, wkc,
                 wkcErrorCount,  handler, check>>

(* ecx_config_init, the mapping, and the modules, which want their slaves; *)
(* a slave that is asked for SAFE_OP may not get there.                    *)
ConfigInit ==
  /\ main = "config"
  /\ \E reached \in SUBSET OnRing :
       real' = [s \in S |->
         IF s \notin OnRing THEN real[s]
         ELSE [al |-> IF s \in reached THEN SAFE_OP ELSE PRE_OP,
               err |-> FALSE, req |-> NoReq, adr |-> s, fmmu |-> TRUE]]
  /\ slaves' = FreshList
  /\ IF Len(ring) = N THEN main' = "safeop" /\ UNCHANGED tries ELSE InitFails
  /\ UNCHANGED <<ring, faults, strayed, context, stopThread, inOP, docheckstate,
                 wkc, wkcErrorCount, ethercatInitialized,  handler, check>>

(* Not all in SAFE_OP: which ones is printed.  Otherwise all are asked for *)
(* OPERATIONAL, after process data was exchanged once.                     *)
RequestOP ==
  /\ main = "safeop"
  /\ IF Merged = SAFE_OP
     THEN /\ real' = Asked(OnRing, OPERATIONAL)
          /\ main' = "op"
          /\ UNCHANGED <<slaves, tries>>
     ELSE /\ slaves' = ReadStates
          /\ InitFails
          /\ UNCHANGED real
  /\ UNCHANGED <<ring, faults, strayed, context, stopThread, inOP, docheckstate,
                 wkc, wkcErrorCount, ethercatInitialized,  handler, check>>

(* All slaves are OPERATIONAL, or time is over.  The check thread starts   *)
(* first.                                                                  *)
StartCheck ==
  /\ main = "op"
  /\ \/ /\ Merged = OPERATIONAL
        /\ wkc' = N
        /\ check' = [check EXCEPT !.pc = "test"]
        /\ main' = "starting"
        /\ UNCHANGED tries
     \/ /\ Merged # OPERATIONAL
        /\ InitFails
        /\ UNCHANGED <<wkc, check>>
  /\ UNCHANGED <<env, slaves, context, stopThread, inOP, docheckstate,
                 wkcErrorCount, ethercatInitialized,  handler>>

StartHandler ==
  /\ main = "starting"
  /\ handler' = "test"
  /\ inOP' = TRUE
  /\ main' = "loop"
  /\ tries' = 0       \* not looked at any more
  /\ UNCHANGED <<env, slaves, context, stopThread, docheckstate, wkc,
                 wkcErrorCount, ethercatInitialized,  check>>

(* ROS shuts down: main deletes the modules and the master and returns,     *)
(* which ends the process and its threads.  What a thread does with a      *)
(* deleted module in between is undefined and left out.  Bound: the check  *)
(* thread is off its round; nobody looks at what the process leaves.       *)
Running == main # "exit"

Exit ==
  /\ main = "loop" /\ check.pc = "test"
  /\ main' = "exit"
  /\ UNCHANGED <<env, shared, wkcErrorCount, ethercatInitialized, tries,
                 handler, check>>

Main ==
  \/ InitContext
  \/ ConfigInit
  \/ RequestOP
  \/ StartCheck
  \/ StartHandler
  \/ Exit

-----------------------------------------------------------------------------
(* ethercatHandler.                                                        *)

hvars == <<env, wkcErrorCount, ethercatInitialized, tries, main, check, inOP,
           docheckstate>>

(* Slaves whose part of the process data the frame counts. *)
Counting ==
  {s \in OnRing : /\ real[s].adr = s /\ real[s].fmmu
                  /\ \/ real[s].al = OPERATIONAL
                     \/ SafeOpCounts /\ real[s].al = SAFE_OP}

(* After the modules' steps, if none failed, process data are sent and the *)
(* loop goes on.  Bound: no module fails any more after the last fault.    *)
AfterStep ==
  {"test"} \cup (IF faults < MaxFaults THEN {"request"} ELSE {})

(* The loop's test, and the exchange; every 64th time the states are read  *)
(* before the modules are stepped.                                         *)
Receive ==
  /\ handler = "test" /\ ~stopThread
  /\ wkc' = Cardinality(Counting)
  /\ handler' \in {"readstate"} \cup AfterStep
  /\ UNCHANGED <<hvars, slaves, context, stopThread>>

HandlerEnds ==
  /\ handler = "test" /\ stopThread
  /\ handler' = "ended"
  /\ UNCHANGED <<hvars, slaves, context, stopThread, wkc>>

HandlerReadState ==
  /\ handler = "readstate"
  /\ slaves' = ReadStates
  /\ handler' \in AfterStep
  /\ UNCHANGED <<hvars, context, stopThread, wkc>>

(* A module failed: closeEthercat, then the threads are told. *)
RequestSafeOp ==
  /\ handler = "request"
  /\ real' = Asked(IF context = "open" THEN OnRing ELSE {}, SAFE_OP)
  /\ handler' = "close"
  /\ UNCHANGED <<ring, faults, strayed, shared, wkcErrorCount,
                 ethercatInitialized, tries, main, check>>

Close ==
  /\ handler = "close"
  /\ context' = "closed"
  /\ handler' = "stop"
  /\ UNCHANGED <<hvars, slaves, stopThread, wkc>>

StopForgotten == FALSE

StopSet == TRUE

Stop ==
  /\ handler = "stop"
  /\ stopThread' = StopSet
  /\ handler' = "ended"
  /\ UNCHANGED <<hvars, slaves, context, wkc>>

Handler ==
  /\ Running
  /\ \/ Receive
     \/ HandlerEnds
     \/ HandlerReadState
     \/ RequestSafeOp
     \/ Close
     \/ Stop

-----------------------------------------------------------------------------
(* ethercatCheck.  cvars is what it never changes, goto(pc) where it is.   *)

cvars == <<ring, faults, strayed, context, stopThread, inOP, wkc,
           ethercatInitialized, tries, main, handler>>

goto(pc) == check' = [check EXCEPT !.pc = pc]

NextSlave ==
  check' = IF check.slave < N
           THEN [pc |-> "slave", slave |-> check.slave + 1]
           ELSE [pc |-> "test", slave |-> 1]

(* The slaves do what they are asked within the 20 ms the thread sleeps    *)
(* between two rounds (external).                                          *)
Prompt == \A s \in OnRing : real[s].req = NoReq

(* The loop's test and the counting of short work counters; a round is     *)
(* begun, or the thread sleeps.                                            *)
CheckTest ==
  LET count == IF inOP /\ wkc < N /\ wkcErrorCount < WkcErrorLimit
               THEN wkcErrorCount + 1 ELSE 0
      round == inOP /\ (count > 1 \/ docheckstate)
  IN
  /\ check.pc = "test" /\ Prompt
  /\ IF stopThread
     THEN goto("ended") /\ UNCHANGED <<wkcErrorCount, docheckstate>>
     ELSE /\ wkcErrorCount' = count
          /\ docheckstate' = IF round THEN FALSE ELSE docheckstate
          /\ IF round THEN goto("read") ELSE UNCHANGED check
  /\ UNCHANGED <<cvars, real, slaves>>

CheckReadState ==
  /\ check.pc = "read"
  /\ slaves' = ReadStates
  /\ goto("slave")
  /\ UNCHANGED <<cvars, real, docheckstate, wkcErrorCount>>

(* One slave: is it there and not OPERATIONAL? *)
CheckSlave ==
  LET down == /\ ~slaves[check.slave].islost
              /\ slaves[check.slave].state # OPERATIONAL
  IN
  /\ check.pc = "slave"
  /\ docheckstate' = (docheckstate \/ down)
  /\ goto(IF down THEN "branch" ELSE "lost")
  /\ UNCHANGED <<cvars, real, slaves, wkcErrorCount>>

(* SAFE_OP is acknowledged or asked on to OPERATIONAL: the new state is    *)
(* stored first and written from there.                                    *)
NewStateKept(state) == state

NewState(state) == IF state = SAFE_OP THEN OPERATIONAL ELSE state

StoreState ==
  LET s == check.slave IN
  /\ check.pc = "branch"
  /\ slaves[s].state \in {SAFE_OP, SAFE_OP + ERROR}
  /\ slaves' = [slaves EXCEPT ![s].state = NewState(@)]
  /\ goto("write")
  /\ UNCHANGED <<cvars, real, docheckstate, wkcErrorCount>>

WriteState ==
  LET s == check.slave IN
  /\ check.pc = "write"
  /\ real' = Asked(AtAddress(slaves[s].configadr), slaves[s].state)
  /\ goto("lost")
  /\ UNCHANGED <<cvars, slaves, docheckstate, wkcErrorCount>>

(* A slave that does not answer is looked at again and marked as lost. *)
Recheck ==
  LET s == check.slave
      state == Status(slaves[s].configadr)
  IN
  /\ check.pc = "branch" /\ slaves[s].state = NONE
  /\ slaves' = [slaves EXCEPT ![s].state = state, ![s].islost = state = NONE]
  /\ goto("lost")
  /\ UNCHANGED <<cvars, real, docheckstate, wkcErrorCount>>

(* ecx_reconfig_slave: to INIT, the sync managers, to PRE_OP, to SAFE_OP,  *)
(* the FMMUs; after each request it waits for the slave.                   *)
Reconfig ==
  LET s == check.slave
      there == AtAddress(slaves[s].configadr)
  IN
  /\ check.pc = "branch"
  /\ slaves[s].state \notin {NONE, SAFE_OP, SAFE_OP + ERROR}
  /\ real' = Asked(there, INIT)
  /\ goto(IF there = {} THEN "lost" ELSE "toINIT")
  /\ UNCHANGED <<cvars, slaves, docheckstate, wkcErrorCount>>

(* ecx_statecheck returns: the slave has done what it was asked, or is     *)
(* gone.                                                                   *)
Settled ==
  \A s \in AtAddress(slaves[check.slave].configadr) : real[s].req = NoReq

ReconfigStep(pc, reached, req, next) ==
  LET s == check.slave
      state == Status(slaves[s].configadr)
      ok == state % ERROR = reached
  IN
  /\ check.pc = pc /\ Settled
  /\ slaves' = [slaves EXCEPT ![s].state = state]
  /\ real' = IF ok THEN Asked(AtAddress(slaves[s].configadr), req) ELSE real
  /\ goto(IF ok THEN next ELSE "lost")
  /\ UNCHANGED <<cvars, docheckstate, wkcErrorCount>>

ReconfigInit == ReconfigStep("toINIT", INIT, PRE_OP, "toPRE_OP")
ReconfigPreOp == ReconfigStep("toPRE_OP", PRE_OP, SAFE_OP, "toSAFE_OP")

ReconfigSafeOp ==
  LET s == check.slave
      there == AtAddress(slaves[s].configadr)
  IN
  /\ check.pc = "toSAFE_OP" /\ Settled
  /\ slaves' = [slaves EXCEPT ![s].state = Status(slaves[s].configadr)]
  /\ real' = [t \in S |-> IF t \in there THEN [real[t] EXCEPT !.fmmu = TRUE]
                          ELSE real[t]]
  /\ goto("lost")
  /\ UNCHANGED <<cvars, docheckstate, wkcErrorCount>>

(* A lost slave in some state above INIT has been found. *)
Found ==
  LET s == check.slave
      found == slaves[s].islost /\ slaves[s].state > INIT
  IN
  /\ check.pc = "lost"
  /\ ~slaves[s].islost \/ found
  /\ slaves' = [slaves EXCEPT ![s].islost = FALSE]
  /\ NextSlave
  /\ UNCHANGED <<cvars, real, docheckstate, wkcErrorCount>>

(* ecx_recover_slave.  The address held at this slave's position of the    *)
(* line is read first; an address that is none starts the recovery.        *)
AtPosition(s) == IF context = "open" /\ s <= Len(ring) THEN {ring[s]} ELSE {}

Recover ==
  LET s == check.slave
      own == \E p \in AtPosition(s) : real[p].adr = slaves[s].configadr
      blank == \E p \in AtPosition(s) : real[p].adr = 0
  IN
  /\ check.pc = "lost"
  /\ slaves[s].islost /\ slaves[s].state <= INIT
  /\ slaves' = [slaves EXCEPT ![s].islost = ~own]
  /\ IF blank THEN goto("temporary") ELSE NextSlave
  /\ UNCHANGED <<cvars, real, docheckstate, wkcErrorCount>>

(* Slaves that hold the temporary address lose it, and whoever is at the   *)
(* position by now gets it.                                                *)
GiveTemporary ==
  LET s == check.slave
      there == AtPosition(s)
  IN
  /\ check.pc = "temporary"
  /\ real' = [p \in S |->
       [real[p] EXCEPT !.adr = IF p \in there THEN TEMPNODE
                               ELSE IF p \in AtAddress(TEMPNODE) THEN 0
                               ELSE @]]
  /\ slaves' = [slaves EXCEPT ![s].configadr = IF there = {} THEN @
                                               ELSE TEMPNODE]
  /\ IF there = {} THEN NextSlave ELSE goto("identify")
  /\ UNCHANGED <<cvars, docheckstate, wkcErrorCount>>

(* What the EEPROM at the temporary address says is compared with the      *)
(* slave looked for.  Of two slaves at that address, one answers.          *)
AnySlave(p, s) == TRUE

IsSame(p, s) == Id[p] = Id[s]

Identify ==
  LET there == AtAddress(TEMPNODE) IN
  /\ check.pc = "identify"
  /\ \/ there = {} /\ goto("remove")
     \/ \E p \in there :
          goto(IF IsSame(p, check.slave) THEN "assign" ELSE "remove")
  /\ UNCHANGED <<cvars, real, slaves, docheckstate, wkcErrorCount>>

KeptTemporary(s) == slaves[s].configadr

Restored(s) == s

(* Whoever is at the temporary address by now gets the slave's address, or *)
(* none.  If no frame comes back at all, the result is -1, which the check *)
(* thread takes for success.                                               *)
Assign ==
  LET s == check.slave
      there == AtAddress(TEMPNODE)
      failed == there = {} /\ context = "open" /\ ring # <<>>
  IN
  /\ check.pc \in {"assign", "remove"}
  /\ real' = [p \in S |->
       IF p \notin there THEN real[p]
       ELSE [real[p] EXCEPT !.adr = IF check.pc = "assign" THEN s ELSE 0]]
  /\ slaves' = [slaves EXCEPT ![s].configadr = Restored(s),
                              ![s].islost = check.pc = "remove" \/ failed]
  /\ NextSlave
  /\ UNCHANGED <<cvars, docheckstate, wkcErrorCount>>

Check ==
  /\ Running
  /\ \/ CheckTest
     \/ CheckReadState
     \/ CheckSlave
     \/ StoreState
     \/ WriteState
     \/ Recheck
     \/ Reconfig
     \/ ReconfigInit
     \/ ReconfigPreOp
     \/ ReconfigSafeOp
     \/ Found
     \/ Recover
     \/ GiveTemporary
     \/ Identify
     \/ Assign

Environment ==
  /\ Running
  /\ \/ \E s \in S : Obey(s) \/ Watchdog(s) \/ Return(s)
     \/ \E k \in S, power \in BOOLEAN : Cut(k, power)

Next == Main \/ Handler \/ Check \/ Environment

Spec == Init /\ [][Next]_vars

(* The threads run; a slave obeys.  Between the store and the write of a   *)
(* state there are a few instructions, which the handler's read of the     *)
(* states cannot hit every time.                                           *)
WriteAsStored(s) ==
  /\ check.slave = s
  /\ slaves[s].state \in {OPERATIONAL, SAFE_OP + ERROR}
  /\ Running
  /\ WriteState

FairSpec ==
  /\ Spec
  /\ WF_vars(Handler)
  /\ WF_vars(Check)
  /\ \A s \in S : WF_vars(Running /\ Obey(s)) /\ SF_vars(WriteAsStored(s))

-----------------------------------------------------------------------------
(* Properties.                                                             *)

TypeOK ==
  /\ real \in [S -> [al : {INIT, PRE_OP, SAFE_OP, OPERATIONAL},
                     err : BOOLEAN, req : {NoReq} \cup (0 .. 31),
                     adr : 0 .. TEMPNODE, fmmu : BOOLEAN]]
  /\ ring \in Seq(S)
  /\ \A i, j \in 1 .. Len(ring) : ring[i] = ring[j] => i = j
  /\ slaves \in [S -> [state : 0 .. 31, islost : BOOLEAN,
                       configadr : 1 .. TEMPNODE]]
  /\ wkc \in 0 .. N /\ wkcErrorCount \in 0 .. WkcErrorLimit
  /\ check.slave \in S
  /\ strayed \in BOOLEAN
  /\ \A s \in S : slaves[s].configadr # s =>
       check.slave = s /\ check.pc \in {"identify", "assign", "remove"}

(* No slave answers at another one's address, in whatever order the line   *)
(* is plugged together again (ecx_recover_slave compares identities),      *)
(* unless one is plugged in that still holds the temporary address: what   *)
(* was meant for the slave being recovered then reaches both.              *)
AddressesAreOwn ==
  ~strayed => \A s \in S : real[s].adr \in {0, s, TEMPNODE}

(* A failed module ends both threads, and with the socket closed.          *)
FailureEndsThreads ==
  handler = "request" ~> \/ /\ handler = "ended" /\ check.pc = "ended"
                            /\ context = "closed"
                         \/ ~Running

Calm == /\ ring = [i \in S |-> i]
        /\ main = "loop" /\ ~stopThread
        /\ handler \notin {"request", "close", "stop", "ended"}

AllOperational == \A s \in S : real[s].al = OPERATIONAL /\ real[s].adr = s

(* All slaves lost power and were back before one was marked as lost.      *)
Unaddressed ==
  \A s \in S : real[s].al = INIT /\ real[s].adr = 0 /\ ~slaves[s].islost

(* A cut between the two writes of ecx_recover_slave left a slave with the *)
(* temporary address, or with another slave's (see AddressesAreOwn).       *)
Stranded ==
  /\ check.pc \notin {"identify", "assign", "remove"}
  /\ \E s \in S : real[s].adr \notin {0, s}

(* After at most MaxFaults cuts, power losses and watchdogs, in any order  *)
(* and at any point: once the line is whole again, every slave becomes     *)
(* OPERATIONAL; except for Unaddressed and Stranded, see the README.       *)
SlavesResume == Calm ~> AllOperational \/ ~Calm \/ Unaddressed \/ Stranded
=============================================================================
