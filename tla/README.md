# airo-tulip: models, checks and proofs

TLA+ modules for the control software of the KELO Robile platform in this
repository, with the TLC configurations that check them and TLAPS proofs about
them. Paths below are relative to `src/`.

## 1. The system

The repository holds two implementations of one job, driving the wheels of a
mobile platform over EtherCAT, and the programs around them.

| component | code | state | operations | interacts with |
|---|---|---|---|---|
| platform driver | `airo-tulip/airo_tulip/hardware/platform_driver.py` | driver state (INIT, READY, ACTIVE), step counter, deadline `_timeout`, driver type, PID controllers, last process data | `set_platform_velocity_target`, `are_drives_aligned`, `set_driver_type` (request thread); `step` (EtherCAT thread) | owns the velocity controller, writes the slaves' output buffers |
| velocity controller | `hardware/controllers/velocity_platform_controller.py` | target velocity, ramped velocity, `_only_align_drives`, `_time_last_ramping` | `set_platform_velocity_target`, `are_drives_aligned`, `calculate_platform_ramped_velocities`, `calculate_wheel_target_velocity` | called by the driver from both threads |
| platform monitor | `hardware/platform_monitor.py` | accumulated encoders, previous encoders, odometry pose, velocity | `step` (EtherCAT thread); getters, `reset_odometry` (request thread) | reads the slaves' input buffers |
| robile platform | `hardware/robile_platform.py` | EtherCAT master state | `init_ethercat`, `step` (receive, monitor, driver, send) | owns driver and monitor |
| tulip server | `api/server.py` | stop event, REP socket, two daemon threads | one handler per message class, `run` | clients over 0MQ, platform through shared objects |
| client | `api/client.py` | REQ socket with a 500 ms receive timeout | one method per message | server |
| dashboard | `dashboard/airo_tulip_dashboard/` | per connection: pid of the tulip process; global shutdown event | `tulip start`, `tulip stop`, `kill` | starts and stops the tulip process |
| EtherCAT master (C++) | `kelo-tulip/src/EtherCATMaster.cpp`, `TulipMain.cpp` | slave table, `inOP`, `stopThread`, WKC error flags | handler thread, check thread, `initEthercat`, `closeEthercat` | calls the modules' `step` |
| KELO platform driver (C++) | `kelo-tulip/src/PlatformDriver*.cpp`, `VelocityPlatformController.cpp` | driver state, error flags, `canChangeActive`, targets | `step` (EtherCAT thread); ROS callbacks | EtherCAT master, ROS |
| master battery (C++) | `kelo-tulip/src/modules/` | output flags, charge state | `step`; ROS callbacks | EtherCAT master, ROS |
| SOEM | `kelo-tulip/src/soem`, copied in `include/kelo_tulip/soem` | frame index table, mailbox counters, slave table | frames, mailboxes, configuration | network card |

What is hard about it:

* Python: the request thread and the EtherCAT thread share the driver, the
  velocity controller and the monitor **without a lock**. The interpreter
  switches threads between statements, so each attribute store is atomic and
  nothing larger is. Correctness: an accepted command is the target until its
  deadline; a target does not outlive its deadline; the platform never ramps
  faster or beyond the limits; no call of one thread ends the other.
* Server and client: REQ/REP is strictly alternating, while the client gives
  up on a late answer and the server tears down its socket as soon as the
  EtherCAT thread ends.
* Failure: an exception ends a daemon thread silently; the results of
  `init_ethercat` and of the driver's `step` are dropped.
* Odometry: the request thread resets the pose estimator in the middle of a
  step. Correctness: the accumulated encoders count the rotation of the wheels
  exactly; the odometry is the pose since the last reset.
* C++ master: the handler thread and the check thread share the slave list, the
  socket and its 16 frame slots without a lock but that of the receive path. A
  frame that comes back late carries the index of a slot that may be somebody
  else's by then. Correctness: an answer is the caller's own; slots do not leak
  beyond the late answers; a slave that fell out comes back, under its own
  address.
* C++ mailboxes: a lost read is repeated by toggling a bit, and answers are told
  apart by their index only. Correctness: what is read is what the slave has,
  and a mapping has the size of its process data.
* C++ process data: only the sum of the work counters tells whether an exchange
  was complete. Correctness: the mappings do not overlap, and the sum expected
  means that every slave took part.
* C++ modules: the ROS thread sets flags, targets and error states that the
  handler thread's steps read and clear. Correctness: activation needs healthy
  wheels, a stop stops, a reset arrives, encoder sums are exact.

## 2. Plan

In this order, most important first. Every module is parameterised by
CONSTANTS with named assumptions, has one action per operation, and is free of
RECURSIVE operators, so that theorems about it can be proved.

| # | modules | what they model | state |
|---|---|---|---|
| 1 | `VelocityRamp`, `PlatformDriver` | ramp arithmetic; both Python threads in the driver and the velocity controller | done, with `PlatformDriverProofs` |
| 2 | `TulipChannel`, `KELORobile`, `TulipServer`, composed by `TulipSystem`; abstract specification `RequestReply` | clients, the 0MQ connection, the server's three threads | done, with `TulipSystemProofs` |
| 3 | `Odometry` | encoder accumulation, pose estimation, `reset_odometry` | done, with `OdometryProofs` |
| 4 | `NicDriver` | SOEM's frame slots and receive path on Linux, several threads | done, with `NicDriverProofs` |
| 5 | `CoEMailbox`, extended by `PdoMapping` | SDO transfers over lossy mailboxes; the PDO mapping made of them | done, with `PdoMappingProofs` |
| 6 | `IOMap` | FMMUs, segments, the exchange of the process image | done, with `IOMapProofs` |
| 7 | `EtherCATMaster` | `main`, `initEthercat`, handler and check thread, SOEM's slave states and recovery | done, with `EtherCATMasterProofs` |
| 8 | `KeloModules` | C++ driver and battery under the handler thread and the ROS thread | done, with `KeloModulesProofs` |

Each module in turn takes the one below for granted: `PdoMapping` reads the
mailboxes of `CoEMailbox`; `IOMap` starts from the sizes that `PdoMapping` finds
out; `EtherCATMaster` counts a slave's process data as `IOMap` shows the work
counter does; `KeloModules` are the modules `EtherCATMaster` steps.

Not pursued: the start-up of the Python platform (`init_ethercat` is a sequence
of calls of pysoem, which is not in this repository) and the dashboard (section
7).

Abstract specifications: `RequestReply` for the server and its clients; for the
odometry "the pose since the last reset", as an invariant with a true pose as
history; for a mailbox transfer and a mapping, the object dictionary itself; for
the process image, the set of FMMUs that an exchange reached; for the frame
layer, "the answer to a request is the frame with its number".

## 3. Modules

### VelocityRamp

Operators only: `Clip` is `util.clip` (the maximum wins), `Ramp` is one axis of
`calculate_platform_ramped_velocities`, `Limited` the limits that follow.
Velocities and times are integers; a unit is chosen by the instance.

### PlatformDriver

One action per statement that touches a shared attribute. The request thread
has a program counter `cpc`; the EtherCAT thread has `spc` and the locals of
`step()`. `now` is `time.time()`, advanced by `Tick` at any point up to
`Horizon`.

| variables | code |
|---|---|
| `state`, `stepCount`, `timeout`, `driverType`, `wheelControllers`, `haveProcessData` | attributes of `PlatformDriver` |
| `targetVel`, `onlyAlign`, `rampedVel`, `timeLastRamping` | attributes of `VelocityPlatformController` |
| `output` | output buffers of the slaves: mode bits, current limit, kind and motion of the setpoint |
| `stepOk` | what the driver's `step()` returned; `RobilePlatform.step` drops it |
| `deadline` | the sum of line 98, computed and not stored yet |
| `checked`, `checkedAt` | `_timeout` and the clock as line 123 read them, one after the other |
| `rampedAt` | history: when the last ramp was completed |
| `rampNow`, `timeDelta`, `wheel`, `mode`, `motion`, `kind` | locals of `step()` |

Abstracted: the geometry of a wheel (a setpoint is `zero`, `pivot` or `drive`;
whether the drives are aligned is a free choice), the status words (a wheel is
ready or not, chosen at `_step_init`), the PID values and the third read of
`_driver_type` (line 261, which only rounds small setpoints), the clipping of
setpoints at 35. The ERROR state is left out because no statement enters it.

Line 98 reads the clock and stores the deadline in two actions (`ReadClock`,
`StoreTimeout`), line 123 reads the deadline and then the clock (`ReadTimeout`,
`CheckTimeout`). A step may therefore find the old deadline ahead, or passed,
while a call has one in hand that is behind the check by the time it is stored:
`ExpiredTargetIsZero` then allows this one step a target other than zero, if
the deadline it did read was ahead; the next step zeroes it
(`ExpiryIsNoticed`).

### TulipChannel, KELORobile, TulipServer, TulipSystem

`TulipChannel` declares what the two sides share: requests (`inbox`) and
replies (`outbox`) under way. A request is a record of its client, the socket
it was made on, its number and its message class. It is external code (0MQ)
modelled as the two programs use it: nothing is lost or duplicated, the REP
socket takes requests of its peers in any order and answers the last one taken.

`KELORobile` is `api/client.py`: `Connect` is the constructor with its
handshake, `CallMethod` stands for every method, `Receive` and `Timeout` end
`_transceive_message`, `CallStuck` is a method called after a timeout (a REQ
socket may not send twice), `Close` is `close()`. A user may construct another
client after a close or a failed constructor; each has a new socket.

`TulipServer` is `api/server.py` from the start of the threads on: the request
thread (`rpc`), the EtherCAT thread (`epc`) and `run()` (`mpc`). A handler
returns a response or raises; which of them raise is the code's: no handler for
the class, or an alignment query before the first process data. What a handler
or a step does to the platform is the subject of `PlatformDriver` and
`Odometry`; here any step may raise. A handler that races with it is one reason,
as those modules exhibit; another is a platform whose `init_ethercat` failed,
of which nobody takes notice (`server.py:96`), so that the first step has no
slaves to work with.

| variables | code |
|---|---|
| `pc`, `session`, `calls`, `current`, `result` | a `KELORobile` object: its socket's state, which socket it is, calls made, last call, outcome |
| `shouldStop`, `socketOpen` | `_should_stop`, the REP socket |
| `rpc`, `request`, `response` | `_request_loop` and its locals |
| `epc`, `stepped` | `_ethercat_loop`; whether a step has completed |
| `mpc` | `run()` after the start of the threads |
| `made`, `received`, `answers`, `handled`, `executions` | history |

`TulipSystem` joins them: a step is a step of a client or of the server.
`RequestReply` is the abstract specification: calls are made, executed at most
once, and answered or given up. Its variables are mapped to the history and to
the call each waiting client waits for. The two counters `executions` and
`answers` make a second execution or a second answer of one call visible: with
the sets alone it would be a stutter.

Left out: binding the socket and `init_ethercat` before the threads start, and
the wording of error messages.

### Odometry

`platform_monitor.py`: the monitor's and the estimator's statements as
`PlatformDriver` does it, against `reset_odometry` of the request thread.
Augmented assignments are a load, a read of the heading and a store.

| variables | code |
|---|---|
| `encoder` | the wrapping encoder values in a drive's input buffer |
| `initialized`, `lastEncoder`, `sumEncoder`, `reported` | `_encoder_initialized`, `_last_encoder`, `_sum_encoder`, `_odometry_pose` |
| `prevEncoder`, `odom` | `_prev_encoder`, `_odom_x`, `_odom_y`, `_odom_a` |
| `motion`, `loaded`, `heading`, `pose` | locals of the estimator |
| `rotation`, `truePose`, `fresh`, `overlapped` | history: what the wheels turned, where the platform is since the last reset, whether that reset awaits a step, whether a reset ever overlapped a step |

Abstracted: one drive stands for all, its pivot forward; the encoders count
integer ticks, `Turn` to a revolution; in one period the platform drives
straight or turns on the spot by quarter turns, so that sines and cosines are
integers. The time delta, by which displacements are divided and then
multiplied, cancels out. The other cached sensor values are left out: nothing
in the package reads more than their last value.

### NicDriver

`oshw/linux/nicdrv.c` with the primitives of `ethercatbase.c`, which take a
slot, send, wait and clear it, and the process data exchange of
`ethercatmain.c`, which sends one frame per segment before it waits for any.

| variables | code |
|---|---|
| `rxbufstat`, `rxbuf`, `lastidx`, `rx_mutex` | fields of `ecx_portt` |
| `idxstack` | `ec_idxstackT`, the frames of an exchange |
| `th` | per thread: where it is in `ecx_srconfirm`, `ecx_waitinframe`, `ecx_inframe`; the frame it waits for; the frame it has read for another thread |
| `requests`, `wire` | numbering of the datagrams; frames on the line and in the socket |
| `timely` | history: every index so far was handed out while `Timely` held |

A step is what happens under one lock, or between two: that the slot is tested
before the mutex is taken, and stored after the copy, is what makes it hard.
The socket may refuse a frame (`OutFrame`), frames may be lost, every wait may
run out, and a frame may be sent again while its first copy still comes back.

Nothing limits how long a frame or a call takes, or how many slots leak; a
history variable, `timely`, only tells whether every index was handed out while
`Timely` held: of each frame on its way and each slot in somebody's hand, fewer
than `MaxAge` and `MaxHold` indices were handed out since, and at most
`MaxLeaks` slots had leaked. The code relies on that without saying so: an index
comes round after 16 requests at least, each of which takes a round trip; a
caller waits for 2 ms (`EC_TIMEOUTRET`) at least. How fast is fast enough is
`TimingAssumption`: each bound, with the leaks, is less than the number of
slots, 16 in the code. `AnswerIsOwn` is stated for timely behaviours only, and
is false of the others: a frame that comes back after its index came round, or
one of two calls that share a slot, brings an answer of another request, and the
index is all that is compared. With every slot taken `ecx_getindex` does hand
out one that is in use (`nicdrv.c:242`); the run reaches that, and
`OnlyReceivedLeak`, which is not conditional, holds there too. The run has four
slots, bounds of two and one leak, which is as tight as it can be; with `MaxAge`
as large as the number of slots TLC finds the answer of another request. Only
the frame slots of one adapter are modelled (`redstate` is `ECT_RED_NONE`
everywhere the master uses it).

### CoEMailbox, PdoMapping

`ecx_mbxsend`, `ecx_mbxreceive`, `ecx_SDOread`, `ecx_SDOwrite`, and on top of
them `ecx_readPDOmap` and `ecx_readPDOmapCA`, each read of which is a whole
transfer.

| variables | code |
|---|---|
| `sdo` | locals of the transfer under way and, once idle, its result |
| `inMbx`, `outMbx`, `repeatReq`, `repeatAck` | the sync managers of the slave and their repeat bits |
| `slave`, `stored` | the slave: request in service, last message, segments left; what was written |
| `env`, `losses`, `emergencies` | what may go wrong in this behaviour, and has |
| `map`, `buf`, `SMtype`, `bits` | locals of the mapping; the structures in the context; `SMtype`, `Obits` and `Ibits` of the slave |

The slave is external: it answers in order, may send an emergency first, and
repeats its last message when the repeat bit is toggled. Waiting for a mailbox
is a guard. A behaviour has one of two environments: a *gentle* one, in which
only reads of the mailbox are lost, which the repeat makes good; and one in
which any frame may be lost and the slave may answer after the timer has run
out. What holds in the second is less: a late answer to another subindex of the
same object is accepted (`ReadIndexIsRight` is what is left), and a mapping may
be too small (`bug_pdo_size`). A late answer of a complete access, to a call that
asks for one value, is refused by its size when it does not fit the caller's
buffer: that is why the index is right in this environment, too. The mailbox
counter is left out, because no
answer's is looked at.

### IOMap

`ecx_config_map_group` and `ecx_config_overlap_map_group` (`overlap` says which),
slave by slave and FMMU by FMMU, then one exchange with
`ecx_main_send_processdata` and `ecx_receive_processdata_group`.

| variables | code |
|---|---|
| `slaves`, `overlap`, `hasdc` | inputs: sync managers and sizes of each slave, function called, clocks |
| `m`, `fmmus`, `IOsegment`, `group` | locals of the mapping, the FMMUs it writes, the segment table, the other fields of the group |
| `x` | the exchange: phase, position, datagrams sent, counters and slaves reached |

Sums of lengths are `Total`, a recursive function. `Covers` says that the
datagrams of some commands are consecutive in the order they are sent, each
beginning where the one before it ends, from a first byte to a last.

`ExpectedMeansComplete` has two exceptions, both of them the code's:

* *Straddling.* A bit oriented slave is not kept within a segment: its FMMU may
  start in the last byte of one and end in the first of the next. The slave
  then counts in both datagrams, but the mapping expects it to count once. Its
  surplus covers up another slave's absence.
* *Misread first frame.* With distributed clocks the first frame sent carries
  the clock datagram, and its offset (`DCtO`) is recorded; the first frame
  *received* is read at that offset (`ethercatmain.c:1932`–`1938`). When the
  first is lost, the second has no such datagram there: its counter is taken
  from process data. The model takes any value that matters.

`DatagramsCoverImage` leaves out overlapping images with a slave that has no
LRW: the LRD starts at `Obytes` (`ethercatmain.c:1741`) although the inputs start
at 0, while the comment of `ecx_send_overlap_processdata_group`
(`ethercatmain.c:1866`) says "LRD/LWR if LRW is not allowed" for an overlapped
image too.

### EtherCATMaster

`TulipMain.cpp`, `EtherCATMaster.cpp`, and SOEM's functions on slave states.

| variables | code |
|---|---|
| `main`, `tries` | `main` of `TulipMain.cpp` and `initEthercat` |
| `handler` | `ethercatHandler` with `closeEthercat` |
| `check` | `ethercatCheck`, its loop variable, and where it is in `ecx_reconfig_slave` and `ecx_recover_slave` |
| `slaves`, `context` | `ecx_slave` (state, islost, configadr), the socket |
| `stopThread`, `inOP`, `docheckstate`, `wkc`, `wkcErrorCount`, `ethercatInitialized` | members of the same names |
| `real`, `ring`, `faults` | the slaves, the line, what has gone wrong with it |
| `strayed` | history: a slave was plugged in that held the temporary address |

The line is cut before any slave, with or without the power of those behind;
slaves are plugged in again one by one in any order; a watchdog takes a slave
out of OPERATIONAL. `ecx_readstate` is one step, although it is one frame and
then one per slave; the waits of `ecx_statecheck` are guards (`Settled`).
`InitContext` and `ConfigInit` may fail at every point where the code returns
false. `stopThread` starts with any value, since the constructor does not set
it. `Exit` is the end of `main`: it deletes the modules and returns, which ends
the process; what a thread does with a deleted module in between is undefined
and left out, so `Exit` stops both threads (`Running`).

`ecx_recover_slave` is four actions, and the line may change between any two:
`Recover` reads the address at the slave's position; `GiveTemporary` takes the
temporary address from whoever holds it and gives it to whoever is at the
position by then; `Identify` compares what one slave at that address answers;
`Assign` writes the address, or none, to everyone at the temporary address by
then. When no frame comes back at all (`Assign` with a line that is empty or a
socket that is closed) the result is -1, and `EtherCATMaster.cpp:379` takes it
for a slave that was recovered.

From `GiveTemporary` on a slave may be cut off with the temporary address. It keeps
it while it has power, and what follows is the code's:

* *Stranded.* Plugged in again, it answers at its position with an address that
  is neither its own nor none, and recovery starts only from none
  (`ethercatconfig.c:1455`). It stays until another recovery clears the
  temporary address. `SlavesResume` makes the exception.
* *Shared.* Plugged in while another slave is being recovered (`strayed`), it
  gets what is written to the temporary address: the other slave's address.
  `AddressesAreOwn` holds until such a slave is plugged in.

`SlavesResume` has the exception *Unaddressed*: all slaves lose power, and are
back before the check thread has marked one as lost. Then all are in INIT and
the broadcast read of `ecx_readstate` finds them alike, so nobody is asked at its
address, to which it would not answer. INIT is above NONE: the check thread
reconfigures, by writes to addresses that nobody has any more, and never marks
a slave as lost. None is ever recovered.

Bounds of the instance, named in the module: the line is touched only while the
handler is in its loop (`Exchanging`), no module fails after the last fault
(`AfterStep`), and the process ends only when the check thread is off its round
(`Exit`).

### KeloModules

`PlatformDriver.cpp`, `VelocityPlatformController.cpp`, `RobileMasterBattery.cpp`,
stepped by the handler thread, and the callbacks of their ROS classes.

| variables | code |
|---|---|
| `status`, `turned`, `zero`, `faults` | what the wheels report; the encoder without wrapping; inputs zeroed for a lost slave |
| `processData`, `state`, `stepCount`, `statusError`, `canChangeActive`, `wheelEnabled`, `prevEncoder`, `sumEncoder`, `encoderInitialized` | members of `PlatformDriver` |
| `target`, `ramped`, `firstRamping` | `VelocityPlatformController` |
| `out`, `batteryOut` | output buffers of the wheels and of the battery |
| `useJoy`, `messages` | joypad in charge; messages so far |
| `flagResetError`, `flagShutdown`, `robileCharge` | `RobileMasterBattery` |
| `handler` | where the handler thread is in its round |
| `reread`, `asked` | history: error flags reset since the inputs were copied; a reset asked for and not sent |
| `atStart`, `atRead`, `trueStart`, `trueRead`, `wasZero` | history: rotation at the first and at the last reading of the encoder; whether these were true or of zeroed inputs; whether any was of zeroed inputs |

A round is `Copy` (inputs, error flags, encoders), `Switch` (the state machine
and its outputs), `BatteryTest` and `BatteryWrite`; a callback may come between
any two. The test of `flagResetError` and its clearing are two steps, since a
callback in between is what could lose a request. One axis stands for three and
one encoder for two per wheel. The encoder starts at any reading of `Starts`, and
inputs may be zeroed from the first step on: a sum that begins or ends with a
zeroed reading is off by a part of a turn, which is why `EncodersTrack` asks for
whole turns only between true readings. `flagShutdown`, which is only ever set, is read
an instant later than in the code.

## 4. Runs

Deadlock is checked in `driver_commands`. The other instances really end: a
thread of theirs can die, the process exits, or a bound on calls or steps is
reached.

| run | bounds | shows |
|---|---|---|
| `driver_commands` | 1 wheel, clock to 3, two legal commands (forward at the limit with a timeout of 1; sideways, turning and align-only with a timeout of 0), three illegal ones | the target's safety and, under fairness, that a deadline which passes is noticed |
| `driver_modes` | 2 wheels, clock to 3, one command, two driver types, alignment queries | no ramp changes a velocity by more than the time since the ramp before it allows, whatever resets the ramp's clock |
| `server` | 2 clients, 2 sockets and 2 calls each; an alignment query, which raises before the first step, an illegal velocity, which is answered with an error, the stop; any step may raise | the system implements `RequestReply`; nothing is executed after a stop; a handled stop ends the process; requests are handled |
| `odometry` | 5 ticks a revolution, 4 steps, straight moves of 2 ticks either way, quarter turns, resets at any statement | exact sums, true poses |
| `nic_frames` | 2 threads, 4 slots, an exchange of 2 frames, 6 requests, `MaxAge` and `MaxHold` 2, 2 frames under way, 1 leak at a time | while all is timely answers are the caller's own; only late answers leak, also when slots are shared |
| `coe_mapping` | structures of up to 5 values in mailboxes of 2; gentle: 2 losses, 1 emergency, 2 calls; not gentle: 1 loss, 1 call | transfers end and are right; what a mapping is worth |
| `io_map` | 3 slaves of 7 kinds, segments of 5 bytes; any datagram lost, any slave silent | disjoint mappings within the image, segments and datagrams that cover the image, a work counter that means what it says |
| `ethercat_master` | 2 slaves, 1 retry, limit of 2 short counters, 2 faults | own addresses; a failed module ends both threads; slaves resume |
| `kelo_modules` | 2 wheels, limits 2/1/2, 3 ticks a turn, encoders that start at 0 or 2, commands -3, 0 and 2, one tick either way, 2 messages, 1 fault | exact encoders, healthy activation, standstill, resets that arrive |

Why the bounds are enough. *Driver*: a torn target needs one command over
another, or over its timeout; two commands with different axes, one of which expires as it is stored and one
a tick later, give every order of stores, check and zeroing. Two
wheels are needed only where a call can come between them (`driver_modes`).
`StartupSteps` is 1, so that both outcomes of the start-up occur. *Server*: the
second call of a client is the one that meets the first one's late answer; the
second client is the one whose request waits behind another's; a second socket
is what an abandoned answer could be mistaken for. *Odometry*: with five ticks
a move of two wraps every third step in both directions; the fourth step
follows a turn, a reset and a first step after it. *Frames*: six requests over
four slots hand an index out a second time, while a frame two requests old may
still be under way and a slot may have leaked. *Mailboxes*: three mailboxes are a
first, a middle and a last segment; the second call meets what the first left
behind. *Process image*: seven kinds of slaves in 343 combinations put every
kind before and after every other, bits in the rest of a byte, sync managers
that do not connect, and segment borders at every place; two slaves are the
least for the straddling and the third makes the counters coincide. *Master*:
two slaves are the least that can be plugged in the wrong order; the first of two
faults takes out one, both or the last of them, the second comes while they are
being recovered, between any two transfers. `SafeOpCounts` is FALSE: a slave that still
counts its inputs in SAFE_OP is not noticed by the work counter. *Modules*: one
tick either way of a reading at 0 or 2 of three wraps in both directions, and the
second start is one that a zeroed reading differs from; two messages are a
command and its end, or a request and another in the window of the first. What
is proved (section 6) holds for all bounds.

### Where the code disagrees with its documentation

Each of these runs is expected to end in a violation; the trace is the
argument. The property restates the quoted documentation.

| run | what happens |
|---|---|
| `bug_lost_command` | a command answered Ok is erased: `step()` compared the old deadline before the command's stores and zeroes the target after them |
| `bug_stop_unanswered` | the process ends while the client of the stop still waits for an answer that will never be sent |
| `bug_pdo_size` | an inner read of a mapping fails and counts as nothing; the mapping is "succesful" with too few bits |

The modules also contain these disagreements and surprises, as behaviours
without a run of their own. Python:

* The zeroing of a late deadline resets `only_align_drives` between the stores of
  an align-only command: the platform drives
  (`velocity_platform_controller.py:118`).
* `are_drives_aligned` clears the ramp's clock between test and use: a TypeError
  ends the EtherCAT thread (`velocity_platform_controller.py:147`).
* `set_driver_type` between two reads of one wheel: a velocity setpoint goes out
  under torque mode bits. It replaces the type before the controllers
  (`platform_driver.py:108`); a step in between ends with an AttributeError
  (`WheelControl` in `PlatformDriver`).
* A handler that raises ends the request thread only (`server.py:105`): no later
  request, not even a stop, is handled.
* An answered odometry reset is undone for an axis by the store of a step
  (`platform_monitor.py:113`).
* `reset_odometry` empties `_prev_encoder` between the estimator's length test
  and its indexing (`platform_monitor.py:64`); the IndexError ends the EtherCAT
  thread (`Delta`, `StoreEncoder` in `Odometry`).
* `reset_odometry` assigns `_odometry`, which nothing reads
  (`platform_monitor.py:325`): until the next step clients get the old pose.
* `RobilePlatform.step` drops the result of the driver's step
  (`robile_platform.py:102`): the driver that logged "Stopping PlatformDriver
  because wheels don't become ready." becomes READY and ACTIVE later. The
  results of `init_ethercat` are dropped likewise (`server.py:96`).
* The ramp may read a target of which two axes belong to two commands
  (`velocity_platform_controller.py:115`), faster than the documented limit.
* Once ACTIVE, frames that brake carry the drive current, not the "1 amp during
  braking" of `docs/how_it_works.md:36`.
* After one timeout every method of a client raises `zmq.ZMQError`
  (`CallStuck`), until it is closed and replaced.

SOEM (`kelo-tulip/src/soem`):

* The comment of `ecx_srconfirm` promises a retry when the work counter is 0
  (`oshw/linux/nicdrv.c:567`); the loop ends on any counter (line 600).
* With every slot taken a frame slot is handed out that is in use
  (`oshw/linux/nicdrv.c:242`), and leaked slots are never free again: two calls
  then share a slot, and one may copy out the other's answer.
* A slave that is cut off within `ecx_recover_slave` keeps the temporary address:
  it may never be recovered, or get another slave's address
  (`ethercatconfig.c:1486`; section 3, `EtherCATMaster`). When no frame comes
  back the result is -1, which counts as success (`EtherCATMaster.cpp:379`).
* A segmented read asks for the next segment again when no answer came
  (`ethercatcoe.c:213`): with a slave that stays silent it has no end.
* The straddling FMMU, the misread first frame and the LRD of overlapping images
  (section 3, `IOMap`).
* `ByteCount` goes on over the FMMUs of a slave (`ethercatconfig.c:930`): the third
  of three that do not connect is longer than its sync manager.

KELO master and modules (`kelo-tulip/src`):

* Unaddressed slaves (section 3, `EtherCATMaster`).
* After a failed module the handler closes EtherCAT before it sets `stopThread`
  (`EtherCATMaster.cpp:288`): the check thread reads and writes a closed socket
  until its round ends. `main` deletes the modules while the handler steps them
  (`TulipMain.cpp:168`), and joins neither thread. The result of `initEtherCAT2`
  is never tested (`EtherCATMaster.cpp:133`), the mapped size is not compared
  with the 4096 bytes of `IOmap` (`EtherCATMaster.h:110`), and `stopThread` is
  not initialised (`EtherCATMaster.h:115`): when it is not 0 both threads end at
  once although `initEthercat` returns true.
* A reset of the error flags between their update and `stepReady` activates the
  driver with a faulty wheel (`PlatformDriver.cpp:225`); an ACTIVE driver does
  not look at `statusError` at all (line 239).
* A `cmd_vel` target has no deadline (`PlatformDriverROS.cpp:566`).
* The condition on debug mode is commented out (`PlatformDriverROS.cpp:567`),
  while the comment at lines 305–307 describes it.
* `KeloDriveAPI.h:72` promises encoders with no wrapping at 2 pi; the driver
  unwraps them.

## 5. Fairness

* `PlatformDriver`: weak fairness of the EtherCAT thread, which loops and
  sleeps but never waits for anybody, and of a handler that has begun, which
  contains no blocking call. Clients need not call.
* `TulipSystem`: weak fairness of each of the three threads, for the same
  reason (`join` waits for the EtherCAT thread, which is its guard, and the
  request thread may wait in `recv` as long as nothing arrives). Strong
  fairness per client of the receive, because 0MQ's REP socket takes requests
  from its peers in turn, so a client's request cannot be passed over for ever.
  Clients are not assumed to call, to receive or to time out.

* `PdoMapping`: weak fairness of the master, whose calls block and return, and
  of the slave's taking and repeating; strong fairness of its answers, which an
  emergency or a full mailbox may put off but not for ever. Losses are bounded
  and owe nothing to fairness.
* `EtherCATMaster`: weak fairness of both threads, which sleep but wait for
  nobody, and of each slave's obedience. Strong fairness of one outcome of a
  race (`WriteAsStored`): the check thread stores the state to ask for in the
  slave list and writes it from there, and the handler may overwrite it in
  between; in infinitely many rounds it does not always. `main` need not go on,
  and nothing is assumed of the line: `SlavesResume` starts from a line that is
  whole.
* `KeloModules`: weak fairness of the handler thread, strong fairness of a ramp
  over a time that is not zero, which is to say that the clock goes on.

`RequestsAreHandled` excludes the end of the process and a handler that raised:
the request thread is then gone.

## 6. Proofs

All theorems hold for every value of the constants that satisfies the named
assumptions: `PlatformLimitsAssumption` (limits are natural numbers),
`PlatformDriverAssumption` (commands and driver types are of their types, at
least one wheel, None is neither a number nor a Boolean),
`TulipChannelAssumption`, `OdometryAssumption` (no wheel makes half a revolution
in a period; straight moves and turns on the spot only), `PortAssumption` (at
least one slot; no more frames in an exchange than slots), `TimingAssumption`
(frames and calls do not outlive a round of the slots, section 3),
`MailboxAssumption` (a mailbox holds at least one value), `DictionaryAssumption`
(objects have indices from 0x1000 on and fewer than 256 entries, as one byte
counts them), `WriteAssumption` (what is written are numbers), `PdoAssumption`
(the objects that describe PDOs have entries of four bytes), `IOMapAssumption`
(the sync managers of a slave hold its bits, and a slave fits into a segment),
`MasterAssumption`
(no two slaves have the same EEPROM contents, serial number included),
`KeloAssumption` (limits are natural numbers, rates positive; at least three
ticks a turn). TLC evaluates them in the runs.

* **PlatformDriverProofs.** `RampTowardsTarget`, about the operators of
  `VelocityRamp`: a ramp goes towards its target, not past it, and no faster than
  its rate. `Typing`. `ExpiredTargetsAreZero`: between the
  deadline check and the frame an expired target is zero. It is not inductive:
  the strengthening (`DeadlineInv`) says which axes the step is done with at each
  statement (`ZeroedAt`), that each of them is zero unless the deadline in force
  was still ahead at the check or the check read one that was, the same of a
  deadline that is computed and not stored yet, and that the check's clock is
  not ahead of the present.
  It holds whenever no call is storing a target. `TargetOfOneCommand` rests on
  `TargetInvariant`: the axes a call has stored hold its command or a zero.
  `TargetsAreLegal` adds `CommandLegality` and the lemma that zeroing axes of a
  legal command leaves it legal. `RampedAxesAreLimited` needs only that every
  axis of every target is limited, so it survives torn targets; the quadratic
  limit enters by `RootOfSum`. `AccelerationIsBounded`, the
  action property `NoSuddenAcceleration`, rests on `ClockInvariant`: the clock a
  ramp starts from is no older than the last completed ramp, whether a call
  cleared it or not, so no ramp covers a negative time or more than the time
  since that one; the rest is `RampTowardsTarget`. `AlignFlagIsStored`: until somebody stores the
  flag no deadline is ahead, neither stored nor read, so the first step zeroes the target and stores it.
* **OdometryProofs.** `Typing`. `SumsAreExact`: inductive with "the last
  reading is the reading before the next one"; the arithmetic is `UnwrapIsMove`.
  `OdometryIsTrue`: the invariant says, for each statement of a step, which
  axes are already those of the true pose and which still await the motion, as
  long as no reset has overlapped a step.
* **TulipSystemProofs.** `Typing`. `Implementation`: the system implements
  `RequestReply` under the refinement mapping of `TulipSystem`. The invariant:
  call and socket numbers are fresh (`Numbered`), a call is in one place
  (`OnePlace`), and what is pending on a client's current socket is its last
  call (`Alternating`); each client or server step is then a step of the
  service or leaves its variables alone. `NothingFollowsStop`: from the handling
  of a stop on the Event is set and the request thread is past taking or
  handling a request (`StopInv`), and its loop looks at the Event before it takes
  another.

* **NicDriverProofs.** `TypeCorrect`. `LeaksAreReceived`: a slot changes hands
  along with its frame, from a thread to the stack of an exchange and back. The
  invariant says that a thread which waits for a frame of an exchange has the
  oldest of the stack in its hand, so that the slot it clears is the one it
  pulls; that the lock is held exactly while another's frame is stored; and that
  every slot neither empty nor received is in a hand or on the stack.
  `AnswersAreOwn` needs to know, while `timely` holds, that the scan for an empty
  slot does not come round to an index while a frame that carries it is on the
  line, in a hand or on the stack, the only case in which an index could mean two
  requests. `FrameInv` measures it: a frame's slot is behind the scan by no
  more than the requests since, plus the leaked slots that were skipped
  (`Near`), and older frames are farther behind (`Ordered`), so that no two of
  them share an index (`SameIndex`). The step that matters is `ScanStopsShort`: up
  to the first slot still of use, all that the scan skips are leaked slots, and
  if it reached that slot these, with those already counted, would be more than
  `MaxLeaks`. Every other step hands out no index and makes no frame
  (`Quiet`).
* **PdoMappingProofs.** `TypeCorrect`. `ReadIndicesAreRight`, in every
  environment: what reaches the master was said by the slave about an object it
  has (`AnswersTruly`), a call of the mapping asks for one value only with a
  buffer for one (`ReadsOneObject`), and the object a PDO is read from is one that
  the assignment lists (`PdoIsAssigned`), whose entries are known to be longer
  than a whole object's count would be. `ReadsAreRight` and `WritesAreRight`, in
  the gentle environment: `Handshake` says where the one request of the transfer
  is (in the in mailbox, with the slave, answered in the out mailbox, or only in
  the slave's memory, with a repeat asked for), `Exact` that what was received so
  far and what the slave has left are together the value, or what was sent and
  what is left to send the value written. Together they make `GentleTransfer`,
  which is inductive; that nothing times out (`NothingTimesOut`) is a consequence
  of it. `GentleMappingsAreRight` adds that a read of an object the slave has, into
  a buffer that it fits, succeeds (`Granted`), and what a mapping knows at each
  statement (`Mapped`): the sizes of the sync managers, PDOs and entries it has
  been through, in terms of the dictionary (`Found`, `PDOs`, `Entries`), and which
  read it waits for (`Waiting`). There is one lemma per action, and sums grow by one
  term at a time. Its hypothesis `WellFormed` is on the dictionary: it refers only
  to objects it has, types of sync managers are right, objects fit the
  structures; for other dictionaries the code's corrections decide
  what is found. The dictionary of the run is well formed
  (`WellFormedAssumption`).
* **IOMapProofs.** `TypeCorrect` needs more than types: how far the cursor may
  go within a slave (`Advance`), that segments are counted in step (`Indices`),
  and that the parts of a segment sent are no more than there is.
  `MappingsStayDisjoint`: every FMMU lies before the place where the next one of
  its direction goes (`BelowLimit`); a new one starts there or later.
  `MappingsAreInside`: at the end of a direction the byte the cursor stands in is
  counted when bits are left in it (`PaddedReaches`), so what lies below the
  cursor lies in the image; separate images also need the outputs before the
  inputs (`OutputsFirst`). Together they are `ImageIsShared`.
  `SegmentsAreTheImage`: the closed segments and the open one add up to what has
  been mapped (`Summed`). That is so only as long as the last entry of the
  table has not been reached (`SegmentsFit`): the code goes on as if there were
  another. `EnoughSegments` counts how often bytes are accounted for
  (`FewSegments`) and concludes that 2 * N + 2 entries are enough; with
  `EC_MAXIOSEGMENTS` 64 (`ethercatmain.h`) that is 31 slaves of any kind.
  `DatagramsCover`: in each phase of sending, what was sent is one block from
  where the phase begins to where it is (`Sending`, `Block`); the inputs of
  separate images begin inside a segment, which `Ioffset` accounts for.
  `ExpectedIsComplete`: `outputsWKC` and `inputsWKC` are the numbers of FMMUs
  (`AllCounted`), an exchange has LRW only or none (`OneKind`), and the work
  counter is at most what those FMMUs add that have answered (`Answered`); an
  FMMU that answered is not reached again by the same command unless it
  straddles (`Fresh`).

  Both modules prove by induction over the natural numbers what the recursive
  sums `Total` are (`TotalStep`, `TotalNat`): the library's induction theorems
  have an operator parameter, so the induction is over a set
  (`SetInduction`, from the least element of its complement).
* **EtherCATMasterProofs.** `TypeCorrect`, with SOEM's copy of an address being
  the temporary one only while that slave is being identified. `AddressesOwn`: a
  station address is given in two places, the configuration and the recovery;
  the second gives it through the temporary address. `OwnInv` says that, as long
  as no slave was plugged in with that address, at most one on the line has it,
  and, once its identity was compared, it is the slave looked for; cuts only
  take slaves off the line, and `GiveTemporary` clears the address before it
  gives it.
* **KeloModulesProofs.** `TypeCorrect`, which includes the limit of the ramp.
  `EncodersExact`: as long as no input was zeroed the sum
  is the rotation since the first reading (`Exact`), for between two readings
  the wheel turns by less than half (`Seen`). After that, the sum differs from
  the last reading less the first by whole turns, if the first was true
  (`WholeTurns`), and a last reading that is true differs from the rotation by
  whole turns (`TrueReading`). `ActiveIsHealthy`: between the
  update of the error flags and `stepReady`, no error means that all wheels are
  ready, unless a callback reset the flags.

The proofs do not use the bounds (`Horizon`, `MaxSessions`, `MaxCalls`,
`MaxSteps`, `MaxRequests`, `Retries`, `MaxFaults`, `MaxMessages`, `MaxTurned`)
other than as the ends of ranges. `MaxAge`, `MaxHold` and `MaxLeaks` enter by
`TimingAssumption` only.

Only model-checked: all liveness (`ExpiryIsNoticed`, `StopEndsProcess`,
`RequestsAreHandled`, `TransferEnds`, `FailureEndsThreads`, `SlavesResume`,
`StandstillReached`, `ResetIsSent`), which is out of the prover's reach. Every
safety property of a passing run is a theorem.

## 7. Not modelled

* Python: `init_ethercat`, a sequence of calls of pysoem, which is not in this
  repository; geometry of the wheels, PID control, PDO layout, sensor values:
  numeric code without concurrency of its own. Their hazards: the ramp and the
  PID divide by, or multiply with, a difference of `time.time()`
  (`platform_driver.py:330`), and deadlines are compared on it (line 98); a clock
  that is set while the program runs is not modelled, here it only moves
  forward. `_ethercat_initialized` stays True after the master was closed for
  want of slaves (`robile_platform.py:49`).
* The dashboard: an accept loop, a thread per browser command, and a process
  they start and kill. What would have to be checked is the operating system's
  processes and sockets, and no document says what it promises. What reading it
  shows: `bytes(process.pid)` is pid zero bytes, not a number
  (`handlers.py:24`); after a kill the accept loop waits for one more connection
  (`dashboard/airo_tulip_dashboard/server.py:60`); every client thread that
  notices the stop event shuts the computer down (line 36).
* C++: `pauseEthercat` and `reconnectSlave` (nothing calls them), reading
  parameters, published messages, the geometry of the wheels; a ramp that reads
  three axes of a target while a callback stores them; a local time that is set
  back (`VelocityPlatformController.cpp:161`).
* SOEM beyond what the KELO master runs: distributed clocks, slave EEPROM
  access, Ethernet, files and servo profiles over EtherCAT, the redundant
  adapter, the error ring, the firmware tool, and the legacy interface without a
  context; what happens when `EC_MAXIOSEGMENTS` segments are full
  (`ethercatconfig.c:1187`) is in the model but in no run.
* Ports to other systems with their headers, and the copies in
  `include/kelo_tulip/soem`: about two thirds of the C and C++ lines of the
  repository are second copies, ports that are not built on Linux, or
  third-party headers (Windows' packet capture). Of its code proper, some
  twelve thousand lines, the modules cover about a quarter, and all of what runs
  concurrently; a larger share of the whole is not to be had without modelling
  code that the program does not contain.
* Utility scripts, examples and packaging: sequential glue.
