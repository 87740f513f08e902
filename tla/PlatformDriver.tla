--------------------------- MODULE PlatformDriver ---------------------------
(***************************************************************************)
(* PlatformDriver with its VelocityPlatformController, as the two threads  *)
(* of TulipServer use them: the request thread calls                       *)
(* set_platform_velocity_target, are_drives_aligned and set_driver_type,   *)
(* the EtherCAT thread calls step() over and over.  Nothing locks the two  *)
(* objects, so every statement that touches a shared attribute is an       *)
(* action of its own; a statement that touches only locals is merged with  *)
(* a neighbour.                                                            *)
(*                                                                         *)
(* Abstracted: the geometry of the drives (a setpoint is zero, turns the   *)
(* pivots only, or drives forward too), the wheel status words (a wheel is *)
(* ready or not), the PDO fields other than mode, current limit and        *)
(* setpoint.                                                               *)
(***************************************************************************)
EXTENDS VelocityRamp

CONSTANTS
    NumWheels,           \* len(wheel_configs)
    MaxLinearTarget,     \* the 0.5 m/s of set_platform_velocity_target
    MaxAngularTarget,    \* the pi/4 rad/s of set_platform_velocity_target
    StartupSteps,        \* the 500 steps of _step_init
    Commands,            \* arguments clients pass to set_platform_velocity_target
    NewDriverTypes,      \* arguments clients pass to set_driver_type
    AlignmentQueries,    \* whether clients call are_drives_aligned
    Horizon,             \* bound on the clock
    None

DriverType == {"VELOCITY", "COMPLIANT_WEAK", "COMPLIANT_MODERATE", "COMPLIANT_STRONG"}

Command == [vel : Velocity, timeout : Int, align : BOOLEAN]

ASSUME PlatformDriverAssumption ==
    /\ NumWheels \in Nat \ {0}
    /\ MaxLinearTarget \in Nat /\ MaxAngularTarget \in Nat
    /\ StartupSteps \in Nat
    /\ Commands \subseteq Command
    /\ NewDriverTypes \subseteq DriverType
    /\ AlignmentQueries \in BOOLEAN
    /\ Horizon \in Nat \ {0}
    /\ None \notin Int /\ None \notin BOOLEAN

Wheels == 1..NumWheels

VARIABLES
    now,               \* time.time()
    \* PlatformDriver
    state, stepCount, timeout, driverType, wheelControllers,
    haveProcessData,   \* _process_data is no longer the empty list
    output,            \* the output buffers of the slaves
    \* VelocityPlatformController
    targetVel, onlyAlign, rampedVel, timeLastRamping,
    \* the request thread: where it is, its last velocity command, the deadline
    \* it has computed and not stored yet, its last reply
    cpc, command, deadline, reply,
    \* the EtherCAT thread: where it is, and the locals of step()
    spc, checked, checkedAt, rampNow, timeDelta, wheel, mode, motion, kind, stepOk,
    \* history: the time of the last completed ramp
    rampedAt

driverVars == <<state, stepCount, timeout, driverType, wheelControllers, haveProcessData, output>>
vpcVars    == <<targetVel, onlyAlign, rampedVel, timeLastRamping>>
callerVars == <<cpc, command, deadline, reply>>
stepVars   == <<spc, checked, checkedAt, rampNow, timeDelta, wheel, mode, motion, kind, stepOk,
                rampedAt>>
vars == <<now, driverVars, vpcVars, callerVars, stepVars>>

Motion == {"zero", "pivot", "drive"}
Setpoint == [mode : {"velocity", "torque"}, limit : {"stop", "drive"},
             kind : {"velocity", "torque"}, motion : Motion]

\* RxPDO1 as _do_stop fills it: zero velocity, whatever the driver type.
StopSetpoint == [mode |-> "velocity", limit |-> "stop", kind |-> "velocity", motion |-> "zero"]

SettingTarget == {"set_x", "set_y", "set_a", "set_align", "set_timeout", "store_timeout"}
CallerPc == {"idle", "aligned", "set_controllers", "crashed"} \cup SettingTarget
StepPc == {"idle", "check", "compare", "zero_x", "zero_y", "zero_a", "zero_align", "dispatch",
           "delta", "ramp_x", "ramp_y", "ramp_a", "store", "mode", "target", "kind",
           "control_1", "control_2", "write", "send", "crashed"}

\* Mutant: the linear limit checked axis by axis.
IsIllegalPerAxis(c) == \/ Abs(c.vel["x"]) > MaxLinearTarget \/ Abs(c.vel["y"]) > MaxLinearTarget
                       \/ Abs(c.vel["a"]) > MaxAngularTarget
                       \/ c.timeout < 0

\* The ValueErrors of set_platform_velocity_target (lines 89-94).
IsIllegal(c) == \/ c.vel["x"] * c.vel["x"] + c.vel["y"] * c.vel["y"]
                      > MaxLinearTarget * MaxLinearTarget
                \/ Abs(c.vel["a"]) > MaxAngularTarget
                \/ c.timeout < 0

InitialTimeoutInForce == Horizon   \* mutant: the driver starts with a deadline ahead
InitialTimeout == 0

Init ==
    /\ now = 1
    /\ state = "INIT" /\ stepCount = 0 /\ timeout = InitialTimeout
    /\ driverType = "VELOCITY" /\ wheelControllers = "VELOCITY"
    /\ haveProcessData = FALSE
    /\ output = [w \in Wheels |-> StopSetpoint]
    /\ targetVel = Standstill /\ rampedVel = Standstill
    /\ onlyAlign = None /\ timeLastRamping = None
    /\ cpc = "idle" /\ reply = "none"
    /\ command = [vel |-> Standstill, timeout |-> 0, align |-> FALSE]
    /\ deadline = 0
    /\ spc = "idle" /\ checked = 0 /\ checkedAt = 0 /\ rampNow = 0 /\ timeDelta = 0
    /\ wheel = 1 /\ mode = "velocity" /\ motion = "zero" /\ kind = "velocity"
    /\ stepOk = TRUE /\ rampedAt = 1

-----------------------------------------------------------------------------
(* The request thread. *)

\* set_platform_velocity_target: the limits are checked on the arguments alone.
CallSetTarget(c) ==
    /\ cpc = "idle"
    /\ IF IsIllegal(c)
       THEN reply' = "error" /\ UNCHANGED <<cpc, command>>
       ELSE cpc' = "set_x" /\ command' = c /\ reply' = "none"
    /\ UNCHANGED <<now, driverVars, vpcVars, deadline, stepVars>>

\* Mutant: a zero of the command leaves the axis alone.
StoredTargetUnlessZero(k) == IF command.vel[k] = 0 THEN targetVel[k] ELSE command.vel[k]
StoredTarget(k) == command.vel[k]

\* The four stores of VelocityPlatformController.set_platform_velocity_target ...
SetAxis(k, pc, next) ==
    /\ cpc = pc
    /\ targetVel' = [targetVel EXCEPT ![k] = StoredTarget(k)]
    /\ cpc' = next
    /\ UNCHANGED <<now, driverVars, onlyAlign, rampedVel, timeLastRamping,
                   command, deadline, reply, stepVars>>

SetAlign ==
    /\ cpc = "set_align"
    /\ onlyAlign' = command.align
    /\ cpc' = "set_timeout"
    /\ UNCHANGED <<now, driverVars, targetVel, rampedVel, timeLastRamping,
                   command, deadline, reply, stepVars>>

\* ... and only then the deadline, in the driver: the clock is read ...
ReadClock ==
    /\ cpc = "set_timeout"
    /\ deadline' = now + command.timeout
    /\ cpc' = "store_timeout"
    /\ UNCHANGED <<now, driverVars, vpcVars, command, reply, stepVars>>

\* ... and the sum stored, which the EtherCAT thread may delay.
StoreTimeout ==
    /\ cpc = "store_timeout"
    /\ timeout' = deadline
    /\ cpc' = "idle" /\ deadline' = 0 /\ reply' = "ok"
    /\ UNCHANGED <<now, state, stepCount, driverType, wheelControllers,
                   haveProcessData, output, vpcVars, command, stepVars>>

\* are_drives_aligned indexes _process_data, which is empty before the first step.
CallAreDrivesAligned ==
    /\ AlignmentQueries /\ cpc = "idle"
    /\ cpc' = IF haveProcessData THEN "aligned" ELSE "crashed"
    /\ reply' = "none"
    /\ UNCHANGED <<now, driverVars, vpcVars, command, deadline, stepVars>>

\* A drive that is not aligned makes the next ramp start afresh.
AreDrivesAligned(aligned) ==
    /\ cpc = "aligned"
    /\ timeLastRamping' = IF aligned THEN timeLastRamping ELSE None
    /\ cpc' = "idle" /\ reply' = IF aligned THEN "aligned" ELSE "not_aligned"
    /\ UNCHANGED <<now, driverVars, targetVel, onlyAlign, rampedVel, command, deadline,
                   stepVars>>

CallSetDriverType(t) ==
    /\ cpc = "idle"
    /\ driverType' = t
    /\ cpc' = "set_controllers" /\ reply' = "none"
    /\ UNCHANGED <<now, state, stepCount, timeout, wheelControllers,
                   haveProcessData, output, vpcVars, command, deadline, stepVars>>

\* The argument of the call is still in driverType: nobody else writes it.
SetControllers ==
    /\ cpc = "set_controllers"
    /\ wheelControllers' = driverType
    /\ cpc' = "idle" /\ reply' = "ok"
    /\ UNCHANGED <<now, state, stepCount, timeout, driverType,
                   haveProcessData, output, vpcVars, command, deadline, stepVars>>

CallerContinue ==
    \/ SetAxis("x", "set_x", "set_y")
    \/ SetAxis("y", "set_y", "set_a")
    \/ SetAxis("a", "set_a", "set_align")
    \/ SetAlign
    \/ ReadClock \/ StoreTimeout
    \/ \E aligned \in BOOLEAN : AreDrivesAligned(aligned)
    \/ SetControllers

Caller ==
    \/ \E c \in Commands : CallSetTarget(c)
    \/ CallAreDrivesAligned
    \/ \E t \in NewDriverTypes : CallSetDriverType(t)
    \/ CallerContinue

-----------------------------------------------------------------------------
(* The EtherCAT thread: step(). *)

Goto(pc, next) == spc = pc /\ spc' = next

\* The step counter and the new process data (lines 113-121).  Step counts
\* beyond the startup limit are not told apart.
StepBegin ==
    /\ Goto("idle", "check")
    /\ stepCount' = IF stepCount > StartupSteps THEN stepCount ELSE stepCount + 1
    /\ haveProcessData' = TRUE
    /\ UNCHANGED <<now, state, timeout, driverType, wheelControllers, output, vpcVars,
                   callerVars, checked, checkedAt, rampNow, timeDelta, wheel, mode, motion, kind, stepOk, rampedAt>>

\* The left operand of the comparison in line 123 ...
ReadTimeout ==
    /\ Goto("check", "compare")
    /\ checked' = timeout
    /\ UNCHANGED <<now, driverVars, vpcVars, callerVars,
                   checkedAt, rampNow, timeDelta, wheel, mode, motion, kind, stepOk, rampedAt>>

TimedOutLate == checked + 1 < now   \* mutant: one tick of grace
TimedOut == checked < now

\* ... and the right one, the clock.
CheckTimeout ==
    /\ Goto("compare", IF TimedOut THEN "zero_x" ELSE "dispatch")
    /\ checkedAt' = now
    /\ UNCHANGED <<now, driverVars, vpcVars, callerVars,
                   checked, rampNow, timeDelta, wheel, mode, motion, kind, stepOk, rampedAt>>

\* set_platform_velocity_target(0, 0, 0, only_align_drives=False), store by store.
ZeroAxis(k, pc, next) ==
    /\ Goto(pc, next)
    /\ targetVel' = [targetVel EXCEPT ![k] = 0]
    /\ UNCHANGED <<now, driverVars, onlyAlign, rampedVel, timeLastRamping, callerVars,
                   checked, checkedAt, rampNow, timeDelta, wheel, mode, motion, kind, stepOk, rampedAt>>

ZeroAlign ==
    /\ Goto("zero_align", "dispatch")
    /\ onlyAlign' = FALSE
    /\ UNCHANGED <<now, driverVars, targetVel, rampedVel, timeLastRamping, callerVars,
                   checked, checkedAt, rampNow, timeDelta, wheel, mode, motion, kind, stepOk, rampedAt>>

\* _step_init: stop, then READY once every wheel is enabled without an error.
\* After StartupSteps steps without that it returns False.
StepInit(wheelReady) ==
    LET ready == \A w \in Wheels : wheelReady[w]
    IN  /\ state = "INIT" /\ Goto("dispatch", "send")
        /\ output' = [w \in Wheels |-> StopSetpoint]
        /\ state' = IF ready THEN "READY" ELSE state
        /\ stepOk' = ~(stepCount > StartupSteps /\ ~ready)
        /\ UNCHANGED <<now, stepCount, timeout, driverType, wheelControllers, haveProcessData,
                       vpcVars, callerVars, checked, checkedAt, rampNow, timeDelta, wheel, mode, motion, kind, rampedAt>>

StepReady ==
    /\ state = "READY" /\ Goto("dispatch", "send")
    /\ output' = [w \in Wheels |-> StopSetpoint]
    /\ state' = "ACTIVE" /\ stepOk' = TRUE
    /\ UNCHANGED <<now, stepCount, timeout, driverType, wheelControllers, haveProcessData,
                   vpcVars, callerVars, checked, checkedAt, rampNow, timeDelta, wheel, mode, motion, kind, rampedAt>>

RampStart == IF timeLastRamping = None THEN now ELSE timeLastRamping

\* _step_active: _do_control, which starts with the ramp's clock (lines 141-145).
StepActive ==
    /\ state = "ACTIVE" /\ Goto("dispatch", "delta")
    /\ rampNow' = now /\ stepOk' = TRUE
    /\ timeLastRamping' = RampStart
    /\ UNCHANGED <<now, driverVars, targetVel, onlyAlign, rampedVel, callerVars,
                   checked, checkedAt, timeDelta, wheel, mode, motion, kind, rampedAt>>

\* now - None raises TypeError, which ends the thread.
RampDelta ==
    /\ Goto("delta", IF timeLastRamping = None THEN "crashed" ELSE "ramp_x")
    /\ timeDelta' = IF timeLastRamping = None THEN timeDelta ELSE rampNow - timeLastRamping
    /\ UNCHANGED <<now, driverVars, vpcVars, callerVars,
                   checked, checkedAt, rampNow, wheel, mode, motion, kind, stepOk, rampedAt>>

\* One axis, and the limit of it: no other thread writes rampedVel.
RampAxis(k, pc, next) ==
    /\ Goto(pc, next)
    /\ rampedVel' = [rampedVel EXCEPT ![k] =
                       Limited(k, Ramp(k, rampedVel[k], targetVel[k], timeDelta))]
    /\ UNCHANGED <<now, driverVars, targetVel, onlyAlign, timeLastRamping, callerVars,
                   checked, checkedAt, rampNow, timeDelta, wheel, mode, motion, kind, stepOk, rampedAt>>

\* Mutant: the clock is set once, and never again.
RampedTimeKept == IF timeLastRamping = None THEN rampNow ELSE timeLastRamping
RampedTime == rampNow

\* The time of this ramp, from which the next one starts (line 200).
RampStore ==
    /\ Goto("store", "mode")
    /\ timeLastRamping' = RampedTime
    /\ rampedAt' = rampNow
    /\ UNCHANGED <<now, driverVars, targetVel, onlyAlign, rampedVel, callerVars,
                   checked, checkedAt, rampNow, timeDelta, wheel, mode, motion, kind, stepOk>>

-----------------------------------------------------------------------------
(* The body of _do_control's loop over the wheels. *)

\* driver_type read for the mode bits of command1 (237) ...
WheelMode ==
    /\ Goto("mode", "target")
    /\ mode' = IF driverType = "VELOCITY" THEN "velocity" ELSE "torque"
    /\ UNCHANGED <<now, driverVars, vpcVars, callerVars,
                   checked, checkedAt, rampNow, timeDelta, wheel, motion, kind, stepOk, rampedAt>>

\* calculate_wheel_target_velocity: nothing at standstill, else the pivot
\* correction, with the forward velocity unless only_align_drives is set.  The
\* attribute does not exist before the first set_platform_velocity_target.
WheelTarget ==
    LET still == \A k \in Axis : rampedVel[k] = 0
    IN  /\ Goto("target", IF ~still /\ onlyAlign = None THEN "crashed" ELSE "kind")
        /\ motion' = IF still THEN "zero" ELSE IF onlyAlign = TRUE THEN "pivot" ELSE "drive"
        /\ UNCHANGED <<now, driverVars, vpcVars, callerVars,
                       checked, checkedAt, rampNow, timeDelta, wheel, mode, kind, stepOk, rampedAt>>

\* ... and read again for the kind of setpoint (252).
WheelKind ==
    /\ Goto("kind", IF driverType = "VELOCITY" THEN "write" ELSE "control_1")
    /\ kind' = IF driverType = "VELOCITY" THEN "velocity" ELSE "torque"
    /\ UNCHANGED <<now, driverVars, vpcVars, callerVars,
                   checked, checkedAt, rampNow, timeDelta, wheel, mode, motion, stepOk, rampedAt>>

\* _control_velocity_torque for one of the two motors of the wheel: a
\* VelocityTorqueController made for the VELOCITY type has no gains.
WheelControl(pc, next) ==
    /\ Goto(pc, IF wheelControllers = "VELOCITY" THEN "crashed" ELSE next)
    /\ UNCHANGED <<now, driverVars, vpcVars, callerVars,
                   checked, checkedAt, rampNow, timeDelta, wheel, mode, motion, kind, stepOk, rampedAt>>

LastWheelPassed == wheel > NumWheels   \* mutant: one wheel too many
LastWheel == wheel = NumWheels

\* The output buffer of the wheel's slave (277), then the next wheel.
WheelWrite ==
    /\ Goto("write", IF LastWheel THEN "send" ELSE "mode")
    /\ output' = [output EXCEPT ![wheel] =
                    [mode |-> mode, limit |-> "drive", kind |-> kind, motion |-> motion]]
    /\ wheel' = IF LastWheel THEN 1 ELSE wheel + 1
    /\ UNCHANGED <<now, state, stepCount, timeout, driverType, wheelControllers, haveProcessData,
                   vpcVars, callerVars, checked, checkedAt, rampNow, timeDelta, mode, motion, kind, stepOk, rampedAt>>

\* send_processdata puts the output buffers on the bus; the locals of step() end.
Send ==
    /\ Goto("send", "idle")
    /\ checked' = 0 /\ checkedAt' = 0 /\ rampNow' = 0 /\ timeDelta' = 0
    /\ mode' = "velocity" /\ motion' = "zero" /\ kind' = "velocity"
    /\ UNCHANGED <<now, driverVars, vpcVars, callerVars, wheel, stepOk, rampedAt>>

Stepper ==
    \/ StepBegin \/ ReadTimeout \/ CheckTimeout
    \/ ZeroAxis("x", "zero_x", "zero_y")
    \/ ZeroAxis("y", "zero_y", "zero_a")
    \/ ZeroAxis("a", "zero_a", "zero_align")
    \/ ZeroAlign
    \/ \E wheelReady \in [Wheels -> BOOLEAN] : StepInit(wheelReady)
    \/ StepReady \/ StepActive
    \/ RampDelta
    \/ RampAxis("x", "ramp_x", "ramp_y")
    \/ RampAxis("y", "ramp_y", "ramp_a")
    \/ RampAxis("a", "ramp_a", "store")
    \/ RampStore
    \/ WheelMode \/ WheelTarget \/ WheelKind
    \/ WheelControl("control_1", "control_2")
    \/ WheelControl("control_2", "write")
    \/ WheelWrite \/ Send

Tick ==
    /\ now < Horizon
    /\ now' = now + 1
    /\ UNCHANGED <<driverVars, vpcVars, callerVars, stepVars>>

Next == Caller \/ Stepper \/ Tick

Spec == Init /\ [][Next]_vars

\* The EtherCAT thread loops, and a handler that has begun runs to its end.
Fairness == WF_vars(Stepper) /\ WF_vars(CallerContinue)

FairSpec == Spec /\ Fairness

-----------------------------------------------------------------------------
(* Properties. *)

\* Every variable keeps its type.
TypeOK ==
    /\ now \in Nat
    /\ state \in {"INIT", "READY", "ACTIVE"}
    /\ stepCount \in Nat /\ stepOk \in BOOLEAN /\ haveProcessData \in BOOLEAN
    /\ timeout \in Int
    /\ driverType \in DriverType /\ wheelControllers \in DriverType
    /\ output \in [Wheels -> Setpoint]
    /\ targetVel \in Velocity /\ rampedVel \in Velocity
    /\ onlyAlign \in BOOLEAN \cup {None}
    /\ timeLastRamping \in Nat \cup {None}
    /\ cpc \in CallerPc /\ command \in Command /\ deadline \in Int
    /\ reply \in {"none", "ok", "error", "aligned", "not_aligned"}
    /\ spc \in StepPc
    /\ checked \in Int /\ checkedAt \in Nat /\ rampedAt \in Nat /\ rampNow \in Nat /\ timeDelta \in Int
    /\ wheel \in Wheels /\ motion \in Motion
    /\ mode \in {"velocity", "torque"} /\ kind \in {"velocity", "torque"}

AfterCheck == {"dispatch", "delta", "ramp_x", "ramp_y", "ramp_a", "store", "mode", "target",
               "kind", "control_1", "control_2", "write", "send"}

\* "The platform will stop after this many seconds": from its timeout check to
\* the frame it sends, a step that works with a target other than zero does so
\* for one of two reasons: the deadline in force is no older than the clock of
\* the check, or the deadline that the check read was not.  The second is a
\* step's delay: the call's deadline was stored after the check.
ExpiredTargetIsZero ==
    spc \in AfterCheck /\ cpc \notin SettingTarget
        => targetVel = Standstill \/ timeout >= checkedAt \/ checked >= checkedAt

\* Between calls the target is made of one command: each axis holds the value
\* of the last accepted command or the zero of a timeout, never an older value.
TargetFromLastCommand ==
    cpc \notin SettingTarget => \A k \in Axis : targetVel[k] \in {0, command.vel[k]}

WithinTargetLimits(vel) ==
    /\ vel["x"] * vel["x"] + vel["y"] * vel["y"] <= MaxLinearTarget * MaxLinearTarget
    /\ Abs(vel["a"]) <= MaxAngularTarget

\* Between calls the target obeys the limits set_platform_velocity_target
\* checks, although the timeout may have zeroed any subset of the axes.
TargetWithinLimits == cpc \notin SettingTarget => WithinTargetLimits(targetVel)

\* Whatever the threads tear, no axis of the ramped velocity ever exceeds the
\* limit of a target axis.
RampedAxesWithinLimits ==
    /\ Abs(rampedVel["x"]) <= MaxLinearTarget
    /\ Abs(rampedVel["y"]) <= MaxLinearTarget
    /\ Abs(rampedVel["a"]) <= MaxAngularTarget

\* "so that we don't get sudden accelerations": a ramp never changes the
\* velocity of an axis by more than the rate allows in the time since the ramp
\* before it, although are_drives_aligned may clear the ramp's clock between any
\* two statements and the driver type, the target and the deadline may change.
NoSuddenAcceleration ==
    [][\A k \in Axis : Abs(rampedVel'[k] - rampedVel[k]) <= Rate(k) * (rampNow - rampedAt)]_rampedVel

\* calculate_wheel_target_velocity reads only_align_drives only after somebody
\* has set it: the constructor does not, so the first steps must.
AlignFlagExists == state = "ACTIVE" => onlyAlign # None

\* A deadline that passes is noticed by the EtherCAT thread, unless clients
\* call again: the target becomes zero.
ExpiryIsNoticed ==
    (cpc = "idle" /\ timeout < now) ~> (targetVel = Standstill \/ cpc # "idle")

-----------------------------------------------------------------------------
(* What comments and documents say, and the code does not keep. *)

InForce == cpc = "idle" /\ now <= timeout

\* "This sets a target velocity for the platform, which it will attempt to
\* achieve" until its timeout: a command that was answered stays the target.
CommandInForceIsTarget == InForce => targetVel = command.vel
=============================================================================
