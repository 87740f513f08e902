------------------------ MODULE PlatformDriverProofs ------------------------
(* Theorems about PlatformDriver, for every value of its constants. *)
EXTENDS PlatformDriver, TLAPS

-----------------------------------------------------------------------------
(* What the operators of VelocityRamp return. *)

\* The limits of an axis are natural numbers.
LEMMA LimitsType ==
    ASSUME NEW k \in Axis
    PROVE  MaxVel(k) \in Nat /\ MaxAcc(k) \in Nat /\ MaxDec(k) \in Nat /\ Rate(k) \in Nat
BY PlatformLimitsAssumption DEF MaxVel, MaxAcc, MaxDec, Rate

\* util.clip returns the value, or the bound that it passes.
LEMMA ClipCases ==
    ASSUME NEW value \in Int, NEW maximum \in Int, NEW minimum \in Int, minimum <= maximum
    PROVE  /\ Clip(value, maximum, minimum) \in minimum..maximum
           /\ value <= minimum => Clip(value, maximum, minimum) = minimum
           /\ value >= maximum => Clip(value, maximum, minimum) = maximum
           /\ value \in minimum..maximum => Clip(value, maximum, minimum) = value
BY DEF Clip

\* The limits that follow the ramps keep the sign of a velocity and never make it faster.
LEMMA LimitedShrinks ==
    ASSUME NEW k \in Axis, NEW vel \in Int
    PROVE  Limited(k, vel) \in Int /\ Abs(Limited(k, vel)) <= Abs(vel)
<1>1. MaxVel(k) \in Nat
  BY LimitsType
<1>2. Limited(k, vel) \in (-MaxVel(k))..MaxVel(k)
      /\ (vel \in (-MaxVel(k))..MaxVel(k) => Limited(k, vel) = vel)
  BY <1>1, ClipCases DEF Limited
<1>3. QED
  BY <1>1, <1>2 DEF Abs

\* A ramp moves an axis from its velocity towards the target, not past it, and
\* by no more than the rate times the time that went by.
THEOREM RampTowardsTarget ==
    ASSUME NEW k \in Axis, NEW ramped \in Int, NEW target \in Int, NEW delta \in Nat
    PROVE  /\ Ramp(k, ramped, target, delta) \in Int
           /\ ramped <= target => Ramp(k, ramped, target, delta) \in ramped..target
           /\ target <= ramped => Ramp(k, ramped, target, delta) \in target..ramped
           /\ Abs(Ramp(k, ramped, target, delta) - ramped) <= Rate(k) * delta
<1>1. MaxAcc(k) \in Nat /\ MaxDec(k) \in Nat /\ Rate(k) \in Nat
  BY LimitsType
<1> DEFINE acc  == delta * MaxAcc(k)
           dec  == delta * MaxDec(k)
           fast == Rate(k) * delta
<1>2. acc \in Nat /\ dec \in Nat /\ fast \in Nat
  BY <1>1
<1>3. acc <= fast /\ dec <= fast
  BY <1>1 DEF Rate
<1>4. ASSUME NEW up \in Nat, NEW down \in Nat, up <= fast, down <= fast
      PROVE  LET r == Clip(target, ramped + up, ramped - down)
             IN  /\ r \in Int
                 /\ ramped <= target => r \in ramped..target
                 /\ target <= ramped => r \in target..ramped
                 /\ Abs(r - ramped) <= fast
  <2> HIDE DEF fast
  <2> DEFINE r == Clip(target, ramped + up, ramped - down)
  <2>1. /\ r \in (ramped - down)..(ramped + up)
        /\ target <= ramped - down => r = ramped - down
        /\ target >= ramped + up => r = ramped + up
        /\ target \in (ramped - down)..(ramped + up) => r = target
    BY ClipCases
  <2> HIDE DEF r
  <2>2. r \in Int /\ (ramped <= target => r \in ramped..target)
                  /\ (target <= ramped => r \in target..ramped)
    BY <2>1
  <2>3. Abs(r - ramped) <= fast
    BY <2>1, <1>2, <1>4 DEF Abs
  <2> QED
    BY <2>2, <2>3 DEF r
<1>5. CASE ramped >= 0
  BY <1>2, <1>3, <1>4, <1>5 DEF Ramp
<1>6. CASE ~(ramped >= 0)
  BY <1>2, <1>3, <1>4, <1>6 DEF Ramp
<1> QED
  BY <1>5, <1>6

-----------------------------------------------------------------------------
(* The driver. *)

\* A step that changes nothing but the variables its action names.
USE DEF driverVars, vpcVars, callerVars, stepVars, Goto

\* Every variable keeps its type, whatever the two threads interleave.
THEOREM Typing == Spec => []TypeOK
<1>1. Init => TypeOK
  <2> SUFFICES ASSUME Init PROVE TypeOK
    OBVIOUS
  <2>1. Standstill \in Velocity
    BY DEF Standstill, Velocity
  <2>2. command \in Command
    BY <2>1 DEF Init, Command
  <2>3. wheel \in Wheels /\ output \in [Wheels -> Setpoint]
    BY PlatformDriverAssumption DEF Init, Wheels, Setpoint, StopSetpoint, Motion
  <2>4. targetVel \in Velocity /\ rampedVel \in Velocity
    BY <2>1 DEF Init
  <2>5. haveProcessData \in BOOLEAN /\ stepOk \in BOOLEAN
    BY DEF Init
  <2>6. onlyAlign \in BOOLEAN \cup {None} /\ timeLastRamping \in Nat \cup {None}
    BY DEF Init
  <2> QED
    BY <2>2, <2>3, <2>4, <2>5, <2>6
    DEF Init, TypeOK, InitialTimeout, Motion, DriverType, CallerPc, SettingTarget, StepPc
<1>2. TypeOK /\ [Next]_vars => TypeOK'
  <2> SUFFICES ASSUME TypeOK, [Next]_vars PROVE TypeOK'
    OBVIOUS
  <2> USE DEF TypeOK
  <2>1. ASSUME NEW c \in Commands, CallSetTarget(c) PROVE TypeOK'
    BY <2>1, PlatformDriverAssumption DEF CallSetTarget, CallerPc, SettingTarget
  <2>2. ASSUME NEW k \in Axis, NEW pc \in SettingTarget, NEW next \in SettingTarget, SetAxis(k, pc, next)
        PROVE TypeOK'
    BY <2>2 DEF SetAxis, StoredTarget, Velocity, Command, CallerPc
  <2>3. CASE SetAlign
    BY <2>3 DEF SetAlign, Command, CallerPc, SettingTarget
  <2>4. CASE ReadClock \/ StoreTimeout
    BY <2>4 DEF ReadClock, StoreTimeout, Command, CallerPc, SettingTarget
  <2>5. CASE CallAreDrivesAligned
    BY <2>5 DEF CallAreDrivesAligned, CallerPc
  <2>6. ASSUME NEW aligned \in BOOLEAN, AreDrivesAligned(aligned) PROVE TypeOK'
    BY <2>6 DEF AreDrivesAligned, CallerPc
  <2>7. ASSUME NEW t \in NewDriverTypes, CallSetDriverType(t) PROVE TypeOK'
    BY <2>7, PlatformDriverAssumption DEF CallSetDriverType, CallerPc
  <2>8. CASE SetControllers
    BY <2>8 DEF SetControllers, CallerPc
  <2>9. CASE StepBegin
    BY <2>9, PlatformDriverAssumption DEF StepBegin, StepPc
  <2>10. CASE ReadTimeout \/ CheckTimeout
    BY <2>10 DEF ReadTimeout, CheckTimeout, StepPc
  <2>11. ASSUME NEW k \in Axis, NEW pc \in StepPc, NEW next \in StepPc, ZeroAxis(k, pc, next)
         PROVE TypeOK'
    BY <2>11 DEF ZeroAxis, Velocity
  <2>12. CASE ZeroAlign
    <3>1. onlyAlign' \in BOOLEAN \cup {None}
      BY <2>12, Zenon DEF ZeroAlign
    <3>2. spc' \in StepPc
      BY <2>12 DEF ZeroAlign, StepPc
    <3> QED
      BY <2>12, <3>1, <3>2 DEF ZeroAlign
  <2>13. ASSUME NEW wheelReady \in [Wheels -> BOOLEAN], StepInit(wheelReady) PROVE TypeOK'
    BY <2>13, PlatformDriverAssumption DEF StepInit, StepPc, StopSetpoint, Setpoint, Motion
  <2>14. CASE StepReady
    BY <2>14 DEF StepReady, StepPc, StopSetpoint, Setpoint, Motion
  <2>15. CASE StepActive
    BY <2>15 DEF StepActive, RampStart, StepPc
  <2>16. CASE RampDelta
    BY <2>16, PlatformDriverAssumption DEF RampDelta, StepPc
  <2>17. ASSUME NEW k \in Axis, NEW pc \in StepPc, NEW next \in StepPc, RampAxis(k, pc, next)
         PROVE TypeOK'
    <3>1. rampedVel[k] \in Int /\ targetVel[k] \in Int /\ timeDelta \in Int
      BY DEF Velocity
    <3>2. MaxVel(k) \in Nat /\ MaxAcc(k) \in Nat /\ MaxDec(k) \in Nat
      BY LimitsType
    <3>3. Ramp(k, rampedVel[k], targetVel[k], timeDelta) \in Int
      BY <3>1, <3>2 DEF Ramp, Clip
    <3>4. Limited(k, Ramp(k, rampedVel[k], targetVel[k], timeDelta)) \in Int
      BY <3>3, LimitedShrinks
    <3> QED
      BY <2>17, <3>4 DEF RampAxis, Velocity
  <2>18. CASE RampStore
    BY <2>18 DEF RampStore, RampedTime, StepPc
  <2>19. CASE WheelMode
    BY <2>19 DEF WheelMode, StepPc
  <2>20. CASE WheelTarget
    BY <2>20 DEF WheelTarget, StepPc, Motion
  <2>21. CASE WheelKind
    BY <2>21 DEF WheelKind, StepPc
  <2>22. ASSUME NEW pc \in StepPc, NEW next \in StepPc, WheelControl(pc, next) PROVE TypeOK'
    BY <2>22 DEF WheelControl, StepPc
  <2>23. CASE WheelWrite
    BY <2>23, PlatformDriverAssumption DEF WheelWrite, LastWheel, StepPc, Wheels, Setpoint
  <2>24. CASE Send
    BY <2>24 DEF Send, StepPc, Motion
  <2>25. CASE Tick
    BY <2>25 DEF Tick
  <2>26. CASE UNCHANGED vars
    BY <2>26 DEF vars
  <2>27. CASE Caller
    <3>1. ASSUME CallerContinue PROVE TypeOK'
      <4>1. /\ {"x", "y", "a"} \subseteq Axis
            /\ {"set_x", "set_y", "set_a", "set_align"} \subseteq SettingTarget
        BY DEF Axis, SettingTarget
      <4> HIDE DEF TypeOK
      <4> QED
        BY <2>2, <2>3, <2>4, <2>6, <2>8, <3>1, <4>1 DEF CallerContinue
    <3> HIDE DEF TypeOK
    <3> QED
      BY <2>1, <2>5, <2>7, <2>27, <3>1 DEF Caller
  <2>28. CASE Stepper
    <3>1. /\ {"x", "y", "a"} \subseteq Axis
          /\ {"zero_x", "zero_y", "zero_a", "zero_align", "ramp_x", "ramp_y",
               "ramp_a", "store", "control_1", "control_2", "write"} \subseteq StepPc
      BY DEF Axis, StepPc
    <3> HIDE DEF TypeOK
    <3>2. CASE \/ ZeroAxis("x", "zero_x", "zero_y")
               \/ ZeroAxis("y", "zero_y", "zero_a")
               \/ ZeroAxis("a", "zero_a", "zero_align")
      BY <2>11, <3>1, <3>2
    <3>3. CASE \/ RampAxis("x", "ramp_x", "ramp_y")
               \/ RampAxis("y", "ramp_y", "ramp_a")
               \/ RampAxis("a", "ramp_a", "store")
      BY <2>17, <3>1, <3>3
    <3>4. CASE \/ WheelControl("control_1", "control_2")
               \/ WheelControl("control_2", "write")
      BY <2>22, <3>1, <3>4
    <3> QED
      BY <2>9, <2>10, <2>12, <2>13, <2>14, <2>15, <2>16, <2>18, <2>19, <2>20, <2>21,
         <2>23, <2>24, <2>28, <3>2, <3>3, <3>4 DEF Stepper
  <2> HIDE DEF TypeOK
  <2> QED
    BY <2>25, <2>26, <2>27, <2>28 DEF Next
<1> QED
  BY <1>1, <1>2, PTL DEF Spec

-----------------------------------------------------------------------------
(* The deadline of a target. *)

\* The last accepted command passed the checks of set_platform_velocity_target.
CommandLegal == ~IsIllegal(command)

\* The axes a step that found the deadline passed has already zeroed.
ZeroedAt(pc) ==
    IF pc = "zero_y" THEN {"x"}
    ELSE IF pc = "zero_a" THEN {"x", "y"}
    ELSE IF pc = "zero_align" \/ pc \in AfterCheck THEN Axis ELSE {}

\* An axis the step is done with is zero, or belongs to a target whose deadline
\* -- stored, or computed and about to be stored -- was still ahead at the
\* check, or the check itself read a deadline that was ahead.
DeadlineInv ==
    /\ checkedAt <= now
    /\ cpc \notin SettingTarget =>
         \A k \in ZeroedAt(spc) :
            targetVel[k] = 0 \/ timeout >= checkedAt \/ checked >= checkedAt
    /\ cpc = "store_timeout" =>
         \A k \in ZeroedAt(spc) :
            targetVel[k] = 0 \/ deadline >= checkedAt \/ checked >= checkedAt

\* Only commands that pass the checks of set_platform_velocity_target are stored.
LEMMA CommandLegality == Spec => []CommandLegal
<1>1. Init => CommandLegal
  BY PlatformDriverAssumption DEF Init, CommandLegal, IsIllegal, Standstill, Axis, Abs
<1>2. CommandLegal /\ [Next]_vars => CommandLegal'
  <2> SUFFICES ASSUME CommandLegal, [Next]_vars PROVE CommandLegal'
    OBVIOUS
  <2>1. ASSUME NEW c \in Commands, CallSetTarget(c) PROVE CommandLegal'
    BY <2>1 DEF CallSetTarget, CommandLegal, IsIllegal
  <2>2. CASE UNCHANGED command
    BY <2>2 DEF CommandLegal, IsIllegal
  <2> QED
    BY <2>1, <2>2
    DEF Next, Caller, CallerContinue, Stepper, vars, SetAxis, SetAlign, ReadClock, StoreTimeout,
        CallAreDrivesAligned, AreDrivesAligned, CallSetDriverType, SetControllers, StepBegin,
        ReadTimeout, CheckTimeout, ZeroAxis, ZeroAlign, StepInit, StepReady, StepActive, RampDelta, RampAxis,
        RampStore, WheelMode, WheelTarget, WheelKind, WheelControl, WheelWrite, Send, Tick
<1> QED
  BY <1>1, <1>2, PTL DEF Spec

\* An expired target does not survive the timeout check of a step.
THEOREM ExpiredTargetsAreZero == Spec => []ExpiredTargetIsZero
<1>1. Init => DeadlineInv
  BY DEF Init, DeadlineInv, ZeroedAt, AfterCheck
<1>2. TypeOK /\ CommandLegal /\ DeadlineInv /\ [Next]_vars => DeadlineInv'
  <2> SUFFICES ASSUME TypeOK, CommandLegal, DeadlineInv, [Next]_vars PROVE DeadlineInv'
    OBVIOUS
  <2>t. /\ now \in Int /\ timeout \in Int /\ deadline \in Int /\ command.timeout \in Int
        /\ checked \in Int /\ checkedAt \in Int
        /\ targetVel \in [Axis -> Int] /\ command.timeout >= 0
    BY DEF TypeOK, Command, Velocity, CommandLegal, IsIllegal
  <2> USE <2>t DEF DeadlineInv
  <2>1. ASSUME NEW c \in Commands, CallSetTarget(c) PROVE DeadlineInv'
    BY <2>1 DEF CallSetTarget, SettingTarget
  <2>2. ASSUME NEW k \in Axis, NEW pc \in SettingTarget, NEW next \in SettingTarget \ {"store_timeout"},
               SetAxis(k, pc, next)
        PROVE DeadlineInv'
    BY <2>2 DEF SetAxis
  <2>3. CASE SetAlign
    BY <2>3 DEF SetAlign, SettingTarget
  <2>4. CASE ReadClock
    BY <2>4 DEF ReadClock, SettingTarget
  <2>4a. CASE StoreTimeout
    BY <2>4a DEF StoreTimeout
  <2>5. CASE CallAreDrivesAligned
    BY <2>5 DEF CallAreDrivesAligned, SettingTarget
  <2>6. ASSUME NEW aligned \in BOOLEAN, AreDrivesAligned(aligned) PROVE DeadlineInv'
    BY <2>6 DEF AreDrivesAligned, SettingTarget
  <2>7. ASSUME NEW t \in NewDriverTypes, CallSetDriverType(t) PROVE DeadlineInv'
    BY <2>7 DEF CallSetDriverType, SettingTarget
  <2>8. CASE SetControllers
    BY <2>8 DEF SetControllers, SettingTarget
  <2>9. CASE StepBegin
    BY <2>9 DEF StepBegin, ZeroedAt, AfterCheck
  <2>10. CASE CheckTimeout
    BY <2>10 DEF CheckTimeout, TimedOut, ZeroedAt, AfterCheck
  <2>10a. CASE ReadTimeout
    BY <2>10a DEF ReadTimeout, ZeroedAt, AfterCheck
  <2>11. CASE \/ ZeroAxis("x", "zero_x", "zero_y")
              \/ ZeroAxis("y", "zero_y", "zero_a")
              \/ ZeroAxis("a", "zero_a", "zero_align")
    BY <2>11 DEF ZeroAxis, ZeroedAt, AfterCheck, Axis
  <2>12. CASE ZeroAlign
    BY <2>12 DEF ZeroAlign, ZeroedAt, AfterCheck
  <2>13. CASE Send
    BY <2>13 DEF Send, ZeroedAt, AfterCheck, TypeOK
  <2>14. CASE Tick
    BY <2>14 DEF Tick
  \* Every other step keeps what the invariant is about, and stays beyond the check.
  <2>15. ASSUME UNCHANGED <<now, timeout, deadline, targetVel, cpc, checked, checkedAt>>, spc \in AfterCheck
         PROVE  DeadlineInv'
    BY <2>15 DEF ZeroedAt, AfterCheck, Axis
  <2>16. CASE UNCHANGED vars
    BY <2>16 DEF vars
  <2> QED
    BY <2>1, <2>2, <2>3, <2>4, <2>4a, <2>5, <2>6, <2>7, <2>8, <2>9, <2>10, <2>10a, <2>11, <2>12,
       <2>13, <2>14, <2>15, <2>16
    DEF Next, Caller, CallerContinue, Stepper, Axis, SettingTarget, StepInit, StepReady, StepActive,
        RampDelta, RampAxis, RampStore, WheelMode, WheelTarget, WheelKind, WheelControl, WheelWrite,
        AfterCheck
<1>3. TypeOK /\ DeadlineInv => ExpiredTargetIsZero
  <2> SUFFICES ASSUME TypeOK, DeadlineInv, spc \in AfterCheck, cpc \notin SettingTarget,
                      ~(timeout >= checkedAt), ~(checked >= checkedAt)
               PROVE  targetVel = Standstill
    BY DEF ExpiredTargetIsZero
  <2>1. targetVel \in [Axis -> Int] /\ ZeroedAt(spc) = Axis
    BY DEF TypeOK, Velocity, ZeroedAt, AfterCheck
  <2> QED
    BY <2>1 DEF DeadlineInv, Standstill
<1> QED
  BY <1>1, <1>2, <1>3, Typing, CommandLegality, PTL DEF Spec

-----------------------------------------------------------------------------
(* The target and the ramp. *)

\* The axes that hold the new command while it is being stored.
StoredAt(pc) ==
    IF pc = "set_x" THEN {}
    ELSE IF pc = "set_y" THEN {"x"}
    ELSE IF pc = "set_a" THEN {"x", "y"} ELSE Axis

TargetInv == \A k \in StoredAt(cpc) : targetVel[k] \in {0, command.vel[k]}

\* An axis the call has stored holds the command, or the zero of a timeout since then.
LEMMA TargetInvariant == Spec => []TargetInv
<1>1. Init => TargetInv
  BY DEF Init, TargetInv, Standstill, StoredAt, Axis
<1>2. TypeOK /\ TargetInv /\ [Next]_vars => TargetInv'
  <2> SUFFICES ASSUME TypeOK, TargetInv, [Next]_vars PROVE TargetInv'
    OBVIOUS
  <2>t. targetVel \in [Axis -> Int]
    BY DEF TypeOK, Velocity
  <2> USE <2>t DEF TargetInv
  <2>1. ASSUME NEW c \in Commands, CallSetTarget(c) PROVE TargetInv'
    BY <2>1 DEF CallSetTarget, StoredAt
  <2>2. CASE \/ SetAxis("x", "set_x", "set_y")
             \/ SetAxis("y", "set_y", "set_a")
             \/ SetAxis("a", "set_a", "set_align")
    BY <2>2 DEF SetAxis, StoredTarget, StoredAt, Axis
  <2>3. ASSUME NEW k \in Axis, NEW pc, NEW next, ZeroAxis(k, pc, next) PROVE TargetInv'
    BY <2>3 DEF ZeroAxis, StoredAt
  <2>4. ASSUME UNCHANGED <<targetVel, command>>, StoredAt(cpc') = StoredAt(cpc) PROVE TargetInv'
    BY <2>4
  <2>5. CASE SetAlign \/ ReadClock \/ StoreTimeout \/ CallAreDrivesAligned \/ SetControllers
             \/ (\E aligned \in BOOLEAN : AreDrivesAligned(aligned))
             \/ (\E t \in NewDriverTypes : CallSetDriverType(t))
    BY <2>4, <2>5 DEF SetAlign, ReadClock, StoreTimeout, CallAreDrivesAligned, AreDrivesAligned,
                      CallSetDriverType, SetControllers, StoredAt
  <2>6. ASSUME UNCHANGED <<targetVel, command, cpc>> PROVE TargetInv'
    BY <2>4, <2>6
  <2> QED
    BY <2>1, <2>2, <2>3, <2>5, <2>6
    DEF Next, Caller, CallerContinue, Stepper, Axis, vars, StepBegin, ReadTimeout, CheckTimeout, ZeroAlign,
        StepInit, StepReady, StepActive, RampDelta, RampAxis, RampStore, WheelMode, WheelTarget,
        WheelKind, WheelControl, WheelWrite, Send, Tick
<1> QED
  BY <1>1, <1>2, Typing, PTL DEF Spec

\* Between calls every axis holds the last accepted command, or zero.
THEOREM TargetOfOneCommand == Spec => []TargetFromLastCommand
<1>1. TargetInv => TargetFromLastCommand
  BY DEF TargetInv, TargetFromLastCommand, StoredAt, SettingTarget
<1> QED
  BY <1>1, TargetInvariant, PTL

\* Zeroing some of the axes of a legal command leaves a legal target.
LEMMA ZeroedCommandIsLegal ==
    ASSUME NEW vel \in Velocity, NEW cmd \in Command, ~IsIllegal(cmd),
           \A k \in Axis : vel[k] \in {0, cmd.vel[k]}
    PROVE  WithinTargetLimits(vel)
<1> DEFINE sq(n) == n * n
<1>1. \A n \in Int : sq(n) \in Nat
  OBVIOUS
<1>2. cmd.vel \in [Axis -> Int]
  BY DEF Command, Velocity
<1>3. /\ sq(vel["x"]) \in {0, sq(cmd.vel["x"])}
      /\ sq(vel["y"]) \in {0, sq(cmd.vel["y"])}
  BY <1>2 DEF Axis
<1>4. /\ sq(cmd.vel["x"]) \in Nat /\ sq(cmd.vel["y"]) \in Nat /\ sq(MaxLinearTarget) \in Nat
      /\ sq(cmd.vel["x"]) + sq(cmd.vel["y"]) <= sq(MaxLinearTarget)
      /\ Abs(cmd.vel["a"]) <= MaxAngularTarget
  BY <1>1, <1>2, PlatformDriverAssumption DEF IsIllegal, Axis, Abs
<1>5. sq(vel["x"]) + sq(vel["y"]) <= sq(MaxLinearTarget)
  <2> HIDE DEF sq
  <2> QED
    BY <1>3, <1>4
<1>6. Abs(vel["a"]) <= MaxAngularTarget
  BY <1>2, <1>4, PlatformDriverAssumption DEF Axis, Abs
<1> QED
  BY <1>5, <1>6 DEF WithinTargetLimits

\* Between calls the target obeys the checked limits.
THEOREM TargetsAreLegal == Spec => []TargetWithinLimits
<1>1. TypeOK /\ CommandLegal /\ TargetFromLastCommand => TargetWithinLimits
  BY ZeroedCommandIsLegal DEF TypeOK, CommandLegal, TargetFromLastCommand, TargetWithinLimits
<1> QED
  BY <1>1, Typing, CommandLegality, TargetOfOneCommand, PTL

AxisLimit(k) == IF k = "a" THEN MaxAngularTarget ELSE MaxLinearTarget

\* The target and the ramped velocity keep the limit axis by axis, at every
\* moment of a call or of a step.
AxesInv == \A k \in Axis : /\ Abs(targetVel[k]) <= AxisLimit(k)
                           /\ Abs(rampedVel[k]) <= AxisLimit(k)

\* A square above the limit's square has a root above the limit.
LEMMA RootOfSum ==
    ASSUME NEW u \in Int, NEW v \in Int, NEW M \in Nat, u * u + v * v <= M * M
    PROVE  Abs(u) <= M /\ Abs(v) <= M
<1>1. \A w \in Int : w * w >= 0
  OBVIOUS
<1>2. \A w \in Int : w > M => w * w > M * M
  OBVIOUS
<1>3. \A w \in Int : w < -M => w * w > M * M
  OBVIOUS
<1>4. ASSUME NEW w \in Int, w * w <= M * M PROVE Abs(w) <= M
  BY <1>2, <1>3, <1>4 DEF Abs
<1>5. u * u <= M * M /\ v * v <= M * M
  <2>1. u * u \in Nat /\ v * v \in Nat /\ M * M \in Nat
    BY <1>1
  <2> QED
    BY <2>1
<1> QED
  BY <1>4, <1>5

\* Every axis of a legal command keeps the limit of that axis.
LEMMA LegalAxes ==
    ASSUME NEW cmd \in Command, ~IsIllegal(cmd), NEW k \in Axis
    PROVE  Abs(cmd.vel[k]) <= AxisLimit(k)
<1>1. cmd.vel \in [Axis -> Int]
  BY DEF Command, Velocity
<1>2. CASE k = "a"
  BY <1>1, <1>2, PlatformDriverAssumption DEF IsIllegal, AxisLimit, Abs, Axis
<1>3. CASE k \in {"x", "y"}
  <2>1. cmd.vel["x"] \in Int /\ cmd.vel["y"] \in Int /\ MaxLinearTarget \in Nat
    BY <1>1, PlatformDriverAssumption DEF Axis
  <2>2. cmd.vel["x"] * cmd.vel["x"] + cmd.vel["y"] * cmd.vel["y"] <= MaxLinearTarget * MaxLinearTarget
    BY <2>1 DEF IsIllegal
  <2> QED
    BY <1>3, <2>1, <2>2, RootOfSum DEF AxisLimit
<1> QED
  BY <1>2, <1>3 DEF Axis

\* A value between two values within the limit is within the limit.
LEMMA RampedWithin ==
    ASSUME NEW k \in Axis, NEW ramped \in Int, NEW target \in Int, NEW delta \in Nat, NEW M \in Nat,
           Abs(ramped) <= M, Abs(target) <= M
    PROVE  Abs(Limited(k, Ramp(k, ramped, target, delta))) <= M
<1> DEFINE r == Ramp(k, ramped, target, delta)
<1>1. /\ r \in Int
      /\ ramped <= target => r \in ramped..target
      /\ target <= ramped => r \in target..ramped
  BY RampTowardsTarget
<1> HIDE DEF r
<1>2. Abs(r) <= M
  BY <1>1 DEF Abs
<1>3. Limited(k, r) \in Int /\ Abs(Limited(k, r)) <= Abs(r)
  BY <1>1, LimitedShrinks
<1>4. Abs(Limited(k, r)) \in Int /\ Abs(r) \in Int
  BY <1>1, <1>3 DEF Abs
<1> QED
  BY <1>2, <1>3, <1>4 DEF r

-----------------------------------------------------------------------------
(* The clock of the ramp. *)

Ramping == {"ramp_x", "ramp_y", "ramp_a", "store"}

\* The time a ramp starts from is a past time, no older than the last completed
\* ramp, whether it is read from the controller or was taken afresh after
\* are_drives_aligned had cleared it.
ClockInv ==
    /\ rampedAt <= now /\ rampNow <= now
    /\ timeLastRamping # None => timeLastRamping >= rampedAt /\ timeLastRamping <= now
    /\ spc = "delta" => /\ rampNow >= rampedAt
                        /\ timeLastRamping # None => timeLastRamping <= rampNow
    /\ spc \in Ramping => timeDelta >= 0 /\ timeDelta <= rampNow - rampedAt

\* No ramp is ever computed over a negative time, nor over more than the time since the last one.
THEOREM ClockInvariant == Spec => []ClockInv
<1>1. Init => ClockInv
  BY DEF Init, ClockInv, Ramping
<1>2. TypeOK /\ ClockInv /\ [Next]_vars => ClockInv'
  <2> SUFFICES ASSUME TypeOK, ClockInv, [Next]_vars PROVE ClockInv'
    OBVIOUS
  <2>t. /\ now \in Nat /\ rampNow \in Nat /\ timeDelta \in Int /\ rampedAt \in Nat
        /\ timeLastRamping \in Nat \cup {None} /\ None \notin Int
    BY PlatformDriverAssumption DEF TypeOK
  <2> USE <2>t DEF ClockInv
  <2>1. ASSUME NEW aligned \in BOOLEAN, AreDrivesAligned(aligned) PROVE ClockInv'
    BY <2>1 DEF AreDrivesAligned
  <2>2. CASE StepActive
    BY <2>2 DEF StepActive, RampStart, Ramping
  <2>3. CASE RampDelta
    BY <2>3 DEF RampDelta, Ramping
  <2>4. ASSUME NEW k, NEW pc \in Ramping, NEW next \in Ramping, RampAxis(k, pc, next)
        PROVE ClockInv'
    BY <2>4 DEF RampAxis, Ramping
  <2>5. CASE RampStore
    BY <2>5 DEF RampStore, RampedTime, Ramping
  <2>6. CASE Send
    BY <2>6 DEF Send, Ramping
  <2>7. CASE Tick
    BY <2>7 DEF Tick
  <2>8. ASSUME UNCHANGED <<now, timeLastRamping, rampNow, timeDelta, rampedAt>>,
               spc' = spc \/ spc' \notin Ramping \cup {"delta"}
        PROVE  ClockInv'
    BY <2>8
  <2>9. CASE Caller
    BY <2>1, <2>8, <2>9
    DEF Caller, CallerContinue, CallSetTarget, SetAxis, SetAlign, ReadClock, StoreTimeout, CallAreDrivesAligned,
        CallSetDriverType, SetControllers
  <2>10. CASE UNCHANGED vars
    BY <2>8, <2>10 DEF vars
  <2> QED
    BY <2>2, <2>3, <2>4, <2>5, <2>6, <2>7, <2>8, <2>9, <2>10
    DEF Next, Stepper, StepBegin, ReadTimeout, CheckTimeout, ZeroAxis, ZeroAlign, StepInit, StepReady,
        WheelMode, WheelTarget, WheelKind, WheelControl, WheelWrite, Ramping
<1> QED
  BY <1>1, <1>2, Typing, PTL DEF Spec

\* No axis ever ramps beyond the limit of a target axis, torn targets included.
THEOREM RampedAxesAreLimited == Spec => []RampedAxesWithinLimits
<1>1. Init => AxesInv
  <2>1. AxisLimit("x") \in Nat /\ AxisLimit("y") \in Nat /\ AxisLimit("a") \in Nat
    BY PlatformDriverAssumption DEF AxisLimit
  <2> QED
    BY <2>1 DEF Init, AxesInv, Standstill, Axis, Abs
<1>2. TypeOK /\ CommandLegal /\ ClockInv /\ AxesInv /\ [Next]_vars => AxesInv'
  <2> SUFFICES ASSUME TypeOK, CommandLegal, ClockInv, AxesInv, [Next]_vars PROVE AxesInv'
    OBVIOUS
  <2>t. /\ targetVel \in [Axis -> Int] /\ rampedVel \in [Axis -> Int]
        /\ command \in Command /\ timeDelta \in Int
    BY DEF TypeOK, Velocity
  <2>l. \A k \in Axis : AxisLimit(k) \in Nat
    BY PlatformDriverAssumption DEF AxisLimit
  <2>1. ASSUME NEW k \in Axis, NEW pc, NEW next, SetAxis(k, pc, next) PROVE AxesInv'
    <3>1. Abs(command.vel[k]) <= AxisLimit(k)
      BY <2>t, LegalAxes DEF CommandLegal
    <3> QED
      BY <2>1, <2>t, <3>1 DEF SetAxis, StoredTarget, AxesInv
  <2>2. ASSUME NEW k \in Axis, NEW pc, NEW next, ZeroAxis(k, pc, next) PROVE AxesInv'
    <3>1. Abs(0) <= AxisLimit(k)
      BY <2>l DEF Abs
    <3> QED
      BY <2>2, <2>t, <3>1 DEF ZeroAxis, AxesInv
  <2>3. ASSUME NEW k \in Axis, NEW pc \in Ramping, NEW next, RampAxis(k, pc, next) PROVE AxesInv'
    <3>1. timeDelta \in Nat
      BY <2>3, <2>t DEF RampAxis, ClockInv
    <3>2. Abs(Limited(k, Ramp(k, rampedVel[k], targetVel[k], timeDelta))) <= AxisLimit(k)
      BY <2>t, <2>l, <3>1, RampedWithin DEF AxesInv
    <3> QED
      BY <2>3, <2>t, <3>2 DEF RampAxis, AxesInv
  <2>4. ASSUME UNCHANGED <<targetVel, rampedVel>> PROVE AxesInv'
    BY <2>4 DEF AxesInv
  <2> QED
    BY <2>1, <2>2, <2>3, <2>4
    DEF Next, Caller, CallerContinue, Stepper, Axis, vars, Ramping, CallSetTarget, SetAlign, ReadClock, StoreTimeout,
        CallAreDrivesAligned, AreDrivesAligned, CallSetDriverType, SetControllers, StepBegin,
        ReadTimeout, CheckTimeout, ZeroAlign, StepInit, StepReady, StepActive, RampDelta, RampStore, WheelMode,
        WheelTarget, WheelKind, WheelControl, WheelWrite, Send, Tick
<1>3. AxesInv => RampedAxesWithinLimits
  BY DEF AxesInv, AxisLimit, RampedAxesWithinLimits, Axis
<1> QED
  BY <1>1, <1>2, <1>3, Typing, CommandLegality, ClockInvariant, PTL DEF Spec

-----------------------------------------------------------------------------
(* only_align_drives exists when it is read. *)

\* Until somebody stores it no deadline is ahead, so the first step that gets
\* beyond its timeout check has stored it.
AlignInv ==
    /\ onlyAlign = None => timeout < now /\ cpc \notin {"set_timeout", "store_timeout"}
    /\ onlyAlign = None /\ spc = "compare" => checked < now
    /\ spc \in AfterCheck => onlyAlign # None
    /\ state = "ACTIVE" => onlyAlign # None

\* In the ACTIVE state only_align_drives has been stored.
THEOREM AlignFlagIsStored == Spec => []AlignFlagExists
<1>1. Init => AlignInv
  BY DEF Init, InitialTimeout, AlignInv, AfterCheck
<1>2. TypeOK /\ AlignInv /\ [Next]_vars => AlignInv'
  <2> SUFFICES ASSUME TypeOK, AlignInv, [Next]_vars PROVE AlignInv'
    OBVIOUS
  <2>t. now \in Int /\ timeout \in Int /\ checked \in Int /\ command.align \in BOOLEAN /\ None \notin BOOLEAN
    BY PlatformDriverAssumption DEF TypeOK, Command
  <2> USE <2>t DEF AlignInv
  <2>1. CASE SetAlign
    BY <2>1 DEF SetAlign
  <2>2. CASE ZeroAlign
    BY <2>2 DEF ZeroAlign
  <2>3. CASE ReadClock \/ StoreTimeout
    BY <2>3 DEF ReadClock, StoreTimeout
  <2>4a. CASE ReadTimeout
    BY <2>4a DEF ReadTimeout, AfterCheck
  <2>4. CASE CheckTimeout
    BY <2>4 DEF CheckTimeout, TimedOut, AfterCheck
  <2>5. CASE Tick
    BY <2>5 DEF Tick
  \* The other calls and the stores of the velocity.
  <2>6. ASSUME UNCHANGED <<now, timeout, onlyAlign, state, spc, checked>>,
               cpc' \notin {"set_timeout", "store_timeout"}
        PROVE  AlignInv'
    BY <2>6
  \* The steps before the check, and those beyond it.
  <2>7. ASSUME UNCHANGED <<now, timeout, onlyAlign, cpc>>,
               state' = state, spc' # "compare", spc' \notin AfterCheck \/ spc \in AfterCheck
        PROVE  AlignInv'
    BY <2>7
  <2>8. CASE UNCHANGED vars
    BY <2>8 DEF vars
  <2>9. CASE Caller
    BY <2>1, <2>3, <2>6, <2>9
    DEF Caller, CallerContinue, CallSetTarget, SetAxis, CallAreDrivesAligned, AreDrivesAligned,
        CallSetDriverType, SetControllers
  <2>10. CASE StepBegin
    BY <2>7, <2>10 DEF StepBegin, AfterCheck
  <2>11. CASE \/ ZeroAxis("x", "zero_x", "zero_y")
              \/ ZeroAxis("y", "zero_y", "zero_a")
              \/ ZeroAxis("a", "zero_a", "zero_align")
    BY <2>7, <2>11 DEF ZeroAxis, AfterCheck
  <2> QED
    BY <2>2, <2>4, <2>4a, <2>5, <2>7, <2>8, <2>9, <2>10, <2>11
    DEF Next, Stepper, StepInit, StepReady, StepActive, RampDelta, RampAxis, RampStore, WheelMode,
        WheelTarget, WheelKind, WheelControl, WheelWrite, Send, AfterCheck
<1>3. AlignInv => AlignFlagExists
  BY DEF AlignInv, AlignFlagExists
<1> QED
  BY <1>1, <1>2, <1>3, Typing, PTL DEF Spec

-----------------------------------------------------------------------------
(* The acceleration. *)

\* Clipping to the velocity limits brings an axis within them nearer to where it was.
LEMMA LimitedIsNearer ==
    ASSUME NEW k \in Axis, NEW ramped \in Int, NEW vel \in Int, Abs(ramped) <= MaxVel(k)
    PROVE  /\ Abs(Limited(k, vel)) <= MaxVel(k)
           /\ Abs(Limited(k, vel) - ramped) <= Abs(vel - ramped)
<1>1. MaxVel(k) \in Nat
  BY LimitsType
<1>2. /\ Limited(k, vel) \in (-MaxVel(k))..MaxVel(k)
      /\ vel <= -MaxVel(k) => Limited(k, vel) = -MaxVel(k)
      /\ vel >= MaxVel(k) => Limited(k, vel) = MaxVel(k)
      /\ vel \in (-MaxVel(k))..MaxVel(k) => Limited(k, vel) = vel
  <2> DEFINE M == MaxVel(k)
  <2>1. M \in Int /\ -M \in Int /\ -M <= M
    BY <1>1
  <2> HIDE DEF M
  <2>2. /\ Clip(vel, M, -M) \in (-M)..M
        /\ vel <= -M => Clip(vel, M, -M) = -M
        /\ vel >= M => Clip(vel, M, -M) = M
        /\ vel \in (-M)..M => Clip(vel, M, -M) = vel
    BY <2>1, ClipCases
  <2> QED
    BY <2>2 DEF M, Limited
<1>3. ramped \in (-MaxVel(k))..MaxVel(k)
  BY <1>1 DEF Abs
<1> QED
  BY <1>1, <1>2, <1>3 DEF Abs

\* The ramped velocity keeps the limits of the platform.
VelocityInv == \A k \in Axis : Abs(rampedVel[k]) <= MaxVel(k)

\* A ramp of one axis from within the limits over the time it covers.
LEMMA RampIsGentle ==
    ASSUME TypeOK, ClockInv, VelocityInv, NEW k \in Axis, spc \in Ramping
    PROVE  LET vel == Limited(k, Ramp(k, rampedVel[k], targetVel[k], timeDelta))
           IN  /\ vel \in Int /\ Abs(vel) <= MaxVel(k)
               /\ Abs(vel - rampedVel[k]) <= Rate(k) * (rampNow - rampedAt)
<1> DEFINE r == Ramp(k, rampedVel[k], targetVel[k], timeDelta)
           vel == Limited(k, r)
<1>1. /\ rampedVel[k] \in Int /\ targetVel[k] \in Int /\ timeDelta \in Nat
      /\ rampNow - rampedAt \in Int /\ timeDelta <= rampNow - rampedAt
  BY DEF TypeOK, Velocity, ClockInv
<1>2. r \in Int /\ Abs(r - rampedVel[k]) <= Rate(k) * timeDelta
  BY <1>1, RampTowardsTarget
<1> HIDE DEF r
<1>3. /\ Abs(vel) <= MaxVel(k)
      /\ Abs(vel - rampedVel[k]) <= Abs(r - rampedVel[k])
  BY <1>1, <1>2, LimitedIsNearer DEF VelocityInv
<1>4. vel \in Int
  BY <1>2, LimitedShrinks
<1> HIDE DEF vel
<1>5. Rate(k) \in Nat
  BY LimitsType
<1>6. Rate(k) * timeDelta <= Rate(k) * (rampNow - rampedAt)
  BY <1>1, <1>5
<1>7. /\ Rate(k) * timeDelta \in Int /\ Rate(k) * (rampNow - rampedAt) \in Int
      /\ Abs(vel - rampedVel[k]) \in Int /\ Abs(r - rampedVel[k]) \in Int
  BY <1>1, <1>2, <1>4, <1>5 DEF Abs
<1>8. Abs(vel - rampedVel[k]) <= Rate(k) * (rampNow - rampedAt)
  BY <1>2, <1>3, <1>6, <1>7
<1> QED
  BY <1>3, <1>4, <1>8 DEF vel, r

\* Which steps change the ramped velocity: those that ramp one axis.
LEMMA OnlyRampsRamp ==
    ASSUME [Next]_vars
    PROVE  \/ UNCHANGED rampedVel
           \/ \E k \in Axis, pc \in Ramping : \E next \in Ramping : RampAxis(k, pc, next)
<1>1. CASE \/ RampAxis("x", "ramp_x", "ramp_y")
           \/ RampAxis("y", "ramp_y", "ramp_a")
           \/ RampAxis("a", "ramp_a", "store")
  BY <1>1 DEF Ramping, Axis
<1> QED
  BY <1>1
  DEF Next, Caller, CallerContinue, Stepper, vars, CallSetTarget, SetAxis, SetAlign, ReadClock,
      StoreTimeout, CallAreDrivesAligned, AreDrivesAligned, CallSetDriverType, SetControllers,
      StepBegin, ReadTimeout, CheckTimeout, ZeroAxis, ZeroAlign, StepInit, StepReady, StepActive,
      RampDelta, RampStore, WheelMode, WheelTarget, WheelKind, WheelControl, WheelWrite, Send, Tick

\* Clearing the ramp's clock never lets an axis change faster than its rate.
THEOREM AccelerationIsBounded == Spec => NoSuddenAcceleration
<1>1. Init => VelocityInv
  BY LimitsType DEF Init, VelocityInv, Standstill, Abs
<1>2. ASSUME TypeOK, ClockInv, VelocityInv, [Next]_vars
      PROVE  /\ VelocityInv'
             /\ [\A k \in Axis : Abs(rampedVel'[k] - rampedVel[k]) <= Rate(k) * (rampNow - rampedAt)]_rampedVel
  <2>1. CASE UNCHANGED rampedVel
    BY <1>2, <2>1 DEF VelocityInv
  <2>2. ASSUME NEW j \in Axis, NEW pc \in Ramping, NEW next \in Ramping, RampAxis(j, pc, next),
               NEW k \in Axis
        PROVE  /\ Abs(rampedVel'[k]) <= MaxVel(k)
               /\ Abs(rampedVel'[k] - rampedVel[k]) <= Rate(k) * (rampNow - rampedAt)
    <3>1. /\ spc \in Ramping /\ rampedVel \in [Axis -> Int]
          /\ rampedVel' = [rampedVel EXCEPT ![j] = Limited(j, Ramp(j, rampedVel[j], targetVel[j], timeDelta))]
      BY <1>2, <2>2 DEF RampAxis, TypeOK, Velocity
    <3>2. CASE k = j
      BY <1>2, <3>1, <3>2, RampIsGentle
    <3>3. CASE k # j
      <4>1. rampedVel'[k] = rampedVel[k] /\ rampedVel[k] \in Int
        BY <3>1, <3>3
      <4>2. rampNow - rampedAt \in Nat /\ Rate(k) \in Nat
        BY <1>2, <3>1, LimitsType DEF TypeOK, ClockInv
      <4>3. Rate(k) * (rampNow - rampedAt) >= 0
        BY <4>2
      <4>4. Abs(rampedVel'[k] - rampedVel[k]) = 0
        BY <4>1 DEF Abs
      <4> QED
        BY <1>2, <4>1, <4>3, <4>4 DEF VelocityInv
    <3> QED
      BY <3>2, <3>3
  <2> QED
    BY <1>2, <2>1, <2>2, OnlyRampsRamp DEF VelocityInv
<1> QED
  BY <1>1, <1>2, Typing, ClockInvariant, PTL DEF Spec, NoSuddenAcceleration
=============================================================================
