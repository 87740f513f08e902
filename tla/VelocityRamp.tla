---------------------------- MODULE VelocityRamp ----------------------------
(***************************************************************************)
(* The arithmetic of VelocityPlatformController: how the ramped platform   *)
(* velocity follows the target velocity.  Velocities and times are         *)
(* integers: a velocity unit and a clock tick are chosen by the instance,  *)
(* and the rates below are in velocity units per tick.                     *)
(***************************************************************************)
EXTENDS Integers

CONSTANTS
    MaxVelLinear, MaxVelAngular,    \* PlatformLimits.max_vel_*
    MaxAccLinear, MaxAccAngular,    \* PlatformLimits.max_acc_*
    MaxDecLinear, MaxDecAngular     \* PlatformLimits.max_dec_*

ASSUME PlatformLimitsAssumption ==
    /\ MaxVelLinear \in Nat /\ MaxVelAngular \in Nat
    /\ MaxAccLinear \in Nat /\ MaxAccAngular \in Nat
    /\ MaxDecLinear \in Nat /\ MaxDecAngular \in Nat

Axis == {"x", "y", "a"}
Velocity == [Axis -> Int]
Standstill == [k \in Axis |-> 0]

MaxVel(k) == IF k = "a" THEN MaxVelAngular ELSE MaxVelLinear
MaxAcc(k) == IF k = "a" THEN MaxAccAngular ELSE MaxAccLinear
MaxDec(k) == IF k = "a" THEN MaxDecAngular ELSE MaxDecLinear

\* util.clip: the maximum wins when it is below the minimum.
Clip(value, maximum, minimum) ==
    LET raised == IF value < minimum THEN minimum ELSE value
    IN  IF raised > maximum THEN maximum ELSE raised

\* Mutant: full acceleration towards the target, past it if the step is long.
RampOvershooting(k, ramped, target, delta) ==
    IF target > ramped THEN ramped + delta * MaxAcc(k)
    ELSE IF target < ramped THEN ramped - delta * MaxDec(k) ELSE ramped

\* One axis of the velocity ramp: away from zero at the acceleration, towards
\* zero at the deceleration, in the direction the axis moves in.
Ramp(k, ramped, target, delta) ==
    IF ramped >= 0
    THEN Clip(target, ramped + delta * MaxAcc(k), ramped - delta * MaxDec(k))
    ELSE Clip(target, ramped + delta * MaxDec(k), ramped - delta * MaxAcc(k))

\* The velocity limits that follow the ramps.
Limited(k, vel) == Clip(vel, MaxVel(k), -MaxVel(k))

Abs(n) == IF n < 0 THEN -n ELSE n

\* The fastest an axis may change, in either direction.
Rate(k) == IF MaxAcc(k) >= MaxDec(k) THEN MaxAcc(k) ELSE MaxDec(k)
=============================================================================
