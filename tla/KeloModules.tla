------------------------------ MODULE KeloModules ------------------------------
(***************************************************************************)
(* The modules that the KELO master's handler thread steps, in the order   *)
(* TulipMain.cpp makes them: the platform driver with its velocity ramp    *)
(* (PlatformDriver.cpp, VelocityPlatformController.cpp) and the Robile     *)
(* master battery; and the ROS thread, whose callbacks (PlatformDriverROS, *)
(* RobileMasterBatteryROS) set, without a lock, what the steps read.       *)
(*                                                                         *)
(* One axis stands for the platform's three: they are ramped and limited   *)
(* alike.  Velocities, angles and times are integers in units the instance *)
(* chooses.  One encoder stands for two per wheel.                         *)
(***************************************************************************)
EXTENDS Integers

CONSTANTS
  Wheels,
  ReadyLimit,            \* 500 steps in the code
  ActiveByJoypad,        \* parameter active_by_joypad
  MaxVel, Acc, Dec,      \* limits of the platform velocity
  Commands,              \* velocities that are commanded
  Turn,                  \* a full turn of the encoder
  Starts,                \* readings the encoder may start with
  MaxTurned,             \* bound: how far the encoder gets from its start
  MaxMessages,           \* bound: messages of the ROS topics
  MaxFaults              \* bound: wheels falling out, inputs zeroed

ASSUME KeloAssumption ==
  /\ ReadyLimit \in Nat /\ ActiveByJoypad \in BOOLEAN
  /\ MaxVel \in Nat /\ Acc \in Nat \ {0} /\ Dec \in Nat \ {0}
  /\ Commands \subseteq Int
  /\ Turn \in Nat \ {0, 1, 2} /\ MaxTurned \in Nat
  /\ Starts \subseteq 0 .. Turn - 1
  /\ MaxMessages \in Nat /\ MaxFaults \in Nat

VARIABLES
  status,        \* what each wheel reports: ok, disabled, faulty
  turned,        \* the encoder, counted without wrapping
  zero,          \* the check thread has zeroed the inputs of a lost slave
  faults, messages,
  processData, state, stepCount, statusError, canChangeActive,
  wheelEnabled, prevEncoder, sumEncoder, encoderInitialized,
  target, ramped, firstRamping,
  out,           \* outputs of the wheels: enabled, driving, speed
  useJoy,
  flagResetError, flagShutdown, robileCharge,
  batteryOut,    \* outputs of the battery
  handler,       \* where the handler thread is
  reread,        \* ghost: error flags reset since the inputs were copied
  atStart,       \* ghost: turned when the encoder was read first,
  atRead,        \* ghost: and last,
  trueStart, trueRead,  \* ghosts: and whether these readings were true,
  wasZero,       \* ghost: or any was of zeroed inputs
  asked          \* ghost: a reset of the battery asked for and not sent

wheelVars == <<status, turned, zero, faults>>
driverVars == <<processData, state, stepCount, statusError, canChangeActive,
                wheelEnabled, reread>>
encoderVars == <<prevEncoder, sumEncoder, encoderInitialized, atStart, atRead,
                 trueStart, trueRead, wasZero>>
rampVars == <<target, ramped, firstRamping>>
rosVars == <<useJoy, messages>>
batteryVars == <<flagResetError, flagShutdown, robileCharge, batteryOut, asked>>
vars == <<wheelVars, driverVars, encoderVars, rampVars, out, rosVars,
          batteryVars, handler>>

Init ==
  /\ status \in [Wheels -> {"disabled", "faulty"}]
  /\ turned \in Starts
  /\ zero = FALSE /\ faults = 0 /\ messages = 0
  /\ processData = [w \in Wheels |-> "faulty"]      \* all zero
  /\ state = "init" /\ stepCount = 0
  /\ statusError = FALSE /\ canChangeActive = ~ActiveByJoypad
  /\ wheelEnabled = [w \in Wheels |-> TRUE]
  /\ prevEncoder = 0 /\ sumEncoder = 0 /\ encoderInitialized = FALSE
  /\ target = 0 /\ ramped = 0 /\ firstRamping = TRUE
  /\ out = [enable |-> {}, drive |-> FALSE, speed |-> 0]
  /\ useJoy = FALSE
  /\ flagResetError = FALSE /\ flagShutdown = FALSE /\ robileCharge = FALSE
  /\ batteryOut = [command |-> "none", shutdown |-> FALSE]
  /\ handler = "copy"
  /\ reread = FALSE /\ asked = FALSE
  /\ atStart = turned /\ atRead = turned
  /\ trueStart = TRUE /\ trueRead = TRUE /\ wasZero = FALSE

-----------------------------------------------------------------------------
(* The wheels (external).                                                  *)

WheelReady(w) ==
  /\ status[w] # "ok" /\ w \in out.enable
  /\ status' = [status EXCEPT ![w] = "ok"]
  /\ UNCHANGED <<turned, zero, faults>>

WheelObeys(w) ==
  /\ status[w] = "ok" /\ w \notin out.enable
  /\ status' = [status EXCEPT ![w] = "disabled"]
  /\ UNCHANGED <<turned, zero, faults>>

WheelFalls(w) ==
  /\ faults < MaxFaults /\ status[w] = "ok"
  /\ \E s \in {"disabled", "faulty"} : status' = [status EXCEPT ![w] = s]
  /\ faults' = faults + 1
  /\ UNCHANGED <<turned, zero>>

(* The wheel turns; between two steps by less than half a turn, and before *)
(* the first step unseen.                                                  *)
WheelTurns ==
  /\ encoderInitialized
  /\ \E d \in {-1, 1} : turned' = turned + d
  /\ turned' - atStart \in -MaxTurned .. MaxTurned
  /\ 2 * (turned' - atRead) < Turn /\ 2 * (atRead - turned') < Turn
  /\ UNCHANGED <<status, zero, faults>>

(* ethercatCheck zeroes the inputs of a slave it lost, and process data    *)
(* bring them back.                                                        *)
InputsZeroed ==
  /\ ~zero /\ faults < MaxFaults
  /\ zero' = TRUE /\ faults' = faults + 1
  /\ UNCHANGED <<status, turned>>

InputsBack ==
  /\ zero
  /\ zero' = FALSE
  /\ UNCHANGED <<status, turned, faults>>

Wheel ==
  /\ \/ \E w \in Wheels : WheelReady(w) \/ WheelObeys(w) \/ WheelFalls(w)
     \/ WheelTurns
     \/ InputsZeroed
     \/ InputsBack
  /\ UNCHANGED <<driverVars, encoderVars, rampVars, out, rosVars, batteryVars,
                 handler>>

-----------------------------------------------------------------------------
(* PlatformDriver::step: the inputs are copied, the status is updated.     *)

Inputs == [w \in Wheels |-> IF zero THEN "faulty" ELSE status[w]]

Encoder == IF zero THEN 0 ELSE turned % Turn

(* How far the encoder has turned between two readings, taken the short    *)
(* way round.                                                              *)
NotUnwrapped(curr, prev) == curr - prev

Unwrapped(curr, prev) ==
  IF 2 * (curr - prev) > Turn THEN curr - prev - Turn
  ELSE IF 2 * (prev - curr) > Turn THEN curr - prev + Turn
  ELSE curr - prev

(* The reading before: the first step takes its own, so that it adds       *)
(* nothing.                                                                *)
Previous == IF encoderInitialized THEN prevEncoder ELSE Encoder

UpdateEncoders ==
  /\ encoderInitialized' = TRUE
  /\ sumEncoder' = sumEncoder + Unwrapped(Encoder, Previous)
  /\ prevEncoder' = Encoder
  /\ atStart' = IF encoderInitialized THEN atStart ELSE turned
  /\ trueStart' = IF encoderInitialized THEN trueStart ELSE ~zero
  /\ atRead' = turned /\ trueRead' = ~zero
  /\ wasZero' = (wasZero \/ zero)

StatusError(data) ==
  \E w \in Wheels :
    data[w] = "faulty" \/ (data[w] = "disabled" /\ state # "init")

Copy ==
  /\ handler = "copy"
  /\ stepCount' = IF stepCount > ReadyLimit THEN stepCount ELSE stepCount + 1
  /\ processData' = Inputs
  /\ statusError' = (statusError \/ StatusError(Inputs))
  /\ UpdateEncoders
  /\ handler' = "switch"
  /\ reread' = FALSE
  /\ UNCHANGED <<wheelVars, state, canChangeActive, wheelEnabled, rampVars,
                 out, rosVars, batteryVars>>

-----------------------------------------------------------------------------
(* The ramp: away from zero with the acceleration, to zero with the        *)
(* deceleration, for the time since the last call.                         *)

Clip(value, max_limit, min_limit) ==
  LET lowered == IF value < max_limit THEN value ELSE max_limit
  IN  IF lowered > min_limit THEN lowered ELSE min_limit

RampWrongSign(delta) ==
  IF ramped >= 0
  THEN Clip(target, ramped + delta * Acc, ramped - delta * Dec)
  ELSE Clip(target, ramped - delta * Dec, ramped - delta * Acc)

Ramp(delta) ==
  IF ramped >= 0
  THEN Clip(target, ramped + delta * Acc, ramped - delta * Dec)
  ELSE Clip(target, ramped + delta * Dec, ramped - delta * Acc)

Unlimited(vel) == vel

Limited(vel) == Clip(vel, MaxVel, -MaxVel)

CalculatePlatformRampedVelocities(delta) ==
  /\ firstRamping' = FALSE
  /\ ramped' = IF firstRamping THEN ramped
               ELSE Limited(Ramp(delta))
  /\ UNCHANGED target

Enabled == {w \in Wheels : wheelEnabled[w]}

DoStop ==
  /\ out' = [enable |-> Enabled, drive |-> FALSE, speed |-> 0]
  /\ UNCHANGED rampVars

DoControl(delta) ==
  /\ CalculatePlatformRampedVelocities(delta)
  /\ out' = [enable |-> Enabled, drive |-> TRUE, speed |-> ramped']

Ready == \A w \in Wheels : processData[w] = "ok"

StepInit ==
  /\ state = "init"
  /\ DoStop
  /\ state' = IF Ready THEN "ready" ELSE "init"
  /\ handler' = IF stepCount > ReadyLimit /\ ~Ready THEN "failed" ELSE "battery"

ActivateAnyway == canChangeActive

Activate == canChangeActive /\ ~statusError

StepReady ==
  /\ state = "ready"
  /\ DoStop
  /\ state' = IF Activate THEN "active" ELSE "ready"
  /\ handler' = "battery"

StepActive(delta) ==
  /\ state = "active"
  /\ DoControl(delta)
  /\ handler' = "battery"
  /\ UNCHANGED state

(* delta is the time since the last ramp.                                  *)
Switch(delta) ==
  /\ handler = "switch"
  /\ StepInit \/ StepReady \/ StepActive(delta)
  /\ UNCHANGED <<wheelVars, processData, stepCount, statusError,
                 canChangeActive, wheelEnabled, reread, encoderVars, rosVars,
                 batteryVars>>

-----------------------------------------------------------------------------
(* RobileMasterBattery::step: the flags are read, a request to reset is    *)
(* cleared when it is seen, and the outputs are written.                   *)

bvars == <<wheelVars, driverVars, encoderVars, rampVars, out, rosVars>>

BatteryOutputs(command) ==
  [command |-> command, shutdown |-> flagShutdown]

(* Whether the request is cleared by this step. *)
ClearedAlways(seen) == TRUE

Cleared(seen) == seen

(* The test of flagResetError, *)
BatteryTest ==
  /\ handler = "battery"
  /\ handler' = IF flagResetError THEN "reset" ELSE "charge"
  /\ UNCHANGED <<bvars, batteryVars>>

(* and what follows it.  The flag of a shutdown, which is never cleared,   *)
(* is read here too, an instant later than in the code.                    *)
BatteryWrite ==
  LET seen == handler = "reset"
      command == IF seen THEN "reset" ELSE IF robileCharge THEN "charge"
                 ELSE "none"
  IN
  /\ handler \in {"reset", "charge"}
  /\ flagResetError' = IF Cleared(seen) THEN FALSE ELSE flagResetError
  /\ batteryOut' = BatteryOutputs(command)
  /\ asked' = (asked /\ command # "reset")
  /\ handler' = "copy"
  /\ UNCHANGED <<bvars, flagShutdown, robileCharge>>

Handler ==
  \/ Copy
  \/ \E delta \in 0 .. 1 : Switch(delta)
  \/ BatteryTest
  \/ BatteryWrite

-----------------------------------------------------------------------------
(* The ROS thread: one callback at a time, and the modules' ROS steps.     *)

Message == messages < MaxMessages /\ messages' = messages + 1

driverRest == <<wheelVars, encoderVars, ramped, firstRamping, out, processData,
                state, stepCount, handler>>

(* The dead man's button of the joypad is held,                            *)
JoyHeld(v) ==
  /\ Message
  /\ useJoy' = TRUE
  /\ target' = v
  /\ canChangeActive' = (canChangeActive \/ ActiveByJoypad)
  /\ UNCHANGED <<driverRest, statusError, wheelEnabled, reread,
                 batteryVars>>

(* or not: it has been released.                                           *)
JoyReleased ==
  /\ Message
  /\ useJoy' = FALSE
  /\ target' = IF useJoy THEN 0 ELSE target
  /\ UNCHANGED <<driverRest, canChangeActive, statusError, wheelEnabled,
                 reread, batteryVars>>

CmdVel(v) ==
  /\ Message
  /\ target' = IF useJoy THEN target ELSE v
  /\ UNCHANGED <<driverRest, canChangeActive, statusError, wheelEnabled,
                 reread, useJoy, batteryVars>>

Reset ==
  /\ Message
  /\ statusError' = FALSE
  /\ reread' = TRUE
  /\ UNCHANGED <<driverRest, target, canChangeActive, wheelEnabled, useJoy,
                 batteryVars>>

WheelsEnable(w, value) ==
  /\ Message
  /\ wheelEnabled' = [wheelEnabled EXCEPT ![w] = value]
  /\ UNCHANGED <<driverRest, target, canChangeActive, statusError, reread,
                 useJoy, batteryVars>>

rosRest == <<driverRest, target, canChangeActive, statusError, wheelEnabled,
             reread, useJoy, batteryOut>>

BatteryReset ==
  /\ Message
  /\ flagResetError' = TRUE /\ asked' = TRUE
  /\ UNCHANGED <<rosRest, flagShutdown, robileCharge>>

BatteryShutdown ==
  /\ Message
  /\ flagShutdown' = TRUE
  /\ UNCHANGED <<rosRest, flagResetError, robileCharge, asked>>

Charge(on) ==
  /\ Message
  /\ robileCharge' = on
  /\ UNCHANGED <<rosRest, flagResetError, flagShutdown, asked>>

Ros ==
  \/ \E v \in Commands : JoyHeld(v) \/ CmdVel(v)
  \/ JoyReleased
  \/ Reset
  \/ \E w \in Wheels, value \in BOOLEAN : WheelsEnable(w, value)
  \/ BatteryReset
  \/ BatteryShutdown
  \/ \E on \in BOOLEAN : Charge(on)

Next == Wheel \/ Handler \/ Ros

Spec == Init /\ [][Next]_vars

(* The handler thread runs, and the clock with it.                         *)
FairSpec == Spec /\ WF_vars(Handler) /\ SF_vars(Switch(1))

-----------------------------------------------------------------------------
(* Properties.                                                             *)

TypeOK ==
  /\ status \in [Wheels -> {"ok", "disabled", "faulty"}]
  /\ processData \in [Wheels -> {"ok", "disabled", "faulty"}]
  /\ state \in {"init", "ready", "active"}
  /\ stepCount \in 0 .. ReadyLimit + 1
  /\ target \in Commands \cup {0}
  /\ ramped \in -MaxVel .. MaxVel
  /\ out.enable \subseteq Wheels
  /\ out.speed # 0 => out.drive /\ state = "active"
  /\ batteryOut \in [command : {"none", "reset", "charge"}, shutdown : BOOLEAN]
  /\ handler \in {"copy", "switch", "battery", "reset", "charge", "failed"}

(* The encoders' sums are the rotation since the first step, wherever the  *)
(* encoder stood then and whichever way the wheel turns across the wrap.   *)
(* Inputs that were zeroed for a lost slave (EtherCATMaster.cpp:369) may   *)
(* cost whole turns; parts of a turn only while they last, or for ever if  *)
(* the first step read them (updateEncoders).                              *)
EncodersTrack ==
  encoderInitialized =>
    /\ ~wasZero => sumEncoder = atRead - atStart
    /\ trueStart /\ trueRead =>
         (sumEncoder - (atRead - atStart)) % Turn = 0

(* The driver becomes active only in a step whose inputs show all wheels   *)
(* ready; the exception is a reset of the error flags between the update   *)
(* of the flags and stepReady, which then takes the fault for gone.        *)
ActivatedHealthy ==
  [][state = "ready" /\ state' = "active" => Ready \/ reread]_vars

(* A platform that is commanded to stand still comes to a standstill: a    *)
(* released joypad, or a zero cmd_vel, stops it unless another command     *)
(* comes.                                                                  *)
StandstillReached ==
  target = 0 ~> out.speed = 0 \/ target # 0 \/ handler = "failed"

(* A request to reset the battery's error reaches the battery, at whatever *)
(* point of the step the callback set the flag.                            *)
ResetIsSent == asked ~> ~asked \/ handler = "failed"
=============================================================================
