--------------------------- MODULE KeloModulesProofs ---------------------------
(***************************************************************************)
(* The platform driver of the KELO master, for any number of wheels, any   *)
(* limits and commands, and encoders of any size: types with the ramp's    *)
(* limit, the sums of the encoders, and that faults keep the driver from   *)
(* becoming active.  The encoders' invariant says that the sum is off the  *)
(* difference of the readings by whole turns, relates true readings to the *)
(* rotation at their time, and bounds the rotation since; the driver's     *)
(* is that, between the update of the error flags and stepReady, no flag   *)
(* means that all wheels are ready, unless a callback reset the flags.     *)
(***************************************************************************)
EXTENDS KeloModules, TLAPS

Statuses == {"ok", "disabled", "faulty"}

(* What TypeOK leaves to the model checker. *)
Typed ==
  /\ turned \in Int /\ atRead \in Int /\ atStart \in Int
  /\ trueStart \in BOOLEAN /\ trueRead \in BOOLEAN
  /\ prevEncoder \in 0 .. Turn - 1 /\ sumEncoder \in Int
  /\ zero \in BOOLEAN /\ wasZero \in BOOLEAN /\ encoderInitialized \in BOOLEAN
  /\ statusError \in BOOLEAN /\ reread \in BOOLEAN
  /\ flagShutdown \in BOOLEAN

Healthy ==
  handler = "switch" /\ state = "ready" /\ ~statusError => Ready \/ reread

Started == ~encoderInitialized => sumEncoder = 0 /\ ~wasZero

(* The sum is off the difference of the last and the first reading by      *)
(* whole turns, if the first was true; so is a true last reading off the   *)
(* rotation.                                                               *)
WholeTurns ==
  encoderInitialized /\ trueStart =>
    \E k \in Int : sumEncoder = prevEncoder - atStart + Turn * k

TrueReading ==
  encoderInitialized /\ trueRead =>
    \E k \in Int : atRead = prevEncoder + Turn * k

(* The sum is the rotation unless inputs were zeroed.                      *)
Exact ==
  encoderInitialized /\ ~wasZero => trueRead /\ sumEncoder = atRead - atStart

(* Since the reading the wheel turned by less than half a turn.            *)
Seen == 2 * (turned - atRead) < Turn /\ 2 * (atRead - turned) < Turn

IndInv ==
  /\ TypeOK /\ Typed /\ Healthy /\ Started
  /\ WholeTurns /\ TrueReading /\ Exact /\ Seen

-----------------------------------------------------------------------------
(* Lemmas about the operators.                                             *)

(* A value between two limits is an integer between them. *)
LEMMA ClipType ==
  ASSUME NEW v \in Int, NEW hi \in Int, NEW lo \in Int, lo <= hi
  PROVE  Clip(v, hi, lo) \in lo .. hi
BY DEF Clip

LEMMA ClipInt ==
  ASSUME NEW v \in Int, NEW hi \in Int, NEW lo \in Int
  PROVE  Clip(v, hi, lo) \in Int
BY DEF Clip

(* A multiple of a turn has no rest. *)
LEMMA MultipleRest ==
  ASSUME NEW T \in Nat \ {0}, NEW k \in Int PROVE (T * k) % T = 0
<1>1. PICK m \in Int : m = T * k
  OBVIOUS
<1> DEFINE q == m \div T
           r == m % T
<1>2. q \in Int /\ r \in 0 .. T - 1
  OBVIOUS
<1>3. m = T * q + r
  OBVIOUS
<1> HIDE DEF q, r
<1>4. T * (k - q) = r
  <2>1. T * (k - q) = T * k - T * q
    BY <1>2
  <2> QED
    BY <1>1, <1>2, <1>3, <2>1
<1>5. k - q = 0
  <2>1. CASE k - q >= 1
    <3>1. T * (k - q) >= T
      BY <2>1, <1>2
    <3> QED
      BY <3>1, <1>2, <1>4
  <2>2. CASE k - q <= -1
    <3>1. T * (k - q) <= -T
      BY <2>2, <1>2
    <3> QED
      BY <3>1, <1>2, <1>4
  <2> QED
    BY <2>1, <2>2, <1>2
<1> QED
  BY <1>1, <1>2, <1>4, <1>5 DEF r

(* An angle is its rest and whole turns. *)
LEMMA Wrapped ==
  ASSUME NEW a \in Int
  PROVE  a % Turn \in 0 .. Turn - 1 /\ \E k \in Int : a = (a % Turn) + Turn * k
<1>1. Turn \in Nat \ {0}
  BY KeloAssumption
<1>2. a = (a % Turn) + Turn * (a \div Turn) /\ a \div Turn \in Int
  BY <1>1
<1>3. a % Turn \in 0 .. Turn - 1
  BY <1>1
<1> QED
  BY <1>2, <1>3

(* Taking a difference the short way round changes it by whole turns,      *)
LEMMA UnwrappedWhole ==
  ASSUME NEW curr \in 0 .. Turn - 1, NEW prev \in 0 .. Turn - 1
  PROVE  /\ Unwrapped(curr, prev) \in Int
         /\ \E k \in {-1, 0, 1} : Unwrapped(curr, prev) = curr - prev + Turn * k
BY KeloAssumption DEF Unwrapped

(* and gives the rotation when it was less than half a turn.               *)
LEMMA UnwrappedExact ==
  ASSUME NEW a \in Int, NEW b \in Int, 2 * (b - a) < Turn, 2 * (a - b) < Turn,
         NEW prev \in 0 .. Turn - 1, NEW curr \in 0 .. Turn - 1,
         \E k \in Int : a = prev + Turn * k, \E k \in Int : b = curr + Turn * k
  PROVE  Unwrapped(curr, prev) = b - a
<1>1. Turn \in Nat \ {0, 1, 2}
  BY KeloAssumption
<1>2. PICK p \in Int : a = prev + Turn * p
  OBVIOUS
<1>3. PICK q \in Int : b = curr + Turn * q
  OBVIOUS
<1>4. PICK k \in Int : k = p - q
  OBVIOUS
<1>5. curr - prev = (b - a) + Turn * k
  <2>1. Turn * k = Turn * p - Turn * q
    BY <1>1, <1>4
  <2>2. PICK tp, tq, tk \in Int : tp = Turn * p /\ tq = Turn * q /\ tk = Turn * k
    BY <1>1
  <2>3. a = prev + tp /\ b = curr + tq /\ tk = tp - tq
    BY <1>2, <1>3, <2>1, <2>2
  <2>4. curr - prev = (b - a) + (tp - tq)
    <3> SUFFICES ASSUME curr \in Int, prev \in Int
                 PROVE  curr - prev = (b - a) + (tp - tq)
      BY <1>1
    <3> QED
      BY <2>2, <2>3
  <2> QED
    BY <2>2, <2>3, <2>4
<1>6. k \in {-1, 0, 1}
  <2>1. CASE k >= 2
    <3>1. Turn * k >= 2 * Turn
      BY <1>1, <2>1
    <3> QED
      BY <1>1, <1>5, <3>1
  <2>2. CASE k <= -2
    <3>1. Turn * k <= -2 * Turn
      BY <1>1, <2>2
    <3> QED
      BY <1>1, <1>5, <3>1
  <2> QED
    BY <2>1, <2>2
<1>7. CASE k = 0
  BY <1>1, <1>5, <1>7 DEF Unwrapped
<1>8. CASE k = 1
  BY <1>1, <1>5, <1>8 DEF Unwrapped
<1>9. CASE k = -1
  BY <1>1, <1>5, <1>9 DEF Unwrapped
<1> QED
  BY <1>6, <1>7, <1>8, <1>9

-----------------------------------------------------------------------------
(* One lemma per thread.                                                   *)

LEMMA InitInv == Init => IndInv
<1> SUFFICES ASSUME Init PROVE IndInv
  OBVIOUS
<1> USE KeloAssumption DEF Init
<1>1. TypeOK
  <2>1. ramped \in -MaxVel .. MaxVel /\ stepCount \in 0 .. ReadyLimit + 1
    OBVIOUS
  <2>2. batteryOut \in [command : {"none", "reset", "charge"},
                        shutdown : BOOLEAN]
    OBVIOUS
  <2>3. /\ status \in [Wheels -> Statuses]
        /\ processData \in [Wheels -> Statuses]
    BY DEF Statuses
  <2>4. out.enable \subseteq Wheels /\ out.speed = 0
    OBVIOUS
  <2> QED
    BY <2>1, <2>2, <2>3, <2>4 DEF TypeOK, Statuses
<1>4. Typed
  <2>1. 0 \in 0 .. Turn - 1
    OBVIOUS
  <2>2. prevEncoder \in 0 .. Turn - 1
    BY <2>1
  <2>3. turned \in Int /\ atRead \in Int /\ atStart \in Int /\ sumEncoder \in Int
    OBVIOUS
  <2>4. /\ zero \in BOOLEAN /\ wasZero \in BOOLEAN
        /\ trueStart \in BOOLEAN /\ trueRead \in BOOLEAN
        /\ encoderInitialized \in BOOLEAN
        /\ statusError \in BOOLEAN /\ reread \in BOOLEAN
        /\ flagShutdown \in BOOLEAN
    BY Zenon
  <2> QED
    BY <2>2, <2>3, <2>4 DEF Typed
<1>2. Healthy /\ Started /\ Seen
  <2>1. turned \in Int /\ Turn > 0
    OBVIOUS
  <2> QED
    BY <2>1 DEF Healthy, Started, Seen
<1>3. WholeTurns /\ TrueReading /\ Exact
  BY DEF WholeTurns, TrueReading, Exact
<1> QED
  BY <1>1, <1>4, <1>2, <1>3 DEF IndInv

(* The wheels only report and turn. *)
LEMMA WheelInv == ASSUME IndInv, Wheel PROVE IndInv'
<1> USE DEF Wheel, driverVars, encoderVars, rampVars, rosVars, batteryVars
<1>1. /\ status' \in [Wheels -> Statuses] /\ zero' \in BOOLEAN
      /\ turned' \in Int
      /\ turned' # turned => encoderInitialized
      /\ Seen'
  <2>1. CASE \E w \in Wheels : WheelReady(w) \/ WheelObeys(w) \/ WheelFalls(w)
    BY <2>1 DEF WheelReady, WheelObeys, WheelFalls, IndInv, TypeOK, Typed,
                Seen, Statuses
  <2>2. CASE WheelTurns
    BY <2>2 DEF WheelTurns, IndInv, TypeOK, Typed, Seen, Statuses
  <2>3. CASE InputsZeroed \/ InputsBack
    BY <2>3 DEF InputsZeroed, InputsBack, IndInv, TypeOK, Typed, Seen, Statuses
  <2> QED
    BY <2>1, <2>2, <2>3
<1>2. TypeOK' /\ Typed'
  BY <1>1 DEF IndInv, TypeOK, Typed, Statuses
<1>3. Healthy' /\ Started' /\ WholeTurns' /\ TrueReading' /\ Exact'
  BY <1>1 DEF IndInv, Healthy, Ready, Started, WholeTurns, TrueReading, Exact
<1> QED
  BY <1>1, <1>2, <1>3 DEF IndInv

(* What the handler copies. *)
LEMMA InputTypes ==
  ASSUME IndInv
  PROVE  Inputs \in [Wheels -> Statuses] /\ Encoder \in 0 .. Turn - 1
<1>1. turned % Turn \in 0 .. Turn - 1
  BY Wrapped DEF IndInv, Typed
<1> QED
  BY <1>1, KeloAssumption DEF IndInv, TypeOK, Typed, Inputs, Encoder, Statuses

(* updateEncoders. *)
LEMMA EncodersInv ==
  ASSUME IndInv, UpdateEncoders, UNCHANGED <<turned, zero>>
  PROVE  /\ prevEncoder' \in 0 .. Turn - 1 /\ sumEncoder' \in Int
         /\ atRead' \in Int /\ atStart' \in Int /\ encoderInitialized'
         /\ trueStart' \in BOOLEAN /\ trueRead' \in BOOLEAN
         /\ wasZero' \in BOOLEAN
         /\ WholeTurns' /\ TrueReading' /\ Exact' /\ Seen'
<1> DEFINE prev == Previous
           step == Unwrapped(Encoder, prev)
<1>1. Turn \in Nat \ {0, 1, 2}
  BY KeloAssumption
<1>2. Encoder \in 0 .. Turn - 1 /\ prev \in 0 .. Turn - 1
  BY InputTypes DEF IndInv, Typed, Previous
<1>3. /\ sumEncoder' = sumEncoder + step
      /\ prevEncoder' = Encoder /\ atRead' = turned
      /\ atStart' = IF encoderInitialized THEN atStart ELSE turned
      /\ encoderInitialized'
  BY DEF UpdateEncoders
<1>10. /\ trueStart' = IF encoderInitialized THEN trueStart ELSE ~zero
       /\ trueRead' = ~zero /\ wasZero' = (wasZero \/ zero)
  BY DEF UpdateEncoders
<1>4. /\ step \in Int
      /\ \E k \in {-1, 0, 1} : step = Encoder - prev + Turn * k
  BY <1>2, UnwrappedWhole
<1>5. /\ sumEncoder \in Int /\ turned \in Int /\ atRead \in Int
      /\ atStart \in Int /\ prevEncoder \in Int
  BY <1>1 DEF IndInv, Typed
<1>11. /\ zero \in BOOLEAN /\ wasZero \in BOOLEAN
       /\ trueStart \in BOOLEAN /\ trueRead \in BOOLEAN
  BY DEF IndInv, Typed
<1>12. ~zero => \E k \in Int : turned = Encoder + Turn * k
  BY <1>5, Wrapped DEF Encoder
<1>13. ~encoderInitialized => step = 0 /\ sumEncoder' = 0
  BY <1>1, <1>2, <1>3 DEF Unwrapped, Previous, IndInv, Started
<1>6. WholeTurns'
  <2> SUFFICES ASSUME trueStart'
               PROVE  \E k \in Int : sumEncoder' = Encoder - atStart' + Turn * k
    BY <1>3 DEF WholeTurns
  <2>1. CASE encoderInitialized
    <3>1. PICK k \in Int : sumEncoder = prevEncoder - atStart + Turn * k
      BY <1>10, <2>1 DEF IndInv, WholeTurns
    <3>2. PICK j \in {-1, 0, 1} : step = Encoder - prevEncoder + Turn * j
      BY <1>4, <2>1 DEF Previous
    <3>3. Turn * (k + j) = Turn * k + Turn * j /\ k + j \in Int
      BY <1>1
    <3>4. PICK tk, tj \in Int : tk = Turn * k /\ tj = Turn * j
      BY <1>1
    <3>5. sumEncoder' = Encoder - atStart + (tk + tj)
      BY <1>2, <1>3, <1>5, <3>1, <3>2, <3>4
    <3> QED
      BY <1>3, <2>1, <3>3, <3>4, <3>5
  <2>2. CASE ~encoderInitialized
    <3>1. ~zero /\ atStart' = turned
      BY <1>3, <1>10, <2>2
    <3>2. PICK k \in Int : turned = Encoder + Turn * k
      BY <1>12, <3>1
    <3>3. PICK tk \in Int : tk = Turn * k
      BY <1>1
    <3>4. sumEncoder' = Encoder - turned + tk
      BY <1>2, <1>5, <1>13, <2>2, <3>2, <3>3
    <3> QED
      BY <3>1, <3>3, <3>4
  <2> QED
    BY <2>1, <2>2
<1>7. TrueReading'
  BY <1>3, <1>10, <1>12 DEF TrueReading
<1>8. Exact'
  <2> SUFFICES ASSUME ~wasZero' PROVE trueRead' /\ sumEncoder' = turned - atStart'
    BY <1>3 DEF Exact
  <2>1. ~wasZero /\ ~zero
    BY <1>10
  <2>4. trueRead'
    BY <1>10, <2>1
  <2> SUFFICES sumEncoder' = turned - atStart'
    BY <2>4
  <2>2. CASE encoderInitialized
    <3>1. /\ sumEncoder = atRead - atStart
          /\ \E k \in Int : atRead = prevEncoder + Turn * k
      BY <2>1, <2>2 DEF IndInv, Exact, TrueReading
    <3>2. 2 * (turned - atRead) < Turn /\ 2 * (atRead - turned) < Turn
      BY DEF IndInv, Seen
    <3>3. prev = prevEncoder
      BY <2>2 DEF Previous
    <3>4. step = turned - atRead
      BY <1>2, <1>5, <1>12, <2>1, <3>1, <3>2, <3>3, UnwrappedExact
    <3> QED
      BY <1>3, <1>5, <2>2, <3>1, <3>4
  <2>3. CASE ~encoderInitialized
    BY <1>3, <1>5, <1>13, <2>3
  <2> QED
    BY <2>2, <2>3
<1>9. Seen'
  BY <1>1, <1>3, <1>5 DEF Seen
<1>14. atStart' \in Int /\ sumEncoder' \in Int
  BY <1>3, <1>4, <1>5
<1> QED
  BY <1>2, <1>3, <1>5, <1>6, <1>7, <1>8, <1>9, <1>10, <1>11, <1>14

(* The inputs are copied and the status is updated. *)
LEMMA CopyInv == ASSUME IndInv, Copy PROVE IndInv'
<1> USE DEF Copy, wheelVars, rampVars, rosVars, batteryVars
<1>1. /\ prevEncoder' \in 0 .. Turn - 1 /\ sumEncoder' \in Int
      /\ atRead' \in Int /\ atStart' \in Int /\ encoderInitialized'
      /\ trueStart' \in BOOLEAN /\ trueRead' \in BOOLEAN
      /\ wasZero' \in BOOLEAN
      /\ WholeTurns' /\ TrueReading' /\ Exact' /\ Seen'
  BY EncodersInv
<1>2. processData' = Inputs /\ Inputs \in [Wheels -> Statuses]
  BY InputTypes
<1>3. stepCount' \in 0 .. ReadyLimit + 1
  BY KeloAssumption DEF IndInv, TypeOK
<1>4. TypeOK'
  BY <1>2, <1>3 DEF IndInv, TypeOK, Statuses
<1>5. StatusError(Inputs) \in BOOLEAN
  BY DEF StatusError
<1>6. Typed'
  BY <1>1, <1>5 DEF IndInv, Typed
<1>7. Healthy'
  <2> SUFFICES ASSUME state = "ready", ~StatusError(Inputs) PROVE Ready'
    BY DEF Healthy
  <2> QED
    BY <1>2 DEF StatusError, Ready, Statuses
<1>8. Started'
  BY <1>1 DEF Started
<1> QED
  BY <1>1, <1>4, <1>6, <1>7, <1>8 DEF IndInv

(* The ramp stays within the limits whatever is commanded.                 *)
LEMMA RampedType ==
  ASSUME IndInv, NEW delta \in Int, CalculatePlatformRampedVelocities(delta)
  PROVE  ramped' \in -MaxVel .. MaxVel
<1>1. /\ ramped \in Int /\ ramped \in -MaxVel .. MaxVel
      /\ target \in Int /\ MaxVel \in Nat
  BY KeloAssumption DEF IndInv, TypeOK
<1>2. Acc \in Int /\ Dec \in Int
  BY KeloAssumption
<1>3. PICK up, down \in Int : up = delta * Acc /\ down = delta * Dec
  BY <1>2
<1>4. Ramp(delta) \in Int
  <2>1. Ramp(delta) = IF ramped >= 0 THEN Clip(target, ramped + up, ramped - down)
                      ELSE Clip(target, ramped + down, ramped - up)
    BY <1>3 DEF Ramp
  <2>2. /\ ramped + up \in Int /\ ramped - down \in Int
        /\ ramped + down \in Int /\ ramped - up \in Int
    BY <1>1, <1>3
  <2>3. Clip(target, ramped + up, ramped - down) \in Int
    BY <1>1, <2>2, ClipInt
  <2>4. Clip(target, ramped + down, ramped - up) \in Int
    BY <1>1, <2>2, ClipInt
  <2> QED
    BY <2>1, <2>3, <2>4
<1>5. Limited(Ramp(delta)) \in -MaxVel .. MaxVel
  <2>1. PICK lo \in Int : lo = -MaxVel
    BY <1>1
  <2>2. lo <= MaxVel /\ MaxVel \in Int
    BY <1>1, <2>1
  <2>3. Clip(Ramp(delta), MaxVel, lo) \in lo .. MaxVel
    BY <1>4, <2>1, <2>2, ClipType
  <2> QED
    BY <2>1, <2>3 DEF Limited
<1> QED
  BY <1>1, <1>5 DEF CalculatePlatformRampedVelocities

(* The state machine of the driver. *)
LEMMA SwitchInv ==
  ASSUME IndInv, NEW delta \in 0 .. 1, Switch(delta) PROVE IndInv'
<1> USE DEF Switch, wheelVars, encoderVars, rosVars, batteryVars
<1>1. /\ Enabled \subseteq Wheels
  BY DEF Enabled
<1>2. CASE StepInit \/ StepReady
  <2>1. /\ out' = [enable |-> Enabled, drive |-> FALSE, speed |-> 0]
        /\ ramped' = ramped /\ target' = target
        /\ state' \in {"init", "ready", "active"}
        /\ handler' \in {"battery", "failed"}
    BY <1>2 DEF StepInit, StepReady, DoStop, rampVars
  <2>2. out'.enable \subseteq Wheels /\ out'.speed = 0
    BY <1>1, <2>1
  <2>3. TypeOK'
    BY <2>1, <2>2 DEF IndInv, TypeOK
  <2>4. Typed' /\ Healthy' /\ Started' /\ WholeTurns' /\ TrueReading' /\ Exact' /\ Seen'
    BY <2>1 DEF IndInv, Typed, Healthy, Started, WholeTurns, TrueReading, Exact, Seen
  <2> QED
    BY <2>3, <2>4 DEF IndInv
<1>3. CASE StepActive(delta)
  <2>1. /\ out' = [enable |-> Enabled, drive |-> TRUE, speed |-> ramped']
        /\ target' = target /\ state = "active" /\ state' = state
        /\ handler' = "battery"
    BY <1>3 DEF StepActive, DoControl, CalculatePlatformRampedVelocities
  <2>2. ramped' \in -MaxVel .. MaxVel
    BY <1>3, RampedType DEF StepActive, DoControl
  <2>3. out'.enable \subseteq Wheels /\ out'.drive
    BY <1>1, <2>1
  <2>4. TypeOK'
    BY <2>1, <2>2, <2>3 DEF IndInv, TypeOK
  <2>5. Typed' /\ Healthy' /\ Started' /\ WholeTurns' /\ TrueReading' /\ Exact' /\ Seen'
    BY <2>1 DEF IndInv, Typed, Healthy, Started, WholeTurns, TrueReading, Exact, Seen
  <2> QED
    BY <2>4, <2>5 DEF IndInv
<1> QED
  BY <1>2, <1>3

(* The battery's step. *)
LEMMA BatteryInv == ASSUME IndInv, BatteryTest \/ BatteryWrite PROVE IndInv'
<1> USE DEF bvars, wheelVars, driverVars, encoderVars, rampVars, rosVars
<1>1. handler' \in {"copy", "reset", "charge"}
  BY DEF BatteryTest, BatteryWrite
<1>2. batteryOut' \in [command : {"none", "reset", "charge"}, shutdown : BOOLEAN]
  <2>1. CASE BatteryTest
    BY <2>1 DEF BatteryTest, batteryVars, IndInv, TypeOK
  <2>2. CASE BatteryWrite
    <3> DEFINE command == IF handler = "reset" THEN "reset"
                          ELSE IF robileCharge THEN "charge" ELSE "none"
    <3>1. batteryOut' = [command |-> command, shutdown |-> flagShutdown]
      BY <2>2 DEF BatteryWrite, BatteryOutputs
    <3> QED
      BY <3>1 DEF IndInv, Typed
  <2> QED
    BY <2>1, <2>2
<1>3. UNCHANGED bvars
  BY DEF BatteryTest, BatteryWrite
<1>4. TypeOK'
  BY <1>1, <1>2, <1>3 DEF IndInv, TypeOK
<1>5. flagShutdown' = flagShutdown /\ handler' # "switch"
  BY <1>1 DEF BatteryTest, BatteryWrite, batteryVars
<1>6. Typed' /\ Healthy'
  BY <1>3, <1>5 DEF IndInv, Typed, Healthy
<1>7. Started' /\ WholeTurns' /\ TrueReading' /\ Exact' /\ Seen'
  BY <1>3 DEF IndInv, Started, WholeTurns, TrueReading, Exact, Seen
<1> QED
  BY <1>4, <1>6, <1>7 DEF IndInv

(* The callbacks set flags, and the target to a command or to zero. *)
LEMMA RosInv == ASSUME IndInv, Ros PROVE IndInv'
<1> USE DEF driverRest, rosRest, wheelVars, encoderVars, batteryVars
<1>1. /\ UNCHANGED driverRest
      /\ target' \in Commands \cup {0}
      /\ batteryOut' = batteryOut
  BY DEF Ros, JoyHeld, JoyReleased, CmdVel, Reset, WheelsEnable, BatteryReset,
         BatteryShutdown, Charge, IndInv, TypeOK
<1>2. \/ statusError' = statusError /\ reread' = reread
      \/ statusError' = FALSE /\ reread' = TRUE
  BY DEF Ros, JoyHeld, JoyReleased, CmdVel, Reset, WheelsEnable, BatteryReset,
         BatteryShutdown, Charge
<1>3. flagShutdown' \in BOOLEAN
  BY DEF Ros, JoyHeld, JoyReleased, CmdVel, Reset, WheelsEnable, BatteryReset,
         BatteryShutdown, Charge, IndInv, Typed
<1>4. TypeOK'
  BY <1>1 DEF IndInv, TypeOK
<1>5. Typed' /\ Healthy'
  BY <1>1, <1>2, <1>3 DEF IndInv, Typed, Healthy, Ready
<1>6. Started' /\ WholeTurns' /\ TrueReading' /\ Exact' /\ Seen'
  BY <1>1 DEF IndInv, Started, WholeTurns, TrueReading, Exact, Seen
<1> QED
  BY <1>4, <1>5, <1>6 DEF IndInv

LEMMA StutterInv == ASSUME IndInv, UNCHANGED vars PROVE IndInv'
BY DEF vars, wheelVars, driverVars, encoderVars, rampVars, rosVars,
       batteryVars, IndInv, TypeOK, Typed, Healthy, Ready, Started,
       WholeTurns, TrueReading, Exact, Seen

LEMMA Inductive == ASSUME IndInv, [Next]_vars PROVE IndInv'
BY WheelInv, CopyInv, SwitchInv, BatteryInv, RosInv, StutterInv
   DEF Next, Handler

LEMMA Invariance == Spec => []IndInv
<1>1. IndInv /\ [Next]_vars => IndInv'
  BY Inductive
<1> QED
  BY InitInv, <1>1, PTL DEF Spec

-----------------------------------------------------------------------------
(* Types; among them, that the ramped velocity never leaves the platform's *)
(* limits, whatever is commanded, and that only an active driver moves     *)
(* (calculatePlatformRampedVelocities, step).                              *)
THEOREM TypeCorrect == Spec => []TypeOK
<1>1. IndInv => TypeOK
  BY DEF IndInv
<1> QED
  BY Invariance, <1>1, PTL

(* The sums of the encoders are the wheel's rotation since the first step, *)
(* for an encoder of any size, wherever it stood, as long as the wheel     *)
(* turns less than half a turn between two steps.  Inputs zeroed for a     *)
(* lost slave cost whole turns, and parts only if the first step read them *)
(* or the last one did (updateEncoders).                                   *)
THEOREM EncodersExact == Spec => []EncodersTrack
<1>1. IndInv => EncodersTrack
  <2> SUFFICES ASSUME IndInv, encoderInitialized, trueStart, trueRead
               PROVE  (sumEncoder - (atRead - atStart)) % Turn = 0
    BY DEF EncodersTrack, IndInv, Exact
  <2>1. Turn \in Nat \ {0}
    BY KeloAssumption
  <2>2. PICK k \in Int : sumEncoder = prevEncoder - atStart + Turn * k
    BY DEF IndInv, WholeTurns
  <2>3. PICK m \in Int : atRead = prevEncoder + Turn * m
    BY DEF IndInv, TrueReading
  <2>4. prevEncoder \in Int /\ atStart \in Int
    BY <2>1 DEF IndInv, Typed
  <2>5. PICK tk, tm \in Int : tk = Turn * k /\ tm = Turn * m
    BY <2>1
  <2>6. sumEncoder - (atRead - atStart) = tk - tm
    BY <2>2, <2>3, <2>4, <2>5
  <2>7. tk - tm = Turn * (k - m) /\ k - m \in Int
    BY <2>1, <2>5
  <2> QED
    BY <2>1, <2>6, <2>7, MultipleRest
<1> QED
  BY Invariance, <1>1, PTL

(* A driver whose wheels are not all ready does not become active, unless  *)
(* the error flags are reset between their update and stepReady.           *)
THEOREM ActiveIsHealthy == Spec => ActivatedHealthy
<1>1. ASSUME IndInv, Next, state = "ready", state' = "active"
      PROVE  Ready \/ reread
  <2>1. PICK delta \in 0 .. 1 : Switch(delta)
    BY <1>1 DEF Next, Wheel, Handler, Ros, Copy, BatteryTest, BatteryWrite,
                driverVars, bvars, JoyHeld, JoyReleased, CmdVel, Reset,
                WheelsEnable, BatteryReset, BatteryShutdown, Charge,
                driverRest, rosRest
  <2>2. StepReady /\ handler = "switch"
    BY <1>1, <2>1 DEF Switch, StepInit, StepActive
  <2>3. ~statusError
    BY <1>1, <2>2 DEF StepReady, Activate
  <2> QED
    BY <1>1, <2>2, <2>3 DEF IndInv, Healthy
<1>2. IndInv /\ [Next]_vars =>
        [state = "ready" /\ state' = "active" => Ready \/ reread]_vars
  BY <1>1
<1> QED
  BY Invariance, <1>2, PTL DEF Spec, ActivatedHealthy
=============================================================================
