--------------------------- MODULE OdometryProofs ---------------------------
(* Theorems about Odometry, for every Turn, every set of moves, any number of steps. *)
EXTENDS Odometry, TLAPS

-----------------------------------------------------------------------------
(* Types. *)

\* A displaced pose is a pose: the displacement of an axis is an integer and
\* headings are normalized.
LEMMA MovedType ==
    ASSUME NEW k \in AxisName, NEW from \in Int, NEW move \in Ticks, NEW h \in 0..3
    PROVE  Moved(k, from, move, h) \in Int /\ Moved("a", from, move, h) \in 0..3
<1>1. Cos(h) \in Int /\ Sin(h) \in Int BY DEF Cos, Sin
<1>2. move["left"] \in Int /\ move["right"] \in Int BY DEF Ticks, Encoder
<1>3. Forward(move) \in Int /\ Turned(move) \in Int BY <1>2 DEF Forward, Turned
<1>4. Forward(move) * Cos(h) \in Int /\ Forward(move) * Sin(h) \in Int BY <1>1, <1>3
<1>5. \A j \in AxisName : Displacement(j, move, h) \in Int
  BY <1>3, <1>4 DEF Displacement, AxisName
<1>6. \A i \in Int : NormAngle(i) \in 0..3 BY DEF NormAngle
<1> QED BY <1>5, <1>6 DEF Moved, AxisName

\* The moves of a period are pairs of integers, and less than half a turn.
LEMMA MoveType ==
    ASSUME NEW move \in Moves
    PROVE  /\ move \in Ticks
           /\ \A e \in Encoder : move[e] \in Int /\ 2 * move[e] < Turn /\ -Turn < 2 * move[e]
BY OdometryAssumption DEF Ticks

\* Telling wraps from moves yields an integer.
LEMMA UnwrapType ==
    ASSUME NEW last \in Int, NEW cur \in Int
    PROVE  Unwrap(last, cur) \in Int
BY OdometryAssumption DEF Unwrap

\* Every variable of the monitor, the estimator and the two threads keeps its type.
THEOREM Typing == Spec => []TypeOK
<1>1. Init => TypeOK
  <2> SUFFICES ASSUME Init PROVE TypeOK
    OBVIOUS
  <2>1. Zero \in Ticks /\ Zero \in [Encoder -> 0..Turn - 1]
    BY OdometryAssumption DEF Zero, Ticks
  <2>2. Origin \in Pose
    BY DEF Origin, Pose, AxisName
  <2>3. initialized \in BOOLEAN /\ fresh \in BOOLEAN /\ overlapped \in BOOLEAN
    BY DEF Init
  <2> QED BY <2>1, <2>2, <2>3 DEF Init, TypeOK, StepPc
<1>2. TypeOK /\ [Next]_vars => TypeOK'
  <2> SUFFICES ASSUME TypeOK, [Next]_vars PROVE TypeOK'
    OBVIOUS
  <2> USE DEF TypeOK
  <2>1. ASSUME NEW move \in Moves, Sample(move) PROVE TypeOK'
    <3>1. encoder' \in [Encoder -> 0..Turn - 1]
      BY <2>1, OdometryAssumption, MoveType DEF Sample
    <3>2. sumEncoder' \in Ticks
      <4>1. \A e \in Encoder : Unwrap(lastEncoder[e], encoder'[e]) \in Int
        BY <3>1, UnwrapType, OdometryAssumption
      <4> QED BY <2>1, <4>1 DEF Sample, Ticks
    <3>3. rotation' \in Ticks
      BY <2>1, MoveType DEF Sample, Ticks
    <3>4. truePose' \in Pose
      <4>1. CASE fresh
        BY <2>1, <4>1 DEF Sample, Origin, Pose, AxisName
      <4>2. CASE ~fresh
        <5>1. \A k \in AxisName : truePose[k] \in Int
          BY DEF Pose
        <5>2. truePose["a"] \in 0..3
          BY DEF Pose
        <5>3. \A k \in AxisName : /\ Moved(k, truePose[k], move, truePose["a"]) \in Int
                                  /\ Moved("a", truePose[k], move, truePose["a"]) \in 0..3
          BY <5>1, <5>2, MoveType, MovedType
        <5>4. truePose' = [k \in AxisName |-> Moved(k, truePose[k], move, truePose["a"])]
          BY <2>1, <4>2 DEF Sample
        <5> QED BY <5>3, <5>4 DEF Pose, AxisName
      <4> QED BY <4>1, <4>2
    <3>5. lastEncoder' \in [Encoder -> 0..Turn - 1] BY <2>1, <3>1 DEF Sample
    <3>6. initialized' \in BOOLEAN /\ fresh' \in BOOLEAN /\ overlapped' \in BOOLEAN
      BY <2>1 DEF Sample
    <3>7. spc' \in StepPc /\ steps' \in Nat
      BY <2>1 DEF Sample, StepPc
    <3> QED
      BY <2>1, <3>1, <3>2, <3>3, <3>4, <3>5, <3>6, <3>7 DEF Sample, localVars, estimatorVars
  <2>2. CASE PrevEncoder
    BY <2>2 DEF PrevEncoder, Goto, StepPc, monitorVars, localVars, historyVars
  <2>3. CASE Delta
    BY <2>3 DEF Delta, Goto, StepPc, Ticks, monitorVars, estimatorVars, historyVars
  <2>4. CASE StoreEncoder
    BY <2>4 DEF StoreEncoder, StoredEncoder, Goto, StepPc, monitorVars, localVars, historyVars
  <2>5. ASSUME NEW k \in AxisName, NEW pc, NEW next \in StepPc, LoadAxis(k, pc, next) PROVE TypeOK'
    BY <2>5 DEF LoadAxis, Goto, Pose, monitorVars, estimatorVars, historyVars
  <2>6. ASSUME NEW pc, NEW next \in StepPc, ReadHeading(pc, next) PROVE TypeOK'
    BY <2>6 DEF ReadHeading, Goto, Pose, monitorVars, estimatorVars, historyVars
  <2>7. ASSUME NEW k \in AxisName, NEW pc, NEW next \in StepPc, StoreAxis(k, pc, next) PROVE TypeOK'
    <3>1. Moved(k, loaded, motion, heading) \in Int /\ Moved("a", loaded, motion, heading) \in 0..3
      BY MovedType
    <3>2. odom' \in Pose
      BY <2>7, <3>1 DEF StoreAxis, Pose, AxisName
    <3> QED BY <2>7, <3>2 DEF StoreAxis, Goto, monitorVars, localVars, historyVars
  <2>8. ASSUME NEW k \in AxisName, NEW pc, NEW next \in StepPc, ReadAxis(k, pc, next) PROVE TypeOK'
    BY <2>8 DEF ReadAxis, Goto, Pose, AxisName, monitorVars, estimatorVars, historyVars
  <2>9. CASE Report
    BY <2>9 DEF Report, Goto, StepPc, monitorVars, estimatorVars, localVars, historyVars
  <2>10. CASE ResetEncoder
    BY <2>10 DEF ResetEncoder, monitorVars, localVars
  <2>11. ASSUME NEW k \in AxisName, NEW pc, NEW next \in {"reset_y", "reset_a", "idle"},
                ResetAxis(k, pc, next)
         PROVE TypeOK'
    <3>1. odom' \in Pose
      BY <2>11 DEF ResetAxis, Pose, AxisName
    <3>2. Origin \in Pose
      BY DEF Origin, Pose, AxisName
    <3>3. truePose' \in Pose /\ fresh' \in BOOLEAN
      BY <2>11, <3>2 DEF ResetAxis
    <3> QED BY <2>11, <3>1, <3>3 DEF ResetAxis, monitorVars, localVars
  <2>12. CASE UNCHANGED vars
    BY <2>12 DEF vars, monitorVars, estimatorVars, localVars, historyVars
  <2> QED
    BY <2>1, <2>2, <2>3, <2>4, <2>5, <2>6, <2>7, <2>8, <2>9, <2>10, <2>11, <2>12
    DEF Next, MonitorStep, Reset, StepPc, AxisName
<1> QED BY <1>1, <1>2, PTL DEF Spec

-----------------------------------------------------------------------------
(* Encoders. *)

\* Unwrapping is exact as long as an encoder moves less than half a turn in a
\* period: the difference of the wrapped values is the move, or a turn off.
LEMMA UnwrapIsMove ==
    ASSUME NEW last \in 0..Turn - 1, NEW d \in Int, 2 * d < Turn, -Turn < 2 * d
    PROVE  Unwrap(last, (last + d) % Turn) = d
<1> DEFINE cur == (last + d) % Turn
<1>1. Turn \in Nat \ {0} BY OdometryAssumption
<1>2. cur \in 0..Turn - 1 BY <1>1
<1>3. PICK q \in Int : last + d = Turn * q + cur
  <2>1. last + d = Turn * ((last + d) \div Turn) + cur BY <1>1
  <2>2. (last + d) \div Turn \in Int BY <1>1
  <2> QED BY <2>1, <2>2
<1>4. -Turn < last + d /\ last + d < 2 * Turn BY <1>1
<1>5. q \in {-1, 0, 1}
  <2>1. q <= 1
    <3> SUFFICES ASSUME q >= 2 PROVE FALSE
      OBVIOUS
    <3>1. Turn * q >= Turn * 2 BY <1>1
    <3> QED BY <1>1, <1>2, <1>3, <1>4, <3>1
  <2>2. q >= -1
    <3> SUFFICES ASSUME q <= -2 PROVE FALSE
      OBVIOUS
    <3>1. Turn * q <= Turn * (-2) BY <1>1
    <3> QED BY <1>1, <1>2, <1>3, <1>4, <3>1
  <2> QED BY <2>1, <2>2
<1> HIDE DEF cur
<1>6. Unwrap(last, cur) = d
  <2>1. CASE q = 0
    <3>1. cur - last = d BY <1>1, <1>2, <1>3, <2>1
    <3> QED BY <1>1, <1>2, <3>1 DEF Unwrap
  <2>2. CASE q = 1
    <3>1. cur - last = d - Turn BY <1>1, <1>2, <1>3, <2>2
    <3> QED BY <1>1, <1>2, <3>1 DEF Unwrap
  <2>3. CASE q = -1
    <3>1. cur - last = d + Turn BY <1>1, <1>2, <1>3, <2>3
    <3> QED BY <1>1, <1>2, <3>1 DEF Unwrap
  <2> QED BY <1>5, <2>1, <2>2, <2>3
<1> QED BY <1>6 DEF cur

\* What the sum owes its exactness to: the last reading is the reading before the next one.
SumInv == SumIsRotation /\ (initialized => lastEncoder = encoder)

\* A sample adds the moves of its period to the sum, none of them in the first step.
LEMMA SampleAddsMove ==
    ASSUME TypeOK, SumInv, NEW move \in Moves, Sample(move)
    PROVE  /\ SumInv' /\ initialized'
           /\ initialized => sumEncoder' = [e \in Encoder |-> sumEncoder[e] + move[e]]
<1>1. lastEncoder' = encoder' /\ initialized'
  BY DEF Sample
<1>2. CASE initialized
  <2>1. \A e \in Encoder : Unwrap(lastEncoder[e], encoder'[e]) = move[e]
    <3> TAKE e \in Encoder
    <3>1. encoder[e] \in 0..Turn - 1 /\ lastEncoder[e] = encoder[e]
      BY <1>2 DEF TypeOK, SumInv
    <3>2. encoder'[e] = (encoder[e] + move[e]) % Turn
      BY DEF Sample
    <3> QED BY <3>1, <3>2, MoveType, UnwrapIsMove
  <2>2. sumEncoder' = [e \in Encoder |-> sumEncoder[e] + move[e]]
    BY <1>2, <2>1 DEF Sample
  <2>3. rotation' = [e \in Encoder |-> rotation[e] + move[e]]
    BY <1>2 DEF Sample
  <2> QED BY <1>1, <2>2, <2>3 DEF SumInv, SumIsRotation
<1>3. CASE ~initialized
  <2>1. sumEncoder' = [e \in Encoder |-> sumEncoder[e] + 0] /\ rotation' = [e \in Encoder |-> rotation[e] + 0]
    BY <1>3 DEF Sample
  <2> QED BY <1>1, <1>3, <2>1 DEF SumInv, SumIsRotation
<1> QED BY <1>2, <1>3

\* Nobody but a sample touches the encoders and their sum.
LEMMA SumInvariant == TypeOK /\ SumInv /\ [Next]_vars => SumInv'
<1> SUFFICES ASSUME TypeOK, SumInv, [Next]_vars PROVE SumInv'
  OBVIOUS
<1>1. ASSUME NEW move \in Moves, Sample(move) PROVE SumInv'
  BY <1>1, SampleAddsMove
<1>2. CASE UNCHANGED <<monitorVars, rotation>>
  BY <1>2 DEF SumInv, SumIsRotation, monitorVars
<1> QED
  BY <1>1, <1>2
  DEF Next, MonitorStep, Reset, PrevEncoder, Delta, StoreEncoder, LoadAxis, ReadHeading, StoreAxis,
      ReadAxis, Report, ResetEncoder, ResetAxis, vars, historyVars

\* _update_encoders counts the rotation of the wheels exactly, for every
\* resolution of the encoders and however often they wrap.
THEOREM SumsAreExact == Spec => []SumIsRotation
<1>1. Init => SumInv
  BY DEF Init, SumInv, SumIsRotation
<1>2. SumInv => SumIsRotation BY DEF SumInv
<1> QED BY <1>1, <1>2, SumInvariant, Typing, PTL DEF Spec

-----------------------------------------------------------------------------
(***************************************************************************)
(* The pose.  While no reset has overlapped a step, the steps are alone:   *)
(* the true pose is the odometry, except for the axes of the current step  *)
(* that still wait for its motion.                                         *)
(***************************************************************************)

\* The motion the encoders have made and the estimator not taken yet.
Uncounted == [e \in Encoder |-> sumEncoder[e] - prevEncoder[e]]

\* The true pose, once the motion has been added to the waiting axes.
Awaits(axes, move) ==
    \A k \in AxisName :
        truePose[k] = IF k \in axes THEN Moved(k, odom[k], move, odom["a"]) ELSE odom[k]

Estimating == {"load_x", "heading_x", "store_x", "load_y", "heading_y", "store_y", "load_a",
               "store_a", "read_x", "read_y", "read_a", "report"}

\* Between two steps, or in a reset between two steps.
IdleInv ==
    /\ cpc = "idle" /\ fresh => prevEncoder = Empty /\ odom = Origin /\ truePose = Origin
    /\ cpc = "idle" /\ ~fresh => /\ prevEncoder = sumEncoder /\ initialized
                                 /\ odom = truePose /\ reported = truePose
    /\ cpc # "idle" => prevEncoder = Empty
    /\ cpc \in {"reset_y", "reset_a"} => odom["x"] = 0
    /\ cpc = "reset_a" => odom["y"] = 0

\* In a step, which no reset disturbs.
StepInv ==
    /\ cpc = "idle" /\ ~fresh /\ initialized /\ spc # "crashed"
    /\ spc = "prev" => IF prevEncoder = Empty THEN odom = Origin /\ truePose = Origin
                                              ELSE Awaits(AxisName, Uncounted)
    /\ spc \in {"delta", "store"} => prevEncoder # Empty
    /\ spc = "delta" => Awaits(AxisName, Uncounted)
    /\ spc = "store" => Awaits(AxisName, motion)
    /\ spc \in Estimating => prevEncoder = sumEncoder
    /\ spc \in {"load_x", "heading_x", "store_x"} => Awaits(AxisName, motion)
    /\ spc \in {"load_y", "heading_y", "store_y"} => Awaits({"y", "a"}, motion)
    /\ spc \in {"load_a", "store_a"} => Awaits({"a"}, motion)
    /\ spc \in {"read_x", "read_y", "read_a", "report"} => odom = truePose
    /\ spc \in {"heading_x", "store_x"} => loaded = odom["x"]
    /\ spc \in {"heading_y", "store_y"} => loaded = odom["y"]
    /\ spc = "store_a" => loaded = odom["a"]
    /\ spc \in {"store_x", "store_y"} => heading = odom["a"]
    /\ spc \in {"read_y", "read_a", "report"} => pose["x"] = odom["x"]
    /\ spc \in {"read_a", "report"} => pose["y"] = odom["y"]
    /\ spc = "report" => pose["a"] = odom["a"]

PoseInv == ~overlapped => IF spc = "idle" THEN IdleInv ELSE StepInv

\* A motion of nothing leaves the origin where it is.
LEMMA StandstillStays ==
    ASSUME NEW move, move = Zero, NEW k \in AxisName
    PROVE  Moved(k, 0, move, 0) = 0
<1>1. move["left"] = 0 /\ move["right"] = 0 BY DEF Zero, Encoder
<1>2. Cos(0) = 1 /\ Sin(0) = 0 BY DEF Cos, Sin
<1>3. Displacement(k, move, 0) = 0 BY <1>1, <1>2 DEF Displacement, Forward, Turned, AxisName
<1> QED BY <1>3 DEF Moved, NormAngle

\* A turn does not depend on the heading it starts from.
LEMMA TurnIgnoresHeading ==
    ASSUME NEW from, NEW move, NEW h, NEW g
    PROVE  Moved("a", from, move, h) = Moved("a", from, move, g)
BY DEF Moved, Displacement

\* A step that begins finds the estimator between two steps, and awaits the
\* motion the encoders have made.
LEMMA SampleKeepsPose ==
    ASSUME TypeOK, SumInv, PoseInv, NEW move \in Moves, Sample(move)
    PROVE  PoseInv'
<1> SUFFICES ASSUME ~overlapped' PROVE StepInv'
  BY DEF PoseInv, Sample
<1>1. ~overlapped /\ cpc = "idle" /\ cpc' = "idle" /\ spc = "idle" /\ spc' = "prev"
  BY DEF Sample
<1>2. IdleInv BY <1>1 DEF PoseInv
<1>3. ~fresh' /\ initialized' BY DEF Sample
<1>4. odom' = odom /\ prevEncoder' = prevEncoder BY DEF Sample, estimatorVars
<1>5. CASE fresh
  <2>1. prevEncoder = Empty /\ odom = Origin /\ truePose' = Origin
    BY <1>1, <1>2, <1>5 DEF IdleInv, Sample
  <2> QED BY <1>1, <1>3, <1>4, <2>1 DEF StepInv, Estimating
<1>6. CASE ~fresh
  <2>1. prevEncoder = sumEncoder /\ initialized /\ odom = truePose
    BY <1>1, <1>2, <1>6 DEF IdleInv
  <2>2. prevEncoder # Empty
    BY <2>1, OdometryAssumption DEF TypeOK
  <2>3. sumEncoder' = [e \in Encoder |-> sumEncoder[e] + move[e]]
    BY <2>1, SampleAddsMove
  <2>4. Uncounted' = move
    <3>1. \A e \in Encoder : sumEncoder'[e] - prevEncoder'[e] = move[e]
      <4> TAKE e \in Encoder
      <4>1. sumEncoder[e] \in Int /\ move[e] \in Int BY MoveType DEF TypeOK, Ticks
      <4> QED BY <1>4, <2>1, <2>3, <4>1
    <3>2. move = [e \in Encoder |-> move[e]] BY MoveType DEF Ticks
    <3> QED BY <3>1, <3>2 DEF Uncounted
  <2>5. \A k \in AxisName : truePose'[k] = Moved(k, odom'[k], Uncounted', odom'["a"])
    BY <1>4, <1>6, <2>1, <2>4 DEF Sample
  <2>6. Awaits(AxisName, Uncounted)'
    BY <2>5 DEF Awaits
  <2> QED BY <1>1, <1>3, <1>4, <2>2, <2>6 DEF StepInv, Estimating
<1> QED BY <1>5, <1>6

\* Storing an axis serves it, and no other, provided that what was loaded is still there.
LEMMA StoreServesAxis ==
    ASSUME TypeOK, NEW k \in AxisName, NEW pc, NEW next, StoreAxis(k, pc, next),
           NEW axes, k \in axes, k = "a" => axes = {"a"},
           Awaits(axes, motion), loaded = odom[k], k = "a" \/ heading = odom["a"]
    PROVE  Awaits(axes \ {k}, motion)'
<1>1. motion' = motion /\ truePose' = truePose
  BY DEF StoreAxis, localVars, historyVars
<1>2. odom \in [AxisName -> Int] BY DEF TypeOK, Pose
<1>3. \A j \in AxisName \ {k} : odom'[j] = odom[j]
  BY <1>2 DEF StoreAxis
<1>4. odom'[k] = truePose[k]
  <2>1. odom'[k] = Moved(k, odom[k], motion, heading)
    BY <1>2 DEF StoreAxis
  <2>2. truePose[k] = Moved(k, odom[k], motion, odom["a"])
    BY DEF Awaits
  <2> QED BY <2>1, <2>2, TurnIgnoresHeading
<1>5. k # "a" => odom'["a"] = odom["a"] BY <1>3 DEF AxisName
<1> QED BY <1>1, <1>3, <1>4, <1>5 DEF Awaits

\* Poses that agree on every axis are equal.
LEMMA SamePose ==
    ASSUME NEW p \in Pose, NEW q \in Pose, \A k \in AxisName : p[k] = q[k]
    PROVE  p = q
BY DEF Pose

\* Nothing a step or an undisturbing reset does breaks the invariant of the pose.
LEMMA NextKeepsPose == TypeOK /\ TypeOK' /\ SumInv /\ PoseInv /\ [Next]_vars => PoseInv'
<1> SUFFICES ASSUME TypeOK, TypeOK', SumInv, PoseInv, [Next]_vars PROVE PoseInv'
  OBVIOUS
<1>1. ASSUME NEW move \in Moves, Sample(move) PROVE PoseInv'
  BY <1>1, SampleKeepsPose
<1>2. CASE PrevEncoder
  <2> SUFFICES ASSUME ~overlapped PROVE StepInv'
    BY <1>2 DEF PrevEncoder, Goto, PoseInv, historyVars
  <2>1. StepInv /\ spc = "prev" /\ spc' = "delta"
    BY <1>2 DEF PrevEncoder, Goto, PoseInv
  <2>2. /\ cpc' = "idle" /\ ~fresh' /\ initialized'
        /\ odom' = odom /\ truePose' = truePose /\ sumEncoder' = sumEncoder
    BY <1>2, <2>1 DEF PrevEncoder, StepInv, monitorVars, historyVars
  <2>3. CASE prevEncoder = Empty
    <3>1. prevEncoder' = sumEncoder /\ prevEncoder' # Empty
      BY <1>2, <2>3, OdometryAssumption DEF PrevEncoder, TypeOK
    <3>2. Uncounted' = Zero
      <4>1. \A e \in Encoder : sumEncoder'[e] - prevEncoder'[e] = 0
        BY <2>2, <3>1 DEF TypeOK, Ticks
      <4> QED BY <4>1 DEF Uncounted, Zero
    <3>3. odom = Origin /\ truePose = Origin BY <2>1, <2>3 DEF StepInv
    <3>4. Awaits(AxisName, Uncounted)'
      BY <2>2, <3>2, <3>3, StandstillStays DEF Awaits, Origin, AxisName
    <3> QED BY <2>1, <2>2, <3>1, <3>4 DEF StepInv, Estimating
  <2>4. CASE prevEncoder # Empty
    <3>1. prevEncoder' = prevEncoder BY <1>2, <2>4 DEF PrevEncoder
    <3>2. Awaits(AxisName, Uncounted)'
      BY <2>1, <2>2, <2>4, <3>1 DEF StepInv, Awaits, Uncounted
    <3> QED BY <2>1, <2>2, <2>4, <3>1, <3>2 DEF StepInv, Estimating
  <2> QED BY <2>3, <2>4
<1>3. CASE Delta
  <2> SUFFICES ASSUME ~overlapped PROVE StepInv'
    BY <1>3 DEF Delta, Goto, PoseInv, historyVars
  <2>1. StepInv /\ spc = "delta" /\ prevEncoder # Empty
    BY <1>3 DEF Delta, Goto, PoseInv, StepInv
  <2>2. spc' = "store" /\ motion' = Uncounted
    BY <1>3, <2>1 DEF Delta, Goto, Uncounted
  <2>3. /\ cpc' = "idle" /\ ~fresh' /\ initialized'
        /\ odom' = odom /\ truePose' = truePose /\ prevEncoder' = prevEncoder
    BY <1>3, <2>1 DEF Delta, StepInv, monitorVars, estimatorVars, historyVars
  <2>4. Awaits(AxisName, motion)'
    BY <2>1, <2>2, <2>3 DEF StepInv, Awaits
  <2> QED BY <2>1, <2>2, <2>3, <2>4 DEF StepInv, Estimating
<1>4. CASE StoreEncoder
  <2> SUFFICES ASSUME ~overlapped PROVE StepInv'
    BY <1>4 DEF StoreEncoder, Goto, PoseInv, historyVars
  <2>1. StepInv /\ spc = "store" /\ prevEncoder # Empty
    BY <1>4 DEF StoreEncoder, Goto, PoseInv, StepInv
  <2>2. spc' = "load_x" /\ prevEncoder' = sumEncoder
    BY <1>4, <2>1 DEF StoreEncoder, StoredEncoder, Goto
  <2>3. /\ cpc' = "idle" /\ ~fresh' /\ initialized' /\ sumEncoder' = sumEncoder
        /\ odom' = odom /\ truePose' = truePose /\ motion' = motion
    BY <1>4, <2>1 DEF StoreEncoder, StepInv, monitorVars, localVars, historyVars
  <2>4. Awaits(AxisName, motion)'
    BY <2>1, <2>3 DEF StepInv, Awaits
  <2> QED BY <2>1, <2>2, <2>3, <2>4 DEF StepInv, Estimating
<1>5. ASSUME NEW k \in AxisName, NEW pc \in Estimating, NEW next \in Estimating, LoadAxis(k, pc, next),
             <<k, pc, next>> \in {<<"x", "load_x", "heading_x">>, <<"y", "load_y", "heading_y">>,
                                  <<"a", "load_a", "store_a">>}
      PROVE  PoseInv'
  <2> SUFFICES ASSUME ~overlapped PROVE StepInv'
    BY <1>5 DEF LoadAxis, Goto, PoseInv, historyVars, Estimating
  <2>1. StepInv /\ spc = pc /\ spc' = next
    BY <1>5 DEF LoadAxis, Goto, PoseInv, Estimating
  <2>2. /\ cpc' = cpc /\ fresh' = fresh /\ initialized' = initialized /\ sumEncoder' = sumEncoder
        /\ prevEncoder' = prevEncoder /\ odom' = odom /\ truePose' = truePose /\ motion' = motion
        /\ loaded' = odom[k]
    BY <1>5 DEF LoadAxis, monitorVars, estimatorVars, historyVars
  <2>3. \A axes : Awaits(axes, motion)' <=> Awaits(axes, motion)
    BY <2>2 DEF Awaits
  <2> QED BY <1>5, <2>1, <2>2, <2>3 DEF StepInv, Estimating
<1>6. ASSUME NEW pc \in Estimating, NEW next \in Estimating, ReadHeading(pc, next),
             <<pc, next>> \in {<<"heading_x", "store_x">>, <<"heading_y", "store_y">>}
      PROVE  PoseInv'
  <2> SUFFICES ASSUME ~overlapped PROVE StepInv'
    BY <1>6 DEF ReadHeading, Goto, PoseInv, historyVars, Estimating
  <2>1. StepInv /\ spc = pc /\ spc' = next
    BY <1>6 DEF ReadHeading, Goto, PoseInv, Estimating
  <2>2. /\ cpc' = cpc /\ fresh' = fresh /\ initialized' = initialized /\ sumEncoder' = sumEncoder
        /\ prevEncoder' = prevEncoder /\ odom' = odom /\ truePose' = truePose /\ motion' = motion
        /\ loaded' = loaded /\ heading' = odom["a"]
    BY <1>6 DEF ReadHeading, monitorVars, estimatorVars, historyVars
  <2>3. \A axes : Awaits(axes, motion)' <=> Awaits(axes, motion)
    BY <2>2 DEF Awaits
  <2> QED BY <1>6, <2>1, <2>2, <2>3 DEF StepInv, Estimating
<1>7. ASSUME NEW k \in AxisName, NEW pc \in Estimating, NEW next \in Estimating, StoreAxis(k, pc, next),
             <<k, pc, next>> \in {<<"x", "store_x", "load_y">>, <<"y", "store_y", "load_a">>,
                                  <<"a", "store_a", "read_x">>}
      PROVE  PoseInv'
  <2> SUFFICES ASSUME ~overlapped PROVE StepInv'
    BY <1>7 DEF StoreAxis, Goto, PoseInv, historyVars, Estimating
  <2>1. StepInv /\ spc = pc /\ spc' = next
    BY <1>7 DEF StoreAxis, Goto, PoseInv, Estimating
  <2>2. /\ cpc' = cpc /\ fresh' = fresh /\ initialized' = initialized /\ sumEncoder' = sumEncoder
        /\ prevEncoder' = prevEncoder
    BY <1>7 DEF StoreAxis, monitorVars, historyVars
  <2>3. CASE k = "x"
    <3>1. pc = "store_x" /\ next = "load_y" BY <1>7, <2>3
    <3>2. Awaits(AxisName \ {"x"}, motion)'
      BY <1>7, <2>1, <2>3, <3>1, StoreServesAxis DEF StepInv
    <3>3. AxisName \ {"x"} = {"y", "a"} BY DEF AxisName
    <3> QED BY <2>1, <2>2, <3>1, <3>2, <3>3 DEF StepInv, Estimating
  <2>4. CASE k = "y"
    <3>1. pc = "store_y" /\ next = "load_a" BY <1>7, <2>4
    <3>2. Awaits({"y", "a"} \ {"y"}, motion)'
      BY <1>7, <2>1, <2>4, <3>1, StoreServesAxis DEF StepInv
    <3>3. {"y", "a"} \ {"y"} = {"a"} OBVIOUS
    <3> QED BY <2>1, <2>2, <3>1, <3>2, <3>3 DEF StepInv, Estimating
  <2>5. CASE k = "a"
    <3>1. pc = "store_a" /\ next = "read_x" BY <1>7, <2>5
    <3>2. Awaits({"a"} \ {"a"}, motion)'
      BY <1>7, <2>1, <2>5, <3>1, StoreServesAxis DEF StepInv
    <3>3. \A j \in AxisName : truePose'[j] = odom'[j]
      BY <3>2 DEF Awaits
    <3>4. odom' = truePose'
      BY <3>3, SamePose DEF TypeOK
    <3> QED BY <2>1, <2>2, <3>1, <3>4 DEF StepInv, Estimating
  <2> QED BY <2>3, <2>4, <2>5 DEF AxisName
<1>8. ASSUME NEW k \in AxisName, NEW pc \in Estimating, NEW next \in Estimating, ReadAxis(k, pc, next),
             <<k, pc, next>> \in {<<"x", "read_x", "read_y">>, <<"y", "read_y", "read_a">>,
                                  <<"a", "read_a", "report">>}
      PROVE  PoseInv'
  <2> SUFFICES ASSUME ~overlapped PROVE StepInv'
    BY <1>8 DEF ReadAxis, Goto, PoseInv, historyVars, Estimating
  <2>1. StepInv /\ spc = pc /\ spc' = next
    BY <1>8 DEF ReadAxis, Goto, PoseInv, Estimating
  <2>2. /\ cpc' = cpc /\ fresh' = fresh /\ initialized' = initialized /\ sumEncoder' = sumEncoder
        /\ prevEncoder' = prevEncoder /\ odom' = odom /\ truePose' = truePose
    BY <1>8 DEF ReadAxis, monitorVars, estimatorVars, historyVars
  <2>3. pose'[k] = odom[k] /\ \A j \in AxisName \ {k} : pose'[j] = pose[j]
    BY <1>8 DEF ReadAxis, TypeOK, Pose
  <2> QED BY <1>8, <2>1, <2>2, <2>3 DEF StepInv, Estimating, AxisName
<1>9. CASE Report
  <2> SUFFICES ASSUME ~overlapped PROVE IdleInv'
    BY <1>9 DEF Report, Goto, PoseInv, historyVars
  <2>1. StepInv /\ spc = "report"
    BY <1>9 DEF Report, Goto, PoseInv
  <2>2. /\ cpc' = cpc /\ fresh' = fresh /\ initialized' = initialized /\ sumEncoder' = sumEncoder
        /\ prevEncoder' = prevEncoder /\ odom' = odom /\ truePose' = truePose /\ reported' = pose
    BY <1>9 DEF Report, monitorVars, estimatorVars, historyVars
  <2>3. pose = odom
    BY <2>1, SamePose DEF StepInv, TypeOK, AxisName
  <2> QED BY <2>1, <2>2, <2>3 DEF StepInv, IdleInv, Estimating
<1>10. CASE ResetEncoder
  <2> SUFFICES ASSUME ~overlapped' PROVE IdleInv' /\ spc' = "idle"
    BY DEF PoseInv
  <2>1. ~overlapped /\ spc = "idle" /\ spc' = "idle"
    BY <1>10 DEF ResetEncoder
  <2> QED BY <1>10, <2>1 DEF ResetEncoder, IdleInv
<1>11. ASSUME NEW k \in AxisName, NEW pc, NEW next, ResetAxis(k, pc, next),
              <<k, pc, next>> \in {<<"x", "reset_x", "reset_y">>, <<"y", "reset_y", "reset_a">>,
                                   <<"a", "reset_a", "idle">>}
       PROVE  PoseInv'
  <2> SUFFICES ASSUME ~overlapped PROVE IdleInv' /\ spc' = "idle"
    BY <1>11 DEF ResetAxis, PoseInv
  <2>1. IdleInv /\ spc = "idle" /\ spc' = "idle" /\ cpc = pc /\ cpc' = next
    BY <1>11 DEF ResetAxis, PoseInv, StepInv
  <2>2. prevEncoder = Empty /\ prevEncoder' = Empty
    BY <1>11, <2>1 DEF ResetAxis, IdleInv
  <2>3. odom'[k] = 0 /\ \A j \in AxisName \ {k} : odom'[j] = odom[j]
    BY <1>11 DEF ResetAxis, TypeOK, Pose
  <2>4. CASE next # "idle"
    BY <1>11, <2>1, <2>2, <2>3, <2>4 DEF IdleInv, AxisName
  <2>5. CASE next = "idle"
    <3>1. k = "a" /\ pc = "reset_a" BY <1>11, <2>5
    <3>2. truePose' = Origin /\ fresh' BY <1>11, <2>5 DEF ResetAxis
    <3>3. \A j \in AxisName : odom'[j] = Origin[j]
      BY <2>1, <2>3, <3>1 DEF IdleInv, AxisName, Origin
    <3>4. Origin \in Pose BY DEF Origin, Pose, AxisName
    <3>5. odom' = Origin
      BY <3>3, <3>4, SamePose DEF TypeOK
    <3> QED BY <2>1, <2>2, <2>5, <3>2, <3>5 DEF IdleInv
  <2> QED BY <2>4, <2>5
<1>12. CASE UNCHANGED vars
  BY <1>12 DEF vars, monitorVars, estimatorVars, localVars, historyVars, PoseInv, IdleInv, StepInv,
               Awaits, Uncounted
<1> QED
  BY <1>1, <1>2, <1>3, <1>4, <1>5, <1>6, <1>7, <1>8, <1>9, <1>10, <1>11, <1>12
  DEF Next, MonitorStep, Reset, Estimating, AxisName

\* As long as no reset has overlapped a step, the odometry after a step is the
\* pose of the platform since the last reset, and the one clients get.
THEOREM OdometryIsTrue == Spec => []UndisturbedPoseIsTrue
<1>1. Init => SumInv /\ PoseInv
  BY DEF Init, SumInv, SumIsRotation, PoseInv, IdleInv
<1>2. TypeOK /\ SumInv /\ [Next]_vars => SumInv'
  BY SumInvariant
<1>3. PoseInv => UndisturbedPoseIsTrue
  BY DEF PoseInv, IdleInv, UndisturbedPoseIsTrue
<1> QED BY <1>1, <1>2, <1>3, Typing, NextKeepsPose, PTL DEF Spec
=============================================================================
