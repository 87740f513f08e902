------------------------------ MODULE Odometry ------------------------------
(***************************************************************************)
(* PlatformMonitor and its PlatformPoseEstimator: the EtherCAT thread      *)
(* updates them in step(), the request thread resets them.  No lock guards *)
(* _prev_encoder and _odom_x, _odom_y, _odom_a, so every statement that    *)
(* touches them is an action of its own.                                   *)
(*                                                                         *)
(* Abstracted: one drive, its pivot forward, stands for all; an encoder    *)
(* counts ticks, Turn of them to a revolution; in one period the platform  *)
(* either drives straight or turns on the spot by quarter turns, so that   *)
(* sines and cosines are integers; the time delta, by which displacements  *)
(* are divided and then multiplied again, cancels out.                     *)
(***************************************************************************)
EXTENDS Integers

CONSTANTS
    Turn,       \* ticks of a revolution, the 2 pi of _update_encoders
    Moves,      \* what the two encoders can move in a period
    Resets,     \* whether clients reset the odometry
    MaxSteps,   \* bound on the steps
    Empty       \* the empty list _prev_encoder is reset to

Encoder == {"left", "right"}
Ticks == [Encoder -> Int]
AxisName == {"x", "y", "a"}

\* A straight move turns both wheels alike, a turn on the spot against each
\* other, and no wheel makes half a revolution in a period.
ASSUME OdometryAssumption ==
    /\ Turn \in Nat \ {0}
    /\ Moves \subseteq {move \in Ticks : \A e \in Encoder : 2 * move[e] < Turn /\ -Turn < 2 * move[e]}
    /\ \A move \in Moves : move["left"] = move["right"] \/ move["left"] = -move["right"]
    /\ Resets \in BOOLEAN
    /\ MaxSteps \in Nat
    /\ Empty \notin Ticks

VARIABLES
    \* PlatformMonitor
    encoder,        \* the wrapping counters in the input buffer of the drive
    initialized, lastEncoder, sumEncoder,
    reported,       \* _odometry_pose
    \* PlatformPoseEstimator
    prevEncoder, odom,
    \* the EtherCAT thread in PlatformMonitor.step, and its locals
    spc, motion, loaded, heading, pose,
    \* the request thread in reset_odometry
    cpc,
    \* history: the rotation of the encoders since the first step, the pose of
    \* the platform since the last reset, whether that reset awaits a step,
    \* whether a reset ever overlapped a step, the steps begun
    rotation, truePose, fresh, overlapped, steps

monitorVars   == <<encoder, initialized, lastEncoder, sumEncoder>>
estimatorVars == <<prevEncoder, odom>>
localVars     == <<motion, loaded, heading, pose>>
historyVars   == <<rotation, truePose, fresh, overlapped, steps>>
vars == <<monitorVars, reported, estimatorVars, spc, localVars, cpc, historyVars>>

Zero == [e \in Encoder |-> 0]
Origin == [k \in AxisName |-> 0]

-----------------------------------------------------------------------------
(* Angles and displacements. *)

\* Mutant: only forward passes over zero are seen.
UnwrapForward(last, cur) ==
    LET d == cur - last IN IF 2 * d < -Turn THEN d + Turn ELSE d

\* The part of _update_encoders that tells a wrap from a move: a difference of
\* more than half a turn is a pass over zero.
Unwrap(last, cur) ==
    LET d == cur - last
    IN  IF 2 * d < -Turn THEN d + Turn ELSE IF 2 * d > Turn THEN d - Turn ELSE d

Cos(quarters) == CASE quarters = 0 -> 1 [] quarters = 2 -> -1 [] OTHER -> 0
Sin(quarters) == CASE quarters = 1 -> 1 [] quarters = 3 -> -1 [] OTHER -> 0

\* Mutant: the heading is not normalized.
NormAngleForgotten(quarters) == quarters
\* _norm_angle.
NormAngle(quarters) == quarters % 4

\* _estimate_velocity, times dt: straight moves and turns, from encoder moves.
Forward(move) == IF move["left"] = move["right"] THEN move["left"] ELSE 0
Turned(move)  == IF move["left"] = move["right"] THEN 0 ELSE move["right"]

\* _estimate_pose: what a motion adds to an axis at some heading.
Displacement(k, move, h) ==
    CASE k = "x" -> Forward(move) * Cos(h)
      [] k = "y" -> Forward(move) * Sin(h)
      [] k = "a" -> Turned(move)

Moved(k, from, move, h) ==
    LET to == from + Displacement(k, move, h) IN IF k = "a" THEN NormAngle(to) ELSE to

-----------------------------------------------------------------------------
Init ==
    /\ encoder \in [Encoder -> 0..Turn - 1]
    /\ initialized = FALSE /\ lastEncoder = Zero /\ sumEncoder = Zero
    /\ reported = Origin
    /\ prevEncoder = Empty /\ odom = Origin
    /\ spc = "idle" /\ motion = Zero /\ loaded = 0 /\ heading = 0 /\ pose = Origin
    /\ cpc = "idle"
    /\ rotation = Zero /\ truePose = Origin /\ fresh = TRUE /\ overlapped = FALSE /\ steps = 0

(***************************************************************************)
(* PlatformMonitor.step up to the pose estimator: the platform has moved   *)
(* since the last step, the encoders are read and summed up.  The first    *)
(* step only remembers them.  (History: the true pose follows the motion,  *)
(* except that the estimator takes its first step after a reset for the    *)
(* origin.)                                                                *)
(***************************************************************************)
Sample(move) ==
    /\ spc = "idle" /\ steps < MaxSteps
    /\ encoder' = [e \in Encoder |-> (encoder[e] + move[e]) % Turn]
    /\ initialized' = TRUE
    /\ lastEncoder' = encoder'
    /\ sumEncoder' = [e \in Encoder |->
         sumEncoder[e] + IF initialized THEN Unwrap(lastEncoder[e], encoder'[e]) ELSE 0]
    /\ spc' = "prev"
    /\ rotation' = [e \in Encoder |-> rotation[e] + IF initialized THEN move[e] ELSE 0]
    /\ truePose' = IF fresh THEN Origin
                   ELSE [k \in AxisName |-> Moved(k, truePose[k], move, truePose["a"])]
    /\ fresh' = FALSE
    /\ overlapped' = (overlapped \/ cpc # "idle")
    /\ steps' = steps + 1
    /\ UNCHANGED <<reported, estimatorVars, localVars, cpc>>

Goto(pc, next) == spc = pc /\ spc' = next

\* _estimate_velocity: the first time, the previous encoder values are the current ones.
PrevEncoder ==
    /\ Goto("prev", "delta")
    /\ prevEncoder' = IF prevEncoder = Empty THEN sumEncoder ELSE prevEncoder
    /\ UNCHANGED <<monitorVars, reported, odom, localVars, cpc, historyVars>>

\* Indexing the empty list raises IndexError, in the loop over the drives ...
Delta ==
    /\ IF prevEncoder = Empty
       THEN Goto("delta", "crashed") /\ UNCHANGED motion
       ELSE /\ Goto("delta", "store")
            /\ motion' = [e \in Encoder |-> sumEncoder[e] - prevEncoder[e]]
    /\ UNCHANGED <<monitorVars, reported, estimatorVars, loaded, heading, pose, cpc, historyVars>>

\* Mutant: the previous encoder values stay.
StoredEncoderKept == prevEncoder
StoredEncoder == sumEncoder

\* ... and so does storing into it.
StoreEncoder ==
    /\ IF prevEncoder = Empty
       THEN Goto("store", "crashed") /\ UNCHANGED prevEncoder
       ELSE Goto("store", "load_x") /\ prevEncoder' = StoredEncoder
    /\ UNCHANGED <<monitorVars, reported, odom, localVars, cpc, historyVars>>

\* _estimate_pose: the augmented assignments load an axis, read the heading,
\* and store the axis.
LoadAxis(k, pc, next) ==
    /\ Goto(pc, next)
    /\ loaded' = odom[k]
    /\ UNCHANGED <<monitorVars, reported, estimatorVars, motion, heading, pose, cpc, historyVars>>

ReadHeading(pc, next) ==
    /\ Goto(pc, next)
    /\ heading' = odom["a"]
    /\ UNCHANGED <<monitorVars, reported, estimatorVars, motion, loaded, pose, cpc, historyVars>>

StoreAxis(k, pc, next) ==
    /\ Goto(pc, next)
    /\ odom' = [odom EXCEPT ![k] = Moved(k, loaded, motion, heading)]
    /\ UNCHANGED <<monitorVars, reported, prevEncoder, localVars, cpc, historyVars>>

\* The three axes of the result are read one after the other.
ReadAxis(k, pc, next) ==
    /\ Goto(pc, next)
    /\ pose' = [pose EXCEPT ![k] = odom[k]]
    /\ UNCHANGED <<monitorVars, reported, estimatorVars, motion, loaded, heading, cpc, historyVars>>

Report ==
    /\ Goto("report", "idle")
    /\ reported' = pose
    /\ UNCHANGED <<monitorVars, estimatorVars, localVars, cpc, historyVars>>

MonitorStep ==
    \/ \E move \in Moves : Sample(move)
    \/ PrevEncoder \/ Delta \/ StoreEncoder
    \/ LoadAxis("x", "load_x", "heading_x")
    \/ ReadHeading("heading_x", "store_x")
    \/ StoreAxis("x", "store_x", "load_y")
    \/ LoadAxis("y", "load_y", "heading_y")
    \/ ReadHeading("heading_y", "store_y")
    \/ StoreAxis("y", "store_y", "load_a")
    \/ LoadAxis("a", "load_a", "store_a")
    \/ StoreAxis("a", "store_a", "read_x")
    \/ ReadAxis("x", "read_x", "read_y")
    \/ ReadAxis("y", "read_y", "read_a")
    \/ ReadAxis("a", "read_a", "report")
    \/ Report

-----------------------------------------------------------------------------
(* reset_odometry. *)

ResetEncoder ==
    /\ Resets /\ cpc = "idle"
    /\ cpc' = "reset_x"
    /\ prevEncoder' = Empty
    /\ overlapped' = (overlapped \/ spc # "idle")
    /\ UNCHANGED <<monitorVars, reported, odom, spc, localVars, rotation, truePose, fresh, steps>>

ResetAxis(k, pc, next) ==
    /\ cpc = pc /\ cpc' = next
    /\ odom' = [odom EXCEPT ![k] = 0]
    /\ IF next = "idle" THEN truePose' = Origin /\ fresh' = TRUE
                        ELSE UNCHANGED <<truePose, fresh>>
    /\ UNCHANGED <<monitorVars, reported, prevEncoder, spc, localVars, rotation, overlapped, steps>>

Reset == \/ ResetEncoder
         \/ ResetAxis("x", "reset_x", "reset_y")
         \/ ResetAxis("y", "reset_y", "reset_a")
         \/ ResetAxis("a", "reset_a", "idle")

Next == MonitorStep \/ Reset

Spec == Init /\ [][Next]_vars

-----------------------------------------------------------------------------
(* Properties. *)

StepPc == {"idle", "prev", "delta", "store", "load_x", "heading_x", "store_x", "load_y",
           "heading_y", "store_y", "load_a", "store_a", "read_x", "read_y", "read_a",
           "report", "crashed"}
Pose == {p \in [AxisName -> Int] : p["a"] \in 0..3}

\* Every variable keeps its type; headings stay between -pi and pi.
TypeOK ==
    /\ encoder \in [Encoder -> 0..Turn - 1] /\ lastEncoder \in [Encoder -> 0..Turn - 1]
    /\ initialized \in BOOLEAN /\ sumEncoder \in Ticks
    /\ reported \in Pose /\ odom \in Pose /\ pose \in Pose
    /\ prevEncoder \in Ticks \cup {Empty}
    /\ spc \in StepPc /\ motion \in Ticks /\ loaded \in Int /\ heading \in 0..3
    /\ cpc \in {"idle", "reset_x", "reset_y", "reset_a"}
    /\ rotation \in Ticks /\ truePose \in Pose /\ fresh \in BOOLEAN
    /\ overlapped \in BOOLEAN /\ steps \in Nat

\* _update_encoders counts the rotation of the wheels exactly, in both
\* directions and however often the encoders wrap.
SumIsRotation == sumEncoder = rotation

\* As long as no reset has overlapped a step, the odometry after a step is the
\* pose of the platform since the last reset, and the one clients get.
UndisturbedPoseIsTrue ==
    ~overlapped /\ spc = "idle" /\ cpc = "idle" =>
        /\ odom = truePose
        /\ ~fresh => reported = truePose
=============================================================================
