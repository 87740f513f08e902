----------------------------- MODULE MCOdometry -----------------------------
(* Instances of Odometry for TLC. *)
EXTENDS Odometry

Move(l, r) == [e \in Encoder |-> IF e = "left" THEN l ELSE r]

\* Straight moves either way, up to just under half a turn of the 5 ticks, and
\* quarter turns past the heading 0.
MCMoves == {Move(2, 2), Move(-2, -2), Move(1, -1)}
MCFewMoves == {Move(1, 1), Move(-1, 1)}
=============================================================================
