-------------------------- MODULE MCPlatformDriver --------------------------
(* Instances of PlatformDriver for TLC. *)
EXTENDS PlatformDriver

Cmd(x, y, a, t, align) ==
    [vel |-> [k \in Axis |-> CASE k = "x" -> x [] k = "y" -> y [] k = "a" -> a],
     timeout |-> t, align |-> align]

\* A forward and a sideways command at the linear limit, and three illegal ones.
MCCommands == {Cmd(2, 0, 0, 1, FALSE), Cmd(0, -2, 1, 0, TRUE),
               Cmd(2, 1, 0, 1, FALSE), Cmd(0, 0, 2, 1, FALSE), Cmd(0, 0, 0, -1, FALSE)}
MCOneCommand == {Cmd(2, 0, 0, 1, FALSE)}
MCTypes == {"VELOCITY", "COMPLIANT_WEAK"}
MCNoTypes == {}
=============================================================================
