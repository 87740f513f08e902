---------------------------- MODULE MCKeloModules ----------------------------
EXTENDS KeloModules

(* More than full speed backwards, full speed, and standstill. *)
MCCommands == {-3, 0, 2}
=============================================================================
