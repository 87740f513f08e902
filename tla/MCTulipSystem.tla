--------------------------- MODULE MCTulipSystem ----------------------------
(* An instance of TulipSystem for TLC. *)
EXTENDS TulipSystem

\* A handler that raises at first, one that answers with an error, the stop; a
\* class without a handler ends the request thread as the first one does.
MCKinds == {"aligned", "illegal_velocity", "stop"}
=============================================================================
