--------------------------- MODULE MCEtherCATMaster ---------------------------
EXTENDS EtherCATMaster

(* Serial numbers: no two slaves are the same. *)
MCId == [s \in 1 .. 2 |-> s]
=============================================================================
