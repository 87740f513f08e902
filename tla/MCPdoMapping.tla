---------------------------- MODULE MCPdoMapping -----------------------------
(* A slave with one output PDO and two input PDOs, whose structures take up *)
(* to three mailboxes in complete access.                                  *)
EXTENDS PdoMapping

MCOd ==
  [i \in {7168, 7186, 7187, 5632, 6656, 6657} |->
     CASE i = 7168 -> <<1, 2, 3, 4>>
       [] i = 7186 -> <<5632>>
       [] i = 7187 -> <<6656, 6657>>
       [] i = 5632 -> <<16, 8>>
       [] i = 6656 -> <<8>>
       [] i = 6657 -> <<16>>]

MCEntryBytes ==
  [i \in DOMAIN MCOd |-> IF i = 7168 THEN 1
                         ELSE IF i \in {7186, 7187} THEN 2 ELSE 4]

MCEnvironments ==
  {[lossy |-> {"read"}, slow |-> FALSE, losses |-> 2, emergencies |-> 1,
    calls |-> 2],
   [lossy |-> {"write", "read", "repeat"}, slow |-> TRUE, losses |-> 1,
    emergencies |-> 0, calls |-> 1]}

MCWriteData == {<<1>>, <<1, 2, 3, 4, 5>>}

ASSUME WellFormedAssumption == WellFormed
=============================================================================
