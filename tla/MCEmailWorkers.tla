--------------------------- MODULE MCEmailWorkers ---------------------------
(* Small instances of EmailWorkers.                                         *)
EXTENDS EmailWorkers

CONSTANTS j1, j2

MCPriority == [j \in Job |-> IF j = j1 THEN 10 ELSE 50]
=============================================================================
