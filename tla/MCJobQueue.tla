----------------------------- MODULE MCJobQueue -----------------------------
(* Small instances of JobQueue: an old job of normal priority and two       *)
(* high-priority jobs of different age.                                     *)
EXTENDS JobQueue

CONSTANTS j1, j2, j3

MCPriority  == [j \in Job |-> IF j = j1 THEN 50 ELSE 100]
MCCreatedAt == [j \in Job |-> CASE j = j1 -> 1 [] j = j2 -> 3 [] j = j3 -> 2]
=============================================================================
