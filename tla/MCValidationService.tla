------------------------- MODULE MCValidationService -------------------------
(* Small instances of ValidationService.                                    *)
EXTENDS ValidationService

CONSTANTS j1, j2

MCPriority  == [j \in Job |-> IF j = j1 THEN 50 ELSE 100]
MCCreatedAt == [j \in Job |-> 1]
==============================================================================
