-------------------------------- MODULE MCCrew --------------------------------
(* A small crew: three subtasks without needs and one that needs two of them.  *)
EXTENDS Crew

CONSTANTS t1, t2, t3, t4

Needs == [t \in Task |-> IF t = t4 THEN {t1, t2} ELSE {}]

Listed == [t \in Task |-> CASE t = t1 -> 0 [] t = t2 -> 1 [] t = t3 -> 2 [] OTHER -> 3]

===============================================================================
