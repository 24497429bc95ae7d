------------------------------ MODULE MCRunSlots ------------------------------
(* Small instances of RunSlots: two tenants and the key "unknown", parents    *)
(* that hand off to children (which carry no tenant), crew subtasks and       *)
(* streams that escape.                                                      *)
EXTENDS RunSlots

CONSTANTS r1, r2, r3, r4, r5, r6, tA, tB, tU

MCTenant == {tA, tB, tU}

MCOwnTenant == [r \in Run |-> IF r \in {r4, r5} THEN tB ELSE tA]

(* r3 is r1's hand-off child, r5 is r4's.                                     *)
HandOffs == [r \in Run |-> CASE r = r3 -> r1 [] r = r5 -> r4 [] OTHER -> NoRun]

===============================================================================
