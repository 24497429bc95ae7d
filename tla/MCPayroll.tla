------------------------------- MODULE MCPayroll -------------------------------
(* Small instances of Payroll: two employees, one of them with bonuses.           *)
EXTENDS Payroll

CONSTANTS c1, c2, ana, ben, b1, b2, q1, q2

Owners == [b \in Bonus |-> ana]

===============================================================================
