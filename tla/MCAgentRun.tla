------------------------------ MODULE MCAgentRun ------------------------------
(* Small instances of AgentRun: requests for one agent, schedules of another.  *)
EXTENDS AgentRun, TLC

CONSTANTS r1, r2, s1, s2, a1, a2, eva

Agents == [r \in Run |-> IF r \in Cron THEN a2 ELSE a1]

(* Eva starts the requests.                                                     *)
Callers == [r \in Run |-> IF r \in Cron THEN NoUser ELSE eva]

MixedModes == [r \in Run |-> IF r = r2 THEN "react" ELSE "standard"]

(* The two schedules do the same.                                               *)
Schedules == Permutations(Cron)

(* What the guards and the properties read: what a session loaded until it is    *)
(* written back, what a run cost until it is over, and whether its row is honest.  *)
Relevant ==
  <<pc, row, rowCost, debt, spent, lost,
    [r \in Run |-> IF pc[r] = "recorded" THEN seen[r] ELSE 0],
    [r \in Run |-> IF pc[r] = "billed" THEN base[r] ELSE 0],
    [r \in Run |-> IF pc[r] = "ended" THEN <<Honest(r)>>
                   ELSE <<outcome[r], used[r], aside[r], cost[r]>>]>>

===============================================================================
