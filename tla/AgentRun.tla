------------------------------- MODULE AgentRun -------------------------------
(***************************************************************************)
(* What one run of an agent (_execute_agent_run_inner in                    *)
(* backend/app/services/agent_executor.py) leaves in the database: its row  *)
(* in agent_execution_runs, the debt of the user who started it             *)
(* (agent_cost_tracker.py) and the spending of its agent (agent_budget.py). *)
(*                                                                          *)
(* A run works in one database session.  What it writes is kept by the      *)
(* session's next commit and lost when the session is closed without one.   *)
(* After the run's own commit the caller decides: agent_scheduler, run-now  *)
(* (api/v1/agent_schedules.py), a crew and the parent of a hand-off commit  *)
(* their session again, a request's session is closed (api/dependencies.py).*)
(* The run slots are in RunSlots; here a run is refused or granted a slot.  *)
(* What a crew's subtasks do to the session they share is in Crew.          *)
(***************************************************************************)
EXTENDS Integers, FiniteSets, FiniteSetsExt

CONSTANTS
  Run, Agent, User,
  NoUser,      \* the payload's user_id names no user (scheduler) or BYOK keys pay
  AgentOf, UserOf,
  ModeOf,      \* how the agent works: workflow, blackboard, plan, react, standard
  Cron,        \* the runs started by agent_scheduler
  Limit,       \* daily_limit_usd of every cap
  Estimate,    \* estimated_cost
  Costs,       \* what the LLM calls of a run may cost
  MaxLost      \* bound on runs that end with their process or with a failed commit

Modes == {"workflow", "blackboard", "plan", "react", "standard"}

ASSUME RunAssumption ==
  /\ IsFiniteSet(Run) /\ NoUser \notin User
  /\ AgentOf \in [Run -> Agent] /\ UserOf \in [Run -> User \cup {NoUser}]
  /\ ModeOf \in [Run -> Modes]
  /\ Cron \subseteq Run

ASSUME AmountAssumption ==
  Limit \in Nat /\ Estimate \in Nat /\ Costs \subseteq Nat /\ MaxLost \in Nat

VARIABLES
  pc, outcome,
  used,      \* what the LLM calls of the run come to, by agent_cost_tracker's prices
  aside,     \* the part of it for calls that check the reply
  cost,      \* run_log.cost_usd
  row,       \* the committed status of its row, "none" without a row
  rowCost,   \* the committed cost_usd
  seen,      \* the agent's daily_spent as record_cost loaded it
  base,      \* the user's current_debt as apply_reseller_billing loaded it
  debt,      \* users.current_debt
  spent,     \* agent_budget_caps.daily_spent
  lost

session == <<used, aside, cost, seen, base>>
vars == <<pc, outcome, session, row, rowCost, debt, spent, lost>>

-------------------------------------------------------------------------------
TypeOK ==
  /\ pc \in [Run -> {"idle", "opened", "working", "worked", "billed", "logged", "recorded",
                   "ended"}]
  /\ outcome \in [Run -> {"none", "blocked", "throttled", "success", "failed", "paused",
                        "lost"}]
  /\ row \in [Run -> {"none", "running", "success", "failed", "paused"}]
  /\ used \in [Run -> Nat] /\ aside \in [Run -> Nat]
  /\ cost \in [Run -> Nat] /\ rowCost \in [Run -> Nat]
  /\ seen \in [Run -> Nat] /\ base \in [Run -> Nat]
  /\ debt \in [User -> Nat] /\ spent \in [Agent -> Nat]
  /\ lost \in 0 .. MaxLost

Init ==
  /\ pc = [r \in Run |-> "idle"]
  /\ outcome = [r \in Run |-> "none"]
  /\ used = [r \in Run |-> 0] /\ aside = [r \in Run |-> 0] /\ cost = [r \in Run |-> 0]
  /\ row = [r \in Run |-> "none"] /\ rowCost = [r \in Run |-> 0]
  /\ seen = [r \in Run |-> 0] /\ base = [r \in Run |-> 0]
  /\ debt = [u \in User |-> 0] /\ spent = [a \in Agent |-> 0]
  /\ lost = 0

Open(r) == pc[r] \notin {"idle", "ended"}

(* check_due_schedules runs one schedule after the other.                       *)
MayStart(r) == pc[r] = "idle" /\ (r \in Cron => \A x \in Cron : ~Open(x))

Goto(r, s) == pc' = [pc EXCEPT ![r] = s]

End(r, o) == Goto(r, "ended") /\ outcome' = [outcome EXCEPT ![r] = o]

(* Mutant: the estimate is not added.                                           *)
OverBudgetLater(a) == spent[a] > Limit

(* check_budget: BLOCKED                                                        *)
OverBudget(a) == Limit > 0 /\ spent[a] + Estimate > Limit

(* Up to the flush of the run's row, which is not committed yet.                 *)
Begin(r) ==
  /\ MayStart(r)
  /\ IF OverBudget(AgentOf[r])
     THEN End(r, "blocked") ELSE Goto(r, "opened") /\ UNCHANGED outcome
  /\ UNCHANGED <<session, row, rowCost, debt, spent, lost>>

(* No slot: returned at once, the row left as it was flushed for the caller's     *)
(* session to keep; the scheduler keeps it.                                       *)
Throttle(r) ==
  /\ pc[r] = "opened"
  /\ End(r, "throttled")
  /\ \E kept \in {TRUE, (r \in Cron)} :
       row' = [row EXCEPT ![r] = IF kept THEN "running" ELSE @]
  /\ UNCHANGED <<session, rowCost, debt, spent, lost>>

Grant(r) ==
  /\ pc[r] = "opened"
  /\ Goto(r, "working")
  /\ UNCHANGED <<outcome, session, row, rowCost, debt, spent, lost>>

(* A tool handler commits the session it shares with the run.                    *)
CommitByTool(r) ==
  /\ pc[r] = "working" /\ row[r] = "none" /\ ModeOf[r] \in {"plan", "react", "standard"}
  /\ row' = [row EXCEPT ![r] = "running"]
  /\ UNCHANGED <<pc, outcome, session, rowCost, debt, spent, lost>>

(* The workflow and blackboard branches set no cost.                             *)
Charged(r, c) == IF ModeOf[r] \in {"workflow", "blackboard"} THEN 0 ELSE c

(* The tokens of the loop's calls are counted, those of the calls that check its   *)
(* reply are not: react's own confidence, the self critique, the judge.            *)
Spend(r, c, j) ==
  /\ used' = [used EXCEPT ![r] = c + j]
  /\ aside' = [aside EXCEPT ![r] = j]
  /\ cost' = [cost EXCEPT ![r] = Charged(r, c)]

(* The run's body ends with a result ...                                         *)
Succeed(r, c, j) ==
  /\ pc[r] = "working"
  /\ ModeOf[r] \in {"workflow", "blackboard"} => j = 0
  /\ Goto(r, "worked")
  /\ outcome' = [outcome EXCEPT ![r] = "success"]
  /\ Spend(r, c, j)
  /\ UNCHANGED <<row, rowCost, seen, base, debt, spent, lost>>

(* ... or, in the standard loop, with an empty reply, which costs as much ...     *)
Empty(r, c, j) ==
  /\ pc[r] = "working" /\ ModeOf[r] = "standard"
  /\ Goto(r, "worked")
  /\ outcome' = [outcome EXCEPT ![r] = "failed"]
  /\ Spend(r, c, j)
  /\ UNCHANGED <<row, rowCost, seen, base, debt, spent, lost>>

(* ... or with an exception: the token counts are set back to zero.               *)
Raise(r, c) ==
  /\ pc[r] = "working"
  /\ Goto(r, "worked")
  /\ outcome' = [outcome EXCEPT ![r] = "failed"]
  /\ used' = [used EXCEPT ![r] = c]
  /\ UNCHANGED <<aside, cost, row, rowCost, seen, base, debt, spent, lost>>

(* A ReAct run that waits for an approval: committed at once, without its cost.    *)
Pause(r, c) ==
  /\ pc[r] = "working" /\ ModeOf[r] = "react"
  /\ End(r, "paused")
  /\ row' = [row EXCEPT ![r] = "paused"]
  /\ used' = [used EXCEPT ![r] = c]
  /\ UNCHANGED <<aside, cost, rowCost, seen, base, debt, spent, lost>>

(* apply_reseller_billing loads the user.                                         *)
Bill(r) ==
  /\ pc[r] = "worked"
  /\ Goto(r, "billed")
  /\ base' = [base EXCEPT ![r] = IF UserOf[r] \in User THEN debt[UserOf[r]] ELSE 0]
  /\ UNCHANGED <<outcome, used, aside, cost, seen, row, rowCost, debt, spent, lost>>

(* A run that took a branch of its own returns right after its commit.             *)
ReturnsEarly(r) == outcome[r] = "success" /\ ModeOf[r] # "standard"

(* Mutant: the debt is charged to every user.                                      *)
DebtAfterAll(r) == [u \in User |-> base[r] + cost[r]]

(* Mutant: the cost is taken off the debt.                                         *)
DebtAfterRefund(r) ==
  [u \in User |-> IF u = UserOf[r] /\ cost[r] > 0 THEN base[r] - cost[r] ELSE debt[u]]

DebtAfter(r) ==
  [u \in User |-> IF u = UserOf[r] /\ cost[r] > 0 THEN base[r] + cost[r] ELSE debt[u]]

(* Mutant: a failed run keeps its row as it was.                                   *)
CommitSuccess(r) ==
  /\ pc[r] = "billed"
  /\ Goto(r, IF ReturnsEarly(r) THEN "ended" ELSE "logged")
  /\ row' = [row EXCEPT ![r] = IF outcome[r] = "success" THEN "success" ELSE @]
  /\ rowCost' = [rowCost EXCEPT ![r] = cost[r]]
  /\ debt' = DebtAfter(r)
  /\ UNCHANGED <<outcome, session, spent, lost>>

(* The commit of the row and of the debt.                                          *)
Commit(r) ==
  /\ pc[r] = "billed"
  /\ Goto(r, IF ReturnsEarly(r) THEN "ended" ELSE "logged")
  /\ row' = [row EXCEPT ![r] = outcome[r]]
  /\ rowCost' = [rowCost EXCEPT ![r] = cost[r]]
  /\ debt' = DebtAfter(r)
  /\ UNCHANGED <<outcome, session, spent, lost>>

(* record_budget_consumption selects the agent's cap again, adds to it and flushes. *)
Record(r) ==
  /\ pc[r] = "logged"
  /\ Goto(r, "recorded")
  /\ seen' = [seen EXCEPT ![r] = spent[AgentOf[r]]]
  /\ UNCHANGED <<outcome, used, aside, cost, base, row, rowCost, debt, spent, lost>>

(* Mutant: counted twice.                                                          *)
SpentAfterTwice(r) == [spent EXCEPT ![AgentOf[r]] = seen[r] + cost[r] + cost[r]]

SpentAfter(r) ==
  IF cost[r] > 0 THEN [spent EXCEPT ![AgentOf[r]] = seen[r] + cost[r]] ELSE spent

(* The caller commits its session once more: the scheduler after its last schedule *)
(* (the runs between find the flush in that session), others after the run.       *)
Keep(r) ==
  /\ pc[r] = "recorded"
  /\ Goto(r, "ended")
  /\ spent' = SpentAfter(r)
  /\ UNCHANGED <<outcome, session, row, rowCost, debt, lost>>

(* Or it closes the session.                                                       *)
Discard(r) ==
  /\ pc[r] = "recorded" /\ r \notin Cron
  /\ Goto(r, "ended")
  /\ UNCHANGED <<outcome, session, row, rowCost, debt, spent, lost>>

(* The process dies or the commit fails: what was not committed is gone.           *)
Lose(r) ==
  /\ lost < MaxLost
  /\ lost' = lost + 1
  /\ pc[r] \in {"opened", "working", "worked", "billed", "logged", "recorded"}
  /\ End(r, "lost")
  /\ UNCHANGED <<session, row, rowCost, debt, spent>>

Next ==
  \E r \in Run :
    \/ Begin(r) \/ Throttle(r) \/ Grant(r) \/ CommitByTool(r)
    \/ \E c, j \in Costs : Succeed(r, c, j) \/ Empty(r, c, j)
    \/ \E c \in Costs : Raise(r, c) \/ Pause(r, c)
    \/ Bill(r) \/ Commit(r) \/ Record(r) \/ Keep(r) \/ Discard(r) \/ Lose(r)

Spec == Init /\ [][Next]_vars

-------------------------------------------------------------------------------
(* Properties *)

Total(f, S) == MapThenSumSet(LAMBDA r : f[r], S)

RunsOf(a) == {r \in Run : AgentOf[r] = a}

PaidBy(u) == {r \in Run : UserOf[r] = u}

(* What the row of a run that is over says.                                        *)
Honest(r) ==
  /\ outcome[r] \in {"success", "failed", "paused"} => row[r] = outcome[r]
  /\ row[r] = "running" => outcome[r] \in {"throttled", "lost"}
  /\ row[r] # "none" => outcome[r] # "blocked"
  /\ rowCost[r] <= used[r]
  /\ row[r] = "success" => rowCost[r] = Charged(r, used[r] - aside[r])

(* The row of a run that is over says how it ended; one still "running" belongs    *)
(* to a run that was refused a slot or lost.  It never claims more than the LLM    *)
(* calls cost.  For a run that succeeded in a loop that tracks its cost it claims  *)
(* all of it but the calls that checked the reply, which nothing counts.           *)
RowHonest == \A r \in Run : pc[r] = "ended" => Honest(r)

(* However runs interleave, nobody is charged more than the costs in the rows of   *)
(* the runs, and no agent is recorded to have spent more.                          *)
NeverOvercharged ==
  /\ \A u \in User : debt[u] <= Total(rowCost, PaidBy(u))
  /\ \A a \in Agent : spent[a] <= Total(rowCost, RunsOf(a))

Scheduled ==
  {a \in Agent : \A r \in RunsOf(a) : r \in Cron /\ ModeOf[r] = "standard"}

(* "Update the agent's running budget usage tracking": what the rows cost reaches  *)
(* the cap where the scheduler alone runs the agent, always in the standard loop,  *)
(* and loses no run.  A request's session is closed with the update uncommitted,   *)
(* and of two runs that record at a time one overwrites the other's.               *)
ScheduledTracked ==
  lost = 0 => \A a \in Scheduled :
    (\A r \in RunsOf(a) : ~Open(r)) => spent[a] = Total(rowCost, RunsOf(a))

(* There the cap works: a blocked agent overspends it by no more than what one run *)
(* claims above the estimate.                                                      *)
CapHolds ==
  lost = 0 /\ Limit > 0 => \A a \in Scheduled :
    Total(rowCost, RunsOf(a)) <= Max({0, Limit - Estimate}) + Max(Costs)
===============================================================================
