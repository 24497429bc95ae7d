# A TLA+ model of the SuccessCore / Omni back end

This directory holds TLA+ modules that model the parts of the repository where order,
concurrency and failure decide whether the program is right, the TLC configurations that
check them on small instances, and proofs of the theorems that hold for every instance.

The program is a FastAPI back end (`backend/app`, 80 000 lines of Python) with a Next.js
client. It is a human-resources suite (payroll, hiring, time off, IT, CRM) around a runtime
for LLM agents that work on the suite's data through tools. All paths below are relative to
`src/backend/app/` unless they say otherwise.

Everything that runs concurrently does so on asyncio: inside a process a step runs from one
`await` to the next without interruption. There may be several processes; they share a
PostgreSQL database, read and written through SQLAlchemy sessions that take no locks, and a
Redis server. Those three facts fix the grain of every module: one action per stretch of code
between two awaits that other actors can tell apart; commits and Redis commands are atomic.
A session writes the columns that differ from what it loaded, and only those.

## 1. Inventory

### Modelled, wholly or partly

| Component | State | Operations | Hard behaviour | What makes it correct |
|---|---|---|---|---|
| Run limiter (`services/concurrency_limiter.py`) | one global `asyncio.Semaphore`, one per tenant, their waiters, `_active_runs` | `acquire_run_slot`, `release_run_slot` | two waits with timeouts, one permit held while waiting for the other, runs that start runs, cancellation | permits are conserved, no wake-up is lost, nobody waits for ever |
| Task queue (`core/task_queue.py`) | Redis stream, consumer group and its pending list, status key per task, dead-letter stream | `enqueue`, the worker loop, `_execute_task`, `_update_status` | process deaths, failing Redis commands (one of which ends the worker for good), two processes working on one entry, retries, MAXLEN | accepted tasks are not lost, retries are bounded, nothing is given up early |
| Payroll (`api/v1/pay.py`, `api/v1/bulk.py`, `services/platform_tools_hr.py`) | cycles with totals, payslips, bonuses, journal entries | process a cycle (endpoint and agent tool), bulk payslips, change a cycle's status, create and delete bonuses | one session per employee, requests that interleave, a server that dies half-way, single employees that fail | a bonus is paid once, totals and ledger agree with the payslips |
| Agent executor (`services/agent_executor.py`, `agent_streaming.py`) | a row per run | open the row, work in one of five modes, commit | tools commit the run's session, exceptions, the caller decides on the last commit | the row tells how the run ended and what its loop cost |
| Budgets and cost (`services/agent_budget.py`, `agent_cost_tracker.py`) | `daily_spent` of an agent's cap, `current_debt` of a user | `check_budget`, `record_cost`, `apply_reseller_billing` | values read and written back with other runs between, check before and charge after, a charge the caller may throw away | nobody is overcharged, what the rows cost is tracked, the cap holds |
| Multi-agent work (`services/agent_crew.py`, `agent_handoff.py`) | subtasks and their rows, one session for all | run the subtasks in waves, under a timeout; hand off | rollbacks and cancellations in a session that others use, a client that leaves | dependencies are respected, everything settles, a reported success is in the database |
| Schedulers (`services/agent_scheduler.py`, `api/v1/agent_schedules.py`) | a table of schedules with `next_run_at` | one tick per minute; create, change, delete, run now | one session for all runs of a tick, notes written later by another run's commit, edits meanwhile | an occurrence is run once, only a run moves a schedule on, a failing one starves nobody |
| LLM access (`services/agent_executor.py`, `agent_streaming.py`, `model_fallback.py`, `llm_cache.py`) | failures per provider, time of the last one, cached answers | try the entries of a cascade, record the result, look into the cache | check before the call and record after it, dashboards that reset, calls that are cut off | the breaker is overshot by calls in flight only, a call fails for its own want of a provider |
| Agent pools (`services/agent_pool.py`, `pool_monitor.py`) | warm agents available and in use | get, return, evict | one entry for all runs of an agent, runs that never give back | no agent is shared |
| Expenses (`api/v1/finance.py`, `api/v1/bulk.py`) | a claim and its journal entry | create, update, bulk approval | two requests that approve, edits that land after an approval | an approved claim is booked |
| Time clock (`api/v1/finance.py`, `services/platform_tools_hr.py`) | time logs | clock in, clock out | look and insert are two steps | one open log per employee unless requests overlapped |
| Hiring (`api/v1/hire.py`, `api/v1/auto_onboard.py`, `services/platform_tools_business.py`) | candidates with a stage, users | apply, move, promote, enroll, delete | several promotions of one person | each success made one employee |
| Checklists (`api/v1/workflows.py`, `services/agent_workflow_bridge.py`) | checklists with their steps in one JSON column | assign, trigger, toggle, the agents' tool | the column is read and written whole, the tool changes a loaded value in place | a tick of a request is lost only to toggles that overlap |
| Training (`api/v1/training.py`, `services/scorm_xapi.py`, `services/platform_tools_business.py`) | an enrollment and its FUNDAE validation | the player's commit, an xAPI statement, the administrator's validation, the agents' tool | verdicts computed from loaded, unrounded columns and stored later, two sets of rules | a verdict no commit crossed is the one of the rules |
| Subscriptions (`api/v1/billing.py`, `api/v1/signup.py`, `services/integrations/stripe.py`) | a tenant's tier, subscription and its status | sign up, check out, Stripe's three events | events repeated, reordered, handled side by side | the newest subscription of a tenant keeps its tier |

How they interact: an HTTP request, a crew, a hand-off tool or the scheduler calls
`execute_agent_run`; it checks the budget, flushes a
row, asks the limiter for a slot, takes a warm agent, runs one of the agent loops (whose calls
go through the cascade, and whose tools may commit the same session, start payroll, or hand off
to another run), commits row and debt, and releases the slot. The endpoints that import data or
onboard a tenant hand a task to the queue, which a worker loop in every server process executes.
The desks of the suite (expenses, time, hiring, checklists,
training, subscriptions) meet only at their own tables.

### Not modelled

| Component | Why |
|---|---|
| Human approval and resume (`human_approval.py`) | nothing calls `approve_action` or `reject_action`, and no run is suspended for `resume_agent_run` to continue |
| Agent loops, orchestrators, tools | control flow that follows what an LLM answers; only how a run ends, and that its tools commit its session, matters to the other parts, and that is in `AgentRun`, `Schedules` and `Crew` |
| Event triggers (`event_trigger_service.py`, `cron_triggers.py`) | `handle_event` is called by `publish_event_async` only, which nothing calls, and nothing calls the check of `cron_triggers.py`: there is no trigger to approve |
| Workflow engines | step lists and graphs executed in one request in their declared or sorted order; conditions never decide which node is executed, and what can go wrong is in the texts they carry |
| Webhooks | attempts with backoff in one coroutine; the subscriptions live in the memory of one process |
| Resizing of agent pools, `agent_pool_v2.py` | the monitor follows the length of a Redis list that nothing writes |
| Swarms, negotiations, blackboards, the fleet | a blackboard session is used by the run that opened it only; the others are sequences of LLM calls |
| Caches other than the LLM cache | `TieredCache` is asked for statistics only, the older ones are dictionaries with a time to live |
| Authentication, sessions, request filters | access control is outside the scope of these models |
| Provisioning of tenants, quotas | inserts in one commit, counters in memory |
| The rest of finance, hiring, people and time off | single commits on one table each, or forms and reports |
| The rest of growth and training, documents, IT, CRM, analytics, compliance, monitoring | forms, reports and exports |
| Search and memory | results depend on floating-point similarity (that a failed search rolls its caller's session back is in `Crew`) |
| Realtime | lists of open sockets |
| Persistence, integrations, front end | used as the environment of the modelled parts |

`PROJECT.json` lists every source file under the component it belongs to. Most of the back end's
lines are in this second table: about four hundred files of endpoints, forms, prompts and tool
descriptions that keep no state beyond one commit. The modules take the parts of it where two
actors meet.

## 2. Modules

| Component module | Abstract specification | Composed in | Proofs | Instances |
|---|---|---|---|---|
| `RunSlots` | | | `RunSlotsProofs` | `MCRunSlots` |
| `TaskQueue` | `AtLeastOnce` | | `TaskQueueProofs` | `MCTaskQueue` (two configurations) |
| `Payroll` | | | `PayrollProofs` | `MCPayroll` (three configurations) |
| `AgentRun` | | | `AgentRunProofs` | `MCAgentRun` |
| `Schedules` | | | `SchedulesProofs` | `MCSchedules` |
| `Crew` | `DependencyOrder` | | `CrewProofs` | `MCCrew` |
| `ProviderCascade`, `WarmPool` | the specification of the cascade alone | `LlmAccess` | `LlmAccessProofs` | `MCLlmAccess` (two configurations) |
| `Expenses`, `TimeClock`, `Hiring`, `Checklists`, `Training`, `Subscriptions` | the specification of each desk | `BackOffice` | `BackOfficeProofs` | `MCBackOffice` |

Operators whose comment begins with "Mutant:" are wrong variants of the definition they stand
before (a dropped guard, a missing reset, an off-by-one). `PROJECT.json` pairs each checked
property with one of them; substituting it makes TLC find the property violated, which shows
that the property depends on the code.

### RunSlots

`pc[r]` is where run `r` is; the steps of `acquire_run_slot` are `Ask` (lines 17-24: the fast
refusal needs *both* semaphores locked), `AcquireGlobal` and `TimeoutGlobal` (26-30),
`AcquireTenant` and `TimeoutTenant` (32-37), `Enter` (39-40). `Finish` is the body of the run and
`release_run_slot`. `asyncio.Semaphore` is modelled as the code uses it: `release` hands the
permit to the oldest waiter, `locked` is true while anybody waits.

A run's tenant is the key the code uses, `input_payload.get("tenant_id", "unknown")`
(`TenantOf`): runs outside `CarriesTenant` (started by hand, by a schedule, or as a hand-off
child) share the key `Unknown`. `ParentOf` makes a run a hand-off child: it starts only while its
parent executes, and its parent ends only after it.

`Escaping` runs may be ended by an exception the executor does not catch: a `CancelledError` from
the crew's `wait_for`, or a closed stream. They leave permits behind (`leaked`, `leakedGlobal`),
or, for streams, whose tail releases unconditionally, give back permits they never had
(`overBoth`, `overTenant`). The accounting invariant says *exactly* how far such runs move the
counters, so it is not weakened for the runs that end normally.

### TaskQueue

The id of a stream entry is its position in `stream`; `first` is the oldest one MAXLEN has not
dropped, `delivered` and `pel` are the consumer group. `wpc[w]` walks through the worker loop
(`Scan`, `Read`, `Pick`) and `_execute_task` (`Begin`, `Run`, `SetCompleted`, `Raised`,
`SetRetrying`, `DeadLetter`, `Ack`); every Redis command is a step of its own. `Fault` is a Redis
command that fails, with the places where the code catches it told apart. At the worker's start
(`task_queue.py:91-92`, before the loop's `try`) nothing does: the coroutine is over ("ended") while
`_worker_running` stays true, and only a new process brings a worker back. `Crash` is a process that
dies, `Start` the one that replaces it. `Report` is the status update that
`progress_callback` schedules and nobody awaits. `enqueue` is two steps, `Enqueue` and
`SetPending`, because the entry is added before its status key is written. Payloads, the
backoff's length and the pending list's consumer names are abstracted; `failures`, `returned`,
`unknown` and `trimmed` (the tasks of which MAXLEN dropped an unacknowledged entry) are history variables.

`AtLeastOnce` states what a caller may rely on: a task is settled only after it was accepted, given
up only after `MaxRetries` failures, and never given up or refused once it was settled. The mapping
takes `accepted` from the callers and `outcome` from the history and the dead-letter stream.

### Payroll

Every request is a process `q` with the values it read in `req[q]`. `process_payroll` is
`ProcessBegin`, then `ReadEmployee` and `CommitEmployee` or `FailEmployee` for each employee in any
order and overlap (the code runs batches of 20 side by side, each in a session of its own), then
`ProcessEnd`. `FailEmployee` is the failure of one employee, any number of times; only `Abort`, the death
of a whole request, counts against `MaxDeaths`. The agent tool and the bulk endpoint read and commit once. `update_cycle_status` is
`PatchBegin`, `PatchRead`, `PatchCommit`; the unique `JournalEntry.reference` makes the second of two
commits fail. `delete_bonus` is `DeleteBegin`, `DeleteCommit`. Salaries,
bonuses and deductions are one small number each: the properties are about which payslips and
bonuses are counted and what becomes of fractions of a cent, not about tax law. Payslips and totals are floats,
and an amount counts twelfths of a cent, what a monthly share leaves of a yearly salary; the ledger's columns are
`Numeric(10, 2)`, and `Cents` rounds each of the three figures of an entry on its own, as the database does. A
commit either takes effect and returns or does neither. Constant `Kinds` says which endpoints the clients of an
instance call, `Processor` which requests may write payslips.

### AgentRun

A run goes `idle, opened, working, worked, billed, logged, recorded, ended`. Only values in the database
(`row`, `rowCost`, `debt`, `spent`) survive; `seen` and `base` are what its session loaded and will
write back. `Commit` is the executor's own commit. After it `record_cost` selects the cap again, adds and flushes
(`Record`); the caller then commits its session once more (`Keep`: the scheduler, run-now, a crew, the parent of
a hand-off) or closes it (`Discard`: a request). `CommitByTool` is a tool handler that
commits the session it shares with the run. `ModeOf` tells the five branches of the executor apart:
the workflow and blackboard branches set no cost, every branch but the standard loop returns right
after the commit. `used` is what all LLM calls of the run come to and `aside` the part of it that nothing
counts: the judge and the self critique after a reply, and the confidence call of a ReAct run, which follows the sum of
its tokens. `Pause` is a ReAct run that waits for an approval, whose row is committed without a cost. The slot
is taken (`Grant`) or not (`Throttle`) here without saying why; why is `RunSlots`.

### Schedules

One tick of `check_due_schedules` at a time (`Load`, then `Pick` and a run for each schedule that
was due, `Finish`) beside the users' requests. The tick's session is `stored` (the columns as it
loaded or last committed them) and `memory` (as it has set them); a flush sends the columns that
differ, and a schedule deleted meanwhile makes the flush raise (`Stale`): the tick is over and what
it had noted is gone. A run is `Insert` (the flush of its row, which also sends the earlier notes),
perhaps `CommitByTool`, and `Return` (with its commit), `Throttle` (no slot, no commit) or `Raise`
(before the insert). A cron expression is the set of minutes it matches, and `NextRun` the loop of
`_next_run_from_cron` with its horizon and its fallback on the next minute. `done` counts the runs
per occurrence and `lost` the sessions lost; both are history variables.

### Crew

`CrewOrchestrator.execute`: `Wave` (the ready subtasks, or the branch that writes the rest off),
`Acquire` (the semaphore of `max_parallel`), the run of a subtask (`Insert`, `Log`, `Reply`, or one
of the ways to fail), `Gather`, `Answer`. The session that all of them share is `session` and `kept`,
the rows as the session has them and as they are committed; `expelled` rows are those whose objects
a rollback or a closed session has put out, which no later commit writes; a `broken` session raises
until it is rolled back. `RaiseInSession` stands for a flush that fails beside another one and for
`rag_service.py`'s rollback, `TimeoutInSession` for a cancellation in the middle of a statement,
`Leave` for a client of `/crew/stream` that goes away.

`DependencyOrder` promises that a subtask begins once everything it depends on is settled, is handed
exactly those outputs, and that everything settles. `Crew` implements it (`KeepsOrder`).

### ProviderCascade, WarmPool and LlmAccess

A call walks through its cascade: `Try` if the breaker lets it (`Healthy`, with `is_healthy`'s reset
in `Checked`), `Skip` if not, `Answer`, `Fail`, `GiveUp`; `Cancel` cuts it off. An entry may name no provider
(`NoProvider`: `parse_fallback_models` accepts such objects), and a call that comes to one ends with a KeyError
(`Incomplete`). Which providers answer is a matter of each call (`Sound[c]`), because keys are the agent's and the tenant's while the
circuit is the provider's; `failed` is the history of tries that failed, by call and place. Of time only whether a
provider's last failure is within the cooldown is kept (`recent`, `CoolDown`). `Stats` is a dashboard,
whose query of the breaker's state resets it as well. The cache answers runs only, with the text
that `json.dumps(..., default=str)` made of the response (its second tier, of templates, is left out). `WarmPool` is the pool of one agent id, with
the single entry of `_in_use`. `LlmAccess` composes them in the executor's order: agent, call, agent
given back on the standard path only.

### Expenses, TimeClock, Hiring, Checklists, Training, Subscriptions and BackOffice

Each of the first four is a check-then-act pair whose two halves other requests can get between:
`update_expense` (`Load`, `FindEntry`, then `Save`, `Book` or `Conflict` on the unique reference), the
clock-in (`CheckOpen`, `ClockIn`), a promotion (`Check`, then `Promote` or `Refuse` on the unique
email), a toggle of a checklist's step (`LoadList`, `Toggle`). The other writers of the same rows are
there too: the bulk approval, the clock-out, every way to move, enroll or delete, the agents'
checklist tool, which changes what it loaded in place and so writes at most the status, while its session may keep
the changed dictionary for its next call (`"kept"`). `asked` is what the answers to requests and tools said was ticked, `told`
the steps a tool answered for. An edit of `User.email` (`users.py:343-352`) is, for `Hiring`, a `Delete` and an `Enroll`.

`Training` is one enrollment and its validation. `SaveEnrollment` is the first commit of
`commit_scorm_state` (an xAPI statement ends with it), `FindVerdict` and `StoreVerdict` are
`run_fundae_validation_logic`, whose input is the enrollment as the session has it, `StoreToolVerdict` the
agents' tool with rules of its own. Both columns and verdicts are written only where they differ from what
the session loaded. Score and progress are `Numeric(5, 2)`, and the session judges the float it was sent: what is stored may
have been rounded up to a limit the float does not reach (`MayRaise`, `raised`). `EditCourse` changes the hours a course asks
for, after which nobody judges again. `crossed`, `fresh` and `excused` are history.

`Subscriptions` is one tenant. `Receive` is a delivery up to its commit (the query that finds the tenant,
and the handler), `Commit` the columns it changed. Stripe is the environment: what has happened to
a subscription says which events it may deliver (`Sent`), from then on in any order and any number of times. A completed checkout is
taken as the newest, whichever it is. History: `earlier` is the order of purchase, `newest` the last bought of the
subscriptions whose checkout was handled, `overtaken` a delivery another one's commit got ahead of, and `muddled` says that
since the newest one's checkout was handled an earlier one's was, or an overtaken delivery committed.

The desks share no table, so a behaviour of the whole is an interleaving of theirs. `BackOffice`
lets one desk work per behaviour, which reaches every state a desk can reach and keeps the number of
states a sum instead of a product. The theorems about each desk are about its own specification, and
`DesksImplemented` says that `BackOffice` implements all six.

## 3. Runs

| Run | Question | Result |
|---|---|---|
| `run_slots` | two parents with a hand-off child each, two streams, 2 global permits, 1 per tenant; streams and one parent may be cut off anywhere: where is every permit, is a wake-up lost, is the counter of active runs right, is every run decided? | holds |
| `task_queue` | one process, one death, one failing command, two attempts per task: bounded retries, eventual settlement unless the worker has ended, refinement of `AtLeastOnce` | holds |
| `task_queue_two` | two processes on the same entries, one death, one failing command, a stream of three: is a task lost other than by MAXLEN dropping an entry of its own? | holds |
| `payroll` | one payroll run that may die, beside a clerk who pays and deletes: bonuses paid once, ledger the totals to the cent, payment settles the cycle | holds |
| `payroll_alone` | one request at a time, any employee of which may fail, all writers of payslips, two cycles: totals and bonuses agree with the payslips | holds |
| `payroll_double` | the endpoint is called twice: are payslips added to drafts only? | violated |
| `agent_run` | two requests in two modes beside two schedules, one may be lost: rows honest about all but the calls that check a reply, nobody overcharged, scheduled spending tracked and capped | holds |
| `schedules` | two schedules, users who change and delete them, a session that is lost: is a minute run twice, does anything but a run move a schedule on, is a due one attempted? | holds |
| `crew` | four subtasks, two at a time, over a session that breaks, is rolled back or is closed: order, settlement, rows that back the answer | holds |
| `llm_access` | two runs and a stream over three providers, each of which answers one of them, and an entry that names none: how far is the breaker overshot, what makes a call fail, are warm agents shared? | holds |
| `llm_cache` | the same question twice: can the caller use a cached answer? | violated |
| `back_office` | overlapping requests at six desks: are claims booked, logs, promotions, ticks, verdicts and tiers right? | holds |

The two violated properties are sentences of the repository: `services/platform_knowledge.py:135`
("Payroll cycles can only be processed when in draft status") and the docstring of `llm_cache.py`.
`PROJECT.json` quotes them under "findings" with what the runs show.

### What the models contain without a run of its own

Where the code and a comment or an expectation part, and the properties are stated around it:

* Manual, scheduled and handed-off runs share the limiter's key "unknown"
  (`agent_executor.py:402`), although `platform_knowledge.py:685` has "Concurrent execution limited per tenant".
* MAXLEN drops entries nobody has been given (`core/task_queue.py:50`), and the late write of "pending"
  (line 51) can cover a later status.
* A Redis failure while a worker starts (lines 91-92) ends it for good: `main.py:112` does not look again, and tasks
  that this process accepts wait for a worker of another one (`NoWorkerLeft` in `EventuallySettled`).
* The three figures of a payroll entry are rounded one by one, so that debit and credit may differ by a cent
  (`JournalFaithful` says that it is never more).
* `record_cost` is flushed after the run's last commit; a request's session is closed without another, so that of
  the runs started one by one only the scheduler's and run-now's are sure to reach `daily_spent` (`ScheduledTracked`). Two runs of one user that read
  the same debt charge it once (`NeverOvercharged` is an inequality). A run that raises after its LLM
  calls has a row with cost 0, one that pauses has none.
* The judge, the self critique and the confidence call of a ReAct run are paid for and counted nowhere
  (`agent_executor.py:511`, `:611`, `:766`; `react_loop.py:164`): `RowHonest` asks for the exact cost of the rest only.
  `react_loop.py:153` passes three arguments to a function of two, so that a ReAct run which gets there raises.
* Bulk generation followed by processing gives an employee two payslips
  (`OnePayslipUnlessAborted` is checked without the bulk endpoint); a bonus may be paid while it is being
  deleted.
* A dashboard that asks for the breaker's state resets it. A cascade whose entries all belong to one
  provider, which the default one is, can open that provider's circuit within a single call. A call with a bad key of its own opens it for calls whose
  keys are good.
* A fallback without a provider passes `model_fallback.py:123-124` and raises a KeyError at `agent_executor.py:206`, whatever
  follows it in the cascade.
* Of a crew, the branch that writes off subtasks that are never ready cannot be reached
  (`NothingWrittenOff`).
* `bulk_approve_expenses` books no journal entry, although `finance.py:130` describes the entry as part of
  approval (`inBulk`); an entry is never reversed when its claim is rejected or edited later.
* With two open logs `scalar_one_or_none` raises, and the employee is refused until all but one are
  closed. The clock-in of `time_tracking_service.py` names columns the table does not have and always
  raises; so does the tool `create_expense`.
* The agents' tool `complete_workflow_step` changes the dictionary it loaded in place, so that the tick
  is never written while the status "completed" may be, and answers with success (`agent_workflow_bridge.py:125-140`);
  `workflows.py:264-266` flags the column as modified for that reason. `TicksKept` asks nothing of the steps a
  tool answered for: their ticks are lost without any overlap.
* A score of 4.996 is stored as 5.00 and judged as 4.996 (`training.py:181-220`), and a course whose hours are edited
  keeps the verdicts it had (`training.py:58-76`); the next verdict is right.
* A test is passed with 5.0 points for `training.py:220` and with 50 for the agents' tool
  (`platform_tools_business.py:171`) and `platform_knowledge.py:274`, while xAPI stores percentages
  (`scorm_xapi.py:192`). The tool takes the survey for answered, and never corrects a validation it finds.
* `signup.py` gives Stripe the tenant's id as its reference, `billing.py:254` looks for a schema name: the
  checkout of a sign-up finds no tenant. A checkout of an earlier subscription that is delivered late or again replaces
  the newer one (`billing.py:266-272`), and the end of the earlier one then makes a paying tenant free. Paying a debt sets the status of a canceled tenant to "active".
* `bulk.py:109-115` names a column `enrolled_at` that `CourseEnrollment` does not have, so that assigning a
  course in bulk always raises; `hire.py:968` enrolls without looking for an enrollment.

### Bounds and why they are enough

* `RunSlots`: 6 runs, 3 keys, 2 and 1 permits. Two parents can hold every global permit while two
  children wait, streams wait beside them, and a wait for the tenant's permit happens with and
  without a waiter for the global one. More runs repeat these situations; the proofs remove the bound.
* `TaskQueue`: `MaxRetries = 2` (3 in the code) has a retry and a last attempt; `ScanMax = 1` makes the
  pending scan miss entries, which is what 10 does to the code with a larger backlog; one crash and one
  fault, at any step, include both in either order, in both runs. `StreamMax = 20` never trims in `task_queue`;
  in `task_queue_two` 3 leaves room for two tasks and a retry and trims from the fourth entry on, some of
  them acknowledged and some not. The two processes are symmetric, and the VIEW of that run leaves out what no guard and not `NoTaskLost`
  reads (status keys, counts of failures, how a task was settled). The proofs cover every value.
* `Payroll`: two employees (one fails or overlaps while the other commits), two bonuses of one owner,
  one death, two concurrent requests. A salary of 8, a bonus of 4 and deductions of 4 twelfths of a cent are rounded
  up or down, alone and in sums, so that entries which do not balance occur. One request at a time in `payroll_alone` because that is what its
  properties need; concurrent ones break them, as the other runs show.
* `AgentRun`: two concurrent requests of one user, two schedules, costs 0 and 2 around a limit of 2 with
  an estimate of 1: a run that is let in, one that is blocked, one that overspends. One request works in the standard loop, the
  other in ReAct, which has every way to end; "plan" has no pause, the blackboard and workflow branches set no cost. The two
  schedules are symmetric, and the VIEW keeps what a session loaded only until it is written back and of an ended run's cost only
  whether its row is honest.
* `Schedules`: two schedules, an expression with a next minute and one without any within the horizon,
  three requests, one crash, two minutes: a tick with both, a deletion or edit before, between and after
  their runs, and a later tick that finds what is left.
* `Crew`: three independent subtasks and one that needs two of them, two at a time: two waves, one
  subtask that waits for a permit, one that is skipped by a dependency. Streamed, so that `Leave` is
  there.
* `LlmAccess`: two runs with the same question and a stream; one run goes through a provider of its own, the shared default
  three times, and the one that answers it; the other has a fallback without a provider before the one that would answer;
  the stream has the default only, which answers it unless the runs' failures have opened its circuit. A threshold of 2 (5 in the
  code, `model_fallback.py:17`), a pool of one with two agents. The direct calls of domain services are not in the instance; they
  walk through a cascade as a run does.
* `BackOffice`: two updates of one claim; four clock-ins of two employees; two candidates with one email
  and three promotions; two checklists of two steps with two visits;
  two sessions on one enrollment, of whose columns the score, which is rounded, and the status are reported; two
  subscriptions of different tiers beside one bought at sign-up, whose checkout finds no tenant, and two deliveries at once.
  Deliveries, visits, steps, and the two subscriptions with their tiers are symmetric; the VIEW leaves out histories the
  properties do not read in a state (what is compared of a torn checklist, who is excused when no verdict is fresh, the place of
  a sign-up in the order of purchase).
* Every counter that could grow without end (`crashes`, `faults`, `deaths`, `edits`, `made`, the number of
  checklists) is bounded by a constant in the guard of the action that raises it; all other counters are
  bounded by the runs, tasks and requests of the instance.

`CHECK_DEADLOCK FALSE` stands where runs or requests are finite in number and the system stops when
they have ended, and for the task queue, which stops when Redis fails at the start of its last worker.

What the properties leave open by their shape: a parent of `RunSlots` has one hand-off child at a time, though tools are
gathered; in `Schedules` an exception comes before the insert of the run's row only; `BreakerHolds` counts every call of
the instance where the code gives the calls in flight; `AgentsExclusive` says nothing of `_in_use`; `ApprovedIsBooked` does not compare
the amount of the entry with the claim's; the cache of `LlmAccess` hits more often than the code's, whose prompts carry the
time to the second.

### Fairness

* `RunSlots`: weak fairness of each run's own steps. The event loop runs every ready callback,
  `wait_for`'s timer fires, and a run's body ends because its loops are bounded and its LLM calls time
  out. Nothing is assumed of who asks for a slot, or of cancellation.
* `TaskQueue`: weak fairness of each worker's loop, `Start` included (the platform restarts a dead
  process; handlers end). A worker that ended has no step: it stays so unless its process dies. Nothing is assumed of callers, crashes or faults.
* `Schedules`: weak fairness of the tick's steps as a whole. `_scheduler_loop` catches what a tick raises
  and calls the next one a minute later. Nothing is assumed of users, crashes or the clock.
* `Crew`: weak fairness of the crew's steps as a whole. Each of them brings a subtask or the loop
  further, so that what goes on must come to an end; every subtask has a timeout. The client need
  not leave.
* The other modules have safety properties only: a request may stop anywhere.

## 4. Proofs

Eight modules hold theorems, checked by TLAPS for every value of the constants that satisfies the
modules' named assumptions: a finite number of runs, positive limits and retries, sets of names that
include the ones the code uses. Where a theorem needs more than that (one processor of a cycle, no
deletions), the extra condition stands in its statement. `PROJECT.json` lists the theorems with the
property each one states.

The arguments have one shape: the property is not inductive, so a stronger invariant is, and what it
adds says where a wait, a loaded value or an unfinished step stands.

**RunSlots.** `TypeCorrect`, `WakeupsKept` (`NoLostWakeup`), `PermitsConserved` (`GlobalAccounting` and
`TenantAccounting`), `LimitsHold` (`ConcurrencyLimits`) and `CounterHonest` (`ActiveRunsHonest`). When a
permit is handed to the first waiter the free count does not change, so the count of holders is right
only if that waiter really is a waiting run, and is queued once. That is `NoLostWakeup`: each queue lists
exactly the runs waiting there, without repetition. The order is types, then queues, then permits; the
limits are arithmetic on top, which is why no run spends a property on them.

**TaskQueue.** The invariant `IInv` strengthens `NoTaskLost` by

* `AckSafe`: a worker that is about to acknowledge (or past the point where it can still fail to requeue)
  has an entry whose task is settled or has a *later* live entry. This is why acknowledging is safe even
  though another worker may be processing, requeueing and acknowledging the same entries;
* `RetriesEarned`: the retries written into an entry are at most the failures of its task, and a worker in
  the except branch has counted its own. `DeadLetterEarned` follows, for duplicates too;
* `EntriesAccepted` and `AttemptsRegistered`, which tie entries to callers and attempts to the registry.

A task is excused only when an entry of its own was dropped before it was acknowledged (`trimmed`), whatever was dropped of others.

From it follow `TasksKept`, `DeadLettersEarned` and `PromiseKept`: every step of the queue is a step of
`AtLeastOnce` or leaves its variables alone (`KeepsPromise`).

`AttemptsAlwaysBounded` (`RetryChainsBounded`, for one worker) has an invariant of its own, `AttemptsBounded`:
the attempts of a task that failed and those its entries still allow (`LeftOf`: pairs of an entry the group
will hand out and an attempt number from its retries on) are together at most `MaxRetries` for each *chain*, where
the call of `enqueue` opens one and each crash or failed command at most one more. A failed attempt moves one
unit from left to failed; a re-XADD moves what the old entry had left to the new one, by an injection; a crash
between the re-XADD and the XACK gives an entry back all of its attempts, which is where the extra chain
comes from. That the only worker's ids are pending and listed once (`Pending`) is what makes XACK remove the
right entry. With two workers TLC finds the bound broken without any crash or fault: both process the
entry, and each adds a retry.

**Payroll.** `TypeCorrect`; `BonusAlwaysPaidOnce` when one request processes a cycle at a time;
`BonusAlwaysBacked` when nothing is deleted; `JournalAlwaysFaithful` (each line is the cycle's figure rounded to the cent, and the entry is off by
a cent at most), whose invariant `LedgerInv` says that
what a payment knows of the totals is what the cycle has (`KnowsTotals`); `AlwaysOnePayslip`, whose
invariant `SlipInv` says that the one processor knows of every payslip of its cycle unless it was
aborted. These two need a single processor and no cycle put back to draft, the last one no bulk endpoint
as well. `PaidCyclesAreSettled` (`SettledOnPay`, an action property) under the same three conditions: a clerk
who saw a cycle as processed loaded all its payslips, since none is added from then on (`SettleInv`).
`TotalsAlwaysMatch`: with one processor, no cycle put back and no request dead so far, totals are the
sums over the payslips, whichever employees failed. Its invariant `TotalInv` has the running totals of the open request agree with what it
has committed (`Owes`) and the totals of every cycle nobody is writing with its row (`Agrees`). Sums are
taken to cardinalities of sets of units (`Units`), for which the library has theorems; that `FoldSet` computes
them is shown by a smallest set on which it would not.

**AgentRun.** `RowsAlwaysHonest`: `Along(r)` says for each stage what a run has put into its session
and what is committed, tool commits included; a row can only tell an end the run had, and its cost is what the
loop's calls came to (`used` less `aside`) from the moment the run's body has ended (`Decided`). On top of it the
money: `NeverAnyoneOvercharged` (`Charges`: a run loads an amount and writes it back with its own cost; in between
the other runs can only have added to the rows, so that what it writes is still covered), `SchedulesAlwaysTracked` (`ScheduleInv`: an agent that the
scheduler alone runs has at most one run under way, so that what `record_cost` loads is current when it is written back) and
`CapAlwaysHolds`, for costs that have a largest one.

**Schedules.** `RepeatsAlwaysExplained` and `OnlyRunsEverMoveOn`, for any schedules, expressions and
users. An occurrence is run once more only for a session that was lost (`MovedExplained`, `CommitFresh`): what the
tick notes about a schedule it has run lies ahead of its minute, so that no write of it, however late, brings
the schedule back.

**Crew.** `SuccessAlwaysBacked`, `NothingWrittenOff` and `OrderImplemented` (the safety half of
`KeepsOrder`). The invariant ties a subtask's stage to the rows of the shared session (`Stages`,
`RowsAgree`), the waves to the dependencies (`InOrder`), and puts the answer last. `NothingWrittenOff`: the
decomposition keeps dependencies on earlier subtasks only, and of those that remain the first depends on
none of them.

**LlmAccess.** `BreakerHoldsInRuns` (a failing provider is tried no more often than the threshold allows and once for every other call)
and `FallbackReachesInRuns` (a call raises at an entry without a provider, or when every provider that would answer it was shut by
others' failures: a provider's counter is at most the number of its failed tries (`Counted`), none of which was of a call it answers
(`Unsound`), and what a call has passed it has tried or found shut (`Passed`)), both in the composition; `CascadeImplemented` says that the composition implements the cascade.
`PoolImplemented` says the same of the pool, whose invariant `PoolInv` gives `AgentsExclusiveInRuns`: an
agent that was made is in one place at most, although `_in_use` is cleared too early, and a new one is in none. With the
types of both, `AccessTypeCorrect`. Eviction is written as an increasing selection of the list's positions
(`WarmPool.Evict`) rather than with `SelectSeq`, of which the library knows nothing; it is the same list.

**BackOffice.** One invariant per desk: `ApprovedAlwaysBooked`, `OpenLogsAlwaysOverlapped`,
`SuccessesAlwaysEmployees`, `TicksAlwaysKept`, `VerdictsAlwaysCurrent`, `PayersAlwaysKeepTier`. For the verdict
it is that a session no commit crossed holds what is committed but for the columns it has yet to
write and those its own commit has rounded up. For the checklists it is that a toggle nothing overlapped has read what is committed. For the tier it is that a
delivery nothing overtook commits exactly what its handler made of the tenant as it is (`Held`), that what may be delivered may be delivered
for ever (`SentStays`), and that an event of an ended subscription can only find a tenant that still has it.
`DesksImplemented` carries them over to the whole: `DesksKeepPromises` states the six together, and
`BackOfficeTypeCorrect` the types. Clock-in requests are finite in number (`ClockAssumption`), since open
logs are counted.

### Model-checked only

* Liveness: `EveryRunDecided`, `EventuallySettled`, `DueIsAttempted` and the liveness half of `KeepsOrder`;
  fairness and ENABLED are out of the prover's reach.
* `ProcessesDraftsOnly` and `CachedAnswersUsable` are violated, as the runs show.

Every other property of the runs is stated by a theorem, some under conditions that the theorem names:
one processor of payrolls, one worker of the queue. The runs of those properties have them as well.

## 5. What is left

1. The daily and monthly resets of `agent_budget.py` between check and record; the idempotency key of
   streams.
2. Other check-then-insert pairs: vacations against balances, room bookings, enrollments.
3. Pure algorithms against reference definitions: tax brackets, overtime, accruals.
4. `webhook_engine.py`: attempts, backoff and the switch that turns a subscription off.

The map covers a few percent of the back end's lines. The rest is mostly what the table "Not modelled"
lists; the parts named here are those where another model would still say something.
