------------------------------- MODULE Schedules -------------------------------
(***************************************************************************)
(* Cron schedules of agents: check_due_schedules of                         *)
(* backend/app/services/agent_scheduler.py, which one task of the server    *)
(* calls once a minute, and the endpoints of                                *)
(* backend/app/api/v1/agent_schedules.py that users call meanwhile.         *)
(*                                                                          *)
(* A tick loads the schedules that are due and runs them one after the      *)
(* other in ONE database session.  What it notes about a schedule is sent   *)
(* to the database when the next run of the tick inserts its row, kept by   *)
(* that run's commit, or by the one after the loop, which is made only if   *)
(* some run returned.  Only the columns that changed are written, whatever  *)
(* another session did to the row; when the row is gone the session raises, *)
(* the tick is over and what it had not committed is lost.                  *)
(***************************************************************************)
EXTENDS Integers

CONSTANTS
  Schedule,    \* the ids schedules get, each used once
  Crons,       \* cron expressions, each the set of minutes it matches
  Horizon,     \* max_iterations: how far _next_run_from_cron looks
  MaxTime,     \* bound on the clock, in minutes
  MaxEdits,    \* bound on the requests of users
  MaxCrashes   \* bound on sessions lost with their process or connection

ASSUME ScheduleAssumption ==
  /\ Crons \subseteq SUBSET Nat /\ Crons # {}
  /\ Horizon \in Nat /\ MaxTime \in Nat /\ MaxEdits \in Nat /\ MaxCrashes \in Nat

VARIABLES
  clock,
  life,       \* "none", "live" or "gone"
  table,      \* the committed columns of a schedule
  busy, now,  \* a tick is in progress, and its time
  todo,       \* the schedules it loaded and has not come to
  current,    \* the schedule it runs, a set of at most one
  inserted,   \* that run has inserted its row
  stored,     \* the columns as the session last read or committed them
  memory,     \* the columns as the session has set them
  sent,       \* rows it has updated and not committed: nobody else can
  executed,   \* some run of the tick has returned
  done,       \* the runs committed for an occurrence of a schedule
  edits,
  lost        \* ticks of the scheduler that lost their session

tick == <<busy, now, todo, current, inserted, stored, memory, sent, executed>>
vars == <<clock, life, table, tick, done, edits, lost>>

-------------------------------------------------------------------------------
Statuses == {"none", "success", "failed", "throttled"}

Row == [cron : Crons, active : BOOLEAN, next : Nat, last : Statuses]

Minute == 0 .. MaxTime

TypeOK ==
  /\ clock \in Minute /\ now \in Minute
  /\ life \in [Schedule -> {"none", "live", "gone"}]
  /\ table \in [Schedule -> Row]
  /\ stored \in [Schedule -> Row] /\ memory \in [Schedule -> Row]
  /\ busy \in BOOLEAN /\ inserted \in BOOLEAN /\ executed \in BOOLEAN
  /\ todo \subseteq Schedule /\ current \subseteq Schedule /\ sent \subseteq Schedule
  /\ done \in [Schedule -> [Minute -> Nat]]
  /\ edits \in Nat /\ lost \in Nat

Blank == [cron |-> CHOOSE c \in Crons : TRUE, active |-> FALSE, next |-> 0, last |-> "none"]

Init ==
  /\ clock = 0 /\ now = 0
  /\ life = [s \in Schedule |-> "none"]
  /\ table = [s \in Schedule |-> Blank]
  /\ stored = [s \in Schedule |-> Blank] /\ memory = [s \in Schedule |-> Blank]
  /\ todo = {} /\ current = {} /\ sent = {}
  /\ busy = FALSE /\ inserted = FALSE /\ executed = FALSE
  /\ done = [s \in Schedule |-> [o \in Minute |-> 0]]
  /\ edits = 0 /\ lost = 0

Later(c, t) == {m \in c : t < m /\ m <= t + Horizon}

(* Mutant: the minute of the call is looked at too.                             *)
NextRunFrom(c, t) ==
  LET S == {m \in c : t <= m /\ m <= t + Horizon}
  IN IF S = {} THEN t + 1 ELSE CHOOSE m \in S : \A n \in S : m <= n

(* Mutant: the way out of the loop goes back in time.                           *)
NextRunBefore(c, t) ==
  IF Later(c, t) = {} THEN t - 1
  ELSE CHOOSE m \in Later(c, t) : \A n \in Later(c, t) : m <= n

(* _next_run_from_cron: the first minute after t that the expression matches.   *)
NextRun(c, t) ==
  IF Later(c, t) = {} THEN t + 1
  ELSE CHOOSE m \in Later(c, t) : \A n \in Later(c, t) : m <= n

-------------------------------------------------------------------------------
(* The tick. *)

Due(s) == life[s] = "live" /\ table[s].active /\ table[s].next <= clock

Changed == {s \in Schedule : memory[s] # stored[s]}

(* An UPDATE matches no row.                                                    *)
Stale == \E s \in Changed \ sent : life[s] # "live"

Updated(s) ==
  [table[s] EXCEPT !.next = IF memory[s].next # stored[s].next THEN memory[s].next ELSE @,
                   !.last = IF memory[s].last # stored[s].last THEN memory[s].last ELSE @]

(* A commit of the session.                                                     *)
Save == table' = [s \in Schedule |-> IF s \in Changed THEN Updated(s) ELSE table[s]]

(* The session is closed; what it had not committed is lost.                    *)
Close ==
  /\ busy' = FALSE /\ inserted' = FALSE /\ executed' = FALSE
  /\ todo' = {} /\ current' = {} /\ sent' = {}
  /\ now' = 0
  /\ stored' = [s \in Schedule |-> Blank] /\ memory' = [s \in Schedule |-> Blank]

(* The schedules are loaded.  They come in any order.                           *)
Load ==
  /\ ~busy
  /\ \E s \in Schedule : Due(s)
  /\ busy' = TRUE
  /\ now' = clock
  /\ todo' = {s \in Schedule : Due(s)}
  /\ stored' = table /\ memory' = table
  /\ UNCHANGED <<clock, life, table, current, inserted, sent, executed, done, edits, lost>>

Pick(s) ==
  /\ busy /\ current = {} /\ s \in todo
  /\ todo' = todo \ {s}
  /\ current' = {s}
  /\ UNCHANGED <<clock, life, table, busy, now, inserted, stored, memory, sent, executed,
                 done, edits, lost>>

(* The run's row is inserted, and with it everything noted so far is sent.       *)
Insert ==
  /\ current # {} /\ ~inserted
  /\ IF Stale
     THEN Close /\ lost' = lost + 1
     ELSE /\ inserted' = TRUE /\ sent' = Changed
          /\ UNCHANGED <<busy, now, todo, current, stored, memory, executed, lost>>
  /\ UNCHANGED <<clock, life, table, done, edits>>

(* A tool of the run commits the session.                                       *)
CommitByTool ==
  /\ inserted /\ sent # {}
  /\ Save
  /\ stored' = memory
  /\ sent' = {}
  /\ UNCHANGED <<clock, life, busy, now, todo, current, inserted, memory, executed, done,
                 edits, lost>>

Noted(s, status) ==
  [memory EXCEPT ![s].last = status, ![s].next = NextRun(memory[s].cron, now)]

(* The run ends with its own commit and returns its status.                     *)
Return(s, status) ==
  /\ s \in current /\ inserted
  /\ Save
  /\ stored' = memory
  /\ memory' = Noted(s, status)
  /\ sent' = {}
  /\ done' = [done EXCEPT ![s][memory[s].next] = @ + 1]
  /\ current' = {} /\ inserted' = FALSE /\ executed' = TRUE
  /\ UNCHANGED <<clock, life, busy, now, todo, edits, lost>>

(* No slot: the run returns at once, without a commit.                          *)
Throttle(s) ==
  /\ s \in current /\ inserted
  /\ memory' = Noted(s, "throttled")
  /\ current' = {} /\ inserted' = FALSE /\ executed' = TRUE
  /\ UNCHANGED <<clock, life, table, busy, now, todo, stored, sent, done, edits, lost>>

(* Mutant: a schedule that raised is moved on as well.                          *)
RaiseAndMove(s) ==
  /\ s \in current /\ ~inserted
  /\ memory' = Noted(s, "failed")
  /\ current' = {}
  /\ UNCHANGED <<clock, life, table, busy, now, todo, inserted, stored, sent, executed,
                 done, edits, lost>>

(* Mutant: the exception ends the loop.                                         *)
RaiseAndStop(s) ==
  /\ s \in current /\ ~inserted
  /\ memory' = [memory EXCEPT ![s].last = "failed"]
  /\ current' = {} /\ todo' = {}
  /\ UNCHANGED <<clock, life, table, busy, now, inserted, stored, sent, executed,
                 done, edits, lost>>

(* The budget is used up or the agent is gone: the run raises before its insert. *)
Raise(s) ==
  /\ s \in current /\ ~inserted
  /\ memory' = [memory EXCEPT ![s].last = "failed"]
  /\ current' = {}
  /\ UNCHANGED <<clock, life, table, busy, now, todo, inserted, stored, sent, executed,
                 done, edits, lost>>

(* The end of the loop, and its commit if some run returned.                    *)
Finish ==
  /\ busy /\ todo = {} /\ current = {}
  /\ Close
  /\ IF executed /\ ~Stale THEN Save ELSE UNCHANGED table
  /\ lost' = IF executed /\ Stale THEN lost + 1 ELSE lost
  /\ UNCHANGED <<clock, life, done, edits>>

(* The process dies, or its connection does.                                    *)
Crash ==
  /\ busy /\ lost < MaxCrashes
  /\ Close
  /\ lost' = lost + 1
  /\ UNCHANGED <<clock, life, table, done, edits>>

-------------------------------------------------------------------------------
(* The users. *)

Edit(s) == edits < MaxEdits /\ edits' = edits + 1 /\ s \notin sent

Create(s, c, on) ==
  /\ Edit(s) /\ life[s] = "none"
  /\ life' = [life EXCEPT ![s] = "live"]
  /\ table' = [table EXCEPT ![s] =
                 [cron |-> c, active |-> on, next |-> NextRun(c, clock), last |-> "none"]]
  /\ UNCHANGED <<clock, tick, done, lost>>

(* update_schedule with a new expression ...                                    *)
SetCron(s, c) ==
  /\ Edit(s) /\ life[s] = "live"
  /\ table' = [table EXCEPT ![s].cron = c, ![s].next = NextRun(c, clock)]
  /\ UNCHANGED <<clock, life, tick, done, lost>>

(* ... or to switch it on or off: next_run_at stays.                            *)
SetActive(s, on) ==
  /\ Edit(s) /\ life[s] = "live"
  /\ table' = [table EXCEPT ![s].active = on]
  /\ UNCHANGED <<clock, life, tick, done, lost>>

Delete(s) ==
  /\ Edit(s) /\ life[s] = "live"
  /\ life' = [life EXCEPT ![s] = "gone"]
  /\ UNCHANGED <<clock, table, tick, done, lost>>

(* run_schedule_now, when its session commits: next_run_at stays.               *)
RunNow(s, status) ==
  /\ Edit(s) /\ life[s] = "live"
  /\ table' = [table EXCEPT ![s].last = status]
  /\ UNCHANGED <<clock, life, tick, done, lost>>

Advance ==
  /\ clock < MaxTime
  /\ clock' = clock + 1
  /\ UNCHANGED <<life, table, tick, done, edits, lost>>

-------------------------------------------------------------------------------
Ended == {"success", "failed"}

TickStep ==
  \/ Load \/ Insert \/ CommitByTool \/ Finish
  \/ \E s \in Schedule :
       Pick(s) \/ Throttle(s) \/ Raise(s) \/ \E status \in Ended : Return(s, status)

UserStep ==
  \E s \in Schedule :
    \/ \E c \in Crons : SetCron(s, c) \/ \E on \in BOOLEAN : Create(s, c, on)
    \/ \E on \in BOOLEAN : SetActive(s, on)
    \/ Delete(s)
    \/ \E status \in Ended : RunNow(s, status)

Next == TickStep \/ Crash \/ UserStep \/ Advance

(* The scheduler's task keeps going (an exception is caught by _scheduler_loop), *)
(* and every run it awaits ends.                                                *)
Spec == Init /\ [][Next]_vars /\ WF_vars(TickStep)

-------------------------------------------------------------------------------
(* Properties *)

(* One occurrence of a schedule is run once, and once more for every tick that   *)
(* lost what it had noted: neither the users' edits nor a stale write of         *)
(* next_run_at makes the scheduler come back to a minute it has dealt with.      *)
RepeatsExplained ==
  \A s \in Schedule, o \in Minute : done[s][o] <= 1 + lost

(* A schedule that raises stays due: the scheduler leaves an occurrence behind    *)
(* only when a run was committed for it or was refused a slot; whatever else       *)
(* moves next_run_at is a user's request.                                          *)
OnlyRunsMoveOn ==
  [][\A s \in Schedule :
       table'[s].next # table[s].next =>
         \/ edits' > edits
         \/ done[s][stored[s].next] > 0
         \/ memory[s].last = "throttled"]_vars

(* A schedule that is due is run by a tick, whatever the schedules beside it do, *)
(* unless a user changes it first.                                              *)
DueIsAttempted ==
  \A s \in Schedule : Due(s) ~> (s \in current \/ ~Due(s))
===============================================================================
