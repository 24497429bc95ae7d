------------------------------- MODULE TimeClock -------------------------------
(***************************************************************************)
(* Clocking in and out (backend/app/api/v1/finance.py, the agent tools of   *)
(* services/platform_tools_hr.py, services/time_tracking_service.py).       *)
(*                                                                         *)
(* A clock-in looks for an open log of the employee, one without clock_out, *)
(* and then inserts one; no constraint of the table forbids a second open   *)
(* log, so requests that overlap can both insert.  From then on             *)
(* scalar_one_or_none raises and the employee is refused until all but one  *)
(* of the logs are closed.  A log is named after the request that made it.  *)
(* Times, places and breaks are left out; the clock-in of                   *)
(* time_tracking_service names columns the table does not have and always   *)
(* raises, so it is not here.                                               *)
(***************************************************************************)
EXTENDS Integers, FiniteSets

CONSTANTS Employee, Nobody,
          Punch             \* a clock-in request

ASSUME ClockAssumption == IsFiniteSet(Punch)

VARIABLES step,             \* where a clock-in is
          who,              \* the employee it is for
          log,              \* the log it made
          before,           \* history: the logs there were when it looked
          order             \* history: logs in the order of their commits

clockVars == <<step, who, log, before, order>>

ClockTypeOK ==
  /\ step \in [Punch -> {"idle", "free", "ended"}]
  /\ who \in [Punch -> Employee \cup {Nobody}]
  /\ log \in [Punch -> {"none", "open", "closed"}]
  /\ before \in [Punch -> SUBSET Punch]
  /\ order \in [Punch -> 0 .. Cardinality(Punch)]

ClockInit ==
  /\ step = [p \in Punch |-> "idle"]
  /\ who = [p \in Punch |-> Nobody]
  /\ log = [p \in Punch |-> "none"]
  /\ before = [p \in Punch |-> {}]
  /\ order = [p \in Punch |-> 0]

Logs(e) == {p \in Punch : who[p] = e /\ log[p] # "none"}

Open(e) == {p \in Logs(e) : log[p] = "open"}

(* Mutant: only the employee's last log is looked at.                           *)
MayClockInAfterLast(e) ==
  \A p \in Logs(e) : (\A o \in Logs(e) : order[o] <= order[p]) => log[p] = "closed"

(* No open log; with several of them the query raises.                           *)
MayClockIn(e) == Open(e) = {}

(* clock_in up to its query's answer.                                           *)
CheckOpen(p, e) ==
  /\ step[p] = "idle"
  /\ step' = [step EXCEPT ![p] = IF MayClockIn(e) THEN "free" ELSE "ended"]
  /\ who' = [who EXCEPT ![p] = e]
  /\ before' = [before EXCEPT ![p] = Logs(e)]
  /\ UNCHANGED <<log, order>>

(* The insert and its commit.                                                   *)
ClockIn(p) ==
  /\ step[p] = "free"
  /\ step' = [step EXCEPT ![p] = "ended"]
  /\ log' = [log EXCEPT ![p] = "open"]
  /\ order' = [order EXCEPT ![p] = Cardinality({o \in Punch : log[o] # "none"}) + 1]
  /\ UNCHANGED <<who, before>>

(* clock_out: by the log's id, whoever else clocks it out too.                   *)
ClockOut(p) ==
  /\ log[p] = "open"
  /\ log' = [log EXCEPT ![p] = "closed"]
  /\ UNCHANGED <<step, who, before, order>>

ClockNext ==
  \/ \E p \in Punch : (\E e \in Employee : CheckOpen(p, e)) \/ ClockIn(p)
  \/ \E p \in Punch : ClockOut(p)

ClockSpec == ClockInit /\ [][ClockNext]_clockVars

-------------------------------------------------------------------------------
(* Property.                                                                    *)

(* Two open logs of an employee come from requests that overlapped: neither was  *)
(* there when the other looked, so clocking in one after the other never leaves  *)
(* two open, whatever was clocked out in between (finance.py:417-426).           *)
OpenLogsOverlapped ==
  \A p, o \in Punch :
    p # o /\ who[p] = who[o] /\ log[p] = "open" /\ log[o] = "open" =>
      o \notin before[p]
===============================================================================
