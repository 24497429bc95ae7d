------------------------------ MODULE MCSchedules ------------------------------
(* Small instances of Schedules.                                               *)
EXTENDS Schedules

CONSTANTS daily, weekly

EvenMinutes == {m \in 0 .. MaxTime + Horizon : m % 2 = 0}

(* The 31st of February: _next_run_from_cron falls back on the next minute.     *)
NoMinute == {}

Expressions == {EvenMinutes, NoMinute}

===============================================================================
