\* Two schedules, three requests of users, one crash; two minutes pass.
SPECIFICATION Spec
CONSTANTS
  daily = daily
  weekly = weekly
  Schedule = {daily, weekly}
  Crons <- Expressions
  Horizon = 2
  MaxTime = 2
  MaxEdits = 3
  MaxCrashes = 1
INVARIANTS TypeOK RepeatsExplained
PROPERTIES OnlyRunsMoveOn DueIsAttempted
CHECK_DEADLOCK FALSE
