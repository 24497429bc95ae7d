\* Two requests at once, in two modes, beside two schedules of another agent; one run
\* may be lost.
SPECIFICATION Spec
CONSTANTS
  r1 = r1
  r2 = r2
  s1 = s1
  s2 = s2
  a1 = a1
  a2 = a2
  eva = eva
  NoUser = NoUser
  Run = {r1, r2, s1, s2}
  Agent = {a1, a2}
  User = {eva}
  AgentOf <- Agents
  UserOf <- Callers
  ModeOf <- MixedModes
  Cron = {s1, s2}
  Limit = 2
  Estimate = 1
  Costs = {0, 2}
  MaxLost = 1
INVARIANTS TypeOK  NeverOvercharged ScheduledTracked CapHolds
SYMMETRY Schedules
VIEW Relevant
CHECK_DEADLOCK FALSE
