\* One request at a time, employees that fail, the agent tool and the endpoint.
SPECIFICATION Spec
CONSTANTS
  c1 = c1
  c2 = c2
  ana = ana
  ben = ben
  b1 = b1
  b2 = b2
  q1 = q1
  q2 = q2
  NoCycle = NoCycle
  NoBonus = NoBonus
  Cycle = {c1, c2}
  Employee = {ana, ben}
  Bonus = {b1}
  OwnerOf <- Owners
  Base = 8
  BonusPay = 4
  Tax = 4
  Req = {q1}
  Processor = {q1}
  Kinds = {"process", "tool", "patch", "bulk"}
  PatchStatus = {"paid"}
  MaxDeaths = 0
INVARIANTS BonusBacked TotalsMatchSlips
CHECK_DEADLOCK FALSE
