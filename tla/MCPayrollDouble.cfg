\* The processing endpoint is called twice.
SPECIFICATION Spec
CONSTANTS
  c1 = c1
  c2 = c2
  ana = ana
  ben = ben
  b1 = b1
  b2 = b2
  q1 = q1
  q2 = q2
  NoCycle = NoCycle
  NoBonus = NoBonus
  Cycle = {c1}
  Employee = {ana, ben}
  Bonus = {b1}
  OwnerOf <- Owners
  Base = 8
  BonusPay = 4
  Tax = 4
  Req = {q1, q2}
  Processor = {q1, q2}
  Kinds = {"process"}
  PatchStatus = {"paid"}
  MaxDeaths = 0
PROPERTY ProcessesDraftsOnly
CHECK_DEADLOCK FALSE
