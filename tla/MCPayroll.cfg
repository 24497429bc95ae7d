\* One processing request, which may die once, beside one clerk who pays cycles and deletes
\* bonuses.
SPECIFICATION Spec
CONSTANTS
  c1 = c1
  c2 = c2
  ana = ana
  ben = ben
  b1 = b1
  b2 = b2
  q1 = q1
  q2 = q2
  NoCycle = NoCycle
  NoBonus = NoBonus
  Cycle = {c1}
  Employee = {ana, ben}
  Bonus = {b1, b2}
  OwnerOf <- Owners
  Base = 8
  BonusPay = 4
  Tax = 4
  Req = {q1, q2}
  Processor = {q1}
  Kinds = {"process", "patch", "delete"}
  PatchStatus = {"paid"}
  MaxDeaths = 1
INVARIANTS TypeOK BonusPaidOnce JournalFaithful OnePayslipUnlessAborted
PROPERTY SettledOnPay
CHECK_DEADLOCK FALSE
