\* Requests that overlap, one desk at work at a time.
SPECIFICATION Spec
CONSTANTS
  Request = {q1, q2}
  Amount = {low, high}
  Unset = Unset
  Employee = {carl, dora}
  Nobody = Nobody
  Punch = {p1, p2, p3, p4}
  ann = ann
  anna = anna
  annsMail = annsMail
  Candidate = {ann, anna}
  Email = {annsMail}
  EmailOf <- Mail
  Promotion = {h1, h2, h3}
  UsedStage = {"hired", "rejected"}
  Step = {s1, s2}
  Visit = {v1, v2}
  MaxLists = 2
  Session = {t1, t2}
  Reported = {"test", "survey"}
  first = first
  second = second
third = third
  cheap = cheap
  dear = dear
plain = plain
  Sub = {first, second, third}
  Tier = {cheap, dear, plain}
  TierOf <- Price
  Chosen = plain
  AtSignup = {third}
  Delivery = {d1, d2}
  Free = Free
  NoSub = NoSub
VIEW Relevant
SYMMETRY Alike
INVARIANTS TypeOK ApprovedIsBooked OpenLogsOverlapped SuccessesAreEmployees TicksKept
  VerdictCurrent PayersKeepTier
CHECK_DEADLOCK FALSE
