\* Two server processes overlap (a deploy), each recovering what the other is still
\* processing; one of them may die and one Redis command may fail, at any step; the stream
\* keeps three entries only; the webhook retry has no handler.
SPECIFICATION Spec
CONSTANTS
  import = import
  onboarding = onboarding
  webhook = webhook
  w1 = w1
  w2 = w2
  Task = {import, webhook}
  Registered = {import}
  Reporting = {}
  Worker = {w1, w2}
  MaxRetries = 2
  StreamMax = 3
  ScanMax = 2
  MaxCrashes = 1
  MaxFaults = 1
INVARIANT NoTaskLost
VIEW Relevant
SYMMETRY Servers
\* When Redis fails as a worker starts, that worker ends for good: the system stops.
CHECK_DEADLOCK FALSE
