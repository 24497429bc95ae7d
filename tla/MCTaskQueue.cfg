\* One server process that may die once and one failing Redis command: an import with two
\* attempts and an onboarding pipeline that reports its own outcome.
SPECIFICATION FairSpec
CONSTANTS
  import = import
  onboarding = onboarding
  webhook = webhook
  w1 = w1
  w2 = w2
  Task = {import, onboarding}
  Registered = {import, onboarding}
  Reporting = {onboarding}
  Worker = {w1}
  MaxRetries = 2
  StreamMax = 20
  ScanMax = 1
  MaxCrashes = 1
  MaxFaults = 1
INVARIANTS TypeOK RetryChainsBounded
PROPERTIES EventuallySettled KeepsPromise
\* When Redis fails as a worker starts, that worker ends for good: the system stops.
CHECK_DEADLOCK FALSE
