\* r1 of tA and r4 of tB hand off to a child keyed "unknown" (r3, r5); r2 and r6 of tA
\* are streams. The streams and r1 (a crew subtask) may be cut off anywhere. Two global
\* permits, one per tenant: both parents can hold every global permit while both children
\* wait for one.
SPECIFICATION FairSpec
CONSTANTS
  r1 = r1
  r2 = r2
  r3 = r3
  r4 = r4
  r5 = r5
  r6 = r6
  tA = tA
  tB = tB
  tU = tU
  NoRun = NoRun
  Run = {r1, r2, r3, r4, r5, r6}
  Tenant <- MCTenant
  Unknown = tU
  OwnTenant <- MCOwnTenant
  ParentOf <- HandOffs
  CarriesTenant = {r1, r2, r4, r6}
  Escaping = {r1, r2, r6}
  Streams = {r2, r6}
  GlobalMax = 2
  TenantMax = 1
INVARIANTS TypeOK PermitAccounting NoLostWakeup ActiveRunsHonest
PROPERTY EveryRunDecided
CHECK_DEADLOCK FALSE
