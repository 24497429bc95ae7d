------------------------------- MODULE RunSlots -------------------------------
(***************************************************************************)
(* The run limiter of the agent runtime                                    *)
(* (backend/app/services/concurrency_limiter.py) together with the way its *)
(* two clients use it: execute_agent_run (agent_executor.py) and           *)
(* execute_agent_run_streaming (agent_streaming.py).                       *)
(*                                                                         *)
(* Every run first takes a permit of one process-wide asyncio.Semaphore    *)
(* and then, still holding it, a permit of the semaphore of its tenant.    *)
(* Each of the two waits is cut short after ACQUIRE_TIMEOUT_SECONDS.  A    *)
(* run that got both executes the agent and gives both back.  A run may    *)
(* hand off to another agent: the child is a run of its own that needs its *)
(* own two permits while the parent keeps both of its own.                 *)
(*                                                                         *)
(* asyncio.Semaphore is a library: its FIFO waiters and the direct         *)
(* hand-over of a released permit to the first waiter are modelled as the  *)
(* code uses them.  A step is what runs between two awaits.                *)
(***************************************************************************)
EXTENDS Integers, Sequences, FiniteSets

CONSTANTS
  Run,            \* the agent runs, hand-off children included
  Tenant,         \* the keys of _tenant_semaphores
  Unknown,        \* the key input_payload.get("tenant_id", "unknown") falls back to
  OwnTenant,      \* the tenant a run really belongs to
  CarriesTenant,  \* the runs whose caller puts tenant_id into input_payload
  NoRun,          \* "no parent"
  ParentOf,       \* the run whose hand-off tool starts this run, or NoRun
  Escaping,       \* the runs an exception the executor does not catch may end
  Streams,        \* the runs of execute_agent_run_streaming
  GlobalMax,      \* MAX_CONCURRENT_RUNS
  TenantMax       \* PER_TENANT_MAX

ASSUME RunAssumption ==
  /\ IsFiniteSet(Run)
  /\ NoRun \notin Run
  /\ CarriesTenant \subseteq Run
  /\ Escaping \subseteq Run
  /\ Streams \subseteq Run
  /\ ParentOf \in [Run -> Run \cup {NoRun}]

ASSUME TenantAssumption ==
  /\ Unknown \in Tenant
  /\ OwnTenant \in [Run -> Tenant]

ASSUME LimitAssumption ==
  /\ GlobalMax \in Nat \ {0}
  /\ TenantMax \in Nat \ {0}

VARIABLES
  pc,           \* where each run is
  globalFree,   \* _semaphore._value
  globalQ,      \* the waiters of _semaphore, oldest first
  tenantFree,   \* _tenant_semaphores[t]._value
  tenantQ,      \* the waiters of _tenant_semaphores[t]
  activeRuns    \* _active_runs

vars == <<pc, globalFree, globalQ, tenantFree, tenantQ, activeRuns>>

-------------------------------------------------------------------------------
(* States of a run.  The ones from "done" on are final; the last four are   *)
(* the ways a run ends without giving back exactly what it took.            *)

Waiting == {"waitGlobal", "waitTenant"}

Outcome == {"done", "throttled", "cancelled"}

Leak == {"leaked",          \* both permits are gone
         "leakedGlobal",    \* the global permit is gone
         "overBoth",        \* released two permits it never had
         "overTenant"}      \* released a tenant permit it never had

State == {"idle", "global", "tenant", "enter", "running"}
            \cup Waiting \cup Outcome \cup Leak

Final == Outcome \cup Leak

HoldsGlobal == {"tenant", "waitTenant", "enter", "running", "leaked", "leakedGlobal"}

HoldsTenant == {"enter", "running", "leaked"}

(* tenant = input_payload.get("tenant_id", "unknown").                      *)
TenantOf(r) == IF r \in CarriesTenant THEN OwnTenant[r] ELSE Unknown

Children(r) == {c \in Run : ParentOf[c] = r}

Unfinished(r) == {c \in Children(r) : pc[c] \notin Final \cup {"idle"}}

-------------------------------------------------------------------------------
(* asyncio.Semaphore *)

(* Mutant: looks at the waiters only.                                        *)
LockedByWaiters(free, q) == q # <<>>

Locked(free, q) == free = 0 \/ q # <<>>

(* release(): the permit goes to the oldest waiter when there is one.        *)
FreeAfter(free, q) == IF q = <<>> THEN free + 1 ELSE free

Rest(q) == IF q = <<>> THEN q ELSE Tail(q)

Woken(q) == IF q = <<>> THEN {} ELSE {Head(q)}

DropAt(q, i) == [j \in 1 .. (Len(q) - 1) |-> IF j < i THEN q[j] ELSE q[j + 1]]

-------------------------------------------------------------------------------
TypeOK ==
  /\ pc \in [Run -> State]
  /\ globalFree \in Nat
  /\ globalQ \in Seq(Run)
  /\ tenantFree \in [Tenant -> Nat]
  /\ tenantQ \in [Tenant -> Seq(Run)]
  /\ activeRuns \in [Tenant -> Nat]

Init ==
  /\ pc = [r \in Run |-> "idle"]
  /\ globalFree = GlobalMax
  /\ globalQ = <<>>
  /\ tenantFree = [t \in Tenant |-> TenantMax]
  /\ tenantQ = [t \in Tenant |-> <<>>]
  /\ activeRuns = [t \in Tenant |-> 0]

(* A run reaches acquire_run_slot.  The fast refusal needs BOTH semaphores   *)
(* to be locked.  A child starts while its parent is inside the hand-off     *)
(* tool, one child at a time.                                                *)
Ask(r) ==
  /\ pc[r] = "idle"
  /\ ParentOf[r] # NoRun =>
       pc[ParentOf[r]] = "running" /\ Unfinished(ParentOf[r]) = {}
  /\ LET t == TenantOf(r) IN
       pc' = [pc EXCEPT ![r] =
                IF Locked(tenantFree[t], tenantQ[t]) /\ Locked(globalFree, globalQ)
                THEN "throttled" ELSE "global"]
  /\ UNCHANGED <<globalFree, globalQ, tenantFree, tenantQ, activeRuns>>

(* wait_for(_semaphore.acquire()): taken at once or queued.                  *)
AcquireGlobal(r) ==
  /\ pc[r] = "global"
  /\ IF Locked(globalFree, globalQ)
     THEN /\ globalQ' = Append(globalQ, r)
          /\ pc' = [pc EXCEPT ![r] = "waitGlobal"]
          /\ UNCHANGED globalFree
     ELSE /\ globalFree' = globalFree - 1
          /\ pc' = [pc EXCEPT ![r] = "tenant"]
          /\ UNCHANGED globalQ
  /\ UNCHANGED <<tenantFree, tenantQ, activeRuns>>

(* Mutant: no timeout on the wait for the global permit.                     *)
TimeoutGlobalNever(r) ==
  /\ pc[r] = "never"
  /\ UNCHANGED vars

(* Mutant: the timed-out waiter stays queued.                                *)
TimeoutGlobalStaysQueued(r) ==
  /\ pc[r] = "waitGlobal"
  /\ pc' = [pc EXCEPT ![r] = "throttled"]
  /\ UNCHANGED <<globalFree, globalQ, tenantFree, tenantQ, activeRuns>>

TimeoutGlobal(r) ==
  /\ pc[r] = "waitGlobal"
  /\ \E i \in DOMAIN globalQ : globalQ[i] = r /\ globalQ' = DropAt(globalQ, i)
  /\ pc' = [pc EXCEPT ![r] = "throttled"]
  /\ UNCHANGED <<globalFree, tenantFree, tenantQ, activeRuns>>

(* wait_for(tenant_sem.acquire()), with the global permit in hand.           *)
AcquireTenant(r) ==
  LET t == TenantOf(r) IN
  /\ pc[r] = "tenant"
  /\ IF Locked(tenantFree[t], tenantQ[t])
     THEN /\ tenantQ' = [tenantQ EXCEPT ![t] = Append(@, r)]
          /\ pc' = [pc EXCEPT ![r] = "waitTenant"]
          /\ UNCHANGED tenantFree
     ELSE /\ tenantFree' = [tenantFree EXCEPT ![t] = @ - 1]
          /\ pc' = [pc EXCEPT ![r] = "enter"]
          /\ UNCHANGED tenantQ
  /\ UNCHANGED <<globalFree, globalQ, activeRuns>>

LeaveTenantQ(r) ==
  LET t == TenantOf(r) IN
  \E i \in DOMAIN tenantQ[t] :
    /\ tenantQ[t][i] = r
    /\ tenantQ' = [tenantQ EXCEPT ![t] = DropAt(@, i)]

(* _semaphore.release(): r moves on to state s, a woken waiter to "tenant".  *)
ReleaseGlobal(r, s) ==
  /\ globalFree' = FreeAfter(globalFree, globalQ)
  /\ globalQ' = Rest(globalQ)
  /\ pc' = [x \in Run |-> IF x = r THEN s
                          ELSE IF x \in Woken(globalQ) THEN "tenant" ELSE pc[x]]

(* Mutant: refused without giving the global permit back.                    *)
TimeoutTenantKeepsGlobal(r) ==
  /\ pc[r] = "waitTenant"
  /\ LeaveTenantQ(r)
  /\ pc' = [pc EXCEPT ![r] = "throttled"]
  /\ UNCHANGED <<globalFree, globalQ, tenantFree, activeRuns>>

(* The tenant wait times out: the global permit is given back.               *)
TimeoutTenant(r) ==
  /\ pc[r] = "waitTenant"
  /\ LeaveTenantQ(r)
  /\ ReleaseGlobal(r, "throttled")
  /\ UNCHANGED <<tenantFree, activeRuns>>

(* acquire_run_slot counts the run and returns True.                         *)
Enter(r) ==
  /\ pc[r] = "enter"
  /\ pc' = [pc EXCEPT ![r] = "running"]
  /\ activeRuns' = [activeRuns EXCEPT ![TenantOf(r)] = @ + 1]
  /\ UNCHANGED <<globalFree, globalQ, tenantFree, tenantQ>>

(* Mutant: forgets to lower _active_runs.                                    *)
ReleaseRunSlotStillActive(r, s, gq, tq) ==
  LET t == TenantOf(r) IN
  /\ globalFree' = FreeAfter(globalFree, gq)
  /\ globalQ' = Rest(gq)
  /\ tenantFree' = [tenantFree EXCEPT ![t] = FreeAfter(@, tq)]
  /\ tenantQ' = [tenantQ EXCEPT ![t] = Rest(tq)]
  /\ pc' = [x \in Run |-> IF x = r THEN s
                          ELSE IF x \in Woken(gq) THEN "tenant"
                          ELSE IF x \in Woken(tq) THEN "enter" ELSE pc[x]]
  /\ UNCHANGED activeRuns

(* release_run_slot(tenant), called by r, which ends in state s.  gq and tq  *)
(* are the two queues it finds.                                              *)
ReleaseRunSlot(r, s, gq, tq) ==
  LET t == TenantOf(r) IN
  /\ globalFree' = FreeAfter(globalFree, gq)
  /\ globalQ' = Rest(gq)
  /\ tenantFree' = [tenantFree EXCEPT ![t] = FreeAfter(@, tq)]
  /\ tenantQ' = [tenantQ EXCEPT ![t] = Rest(tq)]
  /\ activeRuns' = [activeRuns EXCEPT ![t] = IF @ > 0 THEN @ - 1 ELSE 0]
  /\ pc' = [x \in Run |-> IF x = r THEN s
                          ELSE IF x \in Woken(gq) THEN "tenant"
                          ELSE IF x \in Woken(tq) THEN "enter" ELSE pc[x]]

(* The run body ends, by a result or by an exception the executor catches,   *)
(* the run row is committed and the slot is released.                        *)
Finish(r) ==
  /\ pc[r] = "running"
  /\ Unfinished(r) = {}
  /\ ReleaseRunSlot(r, "done", globalQ, tenantQ[TenantOf(r)])

(* An exception nobody catches ends the run between acquire and release: a   *)
(* CancelledError (agent_crew's wait_for), a commit that fails, a stream     *)
(* closed at a yield.  (Bound: not while a hand-off child is executing.)     *)
EscapeRunning(r) ==
  /\ r \in Escaping
  /\ pc[r] = "running"
  /\ Unfinished(r) = {}
  /\ pc' = [pc EXCEPT ![r] = "leaked"]
  /\ UNCHANGED <<globalFree, globalQ, tenantFree, tenantQ, activeRuns>>

(* A CancelledError at the wait for the global permit: wait_for withdraws    *)
(* the waiter, nothing is held.                                              *)
EscapeWaitGlobal(r) ==
  /\ r \in Escaping
  /\ pc[r] = "waitGlobal"
  /\ \E i \in DOMAIN globalQ : globalQ[i] = r /\ globalQ' = DropAt(globalQ, i)
  /\ pc' = [pc EXCEPT ![r] = "cancelled"]
  /\ UNCHANGED <<globalFree, tenantFree, tenantQ, activeRuns>>

(* A CancelledError at the wait for the tenant permit: only TimeoutError     *)
(* gives the global permit back.                                             *)
EscapeWaitTenant(r) ==
  /\ r \in Escaping
  /\ pc[r] = "waitTenant"
  /\ LeaveTenantQ(r)
  /\ pc' = [pc EXCEPT ![r] = "leakedGlobal"]
  /\ UNCHANGED <<globalFree, globalQ, tenantFree, activeRuns>>

(* execute_agent_run_streaming catches the CancelledError and, when it is    *)
(* resumed once more, runs its tail, which releases whatever was taken.      *)
StreamTailWaitGlobal(r) ==
  /\ r \in Escaping \cap Streams
  /\ pc[r] = "waitGlobal"
  /\ \E i \in DOMAIN globalQ :
       /\ globalQ[i] = r
       /\ ReleaseRunSlot(r, "overBoth", DropAt(globalQ, i), tenantQ[TenantOf(r)])

StreamTailWaitTenant(r) ==
  /\ r \in Escaping \cap Streams
  /\ pc[r] = "waitTenant"
  /\ LET t == TenantOf(r) IN
     \E i \in DOMAIN tenantQ[t] :
       /\ tenantQ[t][i] = r
       /\ ReleaseRunSlot(r, "overTenant", globalQ, DropAt(tenantQ[t], i))

Step(r) ==
  \/ AcquireGlobal(r) \/ TimeoutGlobal(r)
  \/ AcquireTenant(r) \/ TimeoutTenant(r)
  \/ Enter(r) \/ Finish(r)

Escape(r) ==
  \/ EscapeRunning(r) \/ EscapeWaitGlobal(r) \/ EscapeWaitTenant(r)
  \/ StreamTailWaitGlobal(r) \/ StreamTailWaitTenant(r)

Next == \E r \in Run : Ask(r) \/ Step(r) \/ Escape(r)

(* The event loop runs every ready callback, fires wait_for's timers, and    *)
(* every run body ends (max_loops and the timeouts of the LLM calls).        *)
Fairness == \A r \in Run : WF_vars(Step(r))

Spec == Init /\ [][Next]_vars

FairSpec == Spec /\ Fairness
-------------------------------------------------------------------------------
(* Properties *)

In(S) == {r \in Run : pc[r] \in S}

InT(t, S) == {r \in Run : TenantOf(r) = t /\ pc[r] \in S}

Count(S) == Cardinality(In(S))

CountIn(t, S) == Cardinality(InT(t, S))

(* q lists the members of S, each once.                                      *)
IsQueueOf(q, S) ==
  /\ {q[i] : i \in DOMAIN q} = S
  /\ \A i, j \in DOMAIN q : q[i] = q[j] => i = j

(* No permit is created or lost unnoticed: the free permits of _semaphore    *)
(* and the runs that took one and did not give it back add up to             *)
(* MAX_CONCURRENT_RUNS; only a cancelled stream's tail can push it higher.   *)
GlobalAccounting ==
  globalFree + Count(HoldsGlobal) = GlobalMax + Count({"overBoth"})

(* The same for the semaphore of each tenant.                                *)
TenantAccounting ==
  \A t \in Tenant :
    tenantFree[t] + CountIn(t, HoldsTenant)
      = TenantMax + CountIn(t, {"overBoth", "overTenant"})

(* Both: what the timeouts, cancellations and tails of the two nested         *)
(* acquires do to one semaphore they undo, or not, in the other.             *)
PermitAccounting == GlobalAccounting /\ TenantAccounting

(* What the limiter is for: no tenant executes more than PER_TENANT_MAX runs *)
(* and the process no more than MAX_CONCURRENT_RUNS, up to the permits a     *)
(* cancelled stream's tail released in excess.  It follows from the accounting *)
(* and TypeOK (RunSlotsProofs!LimitsHold).                                   *)
ConcurrencyLimits ==
  /\ Count({"running"}) <= GlobalMax + Count({"overBoth"})
  /\ \A t \in Tenant :
       CountIn(t, {"running"}) <= TenantMax + CountIn(t, {"overBoth", "overTenant"})

(* Every run that waits is in the queue that will wake it, and a free permit  *)
(* and a waiter for it never coexist: release() hands the permit over, and no *)
(* timeout or cancellation in between loses the wake-up.                      *)
NoLostWakeup ==
  /\ IsQueueOf(globalQ, In({"waitGlobal"}))
  /\ globalQ # <<>> => globalFree = 0
  /\ \A t \in Tenant :
       /\ IsQueueOf(tenantQ[t], InT(t, {"waitTenant"}))
       /\ tenantQ[t] # <<>> => tenantFree[t] = 0

(* get_concurrency_status: _active_runs counts the runs between a granted    *)
(* acquire and their release; it never exceeds them, and falls short only by *)
(* the releases of runs that had been granted nothing.                       *)
ActiveRunsHonest ==
  \A t \in Tenant :
    /\ activeRuns[t] <= CountIn(t, {"running", "leaked"})
    /\ CountIn(t, {"running", "leaked"})
         <= activeRuns[t] + CountIn(t, {"overBoth", "overTenant"})

(* Every run that asks for a slot is executed or refused, even when all      *)
(* permits are held by parents whose children wait for one: the timeouts of  *)
(* acquire_run_slot break the cycle.                                         *)
EveryRunDecided == \A r \in Run : (pc[r] # "idle") ~> (pc[r] \in Final)
===============================================================================
