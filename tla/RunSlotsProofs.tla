---------------------------- MODULE RunSlotsProofs ----------------------------
(***************************************************************************)
(* Proofs about RunSlots for any number of runs, tenants and permits.      *)
(* The argument: the wait queues list exactly the waiting runs, each once, *)
(* so a released permit goes to a run that had none; then every action     *)
(* moves as many permits as it moves runs in or out of the set of holders. *)
(***************************************************************************)
EXTENDS RunSlots, FiniteSetTheorems, TLAPS

-------------------------------------------------------------------------------
(* The queue operations *)

(* Removing entry i leaves a queue of the other members.                      *)
LEMMA DropAtFacts ==
  ASSUME NEW q \in Seq(Run), NEW S, IsQueueOf(q, S), NEW i \in DOMAIN q
  PROVE  DropAt(q, i) \in Seq(Run) /\ IsQueueOf(DropAt(q, i), S \ {q[i]})
<1>1. Len(q) \in Nat /\ DOMAIN q = 1 .. Len(q) /\ Len(q) >= 1
  OBVIOUS
<1> DEFINE d == DropAt(q, i)
<1>2. d = [j \in 1 .. (Len(q) - 1) |-> IF j < i THEN q[j] ELSE q[j + 1]]
  BY DEF DropAt
<1>3. d \in Seq(Run)
  <2>1. \A j \in 1 .. (Len(q) - 1) : d[j] \in Run
    BY <1>1, <1>2
  <2> QED BY <1>1, <1>2, <2>1
<1>4. DOMAIN d = 1 .. (Len(q) - 1)
  BY <1>2
<1>5. \A j, k \in DOMAIN q : q[j] = q[k] => j = k
  BY DEF IsQueueOf
<1>6. \A j, k \in DOMAIN d : d[j] = d[k] => j = k
  BY <1>1, <1>2, <1>4, <1>5
<1>7. \A j \in DOMAIN d : \E k \in DOMAIN q : k # i /\ d[j] = q[k]
  <2> SUFFICES ASSUME NEW j \in DOMAIN d
               PROVE  \E k \in DOMAIN q : k # i /\ d[j] = q[k]
    OBVIOUS
  <2>1. CASE j < i
    BY <2>1, <1>1, <1>2, <1>4
  <2>2. CASE ~(j < i)
    <3>1. d[j] = q[j + 1] /\ j + 1 \in DOMAIN q /\ j + 1 # i
      BY <2>2, <1>1, <1>2, <1>4
    <3> QED BY <3>1
  <2> QED BY <2>1, <2>2
<1>8. \A k \in DOMAIN q : k # i => \E j \in DOMAIN d : d[j] = q[k]
  <2> SUFFICES ASSUME NEW k \in DOMAIN q, k # i
               PROVE  \E j \in DOMAIN d : d[j] = q[k]
    OBVIOUS
  <2>1. CASE k < i
    BY <2>1, <1>1, <1>2, <1>4
  <2>2. CASE ~(k < i)
    <3>1. k - 1 \in DOMAIN d /\ d[k - 1] = q[k]
      BY <2>2, <1>1, <1>2, <1>4
    <3> QED BY <3>1
  <2> QED BY <2>1, <2>2
<1>9. {d[j] : j \in DOMAIN d} = {q[k] : k \in DOMAIN q} \ {q[i]}
  BY <1>5, <1>7, <1>8
<1> QED BY <1>3, <1>6, <1>9 DEF IsQueueOf

(* Handing a permit to the head, if there is one, leaves the others waiting.  *)
LEMMA RestFacts ==
  ASSUME NEW q \in Seq(Run), NEW S, IsQueueOf(q, S)
  PROVE  /\ Rest(q) \in Seq(Run) /\ IsQueueOf(Rest(q), S \ Woken(q))
         /\ q = <<>> => Woken(q) = {} /\ Rest(q) = q
         /\ q # <<>> => \E h \in S : h \in Run /\ Woken(q) = {h}
<1>1. CASE q = <<>>
  BY <1>1 DEF Rest, Woken
<1>2. CASE q # <<>>
  <2>1. /\ Len(q) \in Nat /\ Len(q) >= 1 /\ DOMAIN q = 1 .. Len(q)
        /\ Head(q) = q[1] /\ q[1] \in Run
        /\ Tail(q) \in Seq(Run) /\ Len(Tail(q)) = Len(q) - 1
        /\ \A j \in 1 .. (Len(q) - 1) : Tail(q)[j] = q[j + 1]
    BY <1>2
  <2>2. DOMAIN Tail(q) = 1 .. (Len(q) - 1)
    BY <2>1
  <2>3. Rest(q) = Tail(q) /\ Woken(q) = {q[1]} /\ q[1] \in S
    BY <1>2, <2>1 DEF Rest, Woken, IsQueueOf
  <2>4. \A j \in DOMAIN Tail(q) : j + 1 \in DOMAIN q /\ j + 1 # 1 /\ Tail(q)[j] = q[j + 1]
    BY <2>1, <2>2
  <2>5. \A j, k \in DOMAIN q : q[j] = q[k] => j = k
    BY DEF IsQueueOf
  <2>6. \A j, k \in DOMAIN Tail(q) : Tail(q)[j] = Tail(q)[k] => j = k
    BY <2>1, <2>2, <2>4, <2>5
  <2>7. \A k \in DOMAIN q : k # 1 => \E j \in DOMAIN Tail(q) : Tail(q)[j] = q[k]
    <3> SUFFICES ASSUME NEW k \in DOMAIN q, k # 1
                 PROVE  \E j \in DOMAIN Tail(q) : Tail(q)[j] = q[k]
      OBVIOUS
    <3>1. k - 1 \in DOMAIN Tail(q) /\ Tail(q)[k - 1] = q[k]
      BY <2>1, <2>2
    <3> QED BY <3>1
  <2>8. {Tail(q)[j] : j \in DOMAIN Tail(q)} = {q[k] : k \in DOMAIN q} \ {q[1]}
    BY <2>1, <2>4, <2>5, <2>7
  <2>9. IsQueueOf(Rest(q), S \ Woken(q))
    BY ZenonT(30), <2>3, <2>6, <2>8 DEF IsQueueOf
  <2> QED BY <1>2, <2>1, <2>3, <2>9
<1> QED BY <1>1, <1>2

(* Queueing a run that is not yet queued.                                     *)
LEMMA AppendFacts ==
  ASSUME NEW q \in Seq(Run), NEW S, IsQueueOf(q, S), NEW r \in Run, r \notin S
  PROVE  Append(q, r) \in Seq(Run) /\ IsQueueOf(Append(q, r), S \cup {r})
<1> DEFINE a == Append(q, r)
<1>1. /\ a \in Seq(Run) /\ DOMAIN a = DOMAIN q \cup {Len(q) + 1}
      /\ a[Len(q) + 1] = r /\ \A i \in DOMAIN q : a[i] = q[i]
  OBVIOUS
<1>2. {a[i] : i \in DOMAIN a} = S \cup {r}
  BY <1>1 DEF IsQueueOf
<1>3. \A i, j \in DOMAIN a : a[i] = a[j] => i = j
  BY <1>1 DEF IsQueueOf
<1> QED BY <1>1, <1>2, <1>3 DEF IsQueueOf

-------------------------------------------------------------------------------
USE RunAssumption, TenantAssumption, LimitAssumption

LEMMA TenantOfType == \A r \in Run : TenantOf(r) \in Tenant
  BY DEF TenantOf

-------------------------------------------------------------------------------
(* Counting permits *)

LEMMA CountFacts ==
  ASSUME NEW A \in SUBSET Run, NEW r \in Run
  PROVE  /\ Cardinality(A) \in Nat
         /\ r \notin A => Cardinality(A \cup {r}) = Cardinality(A) + 1
         /\ r \in A => Cardinality(A \ {r}) = Cardinality(A) - 1
  BY FS_Subset, FS_CardinalityType, FS_AddElement, FS_RemoveElement

(* release() adds one to the free permits and the holders taken together.     *)
LEMMA ReleaseCount ==
  ASSUME NEW q \in Seq(Run), NEW S, IsQueueOf(q, S),
         NEW A \in SUBSET Run, S \cap A = {}, NEW free \in Nat
  PROVE  /\ FreeAfter(free, q) \in Nat
         /\ FreeAfter(free, q) + Cardinality(A \cup Woken(q)) = free + Cardinality(A) + 1
<1>1. CASE q = <<>>
  <2>1. Woken(q) = {} /\ A \cup Woken(q) = A
    BY <1>1, RestFacts
  <2>2. Cardinality(A) \in Nat
    BY FS_Subset, FS_CardinalityType
  <2>3. FreeAfter(free, q) = free + 1
    BY <1>1 DEF FreeAfter
  <2>4. Cardinality(A \cup Woken(q)) = Cardinality(A)
    BY <2>1
  <2> QED BY <2>2, <2>3, <2>4
<1>2. CASE q # <<>>
  <2>1. PICK h \in S : h \in Run /\ Woken(q) = {h}
    BY <1>2, RestFacts
  <2>2. Cardinality(A \cup {h}) = Cardinality(A) + 1 /\ Cardinality(A) \in Nat
    BY <2>1, CountFacts
  <2> QED BY <1>2, <2>1, <2>2 DEF FreeAfter
<1> QED BY <1>1, <1>2

(* The free permits after a release are zero while somebody still waits.      *)
LEMMA ReleaseWakes ==
  ASSUME NEW q \in Seq(Run), NEW S, IsQueueOf(q, S), NEW free,
         q # <<>> => free = 0
  PROVE  Rest(q) # <<>> => FreeAfter(free, q) = 0
  BY DEF FreeAfter, Rest

-------------------------------------------------------------------------------
IInv == TypeOK /\ NoLostWakeup /\ GlobalAccounting /\ TenantAccounting

LEMMA IInvInit == Init => IInv
<1> SUFFICES ASSUME Init PROVE IInv
  OBVIOUS
<1>1. TypeOK
  BY DEF Init, TypeOK, State
<1>2. IsQueueOf(<<>>, {})
  BY DEF IsQueueOf
<1>3. \A S : "idle" \notin S => In(S) = {} /\ \A t \in Tenant : InT(t, S) = {}
  BY DEF Init, In, InT
<1>4. Cardinality({}) = 0
  BY FS_EmptySet
<1>5. NoLostWakeup
  BY <1>2, <1>3 DEF Init, NoLostWakeup
<1>6. GlobalAccounting
  BY <1>3, <1>4 DEF Init, GlobalAccounting, Count, HoldsGlobal
<1>7. TenantAccounting
  BY <1>3, <1>4 DEF Init, TenantAccounting, CountIn, HoldsTenant
<1> QED BY <1>1, <1>5, <1>6, <1>7 DEF IInv

(* A step that changes no semaphore and moves no run across one of the sets   *)
(* the invariant speaks of.                                                   *)
LEMMA IInvNoPermit ==
  ASSUME IInv, TypeOK', UNCHANGED <<globalFree, globalQ, tenantFree, tenantQ>>,
         NEW r \in Run, NEW s, pc' = [pc EXCEPT ![r] = s],
         \A S \in {{"waitGlobal"}, {"waitTenant"}, HoldsGlobal, HoldsTenant,
                   {"overBoth"}, {"overBoth", "overTenant"}} : s \in S <=> pc[r] \in S
  PROVE  IInv'
<1>1. \A S \in {{"waitGlobal"}, {"waitTenant"}, HoldsGlobal, HoldsTenant,
                {"overBoth"}, {"overBoth", "overTenant"}} :
        In(S)' = In(S) /\ \A t \in Tenant : InT(t, S)' = InT(t, S)
  BY DEF IInv, TypeOK, In, InT, TenantOf
<1>2. NoLostWakeup'
  BY <1>1 DEF IInv, NoLostWakeup
<1>3. GlobalAccounting'
  BY <1>1 DEF IInv, GlobalAccounting, Count
<1>4. TenantAccounting'
  BY <1>1 DEF IInv, TenantAccounting, CountIn
<1> QED BY <1>2, <1>3, <1>4 DEF IInv

LEMMA IInvAsk == ASSUME IInv, NEW r \in Run, Ask(r) PROVE IInv'
<1>1. PICK s \in {"throttled", "global"} : pc' = [pc EXCEPT ![r] = s]
  BY DEF Ask
<1>2. TypeOK'
  BY <1>1 DEF Ask, IInv, TypeOK, State, Outcome
<1> QED BY <1>1, <1>2, IInvNoPermit DEF Ask, HoldsGlobal, HoldsTenant

LEMMA IInvEnter == ASSUME IInv, NEW r \in Run, Enter(r) PROVE IInv'
<1>1. TypeOK'
  <2>1. TenantOf(r) \in Tenant
    BY TenantOfType
  <2>2. activeRuns' \in [Tenant -> Nat]
    BY <2>1 DEF Enter, IInv, TypeOK
  <2> QED BY <2>2 DEF Enter, IInv, TypeOK, State
<1> QED BY <1>1, IInvNoPermit DEF Enter, HoldsGlobal, HoldsTenant

LEMMA IInvEscapeRunning == ASSUME IInv, NEW r \in Run, EscapeRunning(r) PROVE IInv'
<1>1. TypeOK'
  BY DEF EscapeRunning, IInv, TypeOK, State, Leak
<1> QED BY <1>1, IInvNoPermit DEF EscapeRunning, HoldsGlobal, HoldsTenant

LEMMA AcquireGlobalStep == ASSUME IInv, NEW r \in Run, AcquireGlobal(r) PROVE IInv'
<1>1. r \notin In({"waitGlobal"}) /\ pc[r] = "global" /\ r \notin In(HoldsGlobal)
  BY DEF AcquireGlobal, In, HoldsGlobal
<1>2. CASE Locked(globalFree, globalQ)
  <2>1. /\ globalQ' = Append(globalQ, r) /\ globalFree = 0
        /\ pc' = [pc EXCEPT ![r] = "waitGlobal"]
        /\ UNCHANGED <<globalFree, tenantFree, tenantQ, activeRuns>>
    BY <1>2 DEF AcquireGlobal, Locked, IInv, NoLostWakeup
  <2>2. globalQ' \in Seq(Run) /\ IsQueueOf(globalQ', In({"waitGlobal"}) \cup {r})
    BY <1>1, <2>1, AppendFacts DEF IInv, TypeOK, NoLostWakeup
  <2>3. TypeOK'
    BY <2>1, <2>2 DEF IInv, TypeOK, State, Waiting
  <2>4. /\ In({"waitGlobal"})' = In({"waitGlobal"}) \cup {r}
        /\ \A S : {"global", "waitGlobal"} \cap S = {} =>
             In(S)' = In(S) /\ \A t \in Tenant : InT(t, S)' = InT(t, S)
    BY <1>1, <2>1 DEF IInv, TypeOK, In, InT, TenantOf
  <2>5. NoLostWakeup'
    BY <2>1, <2>2, <2>4 DEF IInv, NoLostWakeup
  <2>6. GlobalAccounting' /\ TenantAccounting'
    BY <2>1, <2>4 DEF IInv, GlobalAccounting, TenantAccounting, Count, CountIn,
                      HoldsGlobal, HoldsTenant
  <2> QED BY <2>3, <2>5, <2>6 DEF IInv
<1>3. CASE ~Locked(globalFree, globalQ)
  <2>1. /\ globalFree' = globalFree - 1 /\ globalFree # 0 /\ globalQ = <<>>
        /\ pc' = [pc EXCEPT ![r] = "tenant"]
        /\ UNCHANGED <<globalQ, tenantFree, tenantQ, activeRuns>>
    BY <1>3 DEF AcquireGlobal, Locked
  <2>2. TypeOK'
    BY <2>1 DEF IInv, TypeOK, State
  <2>3. /\ In(HoldsGlobal)' = In(HoldsGlobal) \cup {r}
        /\ \A S : {"global", "tenant"} \cap S = {} =>
             In(S)' = In(S) /\ \A t \in Tenant : InT(t, S)' = InT(t, S)
    BY <1>1, <2>1 DEF IInv, TypeOK, In, InT, TenantOf, HoldsGlobal
  <2>4. NoLostWakeup'
    BY <2>1, <2>3 DEF IInv, NoLostWakeup
  <2>5. GlobalAccounting'
    <3>1. /\ Cardinality(In(HoldsGlobal)') = Cardinality(In(HoldsGlobal)) + 1
          /\ Cardinality(In(HoldsGlobal)) \in Nat
      BY <1>1, <2>3, CountFacts DEF In
    <3>2. In({"overBoth"})' = In({"overBoth"})
      BY <2>3
    <3> QED BY <2>1, <3>1, <3>2 DEF IInv, TypeOK, GlobalAccounting, Count
  <2>6. TenantAccounting'
    BY <2>1, <2>3 DEF IInv, TenantAccounting, CountIn, HoldsTenant
  <2> QED BY <2>2, <2>4, <2>5, <2>6 DEF IInv
<1> QED BY <1>2, <1>3

LEMMA LeaveGlobalQ ==
  ASSUME IInv, NEW r \in Run, NEW s \in {"throttled", "cancelled"},
         pc[r] = "waitGlobal", pc' = [pc EXCEPT ![r] = s],
         \E i \in DOMAIN globalQ : globalQ[i] = r /\ globalQ' = DropAt(globalQ, i),
         UNCHANGED <<globalFree, tenantFree, tenantQ, activeRuns>>
  PROVE  IInv'
<1>1. PICK i \in DOMAIN globalQ : globalQ[i] = r /\ globalQ' = DropAt(globalQ, i)
  OBVIOUS
<1>2. globalQ' \in Seq(Run) /\ IsQueueOf(globalQ', In({"waitGlobal"}) \ {r})
  BY <1>1, DropAtFacts DEF IInv, TypeOK, NoLostWakeup
<1>3. globalQ # <<>> /\ globalFree = 0
  BY <1>1 DEF IInv, NoLostWakeup
<1>4. TypeOK'
  BY <1>2 DEF IInv, TypeOK, State, Outcome
<1>5. /\ In({"waitGlobal"})' = In({"waitGlobal"}) \ {r}
      /\ \A S : {"waitGlobal", "throttled", "cancelled"} \cap S = {} =>
           In(S)' = In(S) /\ \A t \in Tenant : InT(t, S)' = InT(t, S)
  BY DEF IInv, TypeOK, In, InT, TenantOf
<1>6. NoLostWakeup'
  BY <1>2, <1>3, <1>5 DEF IInv, NoLostWakeup
<1>7. GlobalAccounting' /\ TenantAccounting'
  BY <1>5 DEF IInv, GlobalAccounting, TenantAccounting, Count, CountIn,
              HoldsGlobal, HoldsTenant
<1> QED BY <1>4, <1>6, <1>7 DEF IInv

Over == {"overBoth", "overTenant"}

(* A step that balances the permits of t and leaves the other tenants alone.  *)
LEMMA TenantAccountingStep ==
  ASSUME IInv, NEW t \in Tenant,
         \A u \in Tenant \ {t} :
           /\ tenantFree'[u] = tenantFree[u]
           /\ InT(u, HoldsTenant)' = InT(u, HoldsTenant)
           /\ InT(u, Over)' = InT(u, Over),
         tenantFree'[t] + Cardinality(InT(t, HoldsTenant)')
           = TenantMax + Cardinality(InT(t, Over)')
  PROVE  TenantAccounting'
<1> SUFFICES ASSUME NEW u \in Tenant
             PROVE  tenantFree'[u] + Cardinality(InT(u, HoldsTenant)')
                      = TenantMax + Cardinality(InT(u, Over)')
  BY DEF TenantAccounting, CountIn, InT, TenantOf, Over
<1>1. CASE u = t
  BY <1>1 DEF InT
<1>2. CASE u # t
  BY <1>2 DEF IInv, TenantAccounting, CountIn, Over
<1> QED BY <1>1, <1>2

(* The queue of t changes to a queue of its new waiters, the others stay.     *)
LEMMA TenantQueueStep ==
  ASSUME IInv, NEW t \in Tenant,
         \A u \in Tenant \ {t} :
           /\ tenantQ'[u] = tenantQ[u] /\ tenantFree'[u] = tenantFree[u]
           /\ InT(u, {"waitTenant"})' = InT(u, {"waitTenant"}),
         IsQueueOf(tenantQ'[t], InT(t, {"waitTenant"})'),
         tenantQ'[t] # <<>> => tenantFree'[t] = 0,
         IsQueueOf(globalQ', In({"waitGlobal"})'),
         globalQ' # <<>> => globalFree' = 0
  PROVE  NoLostWakeup'
<1>1. ASSUME NEW u \in Tenant
      PROVE  /\ IsQueueOf(tenantQ'[u], InT(u, {"waitTenant"})')
             /\ tenantQ'[u] # <<>> => tenantFree'[u] = 0
  <2>1. CASE u = t
    BY <2>1 DEF InT
  <2>2. CASE u # t
    BY <2>2 DEF IInv, NoLostWakeup
  <2> QED BY <2>1, <2>2
<1> QED BY <1>1 DEF NoLostWakeup, IsQueueOf, InT, TenantOf

LEMMA AcquireTenantStep == ASSUME IInv, NEW r \in Run, AcquireTenant(r) PROVE IInv'
<1>0. PICK t \in Tenant : t = TenantOf(r)
  BY TenantOfType
<1>1. t = TenantOf(r) /\ t \in Tenant /\ pc[r] = "tenant"
  BY <1>0 DEF AcquireTenant
<1>2. tenantQ[t] \in Seq(Run) /\ tenantFree[t] \in Nat
  BY <1>1 DEF IInv, TypeOK
<1>3. r \notin InT(t, {"waitTenant"}) /\ r \notin InT(t, HoldsTenant)
  BY <1>1 DEF InT, HoldsTenant
<1>4. CASE Locked(tenantFree[t], tenantQ[t])
  <2>1. /\ tenantQ' = [tenantQ EXCEPT ![t] = Append(tenantQ[t], r)] /\ tenantFree[t] = 0
        /\ pc' = [pc EXCEPT ![r] = "waitTenant"]
        /\ UNCHANGED <<globalFree, globalQ, tenantFree, activeRuns>>
    BY <1>1, <1>4 DEF AcquireTenant, Locked, IInv, NoLostWakeup
  <2>2. /\ Append(tenantQ[t], r) \in Seq(Run)
        /\ IsQueueOf(Append(tenantQ[t], r), InT(t, {"waitTenant"}) \cup {r})
    BY <1>1, <1>2, <1>3, AppendFacts DEF IInv, NoLostWakeup
  <2>3. TypeOK'
    BY <1>1, <2>1, <2>2 DEF IInv, TypeOK, State, Waiting
  <2>4. /\ InT(t, {"waitTenant"})' = InT(t, {"waitTenant"}) \cup {r}
        /\ \A u \in Tenant \ {t} : InT(u, {"waitTenant"})' = InT(u, {"waitTenant"})
        /\ \A S : ("tenant" \in S <=> "waitTenant" \in S) => In(S)' = In(S)
        /\ \A S : {"tenant", "waitTenant"} \cap S = {} =>
             \A u \in Tenant : InT(u, S)' = InT(u, S)
    BY <1>1, <2>1 DEF IInv, TypeOK, In, InT, TenantOf
  <2>5. NoLostWakeup'
    <3>1. /\ tenantQ'[t] = Append(tenantQ[t], r)
          /\ \A u \in Tenant \ {t} : tenantQ'[u] = tenantQ[u]
      BY <2>1 DEF IInv, TypeOK
    <3>2. IsQueueOf(globalQ', In({"waitGlobal"})') /\ (globalQ' # <<>> => globalFree' = 0)
      BY <2>1, <2>4 DEF IInv, NoLostWakeup
    <3> QED BY <2>1, <2>2, <2>4, <3>1, <3>2, TenantQueueStep
  <2>6. GlobalAccounting' /\ TenantAccounting'
    BY <2>1, <2>4 DEF IInv, GlobalAccounting, TenantAccounting, Count, CountIn,
                      HoldsGlobal, HoldsTenant
  <2> QED BY <2>3, <2>5, <2>6 DEF IInv
<1>5. CASE ~Locked(tenantFree[t], tenantQ[t])
  <2>1. /\ tenantFree' = [tenantFree EXCEPT ![t] = tenantFree[t] - 1]
        /\ tenantFree[t] # 0 /\ tenantQ[t] = <<>>
        /\ pc' = [pc EXCEPT ![r] = "enter"]
        /\ UNCHANGED <<globalFree, globalQ, tenantQ, activeRuns>>
    BY <1>1, <1>5 DEF AcquireTenant, Locked
  <2>2. TypeOK'
    BY <1>1, <1>2, <2>1 DEF IInv, TypeOK, State
  <2>3. /\ InT(t, HoldsTenant)' = InT(t, HoldsTenant) \cup {r}
        /\ \A u \in Tenant \ {t} : InT(u, HoldsTenant)' = InT(u, HoldsTenant)
    BY ZenonT(30), <1>1, <2>1 DEF IInv, TypeOK, InT, TenantOf, HoldsTenant
  <2>7. /\ \A S : ("tenant" \in S <=> "enter" \in S) => In(S)' = In(S)
        /\ \A S : {"tenant", "enter"} \cap S = {} =>
             \A u \in Tenant : InT(u, S)' = InT(u, S)
    BY SMTT(30), <1>1, <2>1 DEF IInv, TypeOK, In, InT, TenantOf
  <2>4. NoLostWakeup'
    BY <2>1, <2>7 DEF IInv, TypeOK, NoLostWakeup
  <2>5. GlobalAccounting'
    BY <2>1, <2>7 DEF IInv, GlobalAccounting, Count, HoldsGlobal
  <2>6. TenantAccounting'
    <3>1. /\ Cardinality(InT(t, HoldsTenant)') = Cardinality(InT(t, HoldsTenant)) + 1
          /\ Cardinality(InT(t, HoldsTenant)) \in Nat
      BY <1>3, <2>3, CountFacts DEF InT
    <3>2. \A u \in Tenant : InT(u, Over)' = InT(u, Over)
      BY <2>7 DEF Over
    <3>3. tenantFree[t] + Cardinality(InT(t, HoldsTenant))
            = TenantMax + Cardinality(InT(t, Over))
      BY DEF IInv, TenantAccounting, CountIn, Over
    <3>4. /\ tenantFree'[t] = tenantFree[t] - 1
          /\ \A u \in Tenant \ {t} : tenantFree'[u] = tenantFree[u]
      BY <1>1, <2>1 DEF IInv, TypeOK
    <3>5. tenantFree'[t] + Cardinality(InT(t, HoldsTenant)')
            = TenantMax + Cardinality(InT(t, Over)')
      BY SMTT(30), <1>2, <3>1, <3>2, <3>3, <3>4
    <3> QED BY <2>3, <3>2, <3>4, <3>5, TenantAccountingStep
  <2> QED BY <2>2, <2>4, <2>5, <2>6 DEF IInv
<1> QED BY <1>4, <1>5

-------------------------------------------------------------------------------
(* release_run_slot *)

(* What a release finds: the two queues without the releasing run, whose      *)
(* members it may wake.                                                       *)
Found(r, t, gq, tq) ==
  /\ t \in Tenant /\ t = TenantOf(r)
  /\ gq \in Seq(Run) /\ IsQueueOf(gq, In({"waitGlobal"}) \ {r})
  /\ gq # <<>> => globalFree = 0
  /\ tq \in Seq(Run) /\ IsQueueOf(tq, InT(t, {"waitTenant"}) \ {r})
  /\ tq # <<>> => tenantFree[t] = 0

LEMMA WokenFacts ==
  ASSUME NEW q \in Seq(Run), NEW S, IsQueueOf(q, S)
  PROVE  Woken(q) \subseteq S /\ Woken(q) \subseteq Run
<1>1. CASE q = <<>>
  BY <1>1, RestFacts
<1>2. CASE q # <<>>
  <2>1. PICK h \in S : h \in Run /\ Woken(q) = {h}
    BY <1>2, RestFacts
  <2> QED BY <2>1
<1> QED BY <1>1, <1>2

(* release_run_slot preserves the invariant when the run gives back the       *)
(* permits it held, or is counted in Over for the ones it did not hold.       *)
LEMMA ReleaseStep ==
  ASSUME IInv, NEW r \in Run, NEW t, NEW gq, NEW tq, Found(r, t, gq, tq),
         NEW s \in {"done"} \cup Over, ReleaseRunSlot(r, s, gq, tq),
         pc[r] \notin Over,
         pc[r] \in HoldsGlobal <=> s # "overBoth",
         pc[r] \in HoldsTenant <=> s \notin Over
  PROVE  IInv'
<1> DEFINE W == In({"waitGlobal"}) \ {r}
           V == InT(t, {"waitTenant"}) \ {r}
           H == In(HoldsGlobal) \ {r}
           K == InT(t, HoldsTenant) \ {r}
<1>1. /\ t \in Tenant /\ t = TenantOf(r)
      /\ gq \in Seq(Run) /\ IsQueueOf(gq, W) /\ (gq # <<>> => globalFree = 0)
      /\ tq \in Seq(Run) /\ IsQueueOf(tq, V) /\ (tq # <<>> => tenantFree[t] = 0)
  BY DEF Found
<1>2. /\ globalFree' = FreeAfter(globalFree, gq) /\ globalQ' = Rest(gq)
      /\ tenantFree' = [tenantFree EXCEPT ![t] = FreeAfter(tenantFree[t], tq)]
      /\ tenantQ' = [tenantQ EXCEPT ![t] = Rest(tq)]
      /\ activeRuns' = [activeRuns EXCEPT ![t] = IF activeRuns[t] > 0
                                                  THEN activeRuns[t] - 1 ELSE 0]
      /\ pc' = [x \in Run |-> IF x = r THEN s
                              ELSE IF x \in Woken(gq) THEN "tenant"
                              ELSE IF x \in Woken(tq) THEN "enter" ELSE pc[x]]
  BY <1>1 DEF ReleaseRunSlot
<1>3. /\ tenantQ'[t] = Rest(tq) /\ tenantFree'[t] = FreeAfter(tenantFree[t], tq)
      /\ \A u \in Tenant \ {t} : tenantQ'[u] = tenantQ[u] /\ tenantFree'[u] = tenantFree[u]
  BY <1>1, <1>2 DEF IInv, TypeOK
<1>4. /\ globalFree \in Nat /\ tenantFree[t] \in Nat /\ activeRuns[t] \in Nat
      /\ pc \in [Run -> State]
  BY <1>1 DEF IInv, TypeOK
<1>5. Woken(gq) \subseteq W /\ Woken(tq) \subseteq V
  BY <1>1, WokenFacts
<1>6. Rest(gq) \in Seq(Run) /\ IsQueueOf(Rest(gq), W \ Woken(gq))
  BY <1>1, RestFacts
<1>7. Rest(tq) \in Seq(Run) /\ IsQueueOf(Rest(tq), V \ Woken(tq))
  BY <1>1, RestFacts
<1> HIDE DEF W, V, H, K
<1>8. In({"waitGlobal"})' = W \ Woken(gq)
  BY <1>2, <1>5 DEF In, InT, Over, W, V
<1>9. In(HoldsGlobal)' = H \cup Woken(gq)
  BY <1>2, <1>5 DEF In, InT, Over, HoldsGlobal, W, V, H
<1>10. InT(t, {"waitTenant"})' = V \ Woken(tq)
  BY <1>1, <1>2, <1>5 DEF In, InT, Over, TenantOf, W, V
<1>11. InT(t, HoldsTenant)' = K \cup Woken(tq)
  BY <1>1, <1>2, <1>5 DEF In, InT, Over, TenantOf, HoldsTenant, W, V, K
<1>12. /\ \A u \in Tenant \ {t} : InT(u, {"waitTenant"})' = InT(u, {"waitTenant"})
       /\ \A u \in Tenant \ {t} : InT(u, HoldsTenant)' = InT(u, HoldsTenant)
       /\ \A u \in Tenant \ {t} : InT(u, Over)' = InT(u, Over)
  BY <1>1, <1>2, <1>5 DEF In, InT, Over, TenantOf, HoldsTenant, W, V
<1>13. /\ In({"overBoth"})' = In({"overBoth"}) \cup (IF s = "overBoth" THEN {r} ELSE {})
       /\ r \notin In({"overBoth"})
  BY <1>2, <1>5 DEF In, InT, Over, W, V
<1>14. /\ InT(t, Over)' = InT(t, Over) \cup (IF s \in Over THEN {r} ELSE {})
       /\ r \notin InT(t, Over)
  BY <1>1, <1>2, <1>5 DEF In, InT, Over, TenantOf, W, V
<1>15. TypeOK'
  <2>1. FreeAfter(globalFree, gq) \in Nat /\ FreeAfter(tenantFree[t], tq) \in Nat
    BY <1>4 DEF FreeAfter
  <2>2. pc' \in [Run -> State]
    BY <1>2, <1>4 DEF State, Outcome, Leak, Over
  <2>3. tenantFree' \in [Tenant -> Nat] /\ tenantQ' \in [Tenant -> Seq(Run)]
    BY <1>1, <1>2, <1>7, <2>1 DEF IInv, TypeOK
  <2>4. activeRuns' \in [Tenant -> Nat]
    BY <1>1, <1>2, <1>4 DEF IInv, TypeOK
  <2> QED BY <1>2, <1>6, <2>1, <2>2, <2>3, <2>4 DEF TypeOK
<1>16. NoLostWakeup'
  <2>1. Rest(gq) # <<>> => FreeAfter(globalFree, gq) = 0
    BY <1>1, ReleaseWakes
  <2>2. Rest(tq) # <<>> => FreeAfter(tenantFree[t], tq) = 0
    BY <1>1, ReleaseWakes
  <2>3. IsQueueOf(globalQ', In({"waitGlobal"})')
    BY <1>2, <1>6, <1>8
  <2>4. IsQueueOf(tenantQ'[t], InT(t, {"waitTenant"})')
    BY <1>3, <1>7, <1>10
  <2> QED BY <1>1, <1>2, <1>3, <1>12, <2>1, <2>2, <2>3, <2>4, TenantQueueStep
<1>17. GlobalAccounting'
  <2>1. H \in SUBSET Run /\ In(HoldsGlobal) \in SUBSET Run /\ In({"overBoth"}) \in SUBSET Run
    BY DEF In, H
  <2>2. W \cap H = {}
    BY DEF In, HoldsGlobal, W, H
  <2>3. FreeAfter(globalFree, gq) + Cardinality(H \cup Woken(gq)) = globalFree + Cardinality(H) + 1
    BY <1>1, <1>4, <2>1, <2>2, ReleaseCount
  <2>4. globalFree + Cardinality(In(HoldsGlobal)) = GlobalMax + Cardinality(In({"overBoth"}))
    BY DEF IInv, GlobalAccounting, Count
  <2>5. /\ Cardinality(H) \in Nat /\ Cardinality(In({"overBoth"})) \in Nat
        /\ Cardinality(In(HoldsGlobal)) \in Nat
    BY <2>1, CountFacts
  <2>6. globalFree' + Cardinality(In(HoldsGlobal)') = GlobalMax + Cardinality(In({"overBoth"})')
    <3>1. CASE s = "overBoth"
      <4>1. H = In(HoldsGlobal)
        BY <3>1 DEF In, H
      <4>2. Cardinality(In({"overBoth"})') = Cardinality(In({"overBoth"})) + 1
        BY <3>1, <1>13, <2>1, CountFacts
      <4>3. Cardinality(H) = Cardinality(In(HoldsGlobal))
        BY <4>1
      <4>4. Cardinality(In(HoldsGlobal)') = Cardinality(H \cup Woken(gq))
        BY <1>9
      <4> QED BY <1>2, <1>4, <2>3, <2>4, <2>5, <4>2, <4>3, <4>4
    <3>2. CASE s # "overBoth"
      <4>1. Cardinality(H) = Cardinality(In(HoldsGlobal)) - 1
        <5>1. r \in In(HoldsGlobal)
          BY <3>2 DEF In
        <5> QED BY <5>1, <2>1, CountFacts DEF H
      <4>2. In({"overBoth"})' = In({"overBoth"})
        BY <3>2, <1>13
      <4>3. Cardinality(In({"overBoth"})') = Cardinality(In({"overBoth"}))
        BY <4>2
      <4>4. Cardinality(In(HoldsGlobal)') = Cardinality(H \cup Woken(gq))
        BY <1>9
      <4> QED BY <1>2, <1>4, <2>3, <2>4, <2>5, <4>1, <4>3, <4>4
    <3> QED BY <3>1, <3>2
  <2> QED BY <2>6 DEF GlobalAccounting, Count
<1>18. TenantAccounting'
  <2>1. K \in SUBSET Run /\ InT(t, HoldsTenant) \in SUBSET Run /\ InT(t, Over) \in SUBSET Run
    BY DEF InT, K
  <2>2. V \cap K = {}
    BY DEF InT, HoldsTenant, V, K
  <2>3. FreeAfter(tenantFree[t], tq) + Cardinality(K \cup Woken(tq))
          = tenantFree[t] + Cardinality(K) + 1
    BY <1>1, <1>4, <2>1, <2>2, ReleaseCount
  <2>4. tenantFree[t] + Cardinality(InT(t, HoldsTenant)) = TenantMax + Cardinality(InT(t, Over))
    BY <1>1 DEF IInv, TenantAccounting, CountIn, Over
  <2>5. /\ Cardinality(K) \in Nat /\ Cardinality(InT(t, Over)) \in Nat
        /\ Cardinality(InT(t, HoldsTenant)) \in Nat
    BY <2>1, CountFacts
  <2>6. tenantFree'[t] + Cardinality(InT(t, HoldsTenant)') = TenantMax + Cardinality(InT(t, Over)')
    <3>1. CASE s \in Over
      <4>1. K = InT(t, HoldsTenant)
        BY <3>1 DEF InT, K
      <4>2. Cardinality(InT(t, Over)') = Cardinality(InT(t, Over)) + 1
        BY <3>1, <1>14, <2>1, CountFacts
      <4>3. Cardinality(K) = Cardinality(InT(t, HoldsTenant))
        BY <4>1
      <4>4. Cardinality(InT(t, HoldsTenant)') = Cardinality(K \cup Woken(tq))
        BY <1>11
      <4> QED BY <1>3, <1>4, <2>3, <2>4, <2>5, <4>2, <4>3, <4>4
    <3>2. CASE s \notin Over
      <4>1. Cardinality(K) = Cardinality(InT(t, HoldsTenant)) - 1
        <5>1. r \in InT(t, HoldsTenant)
          BY <3>2, <1>1 DEF InT
        <5> QED BY <5>1, <2>1, CountFacts DEF K
      <4>2. InT(t, Over)' = InT(t, Over)
        BY <3>2, <1>14
      <4>3. Cardinality(InT(t, Over)') = Cardinality(InT(t, Over))
        BY <4>2
      <4>4. Cardinality(InT(t, HoldsTenant)') = Cardinality(K \cup Woken(tq))
        BY <1>11
      <4> QED BY <1>3, <1>4, <2>3, <2>4, <2>5, <4>1, <4>3, <4>4
    <3> QED BY <3>1, <3>2
  <2> QED BY <1>1, <1>3, <1>12, <2>6, TenantAccountingStep
<1> QED BY <1>15, <1>16, <1>17, <1>18 DEF IInv
LEMMA FinishStep == ASSUME IInv, NEW r \in Run, Finish(r) PROVE IInv'
<1>1. PICK t \in Tenant : t = TenantOf(r)
  BY TenantOfType
<1>2. pc[r] = "running" /\ ReleaseRunSlot(r, "done", globalQ, tenantQ[t])
  BY <1>1 DEF Finish
<1>3. In({"waitGlobal"}) \ {r} = In({"waitGlobal"})
  BY <1>2 DEF In
<1>4. InT(t, {"waitTenant"}) \ {r} = InT(t, {"waitTenant"})
  BY <1>2 DEF InT
<1>5. Found(r, t, globalQ, tenantQ[t])
  BY <1>1, <1>3, <1>4 DEF Found, IInv, TypeOK, NoLostWakeup
<1> QED BY <1>2, <1>5, ReleaseStep DEF Over, HoldsGlobal, HoldsTenant

LEMMA StreamTailWaitGlobalStep ==
  ASSUME IInv, NEW r \in Run, StreamTailWaitGlobal(r) PROVE IInv'
<1>1. PICK t \in Tenant : t = TenantOf(r)
  BY TenantOfType
<1>2. PICK i \in DOMAIN globalQ :
        /\ globalQ[i] = r
        /\ ReleaseRunSlot(r, "overBoth", DropAt(globalQ, i), tenantQ[t])
  BY <1>1 DEF StreamTailWaitGlobal
<1>3. pc[r] = "waitGlobal" /\ globalQ # <<>>
  BY <1>2 DEF StreamTailWaitGlobal
<1>4. /\ DropAt(globalQ, i) \in Seq(Run)
      /\ IsQueueOf(DropAt(globalQ, i), In({"waitGlobal"}) \ {r})
  BY <1>2, DropAtFacts DEF IInv, TypeOK, NoLostWakeup
<1>5. InT(t, {"waitTenant"}) \ {r} = InT(t, {"waitTenant"})
  BY <1>3 DEF InT
<1>6. Found(r, t, DropAt(globalQ, i), tenantQ[t])
  BY <1>1, <1>3, <1>4, <1>5 DEF Found, IInv, TypeOK, NoLostWakeup
<1> QED BY <1>2, <1>3, <1>6, ReleaseStep DEF Over, HoldsGlobal, HoldsTenant

LEMMA StreamTailWaitTenantStep ==
  ASSUME IInv, NEW r \in Run, StreamTailWaitTenant(r) PROVE IInv'
<1>1. PICK t \in Tenant : t = TenantOf(r)
  BY TenantOfType
<1>2. PICK i \in DOMAIN tenantQ[t] :
        /\ tenantQ[t][i] = r
        /\ ReleaseRunSlot(r, "overTenant", globalQ, DropAt(tenantQ[t], i))
  BY <1>1 DEF StreamTailWaitTenant
<1>3. pc[r] = "waitTenant" /\ tenantQ[t] \in Seq(Run) /\ tenantQ[t] # <<>>
  BY <1>2 DEF StreamTailWaitTenant, IInv, TypeOK
<1>4. /\ DropAt(tenantQ[t], i) \in Seq(Run)
      /\ IsQueueOf(DropAt(tenantQ[t], i), InT(t, {"waitTenant"}) \ {r})
  BY <1>2, <1>3, DropAtFacts DEF IInv, NoLostWakeup
<1>5. In({"waitGlobal"}) \ {r} = In({"waitGlobal"})
  BY <1>3 DEF In
<1>6. Found(r, t, globalQ, DropAt(tenantQ[t], i))
  BY <1>1, <1>3, <1>4, <1>5 DEF Found, IInv, TypeOK, NoLostWakeup
<1> QED BY <1>2, <1>3, <1>6, ReleaseStep DEF Over, HoldsGlobal, HoldsTenant
-------------------------------------------------------------------------------
(* Leaving the wait for the tenant permit without it *)

(* Once r has left the queue of its tenant, the waiters of every tenant are   *)
(* again exactly the queued runs, whatever became of the global permit.       *)
LEMMA LeaveTenantQStep ==
  ASSUME IInv, NEW r \in Run, pc[r] = "waitTenant", LeaveTenantQ(r),
         NEW s \in {"throttled", "leakedGlobal"}, NEW G \in SUBSET In({"waitGlobal"}),
         pc' = [x \in Run |-> IF x = r THEN s ELSE IF x \in G THEN "tenant" ELSE pc[x]],
         UNCHANGED tenantFree,
         IsQueueOf(globalQ', In({"waitGlobal"})'),
         globalQ' # <<>> => globalFree' = 0
  PROVE  /\ tenantQ' \in [Tenant -> Seq(Run)]
         /\ NoLostWakeup'
         /\ TenantAccounting'
<1>1. PICK t \in Tenant : t = TenantOf(r)
  BY TenantOfType
<1>2. PICK i \in DOMAIN tenantQ[t] :
        tenantQ[t][i] = r /\ tenantQ' = [tenantQ EXCEPT ![t] = DropAt(tenantQ[t], i)]
  BY <1>1 DEF LeaveTenantQ
<1>3. /\ tenantQ[t] \in Seq(Run) /\ tenantQ[t] # <<>>
      /\ IsQueueOf(tenantQ[t], InT(t, {"waitTenant"})) /\ tenantFree[t] = 0
  BY <1>2 DEF IInv, TypeOK, NoLostWakeup
<1>4. /\ DropAt(tenantQ[t], i) \in Seq(Run)
      /\ IsQueueOf(DropAt(tenantQ[t], i), InT(t, {"waitTenant"}) \ {r})
  BY <1>2, <1>3, DropAtFacts
<1>5. tenantQ' \in [Tenant -> Seq(Run)]
  BY <1>2, <1>4 DEF IInv, TypeOK
<1>6. InT(t, {"waitTenant"})' = InT(t, {"waitTenant"}) \ {r}
  BY <1>1 DEF In, InT, TenantOf
<1>7. \A u \in Tenant \ {t} : InT(u, {"waitTenant"})' = InT(u, {"waitTenant"})
  BY <1>1 DEF In, InT, TenantOf
<1>8. \A u \in Tenant : InT(u, HoldsTenant)' = InT(u, HoldsTenant)
  BY <1>1 DEF In, InT, TenantOf, HoldsTenant
<1>9. \A u \in Tenant : InT(u, Over)' = InT(u, Over)
  BY <1>1 DEF In, InT, TenantOf, Over
<1>10. /\ tenantQ'[t] = DropAt(tenantQ[t], i)
       /\ \A u \in Tenant \ {t} : tenantQ'[u] = tenantQ[u]
  BY <1>2 DEF IInv, TypeOK
<1>11. NoLostWakeup'
  <2>1. IsQueueOf(tenantQ'[t], InT(t, {"waitTenant"})')
    BY <1>4, <1>6, <1>10
  <2> QED BY <1>3, <1>7, <1>10, <2>1, TenantQueueStep
<1>12. TenantAccounting'
  BY <1>8, <1>9 DEF IInv, TenantAccounting, CountIn, Over
<1> QED BY <1>5, <1>11, <1>12

LEMMA EscapeWaitTenantStep ==
  ASSUME IInv, NEW r \in Run, EscapeWaitTenant(r) PROVE IInv'
<1>1. /\ pc[r] = "waitTenant" /\ LeaveTenantQ(r)
      /\ pc' = [pc EXCEPT ![r] = "leakedGlobal"]
      /\ UNCHANGED <<globalFree, globalQ, tenantFree, activeRuns>>
  BY DEF EscapeWaitTenant
<1>2. In({"waitGlobal"})' = In({"waitGlobal"})
  BY <1>1 DEF IInv, TypeOK, In
<1>3. In(HoldsGlobal)' = In(HoldsGlobal) /\ In({"overBoth"})' = In({"overBoth"})
  BY <1>1 DEF IInv, TypeOK, In, HoldsGlobal
<1>4. IsQueueOf(globalQ', In({"waitGlobal"})') /\ (globalQ' # <<>> => globalFree' = 0)
  BY <1>1, <1>2 DEF IInv, NoLostWakeup
<1>5. tenantQ' \in [Tenant -> Seq(Run)] /\ NoLostWakeup' /\ TenantAccounting'
  <2>1. PICK G \in SUBSET In({"waitGlobal"}) : G = {}
    OBVIOUS
  <2>2. pc' = [x \in Run |-> IF x = r THEN "leakedGlobal"
                            ELSE IF x \in G THEN "tenant" ELSE pc[x]]
    BY <1>1, <2>1 DEF IInv, TypeOK
  <2> QED BY <1>1, <1>4, <2>2, LeaveTenantQStep
<1>6. GlobalAccounting'
  BY <1>1, <1>3 DEF IInv, GlobalAccounting, Count
<1>7. TypeOK'
  BY <1>1, <1>5 DEF IInv, TypeOK, State, Leak
<1> QED BY <1>5, <1>6, <1>7 DEF IInv

LEMMA TimeoutTenantStep ==
  ASSUME IInv, NEW r \in Run, TimeoutTenant(r) PROVE IInv'
<1> DEFINE W == In({"waitGlobal"})
           H == In(HoldsGlobal) \ {r}
<1>1. /\ pc[r] = "waitTenant" /\ LeaveTenantQ(r)
      /\ globalFree' = FreeAfter(globalFree, globalQ) /\ globalQ' = Rest(globalQ)
      /\ pc' = [x \in Run |-> IF x = r THEN "throttled"
                              ELSE IF x \in Woken(globalQ) THEN "tenant" ELSE pc[x]]
      /\ UNCHANGED <<tenantFree, activeRuns>>
  BY DEF TimeoutTenant, ReleaseGlobal
<1>2. /\ globalQ \in Seq(Run) /\ IsQueueOf(globalQ, W) /\ globalFree \in Nat
      /\ globalQ # <<>> => globalFree = 0
  BY DEF IInv, TypeOK, NoLostWakeup
<1>3. /\ Rest(globalQ) \in Seq(Run) /\ IsQueueOf(Rest(globalQ), W \ Woken(globalQ))
      /\ Woken(globalQ) \in SUBSET W
  BY <1>2, RestFacts, WokenFacts
<1> HIDE DEF W, H
<1>4. In({"waitGlobal"})' = W \ Woken(globalQ)
  BY <1>1, <1>3 DEF In, W
<1>5. In(HoldsGlobal)' = H \cup Woken(globalQ)
  BY <1>1, <1>3 DEF In, HoldsGlobal, W, H
<1>6. In({"overBoth"})' = In({"overBoth"})
  BY <1>1, <1>3 DEF In, W
<1>7. IsQueueOf(globalQ', In({"waitGlobal"})')
  BY <1>1, <1>3, <1>4
<1>8. globalQ' # <<>> => globalFree' = 0
  BY <1>1, <1>2, ReleaseWakes
<1>9. tenantQ' \in [Tenant -> Seq(Run)] /\ NoLostWakeup' /\ TenantAccounting'
  <2>1. Woken(globalQ) \in SUBSET In({"waitGlobal"})
    BY <1>3 DEF W
  <2> QED BY <1>1, <1>7, <1>8, <2>1, LeaveTenantQStep
<1>10. GlobalAccounting'
  <2>1. H \in SUBSET Run /\ In(HoldsGlobal) \in SUBSET Run /\ r \in In(HoldsGlobal)
    BY <1>1 DEF In, H, HoldsGlobal
  <2>2. W \cap H = {}
    BY DEF In, HoldsGlobal, W, H
  <2>3. FreeAfter(globalFree, globalQ) + Cardinality(H \cup Woken(globalQ))
          = globalFree + Cardinality(H) + 1
    BY <1>2, <2>1, <2>2, ReleaseCount
  <2>4. globalFree + Cardinality(In(HoldsGlobal)) = GlobalMax + Cardinality(In({"overBoth"}))
    BY DEF IInv, GlobalAccounting, Count
  <2>5. Cardinality(H) = Cardinality(In(HoldsGlobal)) - 1 /\ Cardinality(In(HoldsGlobal)) \in Nat
    BY <2>1, CountFacts DEF H
  <2>6. Cardinality(In(HoldsGlobal)') = Cardinality(H \cup Woken(globalQ))
    BY <1>5
  <2>7. Cardinality(In({"overBoth"})') = Cardinality(In({"overBoth"}))
    BY <1>6
  <2> QED BY <1>1, <1>2, <2>3, <2>4, <2>5, <2>6, <2>7 DEF GlobalAccounting, Count
<1>11. TypeOK'
  <2>1. FreeAfter(globalFree, globalQ) \in Nat
    BY <1>2 DEF FreeAfter
  <2>2. pc' \in [Run -> State]
    BY <1>1 DEF IInv, TypeOK, State, Outcome
  <2> QED BY <1>1, <1>3, <1>9, <2>1, <2>2 DEF IInv, TypeOK
<1> QED BY <1>9, <1>10, <1>11 DEF IInv

-------------------------------------------------------------------------------
(* _active_runs *)

(* The runs that acquire_run_slot counted and no release took off.            *)
Counted == {"running", "leaked"}

Counts(t) ==
  /\ activeRuns[t] <= CountIn(t, Counted)
  /\ CountIn(t, Counted) <= activeRuns[t] + CountIn(t, Over)

(* A step that moves no run into or out of these states keeps the counter.    *)
LEMMA CounterUntouched ==
  ASSUME ActiveRunsHonest, UNCHANGED activeRuns,
         \A r \in Run : /\ pc'[r] \in Counted <=> pc[r] \in Counted
                        /\ pc'[r] \in Over <=> pc[r] \in Over
  PROVE  ActiveRunsHonest'
<1>1. \A t \in Tenant : InT(t, Counted)' = InT(t, Counted) /\ InT(t, Over)' = InT(t, Over)
  BY DEF InT, TenantOf
<1> QED BY <1>1 DEF ActiveRunsHonest, CountIn, Counted, Over

LEMMA EnterCounts ==
  ASSUME IInv, ActiveRunsHonest, NEW r \in Run, Enter(r) PROVE ActiveRunsHonest'
<1>1. PICK t \in Tenant : t = TenantOf(r)
  BY TenantOfType
<1>2. /\ pc[r] = "enter" /\ pc' = [pc EXCEPT ![r] = "running"]
      /\ activeRuns' = [activeRuns EXCEPT ![t] = @ + 1]
  BY <1>1 DEF Enter
<1>3. \A u \in Tenant : /\ activeRuns[u] \in Nat
                        /\ activeRuns'[u] = activeRuns[u] + (IF u = t THEN 1 ELSE 0)
  BY <1>1, <1>2 DEF IInv, TypeOK
<1>4. ASSUME NEW u \in Tenant
      PROVE  /\ InT(u, Over)' = InT(u, Over)
             /\ InT(u, Counted)' = InT(u, Counted) \cup (IF u = t THEN {r} ELSE {})
             /\ r \notin InT(u, Counted) /\ InT(u, Counted) \in SUBSET Run
  BY SMTT(40), <1>1, <1>2 DEF IInv, TypeOK, InT, TenantOf, Counted, Over
<1>5. ASSUME NEW u \in Tenant PROVE Counts(u)'
  <2>1. Cardinality(InT(u, Counted)') =
          Cardinality(InT(u, Counted)) + (IF u = t THEN 1 ELSE 0)
    <3>1. CASE u = t
      <4>1. InT(u, Counted)' = InT(u, Counted) \cup {r}
        BY <1>4, <3>1
      <4>2. Cardinality(InT(u, Counted) \cup {r}) = Cardinality(InT(u, Counted)) + 1
        BY <1>4, CountFacts
      <4>3. Cardinality(InT(u, Counted)') = Cardinality(InT(u, Counted)) + 1
        BY <4>1, <4>2
      <4> QED BY <3>1, <4>3
    <3>2. CASE u # t
      <4>1. InT(u, Counted)' = InT(u, Counted)
        BY <1>4, <3>2
      <4>2. Cardinality(InT(u, Counted)) \in Nat
        BY <1>4, CountFacts
      <4>3. Cardinality(InT(u, Counted)') = Cardinality(InT(u, Counted))
        BY <4>1
      <4> QED BY <3>2, <4>2, <4>3
    <3> QED BY <3>1, <3>2
  <2>2. Cardinality(InT(u, Over)') = Cardinality(InT(u, Over))
    BY <1>4
  <2>3. Cardinality(InT(u, Counted)) \in Nat /\ Cardinality(InT(u, Over)) \in Nat
    <3>1. InT(u, Over) \in SUBSET Run
      BY DEF InT
    <3> QED BY <1>4, <3>1, CountFacts
  <2>4. Counts(u)
    BY DEF ActiveRunsHonest, Counts, Counted, Over
  <2> QED BY <1>3, <2>1, <2>2, <2>3, <2>4 DEF Counts, CountIn
<1> QED BY <1>5 DEF ActiveRunsHonest, Counts, Counted, Over

(* release_run_slot takes one off: the run that was counted, or one that was  *)
(* not, which Over then accounts for.                                         *)
LEMMA ReleaseCounts ==
  ASSUME IInv, ActiveRunsHonest, NEW r \in Run, NEW t, NEW gq, NEW tq, Found(r, t, gq, tq),
         NEW s \in {"done"} \cup Over, ReleaseRunSlot(r, s, gq, tq),
         pc[r] \notin Over, pc[r] \in Counted <=> s \notin Over
  PROVE  ActiveRunsHonest'
<1>1. /\ t \in Tenant /\ t = TenantOf(r)
      /\ Woken(gq) \subseteq In({"waitGlobal"}) \ {r}
      /\ Woken(tq) \subseteq InT(t, {"waitTenant"}) \ {r}
  BY WokenFacts DEF Found
<1>2. /\ activeRuns' = [activeRuns EXCEPT ![t] = IF @ > 0 THEN @ - 1 ELSE 0]
      /\ pc' = [x \in Run |-> IF x = r THEN s
                              ELSE IF x \in Woken(gq) THEN "tenant"
                              ELSE IF x \in Woken(tq) THEN "enter" ELSE pc[x]]
  BY <1>1 DEF ReleaseRunSlot
<1>3. \A x \in Run \ {r} : /\ pc'[x] \in Counted <=> pc[x] \in Counted
                           /\ pc'[x] \in Over <=> pc[x] \in Over
  BY <1>1, <1>2 DEF In, InT, Counted, Over
<1>4. pc'[r] = s /\ s \notin Counted
  BY <1>2 DEF Counted, Over
<1>5. ASSUME NEW u \in Tenant PROVE Counts(u)'
  <2>1. Counts(u) /\ activeRuns[u] \in Nat
    BY DEF ActiveRunsHonest, Counts, Counted, Over, IInv, TypeOK
  <2>2. InT(u, Counted) \in SUBSET Run /\ InT(u, Over) \in SUBSET Run
    BY DEF InT
  <2>3. Cardinality(InT(u, Counted)) \in Nat /\ Cardinality(InT(u, Over)) \in Nat
    BY <2>2, CountFacts
  <2>4. CASE u # t
    <3>1. InT(u, Counted)' = InT(u, Counted) /\ InT(u, Over)' = InT(u, Over)
      BY <1>1, <1>3, <2>4 DEF InT, TenantOf
    <3>2. activeRuns'[u] = activeRuns[u]
      BY <1>2, <2>4 DEF IInv, TypeOK
    <3> QED BY <2>1, <3>1, <3>2 DEF Counts, CountIn
  <2>5. CASE u = t /\ s \notin Over
    <3>1. r \in InT(u, Counted)
      BY <1>1, <2>5 DEF InT
    <3>2. InT(u, Counted)' = InT(u, Counted) \ {r} /\ InT(u, Over)' = InT(u, Over)
      BY <1>1, <1>3, <1>4, <2>5 DEF InT, TenantOf
    <3>3. /\ Cardinality(InT(u, Counted)') = Cardinality(InT(u, Counted)) - 1
          /\ Cardinality(InT(u, Counted)') \in Nat
          /\ Cardinality(InT(u, Over)') = Cardinality(InT(u, Over))
      <4>1. InT(u, Counted) \ {r} \in SUBSET Run
        BY <2>2
      <4> QED BY <2>2, <3>1, <3>2, <4>1, CountFacts
    <3>4. activeRuns'[u] = IF activeRuns[u] > 0 THEN activeRuns[u] - 1 ELSE 0
      BY <1>2, <2>5 DEF IInv, TypeOK
    <3> QED BY <2>1, <2>3, <3>3, <3>4 DEF Counts, CountIn
  <2>6. CASE u = t /\ s \in Over
    <3>1. r \notin InT(u, Over)
      BY DEF InT
    <3>2. InT(u, Counted)' = InT(u, Counted) /\ InT(u, Over)' = InT(u, Over) \cup {r}
      BY <1>1, <1>3, <1>4, <2>6 DEF InT, TenantOf
    <3>3. /\ Cardinality(InT(u, Over)') = Cardinality(InT(u, Over)) + 1
          /\ Cardinality(InT(u, Counted)') = Cardinality(InT(u, Counted))
      BY <2>2, <3>1, <3>2, CountFacts
    <3>4. activeRuns'[u] = IF activeRuns[u] > 0 THEN activeRuns[u] - 1 ELSE 0
      BY <1>2, <2>6 DEF IInv, TypeOK
    <3> QED BY <2>1, <2>3, <3>3, <3>4 DEF Counts, CountIn
  <2> QED BY <2>4, <2>5, <2>6
<1> QED BY <1>5 DEF ActiveRunsHonest, Counts, Counted, Over

LEMMA CounterKept ==
  ASSUME IInv, ActiveRunsHonest, [Next]_vars PROVE ActiveRunsHonest'
<1>1. ASSUME NEW r \in Run,
             Ask(r) \/ AcquireGlobal(r) \/ TimeoutGlobal(r) \/ AcquireTenant(r)
             \/ EscapeRunning(r) \/ EscapeWaitGlobal(r) \/ EscapeWaitTenant(r)
      PROVE  ActiveRunsHonest'
  <2>1. /\ UNCHANGED activeRuns
        /\ \E p \in State : /\ pc' = [pc EXCEPT ![r] = p] /\ pc[r] \notin Over
                            /\ p \notin Over /\ (p \in Counted <=> pc[r] \in Counted)
    BY <1>1 DEF Ask, AcquireGlobal, TimeoutGlobal, AcquireTenant, EscapeRunning,
                EscapeWaitGlobal, EscapeWaitTenant, State, Waiting, Outcome, Leak, Counted, Over
  <2>2. \A x \in Run : /\ pc'[x] \in Counted <=> pc[x] \in Counted
                       /\ pc'[x] \in Over <=> pc[x] \in Over
    BY <2>1 DEF IInv, TypeOK
  <2> QED BY <2>1, <2>2, CounterUntouched
<1>2. ASSUME NEW r \in Run, TimeoutTenant(r) PROVE ActiveRunsHonest'
  <2>1. Woken(globalQ) \subseteq In({"waitGlobal"})
    BY WokenFacts DEF IInv, TypeOK, NoLostWakeup
  <2>2. /\ UNCHANGED activeRuns /\ pc[r] = "waitTenant"
        /\ pc' = [x \in Run |-> IF x = r THEN "throttled"
                                ELSE IF x \in Woken(globalQ) THEN "tenant" ELSE pc[x]]
    BY <1>2 DEF TimeoutTenant, ReleaseGlobal
  <2>3. \A x \in Run : /\ pc'[x] \in Counted <=> pc[x] \in Counted
                       /\ pc'[x] \in Over <=> pc[x] \in Over
    BY <2>1, <2>2 DEF In, Counted, Over
  <2> QED BY <2>2, <2>3, CounterUntouched
<1>3. ASSUME NEW r \in Run, Finish(r) PROVE ActiveRunsHonest'
  <2>1. PICK t \in Tenant : t = TenantOf(r)
    BY TenantOfType
  <2>2. pc[r] = "running" /\ ReleaseRunSlot(r, "done", globalQ, tenantQ[t])
    BY <1>3, <2>1 DEF Finish
  <2>3. In({"waitGlobal"}) \ {r} = In({"waitGlobal"})
    BY <2>2 DEF In
  <2>4. InT(t, {"waitTenant"}) \ {r} = InT(t, {"waitTenant"})
    BY <2>2 DEF InT
  <2>5. Found(r, t, globalQ, tenantQ[t])
    BY <2>1, <2>3, <2>4 DEF Found, IInv, TypeOK, NoLostWakeup
  <2> QED BY <2>2, <2>5, ReleaseCounts DEF Over, Counted
<1>4. ASSUME NEW r \in Run, StreamTailWaitGlobal(r) PROVE ActiveRunsHonest'
  <2>1. PICK t \in Tenant : t = TenantOf(r)
    BY TenantOfType
  <2>2. PICK i \in DOMAIN globalQ :
          /\ globalQ[i] = r
          /\ ReleaseRunSlot(r, "overBoth", DropAt(globalQ, i), tenantQ[t])
    BY <1>4, <2>1 DEF StreamTailWaitGlobal
  <2>3. pc[r] = "waitGlobal" /\ globalQ # <<>>
    BY <1>4, <2>2 DEF StreamTailWaitGlobal
  <2>4. /\ DropAt(globalQ, i) \in Seq(Run)
        /\ IsQueueOf(DropAt(globalQ, i), In({"waitGlobal"}) \ {r})
    BY <2>2, DropAtFacts DEF IInv, TypeOK, NoLostWakeup
  <2>5. InT(t, {"waitTenant"}) \ {r} = InT(t, {"waitTenant"})
    BY <2>3 DEF InT
  <2>6. Found(r, t, DropAt(globalQ, i), tenantQ[t])
    BY <2>1, <2>3, <2>4, <2>5 DEF Found, IInv, TypeOK, NoLostWakeup
  <2> QED BY <2>2, <2>3, <2>6, ReleaseCounts DEF Over, Counted
<1>5. ASSUME NEW r \in Run, StreamTailWaitTenant(r) PROVE ActiveRunsHonest'
  <2>1. PICK t \in Tenant : t = TenantOf(r)
    BY TenantOfType
  <2>2. PICK i \in DOMAIN tenantQ[t] :
          /\ tenantQ[t][i] = r
          /\ ReleaseRunSlot(r, "overTenant", globalQ, DropAt(tenantQ[t], i))
    BY <1>5, <2>1 DEF StreamTailWaitTenant
  <2>3. pc[r] = "waitTenant" /\ tenantQ[t] \in Seq(Run) /\ tenantQ[t] # <<>>
    BY <1>5, <2>2 DEF StreamTailWaitTenant, IInv, TypeOK
  <2>4. /\ DropAt(tenantQ[t], i) \in Seq(Run)
        /\ IsQueueOf(DropAt(tenantQ[t], i), InT(t, {"waitTenant"}) \ {r})
    BY <2>2, <2>3, DropAtFacts DEF IInv, NoLostWakeup
  <2>5. In({"waitGlobal"}) \ {r} = In({"waitGlobal"})
    BY <2>3 DEF In
  <2>6. Found(r, t, globalQ, DropAt(tenantQ[t], i))
    BY <2>1, <2>3, <2>4, <2>5 DEF Found, IInv, TypeOK, NoLostWakeup
  <2> QED BY <2>2, <2>3, <2>6, ReleaseCounts DEF Over, Counted
<1>6. CASE UNCHANGED vars
  BY <1>6, CounterUntouched DEF vars
<1> QED BY <1>1, <1>2, <1>3, <1>4, <1>5, <1>6, EnterCounts DEF Next, Step, Escape

-------------------------------------------------------------------------------
(* The theorems *)

LEMMA IInvNext == IInv /\ [Next]_vars => IInv'
<1> SUFFICES ASSUME IInv, [Next]_vars PROVE IInv'
  OBVIOUS
<1>1. ASSUME NEW r \in Run, Ask(r) PROVE IInv'
  BY <1>1, IInvAsk
<1>2. ASSUME NEW r \in Run, Step(r) PROVE IInv'
  <2>1. CASE TimeoutGlobal(r)
    BY <2>1, LeaveGlobalQ DEF TimeoutGlobal
  <2> QED BY <1>2, <2>1, AcquireGlobalStep, AcquireTenantStep, TimeoutTenantStep,
             IInvEnter, FinishStep DEF Step
<1>3. ASSUME NEW r \in Run, Escape(r) PROVE IInv'
  <2>1. CASE EscapeWaitGlobal(r)
    BY <2>1, LeaveGlobalQ DEF EscapeWaitGlobal
  <2> QED BY <1>3, <2>1, IInvEscapeRunning, EscapeWaitTenantStep,
             StreamTailWaitGlobalStep, StreamTailWaitTenantStep DEF Escape
<1>4. CASE UNCHANGED vars
  <2>1. UNCHANGED <<pc, globalFree, globalQ, tenantFree, tenantQ, activeRuns>>
    BY <1>4 DEF vars
  <2>2. \A S : In(S)' = In(S) /\ \A t \in Tenant : InT(t, S)' = InT(t, S)
    BY <2>1 DEF In, InT, TenantOf
  <2>3. TypeOK'
    BY <2>1 DEF IInv, TypeOK
  <2>4. NoLostWakeup'
    BY <2>1, <2>2 DEF IInv, NoLostWakeup
  <2>5. GlobalAccounting' /\ TenantAccounting'
    BY <2>1, <2>2 DEF IInv, GlobalAccounting, TenantAccounting, Count, CountIn
  <2> QED BY <2>3, <2>4, <2>5 DEF IInv
<1> QED BY <1>1, <1>2, <1>3, <1>4 DEF Next

LEMMA Inductive == Spec => []IInv
  BY IInvInit, IInvNext, PTL DEF Spec

(* The types of the limiter's state, for any number of runs and permits.      *)
THEOREM TypeCorrect == Spec => []TypeOK
<1>1. IInv => TypeOK
  BY DEF IInv
<1> QED BY <1>1, Inductive, PTL

(* A waiter is in the one queue that wakes it and never coexists with a free  *)
(* permit: acquire, release, timeout and cancellation lose no wake-up.        *)
THEOREM WakeupsKept == Spec => []NoLostWakeup
<1>1. IInv => NoLostWakeup
  BY DEF IInv
<1> QED BY <1>1, Inductive, PTL

(* The permits of both semaphores are conserved by every path through         *)
(* acquire_run_slot and release_run_slot, except where a stream's tail        *)
(* releases what it never had.                                                *)
THEOREM PermitsConserved == Spec => []PermitAccounting
<1>1. IInv => PermitAccounting
  BY DEF IInv, PermitAccounting
<1> QED BY <1>1, Inductive, PTL

(* The limits hold for any number of concurrent runs, because the free        *)
(* permits are never negative and every executing run holds one of each.      *)
THEOREM LimitsHold == Spec => []ConcurrencyLimits
<1>1. ASSUME IInv PROVE ConcurrencyLimits
  <2>1. Count({"running"}) <= GlobalMax + Count({"overBoth"})
    <3>1. In({"running"}) \subseteq In(HoldsGlobal) /\ In(HoldsGlobal) \in SUBSET Run
          /\ In({"overBoth"}) \in SUBSET Run
      BY DEF In, HoldsGlobal
    <3>2. /\ Cardinality(In({"running"})) \in Nat /\ Cardinality(In(HoldsGlobal)) \in Nat
          /\ Cardinality(In({"overBoth"})) \in Nat
          /\ Cardinality(In({"running"})) <= Cardinality(In(HoldsGlobal))
      BY <3>1, FS_Subset, FS_CardinalityType
    <3> QED BY <1>1, <3>2 DEF IInv, TypeOK, GlobalAccounting, Count
  <2>2. ASSUME NEW t \in Tenant
        PROVE  CountIn(t, {"running"}) <= TenantMax + CountIn(t, Over)
    <3>1. /\ InT(t, {"running"}) \subseteq InT(t, HoldsTenant)
          /\ InT(t, HoldsTenant) \in SUBSET Run /\ InT(t, Over) \in SUBSET Run
      BY DEF InT, HoldsTenant
    <3>2. /\ Cardinality(InT(t, {"running"})) \in Nat
          /\ Cardinality(InT(t, HoldsTenant)) \in Nat /\ Cardinality(InT(t, Over)) \in Nat
          /\ Cardinality(InT(t, {"running"})) <= Cardinality(InT(t, HoldsTenant))
      BY <3>1, FS_Subset, FS_CardinalityType
    <3>3. /\ tenantFree[t] \in Nat
          /\ tenantFree[t] + Cardinality(InT(t, HoldsTenant))
               = TenantMax + Cardinality(InT(t, Over))
      BY <1>1 DEF IInv, TypeOK, TenantAccounting, CountIn, Over
    <3> QED BY <3>2, <3>3 DEF CountIn
  <2> QED BY <2>1, <2>2 DEF ConcurrencyLimits, Over
<1>2. IInv => ConcurrencyLimits
  BY <1>1
<1> QED BY <1>2, Inductive, PTL

(* get_concurrency_status is right for any number of runs, up to the excess    *)
(* releases: the counter never shows more runs than execute or were cut off.   *)
THEOREM CounterHonest == Spec => []ActiveRunsHonest
<1>1. Init => ActiveRunsHonest
  <2> SUFFICES ASSUME Init PROVE ActiveRunsHonest
    OBVIOUS
  <2>1. ASSUME NEW t \in Tenant PROVE InT(t, Counted) = {} /\ InT(t, Over) = {}
    BY DEF Init, InT, Counted, Over
  <2>2. \A t \in Tenant : CountIn(t, Counted) = 0 /\ CountIn(t, Over) = 0
    BY <2>1, FS_EmptySet DEF CountIn
  <2> QED BY <2>2 DEF Init, ActiveRunsHonest, Counted, Over
<1>2. IInv /\ ActiveRunsHonest /\ [Next]_vars => ActiveRunsHonest'
  BY CounterKept
<1> QED BY <1>1, <1>2, Inductive, PTL DEF Spec
===============================================================================
