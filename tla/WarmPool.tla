------------------------------- MODULE WarmPool -------------------------------
(***************************************************************************)
(* The warm agents of one agent id: AgentPool of                            *)
(* backend/app/services/agent_pool.py, whose methods hold a lock and await  *)
(* nothing under it, and the eviction by pool_monitor.py.  The executor     *)
(* takes an agent after the budget check of a run and gives it back at the  *)
(* end of the standard path only.  resize is left out: it follows the       *)
(* length of a Redis list that nothing writes.                              *)
(***************************************************************************)
EXTENDS Integers, Sequences, FiniteSets, SequencesExt

CONSTANTS
  Run,
  PoolSize,    \* DEFAULT_POOL_SIZE
  MaxAgents,   \* bound on the agents ever made
  NoAgent

ASSUME PoolAssumption == PoolSize \in Nat /\ MaxAgents \in Nat /\ NoAgent \notin Nat

VARIABLES
  available,   \* _available: popped and appended at its end
  held,        \* the agent a run works with
  inUse,       \* the one entry of _in_use: its key is the agent id of the pool
  aged,        \* agents past their maximal age
  made

poolVars == <<available, held, inUse, aged, made>>

-------------------------------------------------------------------------------
Agents == 1 .. MaxAgents

PoolTypeOK ==
  /\ available \in Seq(Agents)
  /\ held \in [Run -> Agents \cup {NoAgent}]
  /\ inUse \in Agents \cup {NoAgent}
  /\ aged \subseteq Agents
  /\ made \in 0 .. MaxAgents

PoolInit ==
  /\ available = <<>> /\ aged = {} /\ made = 0
  /\ held = [r \in Run |-> NoAgent] /\ inUse = NoAgent

(* Mutant: the agent is looked at and not taken.                                *)
GetAndLeave(r) ==
  /\ held[r] = NoAgent /\ available # <<>>
  /\ held' = [held EXCEPT ![r] = Last(available)]
  /\ inUse' = Last(available)
  /\ UNCHANGED <<available, aged, made>>

(* A warm start: the agent given back last, however old.                        *)
GetWarm(r) ==
  /\ held[r] = NoAgent /\ available # <<>>
  /\ held' = [held EXCEPT ![r] = Last(available)]
  /\ inUse' = Last(available)
  /\ available' = Front(available)
  /\ UNCHANGED <<aged, made>>

(* A cold start.                                                                *)
GetCold(r) ==
  /\ held[r] = NoAgent /\ available = <<>> /\ made < MaxAgents
  /\ made' = made + 1
  /\ held' = [held EXCEPT ![r] = made + 1]
  /\ inUse' = made + 1
  /\ UNCHANGED <<available, aged>>

(* The entry of _in_use goes, whoever's it is.                                  *)
Return(r) ==
  /\ held[r] # NoAgent
  /\ held' = [held EXCEPT ![r] = NoAgent]
  /\ inUse' = NoAgent
  /\ available' = IF held[r] \notin aged /\ Len(available) < PoolSize
                  THEN Append(available, held[r]) ELSE available
  /\ UNCHANGED <<aged, made>>

(* The run ends elsewhere: the agent is not given back, its entry stays.        *)
Drop(r) ==
  /\ held[r] # NoAgent
  /\ held' = [held EXCEPT ![r] = NoAgent]
  /\ UNCHANGED <<available, inUse, aged, made>>

Age(a) ==
  /\ a \in 1 .. made /\ a \notin aged
  /\ aged' = aged \cup {a}
  /\ UNCHANGED <<available, held, inUse, made>>

Young(a) == a \notin aged

(* evict_expired: the others stay, in their order.                              *)
Evict ==
  LET kept == {i \in DOMAIN available : Young(available[i])} IN
  /\ kept # DOMAIN available
  /\ \E f \in [1 .. Cardinality(kept) -> kept] :
       /\ \A i, j \in DOMAIN f : i < j => f[i] < f[j]
       /\ available' = [i \in DOMAIN f |-> available[f[i]]]
  /\ UNCHANGED <<held, inUse, aged, made>>

PoolNext ==
  \/ \E r \in Run : GetWarm(r) \/ GetCold(r) \/ Return(r) \/ Drop(r)
  \/ \E a \in Agents : Age(a)
  \/ Evict

PoolSpec == PoolInit /\ [][PoolNext]_poolVars

-------------------------------------------------------------------------------
(* Properties *)

(* No two runs ever work with one agent, which would mix the contexts of their    *)
(* users, and none is available while a run has it, although _in_use forgets the  *)
(* others as soon as one is given back.                                           *)
AgentsExclusive ==
  /\ \A r, s \in Run : r # s /\ held[r] # NoAgent => held[r] # held[s]
  /\ \A r \in Run : ~Contains(available, held[r])
  /\ IsInjective(available)
===============================================================================
