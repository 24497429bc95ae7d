------------------------------- MODULE LlmAccess -------------------------------
(***************************************************************************)
(* What a run does between its budget check and its end in                  *)
(* backend/app/services/agent_executor.py: it takes a warm agent            *)
(* (WarmPool), calls the language model (ProviderCascade), and gives the    *)
(* agent back after a call that returned or raised; a run that is cut off   *)
(* gives nothing back.  Streams and direct calls have no warm agent.        *)
(***************************************************************************)
EXTENDS ProviderCascade, WarmPool

ASSUME AccessAssumption == Run = {c \in Call : KindOf[c] = "run"}

vars == <<cascadeVars, poolVars>>

Init == CascadeInit /\ PoolInit

(* get_agent, right before the call.                                            *)
Get(c) ==
  /\ pc[c] = "idle"
  /\ GetWarm(c) \/ GetCold(c)
  /\ UNCHANGED cascadeVars

Step(c) ==
  /\ c \in Run => held[c] # NoAgent
  /\ CallStep(c)
  /\ UNCHANGED poolVars

(* return_agent, after the commit of the standard path ...                      *)
GiveBack(c) ==
  /\ pc[c] = "ended" /\ outcome[c] # "cancelled"
  /\ Return(c)
  /\ UNCHANGED cascadeVars

(* ... which a run that was cut off, or has a branch of its own, never reaches.  *)
Abandon(c) ==
  /\ pc[c] = "ended"
  /\ Drop(c)
  /\ UNCHANGED cascadeVars

Environment ==
  \/ UNCHANGED poolVars /\ \E p \in Provider : CoolDown(p) \/ Stats(p)
  \/ UNCHANGED poolVars /\ \E q \in Questions : Expire(q)
  \/ UNCHANGED cascadeVars /\ \E a \in Agents : Age(a)
  \/ UNCHANGED cascadeVars /\ Evict

Next ==
  \/ \E c \in Call : Step(c)
  \/ \E c \in Run : Get(c) \/ GiveBack(c) \/ Abandon(c)
  \/ Environment

Spec == Init /\ [][Next]_vars

-------------------------------------------------------------------------------
(* The type invariants of the parts; their other properties are stated there.    *)
TypeOK == CascadeTypeOK /\ PoolTypeOK
===============================================================================
