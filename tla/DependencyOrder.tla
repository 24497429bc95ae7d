---------------------------- MODULE DependencyOrder ----------------------------
(***************************************************************************)
(* What a crew of agents (backend/app/services/agent_crew.py) promises      *)
(* about its subtasks: each begins once everything it depends on is         *)
(* settled, is handed the outputs of exactly those subtasks, and in the end *)
(* all are settled.  Crew implements it.                                    *)
(***************************************************************************)
CONSTANTS Task, Dep

VARIABLES
  begun, settled,   \* sets of subtasks
  given             \* whose outputs a subtask was handed

vars == <<begun, settled, given>>

Init ==
  /\ begun = {} /\ settled = {}
  /\ given = [t \in Task |-> {}]

Begin(t) ==
  /\ t \notin begun /\ Dep[t] \subseteq settled
  /\ begun' = begun \cup {t}
  /\ given' = [given EXCEPT ![t] = Dep[t]]
  /\ UNCHANGED settled

(* Subtasks settle together when they run side by side.                         *)
Settle ==
  /\ settled # begun
  /\ settled' \in {S \in SUBSET begun : settled \subseteq S /\ settled # S}
  /\ UNCHANGED <<begun, given>>

Next == Settle \/ \E t \in Task : Begin(t)

Spec == Init /\ [][Next]_vars /\ WF_vars(Next)

===============================================================================
