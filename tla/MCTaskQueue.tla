------------------------------ MODULE MCTaskQueue ------------------------------
(* Small instances of TaskQueue: an import (may raise), an onboarding pipeline *)
(* (reports its own outcome) and a task whose name nobody registered.          *)
EXTENDS TaskQueue, TLC

CONSTANTS import, onboarding, webhook, w1, w2

(* The server processes differ in nothing but their name.                      *)
Servers == Permutations(Worker)

(* What the guards and NoTaskLost read: no step looks at the status keys or at *)
(* the count of failures, and how a task was settled makes no difference.      *)
Relevant ==
  <<caller, stream, group, wpc, todo, fresh, {t \in Task : Settled(t)}, bounds>>

===============================================================================
