--------------------------------- MODULE Crew ---------------------------------
(***************************************************************************)
(* CrewOrchestrator.execute of backend/app/services/agent_crew.py: subtasks *)
(* with dependencies are run in waves.  A wave is every pending subtask     *)
(* whose dependencies are completed; its subtasks run side by side, at most *)
(* max_parallel at a time, each under a timeout, and the next wave waits    *)
(* for the slowest.                                                         *)
(*                                                                          *)
(* All of them share the ONE database session of the request: a commit by   *)
(* one run keeps the rows of all, and a failed statement, a rollback or a   *)
(* client that leaves takes from the session the rows that the others have  *)
(* added.  Their objects live on, but no commit writes them any more.       *)
(***************************************************************************)
EXTENDS Naturals, FiniteSets

CONSTANTS
  Task,
  Dep,          \* depends_on
  Position,     \* of a subtask in the list decompose returns
  MaxParallel,
  TheCrew,      \* stands for the crew's own row, agent_orchestration_runs
  Streamed      \* called by /crew/stream, whose client may leave

Row == Task \cup {TheCrew}

(* decompose keeps the indices of earlier subtasks only.                        *)
ASSUME DecomposeAssumption ==
  /\ IsFiniteSet(Task) /\ TheCrew \notin Task
  /\ Position \in [Task -> Nat]
  /\ Dep \in [Task -> SUBSET Task]
  /\ \A t \in Task : \A d \in Dep[t] : Position[d] < Position[t]

ASSUME CrewAssumption == MaxParallel \in Nat \ {0} /\ Streamed \in BOOLEAN

VARIABLES
  phase,       \* "running", "answered", or "error"
  pending, wave, completed,
  st,          \* where a subtask is: execute_one
  result,      \* SubTaskResult.status
  context,     \* the subtasks whose outputs are in its message
  session,     \* the status of a row as the session has it
  kept,        \* and as it is committed
  expelled,    \* rows whose object is no longer in the session
  broken       \* the session must be rolled back before it can be used

rows == <<session, kept, expelled, broken>>
vars == <<phase, pending, wave, completed, st, result, context, rows>>

-------------------------------------------------------------------------------
RowStatus == {"none", "running", "success", "failed", "partial"}

TypeOK ==
  /\ phase \in {"running", "answered", "error"}
  /\ pending \subseteq Task /\ wave \subseteq pending /\ completed = Task \ pending
  /\ st \in [Task -> {"waiting", "queued", "working", "logged", "returned"}]
  /\ result \in [Task -> {"none", "success", "failed", "timeout"}]
  /\ context \in [Task -> SUBSET Task]
  /\ session \in [Row -> RowStatus] /\ kept \in [Row -> RowStatus]
  /\ expelled \subseteq Row
  /\ broken \in BOOLEAN

(* After the flush of the crew's row.                                           *)
Init ==
  /\ phase = "running"
  /\ pending = Task /\ wave = {} /\ completed = {}
  /\ st = [t \in Task |-> "waiting"]
  /\ result = [t \in Task |-> "none"]
  /\ context = [t \in Task |-> {}]
  /\ session = [r \in Row |-> IF r = TheCrew THEN "running" ELSE "none"]
  /\ kept = [r \in Row |-> "none"]
  /\ expelled = {} /\ broken = FALSE

-------------------------------------------------------------------------------
(* The session. *)

Commit(s) == kept' = [r \in Row |-> IF r \in expelled THEN kept[r] ELSE s[r]]

(* A rollback: rows never committed are out of the session.                      *)
Rollback ==
  /\ session' = kept
  /\ expelled' = expelled \cup {r \in Row : session[r] # "none" /\ kept[r] = "none"}
  /\ UNCHANGED kept

-------------------------------------------------------------------------------
(* The loop. *)

(* Mutant: whatever has not begun is not waited for.                            *)
ReadyAny(t) == \A d \in Dep[t] : d \in pending \/ d \in completed

Ready(t) == Dep[t] \subseteq completed

ReadyTasks == {t \in pending : Ready(t)}

(* The next wave; with none ready, what remains is written off.                  *)
Wave ==
  /\ phase = "running" /\ wave = {} /\ pending # {}
  /\ wave' = ReadyTasks
  /\ st' = [t \in Task |-> IF t \in ReadyTasks THEN "queued" ELSE st[t]]
  /\ IF ReadyTasks # {}
     THEN UNCHANGED <<pending, completed, result>>
     ELSE /\ completed' = Task /\ pending' = {}
          /\ result' = [t \in Task |-> IF t \in pending THEN "failed" ELSE result[t]]
  /\ UNCHANGED <<phase, context, rows>>

(* gather returns when the last subtask of the wave has.                         *)
Gather ==
  /\ wave # {} /\ \A t \in wave : st[t] = "returned"
  /\ completed' = completed \cup wave
  /\ pending' = pending \ wave
  /\ wave' = {}
  /\ UNCHANGED <<phase, st, result, context, rows>>

(* The crew's row is finished and committed.                                     *)
Answer ==
  /\ phase = "running" /\ pending = {}
  /\ IF broken
     THEN phase' = "error" /\ UNCHANGED <<session, kept>>
     ELSE /\ phase' = "answered"
          /\ session' = [session EXCEPT ![TheCrew] =
               IF \A t \in Task : result[t] = "success" THEN "success" ELSE "partial"]
          /\ Commit(session')
  /\ UNCHANGED <<pending, wave, completed, st, result, context, expelled, broken>>

-------------------------------------------------------------------------------
(* One subtask: execute_one and the run it awaits. *)

Free == Cardinality({t \in Task : st[t] \in {"working", "logged"}}) < MaxParallel

(* A permit of the semaphore; the message is put together.                       *)
Acquire(t) ==
  /\ st[t] = "queued" /\ Free
  /\ st' = [st EXCEPT ![t] = "working"]
  /\ context' = [context EXCEPT ![t] = Dep[t] \cap completed]
  /\ UNCHANGED <<phase, pending, wave, completed, result, rows>>

Return(t, status) ==
  /\ st' = [st EXCEPT ![t] = "returned"]
  /\ result' = [result EXCEPT ![t] = status]
  /\ UNCHANGED <<phase, pending, wave, completed, context>>

(* The run inserts its row.                                                      *)
Insert(t) ==
  /\ st[t] = "working" /\ session[t] = "none" /\ t \notin expelled /\ ~broken
  /\ session' = [session EXCEPT ![t] = "running"]
  /\ UNCHANGED <<phase, pending, wave, completed, st, result, context, kept, expelled, broken>>

Began(t) == session[t] = "running" \/ t \in expelled

(* It ends with its commit, which keeps the rows of the others too.              *)
Log(t, status) ==
  /\ st[t] = "working" /\ Began(t) /\ ~broken
  /\ st' = [st EXCEPT ![t] = "logged"]
  /\ session' = [session EXCEPT ![t] = IF t \in expelled THEN @ ELSE status]
  /\ Commit(session')
  /\ UNCHANGED <<phase, pending, wave, completed, result, context, expelled, broken>>

(* Mutant: any result is a success.                                              *)
ReplyAlways(t) ==
  /\ st[t] = "logged"
  /\ Return(t, "success")
  /\ UNCHANGED rows

(* The run returns the status of its row's object.                               *)
Reply(t) ==
  /\ st[t] = "logged"
  /\ \E status \in {"success", "failed"} :
       /\ t \notin expelled => status = session[t]
       /\ Return(t, status)
  /\ UNCHANGED rows

(* No run slot: the run returns, its row stays as it was inserted.               *)
Throttle(t) ==
  /\ st[t] = "working" /\ Began(t)
  /\ Return(t, "failed")
  /\ UNCHANGED rows

(* The run raises: before its insert, or while it uses a session that is broken.  *)
Raise(t) ==
  /\ st[t] \in {"working", "logged"}
  /\ Return(t, "failed")
  /\ UNCHANGED rows

(* One of its statements fails: a flush beside another one leaves the session     *)
(* broken, a failed vector search rolls it back.                                  *)
RaiseInSession(t) ==
  /\ st[t] \in {"working", "logged"} /\ ~broken
  /\ Return(t, "failed")
  /\ Rollback
  /\ broken' \in BOOLEAN

(* Mutant: the row says so too.                                                   *)
TimeoutInRow(t) ==
  /\ st[t] \in {"working", "logged"}
  /\ Return(t, "timeout")
  /\ session' = [session EXCEPT ![t] = "timeout"]
  /\ UNCHANGED <<kept, expelled, broken>>

(* wait_for cancels the run, between two statements ...                           *)
Timeout(t) ==
  /\ st[t] \in {"working", "logged"}
  /\ Return(t, "timeout")
  /\ UNCHANGED rows

(* ... or in the middle of one.                                                   *)
TimeoutInSession(t) ==
  /\ st[t] \in {"working", "logged"} /\ ~broken
  /\ Return(t, "timeout")
  /\ Rollback
  /\ broken' = TRUE

(* The client leaves: the request's session is closed under the crew, which goes  *)
(* on in a task of its own.  Closed, the session can be used again.               *)
Leave ==
  /\ Streamed /\ phase = "running" /\ TheCrew \notin expelled
  /\ session' = kept
  /\ expelled' = expelled \cup {r \in Row : session[r] # "none"}
  /\ broken' = FALSE
  /\ UNCHANGED <<phase, pending, wave, completed, st, result, context, kept>>

-------------------------------------------------------------------------------
Work ==
  \/ Wave \/ Gather \/ Answer
  \/ \E t \in Task :
       \/ Acquire(t) \/ Insert(t) \/ Reply(t) \/ Throttle(t)
       \/ \E status \in {"success", "failed"} : Log(t, status)
       \/ Raise(t) \/ RaiseInSession(t) \/ Timeout(t) \/ TimeoutInSession(t)

Next == Work \/ Leave

(* Every run returns, raises or is cancelled by its timeout.                      *)
Spec == Init /\ [][Next]_vars /\ WF_vars(Work)

-------------------------------------------------------------------------------
(* Properties *)

(* What the crew's row says is in the rows of its runs: after a success every     *)
(* subtask has a row that says so, unless its row was lost with the session; and  *)
(* a crew whose row is finished leaves none of its runs unfinished but those that *)
(* timed out, were throttled or raised.                                           *)
SuccessBacked ==
  /\ kept[TheCrew] = "success" =>
       \A t \in Task \ expelled : kept[t] = "success"
  /\ kept[TheCrew] = "partial" => \E t \in Task : result[t] # "success"
  /\ \A t \in Task \ expelled : result[t] = "success" => kept[t] = "success"

(* Waves, semaphore, timeouts and failures keep the order of the dependencies,     *)
(* and every subtask is settled in the end.                                       *)
Order == INSTANCE DependencyOrder WITH
  begun <- {t \in Task : st[t] \notin {"waiting", "queued"}},
  settled <- completed,
  given <- context

KeepsOrder == Order!Spec
===============================================================================
