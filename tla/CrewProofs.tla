------------------------------- MODULE CrewProofs -------------------------------
(***************************************************************************)
(* What Crew promises for any subtasks, dependencies and limit: its types,  *)
(* that no subtask is ever written off, what its rows say, and that its     *)
(* steps are steps of DependencyOrder.  That all subtasks settle is         *)
(* model-checked only.                                                      *)
(***************************************************************************)
EXTENDS Crew, FiniteSetTheorems, TLAPS

Begun == {t \in Task : st[t] \notin {"waiting", "queued"}}

-------------------------------------------------------------------------------
(* The inductive invariant. *)

(* Where a subtask is follows from the wave: those that wait are pending, those   *)
(* completed have returned.                                                      *)
Stages ==
  /\ \A t \in pending \ wave : st[t] = "waiting"
  /\ \A t \in wave : st[t] # "waiting"
  /\ \A t \in completed : st[t] = "returned"

(* What is in a wave or behind it had its dependencies completed.                *)
InOrder ==
  /\ \A t \in wave \cup completed : Dep[t] \subseteq completed
  /\ \A t \in Task : context[t] = IF t \in Begun THEN Dep[t] ELSE {}

(* The session's copy of a finished run's row is the committed one, unless the    *)
(* row was lost with the session.                                                *)
RowsAgree ==
  \A t \in Task \ expelled :
    /\ st[t] = "logged" => session[t] = kept[t]
    /\ result[t] = "success" => session[t] = "success" /\ kept[t] = "success"

(* The crew's row is finished by its answer, the last thing it does.             *)
AnswerLast ==
  /\ phase = "running" => session[TheCrew] \in {"none", "running"}
                          /\ kept[TheCrew] \in {"none", "running"}
  /\ phase # "running" => pending = {}

Inv == TypeOK /\ Stages /\ InOrder /\ RowsAgree /\ AnswerLast /\ SuccessBacked

(* No subtask is active outside a wave.                                          *)
LEMMA ActiveInWave ==
  ASSUME Inv, NEW t \in Task, st[t] \in {"queued", "working", "logged"}
  PROVE  t \in wave /\ phase = "running" /\ t \notin completed
<1>1. t \notin completed /\ t \in pending
  BY DEF Inv, Stages, TypeOK
<1>2. t \in wave
  BY <1>1 DEF Inv, Stages
<1> QED BY <1>1, <1>2 DEF Inv, AnswerLast, TypeOK

-------------------------------------------------------------------------------
(* Dependencies point to earlier subtasks: of those pending, the first is ready. *)
LEMMA SomeReady ==
  ASSUME Inv, pending # {}, wave = {}
  PROVE  ReadyTasks # {}
<1> DEFINE UpTo(t) == {d \in pending : Position[d] <= Position[t]}
           Family == {UpTo(t) : t \in pending}
<1>1. pending \subseteq Task /\ completed = Task \ pending /\ IsFiniteSet(pending)
  BY DecomposeAssumption, FS_Subset DEF Inv, TypeOK
<1>2. Family \subseteq FiniteSubsetsOf(pending) /\ Family # {}
  <2>1. \A t \in pending : IsFiniteSet(UpTo(t)) /\ UpTo(t) \in SUBSET pending
    BY <1>1, FS_Subset
  <2> QED BY <2>1 DEF FiniteSubsetsOf
<1>3. PICK F \in Family : \A G \in Family : ~ (<<G, F>> \in StrictSubsetOrdering(pending))
  BY <1>2, FS_StrictSubsetOrderingWellFounded, WFMin
<1>4. PICK t \in pending : F = UpTo(t)
  OBVIOUS
<1>5. ASSUME NEW d \in Dep[t], d \in pending PROVE FALSE
  <2>1. Position[d] \in Nat /\ Position[t] \in Nat /\ Position[d] < Position[t]
    BY <1>1, <1>5, DecomposeAssumption
  <2>2. UpTo(d) \subseteq UpTo(t)
    <3>1. ASSUME NEW x \in UpTo(d) PROVE x \in UpTo(t)
      <4>1. Position[x] \in Nat /\ Position[x] <= Position[d]
        BY <1>1, DecomposeAssumption
      <4> QED BY <2>1, <4>1
    <3> QED BY <3>1
  <2>3. t \in UpTo(t) /\ t \notin UpTo(d)
    BY <2>1
  <2>4. <<UpTo(d), UpTo(t)>> \in StrictSubsetOrdering(pending)
    BY <2>2, <2>3 DEF StrictSubsetOrdering
  <2> QED BY <1>3, <1>4, <1>5, <2>4
<1>6. Dep[t] \subseteq Task
  BY <1>1, DecomposeAssumption
<1> QED BY <1>1, <1>5, <1>6 DEF ReadyTasks, Ready

-------------------------------------------------------------------------------
LEMMA InvStarts == Init => Inv
<1> SUFFICES ASSUME Init PROVE Inv
  OBVIOUS
<1> USE DEF Init
<1>1. TheCrew \in Row /\ \A t \in Task : t \in Row /\ t # TheCrew
  BY DecomposeAssumption DEF Row
<1>2. TypeOK
  BY DEF TypeOK, RowStatus
<1>3. Stages /\ InOrder
  BY DEF Stages, InOrder, Begun
<1>4. RowsAgree /\ AnswerLast /\ SuccessBacked
  BY <1>1 DEF RowsAgree, AnswerLast, SuccessBacked
<1> QED BY <1>2, <1>3, <1>4 DEF Inv

(* As long as the crew runs on, its row says nothing; the rest is in RowsAgree.   *)
LEMMA BackedWhileRunning ==
  ASSUME RowsAgree', AnswerLast', phase' = "running"
  PROVE  SuccessBacked'
BY DEF RowsAgree, AnswerLast, SuccessBacked

(* The loop: a wave begins, a wave ends. *)
LEMMA WaveKeeps == Inv /\ Wave => Inv'
<1> SUFFICES ASSUME Inv, Wave PROVE Inv'
  OBVIOUS
<1>1. ReadyTasks # {}
  BY SomeReady DEF Wave
<1>2. /\ phase = "running" /\ wave = {} /\ wave' = ReadyTasks
      /\ st' = [t \in Task |-> IF t \in ReadyTasks THEN "queued" ELSE st[t]]
      /\ UNCHANGED <<pending, completed, result, phase, context, rows>>
  BY <1>1 DEF Wave
<1>3. ReadyTasks \subseteq pending /\ pending \subseteq Task /\ completed = Task \ pending
  BY DEF ReadyTasks, Inv, TypeOK
<1> USE DEF Inv
<1>4. TypeOK'
  BY <1>2, <1>3 DEF TypeOK, rows
<1>5. Stages'
  BY <1>2, <1>3 DEF Stages, TypeOK
<1>6. InOrder'
  <2>1. \A t \in ReadyTasks : Dep[t] \subseteq completed
    BY DEF ReadyTasks, Ready
  <2>2. \A t \in ReadyTasks : st[t] = "waiting"
    BY <1>2, <1>3 DEF Stages
  <2>3. Begun' = Begun
    BY <1>2, <2>2 DEF Begun
  <2> QED BY <1>2, <2>1, <2>3 DEF InOrder
<1>7. RowsAgree' /\ AnswerLast'
  BY <1>2 DEF RowsAgree, AnswerLast, rows
<1> QED BY <1>2, <1>4, <1>5, <1>6, <1>7, BackedWhileRunning

LEMMA GatherKeeps == Inv /\ Gather => Inv'
<1> SUFFICES ASSUME Inv, Gather PROVE Inv'
  OBVIOUS
<1> USE DEF Inv
<1>1. /\ completed' = completed \cup wave /\ pending' = pending \ wave /\ wave' = {}
      /\ \A t \in wave : st[t] = "returned"
      /\ UNCHANGED <<phase, st, result, context, rows>>
  BY DEF Gather
<1>2. TypeOK'
  BY <1>1 DEF TypeOK, rows
<1>3. Stages'
  BY <1>1 DEF Stages
<1>4. InOrder'
  BY <1>1 DEF InOrder, Begun
<1>5. RowsAgree' /\ AnswerLast' /\ SuccessBacked'
  BY <1>1 DEF RowsAgree, AnswerLast, SuccessBacked, rows
<1> QED BY <1>2, <1>3, <1>4, <1>5

(* The crew's last commit says "success" of subtasks that all have a row that     *)
(* says so.                                                                      *)
LEMMA AnswerKeeps == Inv /\ Answer => Inv'
<1> SUFFICES ASSUME Inv, Answer PROVE Inv'
  OBVIOUS
<1> USE DEF Inv
<1>1. phase = "running" /\ pending = {} /\ phase' # "running"
      /\ UNCHANGED <<pending, wave, completed, st, result, context, expelled, broken>>
  BY DEF Answer
<1>2. TheCrew \in Row /\ \A t \in Task : t \in Row /\ t # TheCrew
  BY DecomposeAssumption DEF Row
<1>3. Stages' /\ InOrder' /\ AnswerLast'
  BY <1>1 DEF Stages, InOrder, Begun, AnswerLast
<1>4. CASE broken
  <2>1. UNCHANGED <<session, kept>> /\ phase' = "error"
    BY <1>4 DEF Answer
  <2> QED BY <1>1, <1>3, <2>1 DEF TypeOK, RowsAgree, SuccessBacked
<1>5. CASE ~broken
  <2> DEFINE all == \A t \in Task : result[t] = "success"
             status == IF all THEN "success" ELSE "partial"
  <2>1. /\ phase' = "answered"
        /\ session' = [session EXCEPT ![TheCrew] = status]
        /\ kept' = [r \in Row |-> IF r \in expelled THEN kept[r] ELSE session'[r]]
    BY <1>5 DEF Answer, Commit
  <2>2. status \in {"success", "partial"} /\ (status = "success" <=> all)
    OBVIOUS
  <2> HIDE DEF status
  <2>3. TypeOK'
    BY <1>1, <2>1, <2>2 DEF TypeOK, RowStatus
  <2>4. \A t \in Task : session'[t] = session[t]
                        /\ (t \in expelled => kept'[t] = kept[t])
                        /\ (t \notin expelled => kept'[t] = session[t])
    BY <1>2, <2>1 DEF TypeOK
  <2>5. RowsAgree'
    BY <1>1, <2>4 DEF RowsAgree
  <2>6. kept'[TheCrew] \in {status, kept[TheCrew]}
    BY <1>2, <2>1 DEF TypeOK
  <2>7. kept'[TheCrew] = "success" => all
    BY <1>1, <2>2, <2>6 DEF AnswerLast
  <2>8. kept'[TheCrew] = "partial" => ~all
    BY <1>1, <2>2, <2>6 DEF AnswerLast
  <2>9. SuccessBacked'
    BY <1>1, <2>5, <2>7, <2>8 DEF SuccessBacked, RowsAgree
  <2> QED BY <1>3, <2>3, <2>5, <2>9
<1> QED BY <1>4, <1>5

-------------------------------------------------------------------------------
(* One subtask. *)

LEMMA AcquireKeeps == ASSUME Inv, NEW t \in Task, Acquire(t) PROVE Inv'
<1>1. t \in wave /\ phase = "running" /\ st[t] = "queued"
  BY ActiveInWave DEF Acquire
<1> USE DEF Inv
<1>2. /\ st' = [st EXCEPT ![t] = "working"]
      /\ context' = [context EXCEPT ![t] = Dep[t] \cap completed]
      /\ UNCHANGED <<phase, pending, wave, completed, result, rows>>
  BY DEF Acquire
<1>3. Dep[t] \subseteq completed
  BY <1>1 DEF InOrder
<1>4. TypeOK'
  BY <1>2, <1>3, DecomposeAssumption DEF TypeOK, rows
<1>5. Stages'
  BY <1>1, <1>2 DEF Stages, TypeOK
<1>6. InOrder'
  BY <1>1, <1>2, <1>3 DEF InOrder, Begun, TypeOK
<1>7. RowsAgree' /\ AnswerLast'
  BY <1>2 DEF RowsAgree, AnswerLast, rows, TypeOK
<1> QED BY <1>1, <1>2, <1>4, <1>5, <1>6, <1>7, BackedWhileRunning

LEMMA InsertKeeps == ASSUME Inv, NEW t \in Task, Insert(t) PROVE Inv'
<1>1. phase = "running"
  BY ActiveInWave DEF Insert
<1> USE DEF Inv
<1>2. t \in Row /\ t # TheCrew
  BY DecomposeAssumption DEF Row
<1>3. TypeOK'
  BY <1>2 DEF Insert, TypeOK, RowStatus
<1>4. Stages' /\ InOrder'
  BY DEF Insert, Stages, InOrder, Begun
<1>5. RowsAgree' /\ AnswerLast'
  BY <1>2 DEF Insert, RowsAgree, AnswerLast, TypeOK
<1> QED BY <1>1, <1>3, <1>4, <1>5, BackedWhileRunning DEF Insert

LEMMA LogKeeps ==
  ASSUME Inv, NEW t \in Task, NEW status \in {"success", "failed"}, Log(t, status)
  PROVE  Inv'
<1>1. phase = "running" /\ t \in wave
  BY ActiveInWave DEF Log
<1> USE DEF Inv
<1>2. TheCrew \in Row /\ \A x \in Task : x \in Row /\ x # TheCrew
  BY DecomposeAssumption DEF Row
<1>3. /\ st' = [st EXCEPT ![t] = "logged"]
      /\ session' = [session EXCEPT ![t] = IF t \in expelled THEN @ ELSE status]
      /\ kept' = [r \in Row |-> IF r \in expelled THEN kept[r] ELSE session'[r]]
      /\ t \in expelled \/ session[t] = "running"
      /\ UNCHANGED <<phase, pending, wave, completed, result, context, expelled, broken>>
  BY DEF Log, Commit, Began
<1>4. TypeOK'
  BY <1>2, <1>3 DEF TypeOK, RowStatus
<1>5. Stages' /\ InOrder'
  <2>1. Begun' = Begun
    BY <1>3 DEF Begun, Log, TypeOK
  <2>2. InOrder'
    BY <1>3, <2>1 DEF InOrder
  <2>3. Stages'
    BY <1>1, <1>3 DEF Stages, TypeOK
  <2> QED BY <2>2, <2>3
<1>6. RowsAgree'
  <2>1. ASSUME NEW x \in Task, x \notin expelled
        PROVE  /\ kept'[x] = session'[x]
               /\ result[x] = "success" => session'[x] = "success"
    BY <1>2, <1>3, <2>1 DEF RowsAgree, TypeOK
  <2> QED BY <1>3, <2>1 DEF RowsAgree
<1>7. AnswerLast'
  BY <1>1, <1>2, <1>3 DEF AnswerLast, TypeOK
<1> QED BY <1>1, <1>3, <1>4, <1>5, <1>6, <1>7, BackedWhileRunning

(* A subtask that returns leaves the order alone, whatever its result.           *)
LEMMA ReturnInOrder ==
  ASSUME Inv, NEW t \in Task, st[t] \in {"working", "logged"},
         NEW status \in {"success", "failed", "timeout"}, Return(t, status)
  PROVE  /\ Stages' /\ InOrder' /\ phase = "running" /\ phase' = "running"
         /\ st' \in [Task -> {"waiting", "queued", "working", "logged", "returned"}]
         /\ result' \in [Task -> {"none", "success", "failed", "timeout"}]
<1>1. phase = "running" /\ t \in wave
  BY ActiveInWave
<1> USE DEF Inv
<1>2. Stages'
  BY <1>1 DEF Return, Stages, TypeOK
<1>3. Begun' = Begun
  BY DEF Return, Begun, TypeOK
<1>4. InOrder'
  BY <1>3 DEF Return, InOrder
<1> QED BY <1>1, <1>2, <1>4 DEF Return, TypeOK

(* One that returns with the rows as they are may claim what its row says.        *)
LEMMA ReturnKeeps ==
  ASSUME Inv, NEW t \in Task, st[t] \in {"working", "logged"},
         NEW status \in {"success", "failed", "timeout"}, Return(t, status),
         UNCHANGED rows,
         status = "success" /\ t \notin expelled =>
           st[t] = "logged" /\ session[t] = "success"
  PROVE  Inv'
<1> USE DEF Inv
<1>1. TypeOK'
  BY ReturnInOrder DEF Return, TypeOK, rows
<1>2. RowsAgree'
  BY DEF Return, RowsAgree, TypeOK, rows
<1>3. AnswerLast'
  BY DEF Return, AnswerLast, rows
<1> QED BY <1>1, <1>2, <1>3, ReturnInOrder, BackedWhileRunning

(* A rollback makes the session agree with what is committed.                    *)
LEMMA RollbackKeeps ==
  ASSUME Inv, NEW t \in Task, st[t] \in {"working", "logged"},
         NEW status \in {"failed", "timeout"}, Return(t, status),
         Rollback, broken' \in BOOLEAN
  PROVE  Inv'
<1> USE DEF Inv
<1>1. session' \in [Row -> RowStatus] /\ kept' \in [Row -> RowStatus] /\ expelled' \subseteq Row
  BY DEF Rollback, TypeOK
<1>2. TypeOK'
  BY <1>1, ReturnInOrder DEF Return, TypeOK
<1>3. RowsAgree'
  BY DEF Return, Rollback, RowsAgree, TypeOK
<1>4. AnswerLast'
  BY DEF Return, Rollback, AnswerLast
<1> QED BY <1>2, <1>3, <1>4, ReturnInOrder, BackedWhileRunning

LEMMA LeaveKeeps == Inv /\ Leave => Inv'
<1> SUFFICES ASSUME Inv, Leave PROVE Inv'
  OBVIOUS
<1> USE DEF Inv
<1>1. expelled \subseteq expelled' /\ expelled' \subseteq Row
  BY DEF Leave, TypeOK
<1>2. TypeOK'
  BY <1>1 DEF Leave, TypeOK
<1>3. Stages' /\ InOrder'
  BY DEF Leave, Stages, InOrder, Begun
<1>4. RowsAgree'
  BY <1>1 DEF Leave, RowsAgree
<1>5. AnswerLast'
  BY DEF Leave, AnswerLast
<1> QED BY <1>2, <1>3, <1>4, <1>5, BackedWhileRunning DEF Leave

LEMMA TaskKeeps ==
  ASSUME Inv, NEW t \in Task,
         \/ Acquire(t) \/ Insert(t) \/ Reply(t) \/ Throttle(t)
         \/ \E status \in {"success", "failed"} : Log(t, status)
         \/ Raise(t) \/ RaiseInSession(t) \/ Timeout(t) \/ TimeoutInSession(t)
  PROVE  Inv'
<1>1. CASE Reply(t)
  <2>1. PICK status \in {"success", "failed"} :
          (t \notin expelled => status = session[t]) /\ Return(t, status)
    BY <1>1 DEF Reply
  <2> QED BY <1>1, <2>1, ReturnKeeps DEF Reply
<1>2. CASE Throttle(t) \/ Raise(t)
  <2>1. st[t] \in {"working", "logged"} /\ Return(t, "failed") /\ UNCHANGED rows
    BY <1>2 DEF Throttle, Raise
  <2> QED BY <2>1, ReturnKeeps
<1>3. CASE Timeout(t)
  <2>1. st[t] \in {"working", "logged"} /\ Return(t, "timeout") /\ UNCHANGED rows
    BY <1>3 DEF Timeout
  <2> QED BY <2>1, ReturnKeeps
<1>4. CASE RaiseInSession(t)
  <2>1. /\ st[t] \in {"working", "logged"} /\ Return(t, "failed")
        /\ Rollback /\ broken' \in BOOLEAN
    BY <1>4 DEF RaiseInSession
  <2> QED BY <2>1, RollbackKeeps
<1>5. CASE TimeoutInSession(t)
  <2>1. /\ st[t] \in {"working", "logged"} /\ Return(t, "timeout")
        /\ Rollback /\ broken' \in BOOLEAN
    BY <1>5 DEF TimeoutInSession
  <2> QED BY <2>1, RollbackKeeps
<1> QED BY <1>1, <1>2, <1>3, <1>4, <1>5, AcquireKeeps, InsertKeeps, LogKeeps

LEMMA InvKept == Inv /\ [Next]_vars => Inv'
<1> SUFFICES ASSUME Inv, [Next]_vars PROVE Inv'
  OBVIOUS
<1>1. CASE Work
  BY <1>1, WaveKeeps, GatherKeeps, AnswerKeeps, TaskKeeps DEF Work
<1>2. CASE UNCHANGED vars
  BY <1>2 DEF vars, rows, Inv, TypeOK, Stages, InOrder, Begun, RowsAgree, AnswerLast,
              SuccessBacked
<1> QED BY <1>1, <1>2, LeaveKeeps DEF Next

LEMMA InvHolds == Spec => []Inv
BY InvStarts, InvKept, PTL DEF Spec

-------------------------------------------------------------------------------
(* The theorems. *)

(* Every variable keeps its type.                                               *)
THEOREM TypeCorrect == Spec => []TypeOK
<1>1. Inv => TypeOK
  BY DEF Inv
<1> QED BY <1>1, InvHolds, PTL

(* Whatever subtasks raise, time out or take from the shared session, and whenever *)
(* the client leaves, the crew's row claims no success its runs' rows do not have.  *)
THEOREM SuccessAlwaysBacked == Spec => []SuccessBacked
<1>1. Inv => SuccessBacked
  BY DEF Inv
<1> QED BY <1>1, InvHolds, PTL

(* The branch of the loop that writes off what is pending is dead code: decompose   *)
(* keeps dependencies on earlier subtasks only, so one of those pending is ready.   *)
THEOREM NothingWrittenOff ==
  Spec => [](phase = "running" /\ wave = {} /\ pending # {} => ReadyTasks # {})
<1>1. Inv => (phase = "running" /\ wave = {} /\ pending # {} => ReadyTasks # {})
  BY SomeReady
<1> QED BY <1>1, InvHolds, PTL

-------------------------------------------------------------------------------
(* The refinement. *)

LEMMA OrderStarts == Init => Order!Init
BY DEF Init, Order!Init

LEMMA OrderKept == Inv /\ [Next]_vars => [Order!Next]_(Order!vars)
<1> SUFFICES ASSUME Inv, [Next]_vars PROVE [Order!Next]_(Order!vars)
  OBVIOUS
<1> USE DEF Order!vars
<1>0. Begun \subseteq Task /\ pending \subseteq Task /\ completed = Task \ pending
      /\ wave \subseteq pending
  BY DEF Begun, Inv, TypeOK
<1>1. ASSUME Wave PROVE UNCHANGED <<Begun, completed, context>>
  <2>1. ReadyTasks # {}
    BY <1>1, SomeReady DEF Wave
  <2>2. \A t \in ReadyTasks : st[t] = "waiting"
    BY <1>1 DEF Wave, Inv, Stages, ReadyTasks
  <2> QED BY <1>1, <2>1, <2>2 DEF Wave, Begun
<1>2. ASSUME Gather PROVE Order!Settle
  <2>1. wave \subseteq Begun /\ completed \subseteq Begun
    BY <1>0, <1>2 DEF Gather, Begun, Inv, Stages
  <2>2. PICK t \in wave : t \in Begun /\ t \notin completed
    BY <1>0, <1>2, <2>1 DEF Gather
  <2>3. completed # Begun
    BY <2>2
  <2>4. completed' \in {S \in SUBSET Begun : completed \subseteq S /\ completed # S}
    BY <1>2, <2>1, <2>2 DEF Gather
  <2>5. UNCHANGED <<Begun, context>>
    BY <1>2 DEF Gather, Begun
  <2> QED BY <2>3, <2>4, <2>5 DEF Order!Settle, Begun
<1>3. ASSUME NEW t \in Task, Acquire(t) PROVE Order!Begin(t)
  <2>1. t \in wave /\ t \notin Begun
    BY <1>3, ActiveInWave DEF Acquire, Begun
  <2>2. Dep[t] \subseteq completed
    BY <2>1 DEF Inv, InOrder
  <2>3. Dep[t] \cap completed = Dep[t]
    BY <2>2
  <2>4. Begun' = Begun \cup {t}
    BY <1>3 DEF Acquire, Begun, Inv, TypeOK
  <2>5. context' = [context EXCEPT ![t] = Dep[t]] /\ UNCHANGED completed
    BY <1>3, <2>3 DEF Acquire
  <2> QED BY <2>1, <2>2, <2>4, <2>5 DEF Order!Begin, Begun
<1>4. ASSUME NEW t \in Task, NEW status,
             st[t] \in {"working", "logged"}, Return(t, status)
      PROVE  UNCHANGED <<Begun, completed, context>>
  BY <1>4 DEF Return, Begun, Inv, TypeOK
<1>5. ASSUME NEW t \in Task, NEW status, Log(t, status)
      PROVE  UNCHANGED <<Begun, completed, context>>
  BY <1>5 DEF Log, Begun, Inv, TypeOK
<1>6. ASSUME NEW t \in Task, Insert(t)
      PROVE  UNCHANGED <<Begun, completed, context>>
  BY <1>6 DEF Insert, Begun
<1>7. ASSUME Answer \/ Leave \/ UNCHANGED vars
      PROVE  UNCHANGED <<Begun, completed, context>>
  BY <1>7 DEF Answer, Leave, vars, Begun
<1>8. ASSUME NEW t \in Task,
             \/ Reply(t) \/ Throttle(t) \/ Raise(t) \/ RaiseInSession(t)
             \/ Timeout(t) \/ TimeoutInSession(t)
      PROVE  UNCHANGED <<Begun, completed, context>>
  <2>1. PICK status : st[t] \in {"working", "logged"} /\ Return(t, status)
    BY <1>8 DEF Reply, Throttle, Raise, RaiseInSession, Timeout, TimeoutInSession
  <2> QED BY <2>1, <1>4
<1>9. \/ UNCHANGED <<Begun, completed, context>> \/ Order!Settle
      \/ \E t \in Task : Order!Begin(t)
  BY <1>1, <1>2, <1>3, <1>5, <1>6, <1>7, <1>8 DEF Next, Work
<1> QED BY <1>9 DEF Order!Next, Begun

(* Every step of a crew is a step of DependencyOrder or leaves it alone: waves,      *)
(* limit, timeouts and failures keep the safety part of KeepsOrder.                 *)
THEOREM OrderImplemented == Spec => Order!Init /\ [][Order!Next]_(Order!vars)
BY OrderStarts, OrderKept, InvHolds, PTL DEF Spec
===============================================================================
