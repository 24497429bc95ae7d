---------------------------- MODULE TaskQueueProofs ----------------------------
(***************************************************************************)
(* Proofs about TaskQueue for any number of tasks, workers, retries,        *)
(* crashes and failed commands; the bound on retries, at the end, holds for *)
(* one worker only.                                                         *)
(***************************************************************************)
EXTENDS TaskQueue, FiniteSetTheorems, TLAPS

-------------------------------------------------------------------------------
(* Sequences of ids *)

LEMMA TailFacts ==
  ASSUME NEW S, NEW q \in Seq(S), q # <<>>
  PROVE  Head(q) \in S /\ Tail(q) \in Seq(S)
OBVIOUS

LEMMA ElementFacts ==
  ASSUME NEW S, NEW q \in Seq(S)
  PROVE  /\ Len(q) \in Nat
         /\ \A i \in 1 .. Len(q) : q[i] \in S
         /\ \A e \in S : /\ Append(q, e) \in Seq(S) /\ Len(Append(q, e)) = Len(q) + 1
                        /\ \A i \in 1 .. Len(q) : Append(q, e)[i] = q[i]
                        /\ Append(q, e)[Len(q) + 1] = e
OBVIOUS

(* Ids stay ids when more entries are delivered.                              *)
LEMMA Widen ==
  ASSUME NEW d \in Nat, NEW e \in Nat, d <= e, NEW q \in Seq(1 .. d)
  PROVE  q \in Seq(1 .. e)
<1>1. \A i \in 1 .. Len(q) : q[i] \in 1 .. e
  OBVIOUS
<1>2. q = [i \in 1 .. Len(q) |-> q[i]] /\ Len(q) \in Nat
  OBVIOUS
<1> QED BY <1>1, <1>2

(* What xpending_range returns is a sequence of pending ids.                   *)
LEMMA AscendingFacts ==
  ASSUME NEW d \in Nat, NEW S \in SUBSET (1 .. d), NEW c,
         NEW q \in Ascending(Oldest(S, c))
  PROVE  q \in Seq(1 .. d)
<1> DEFINE O == Oldest(S, c)
<1>1. O \subseteq 1 .. d
  BY DEF Oldest
<1>2. IsFiniteSet(1 .. d)
  BY FS_Interval
<1>3. IsFiniteSet(O)
  BY <1>1, <1>2, FS_Subset
<1>4. Cardinality(O) \in Nat
  BY <1>3, FS_CardinalityType
<1>5. q \in [1 .. Cardinality(O) -> O]
  BY DEF Ascending
<1>6. \A i \in 1 .. Cardinality(O) : q[i] \in 1 .. d
  BY <1>1, <1>5
<1>7. q = [i \in 1 .. Cardinality(O) |-> q[i]]
  BY <1>5
<1> HIDE DEF O
<1> QED BY <1>4, <1>6, <1>7

-------------------------------------------------------------------------------
(* Type correctness *)

LEMMA InitType == Init => TypeOK
BY TaskAssumption, BoundAssumption DEF Init, TypeOK, Status, WorkerState, Idle

LEMMA RunCases ==
  ASSUME NEW w \in Worker, Run(w)
  PROVE  \/ returned' = returned \cup {TaskOf(w)} /\ UNCHANGED failures
            /\ Goto(w, "returned")
         \/ failures' = [failures EXCEPT ![TaskOf(w)] = @ + 1] /\ UNCHANGED returned
            /\ Goto(w, "raised")
BY DEF Run

LEMMA EntryOf ==
  ASSUME TypeOK, NEW w \in Worker, wpc[w] \notin Idle
  PROVE  /\ todo[w] # <<>> /\ Cur(w) \in 1 .. delivered /\ Cur(w) \in 1 .. Len(stream)
         /\ TaskOf(w) \in Task /\ RetriesOf(w) \in 0 .. (MaxRetries - 1)
         /\ Tail(todo[w]) \in Seq(1 .. delivered)
<1>1. todo[w] # <<>> /\ todo[w] \in Seq(1 .. delivered)
  BY DEF TypeOK, Idle
<1>2. Cur(w) \in 1 .. delivered /\ Tail(todo[w]) \in Seq(1 .. delivered)
  BY <1>1, TailFacts DEF Cur
<1>3. Cur(w) \in 1 .. Len(stream)
  BY <1>2 DEF TypeOK
<1>4. stream[Cur(w)] \in [task : Task, retries : 0 .. (MaxRetries - 1)]
  <2>1. stream \in Seq([task : Task, retries : 0 .. (MaxRetries - 1)])
    BY DEF TypeOK
  <2> QED BY <1>3, <2>1, ElementFacts
<1> QED BY <1>1, <1>2, <1>3, <1>4 DEF TaskOf, RetriesOf

LEMMA FailureCounted ==
  ASSUME NEW f \in [Task -> Nat], NEW t \in Task
  PROVE  [f EXCEPT ![t] = @ + 1] \in [Task -> Nat]
OBVIOUS

LEMMA NextRetry ==
  ASSUME NEW n \in 0 .. (MaxRetries - 1), n + 1 < MaxRetries
  PROVE  n + 1 \in 0 .. (MaxRetries - 1)
BY BoundAssumption

LEMMA XAddTrims ==
  ASSUME TypeOK, NEW t, NEW n, XAdd(t, n)
  PROVE  trimmed' \subseteq Task
<1>1. stream \in Seq([task : Task, retries : 0 .. (MaxRetries - 1)])
  BY DEF TypeOK
<1>2. ASSUME NEW i \in DOMAIN stream PROVE stream[i].task \in Task
  <2>0. i \in 1 .. Len(stream)
    BY <1>1
  <2>1. stream[i] \in [task : Task, retries : 0 .. (MaxRetries - 1)]
    BY <1>1, <2>0, ElementFacts
  <2> QED BY <2>1
<1> QED BY <1>2 DEF XAdd, TypeOK

LEMMA XAddFirst ==
  ASSUME TypeOK, NEW t, NEW n, XAdd(t, n), Len(stream') = Len(stream) + 1
  PROVE  first' <= Len(stream') /\ first' \in 1 .. (Len(stream') + 1)
<1>1. Len(stream) \in Nat /\ first \in 1 .. (Len(stream) + 1) /\ StreamMax \in Nat \ {0}
  BY BoundAssumption DEF TypeOK
<1>2. CASE Len(stream) + 1 - StreamMax >= first
  BY <1>1, <1>2 DEF XAdd
<1>3. CASE ~(Len(stream) + 1 - StreamMax >= first)
  BY <1>1, <1>3 DEF XAdd
<1> QED BY <1>2, <1>3

LEMMA StepType ==
  ASSUME TypeOK, [Next]_vars
  PROVE  TypeOK'
<1> USE TaskAssumption, BoundAssumption DEF TypeOK, Idle
<1>1. ASSUME NEW t \in Task, Enqueue(t) PROVE TypeOK'
  <2>2. stream' \in Seq([task : Task, retries : 0 .. (MaxRetries - 1)])
        /\ Len(stream') = Len(stream) + 1
    BY <1>1 DEF Enqueue, XAdd
  <2>1. first' \in 1 .. (Len(stream') + 1)
    BY <1>1, <2>2, XAddFirst DEF Enqueue
  <2>3. delivered' \in 0 .. Len(stream') /\ caller' \in [Task -> {"idle", "added", "done"}]
    BY <1>1, <2>2 DEF Enqueue
  <2>4. UNCHANGED <<delivered, pel, status, dlq, wpc, todo, fresh, reports,
                    returned, unknown, failures, crashes, faults>>
    BY <1>1 DEF Enqueue, history, bounds
  <2>5. trimmed' \subseteq Task
    BY <1>1, XAddTrims DEF Enqueue
  <2> QED BY <2>1, <2>2, <2>3, <2>4, <2>5
<1>2. ASSUME NEW t \in Task, SetPending(t) PROVE TypeOK'
  BY <1>2 DEF SetPending, SetStatus, Status, group, history, bounds
<1>3. ASSUME NEW w \in Worker, Start(w) PROVE TypeOK'
  BY <1>3 DEF Start, Goto, WorkerState, group, history, bounds
<1>4. ASSUME NEW w \in Worker, Scan(w) PROVE TypeOK'
  <2>1. PICK q \in Ascending(Oldest(pel, ScanMax)) : todo' = [todo EXCEPT ![w] = q]
    BY <1>4 DEF Scan
  <2>2. delivered \in Nat /\ pel \in SUBSET (1 .. delivered)
    OBVIOUS
  <2>3. q \in Seq(1 .. delivered)
    BY <2>2, AscendingFacts
  <2> QED BY <1>4, <2>1, <2>3 DEF Scan, Goto, WorkerState, group, history, bounds
<1>5. ASSUME NEW w \in Worker, Read(w) PROVE TypeOK'
  <2> DEFINE next == IF delivered + 1 < first THEN first ELSE delivered + 1
  <2>0. next \in Nat /\ next > delivered
    OBVIOUS
  <2>1. wpc' \in [Worker -> WorkerState] /\ wpc[w] = "read" /\ wpc'[w] = "pick"
        /\ \A v \in Worker : v # w => wpc'[v] = wpc[v]
    BY <1>5 DEF Read, Goto, WorkerState
  <2>2. UNCHANGED <<caller, stream, first, trimmed, status, dlq, reports,
                    returned, unknown, failures, crashes, faults>>
    BY <1>5 DEF Read, history, bounds
  <2>3. CASE next <= Len(stream)
    <3>1. /\ delivered' = next /\ pel' = pel \cup {next}
          /\ todo' = [todo EXCEPT ![w] = Append(@, next)]
          /\ fresh' = [fresh EXCEPT ![w] = next]
      BY <1>5, <2>3 DEF Read
    <3> HIDE DEF next
    <3>2. \A v \in Worker : todo[v] \in Seq(1 .. delivered')
      BY <2>0, <3>1, Widen
    <3>3. todo' \in [Worker -> Seq(1 .. delivered')]
      BY <2>0, <3>1, <3>2
    <3>4. fresh' \in [Worker -> 0 .. delivered']
      BY <2>0, <3>1
    <3>5. delivered' \in 0 .. Len(stream') /\ pel' \subseteq 1 .. delivered'
      <4>1. delivered' \in 0 .. Len(stream')
        BY <2>0, <2>2, <2>3, <3>1
      <4>2. pel' \subseteq 1 .. delivered'
        BY <2>0, <3>1
      <4> QED BY <4>1, <4>2
    <3>6. \A v \in Worker : wpc'[v] \notin Idle => todo'[v] # <<>>
      BY <2>1, <3>1
    <3> QED BY <2>1, <2>2, <3>3, <3>4, <3>5, <3>6
  <2>4. CASE ~(next <= Len(stream))
    <3>1. UNCHANGED <<delivered, pel, todo>> /\ fresh' = [fresh EXCEPT ![w] = 0]
      BY <1>5, <2>4 DEF Read
    <3> HIDE DEF next
    <3>2. fresh' \in [Worker -> 0 .. delivered']
      BY <3>1
    <3>3. \A v \in Worker : wpc'[v] \notin Idle => todo'[v] # <<>>
      BY <2>1, <3>1
    <3> QED BY <2>1, <2>2, <3>1, <3>2, <3>3
  <2> QED BY <2>3, <2>4
<1>6. ASSUME NEW w \in Worker, Pick(w) PROVE TypeOK'
  <2>1. CASE todo[w] = <<>>
    BY <1>6, <2>1 DEF Pick, Goto, WorkerState, group, history, bounds
  <2>2. CASE todo[w] # <<>> /\ (Cur(w) >= first \/ Cur(w) = fresh[w])
    BY <1>6, <2>2 DEF Pick, Goto, WorkerState, group, history, bounds
  <2>3. CASE todo[w] # <<>> /\ ~(Cur(w) >= first \/ Cur(w) = fresh[w])
    <3>1. Tail(todo[w]) \in Seq(1 .. delivered)
      BY <2>3, TailFacts
    <3> QED BY <1>6, <2>3, <3>1 DEF Pick, group, history, bounds
  <2> QED BY <2>1, <2>2, <2>3
<1>7. ASSUME NEW w \in Worker, Begin(w) PROVE TypeOK'
  <2>1. TaskOf(w) \in Task /\ wpc[w] = "begin" /\ todo[w] # <<>>
    BY EntryOf, <1>7 DEF Begin
  <2>2. wpc' \in [Worker -> WorkerState] /\ status' \in [Task -> Status]
    BY <1>7, <2>1 DEF Begin, Goto, WorkerState, SetStatus, Status
  <2>3. \A v \in Worker : wpc'[v] \notin Idle => todo[v] # <<>>
    BY <1>7, <2>1 DEF Begin, Goto
  <2>4. unknown' \subseteq Task
    BY <1>7, <2>1 DEF Begin
  <2>5. UNCHANGED <<caller, stream, first, trimmed, delivered, pel, dlq, todo, fresh, reports,
                    returned, failures, crashes, faults>>
    BY <1>7 DEF Begin, group, bounds
  <2> QED BY <2>2, <2>3, <2>4, <2>5
<1>8. ASSUME NEW w \in Worker, Run(w) PROVE TypeOK'
  <2>1. TaskOf(w) \in Task /\ wpc[w] = "run" /\ todo[w] # <<>>
    BY EntryOf, <1>8 DEF Run
  <2>2. reports' \subseteq [worker : Worker, task : Task, status : Status]
    <3>1. \A p \in reports' : p \in reports \/ \E x \in Status :
            p = [worker |-> w, task |-> TaskOf(w), status |-> x]
      BY <1>8 DEF Run, Status
    <3>2. ASSUME NEW p \in reports'
          PROVE  p \in [worker : Worker, task : Task, status : Status]
      <4>1. CASE p \in reports
        BY <4>1
      <4>2. CASE \E x \in Status : p = [worker |-> w, task |-> TaskOf(w), status |-> x]
        BY <2>1, <4>2
      <4> QED BY <3>1, <3>2, <4>1, <4>2
    <3> QED BY <3>2
  <2>3. returned' \subseteq Task /\ failures' \in [Task -> Nat]
    <3>1. CASE returned' = returned \cup {TaskOf(w)} /\ UNCHANGED failures
      BY <2>1, <3>1
    <3>2. CASE failures' = [failures EXCEPT ![TaskOf(w)] = @ + 1] /\ UNCHANGED returned
      <4>1. failures' \in [Task -> Nat]
        BY <2>1, <3>2, FailureCounted
      <4> QED BY <3>2, <4>1
    <3>3. \/ returned' = returned \cup {TaskOf(w)} /\ UNCHANGED failures
          \/ failures' = [failures EXCEPT ![TaskOf(w)] = @ + 1] /\ UNCHANGED returned
      BY <1>8, RunCases
    <3> QED BY <3>1, <3>2, <3>3
  <2>4. wpc' \in [Worker -> WorkerState]
    BY <1>8 DEF Run, Goto, WorkerState
  <2>5. \A v \in Worker : wpc'[v] \notin Idle => todo[v] # <<>>
    BY <1>8, <2>1 DEF Run, Goto
  <2>6. UNCHANGED <<caller, stream, first, trimmed, delivered, pel, status, dlq, todo, fresh,
                    unknown, crashes, faults>>
    BY <1>8 DEF Run, group, bounds
  <2> QED BY <2>2, <2>3, <2>4, <2>5, <2>6
<1>9. ASSUME NEW w \in Worker, SetCompleted(w) PROVE TypeOK'
  <2>1. TaskOf(w) \in Task /\ wpc[w] = "returned" /\ todo[w] # <<>>
    BY EntryOf, <1>9 DEF SetCompleted
  <2> QED
    BY <1>9, <2>1 DEF SetCompleted, Goto, WorkerState, SetStatus, Status, group, history, bounds
<1>10. ASSUME NEW w \in Worker, Raised(w) PROVE TypeOK'
  <2>1. TaskOf(w) \in Task /\ wpc[w] = "raised" /\ todo[w] # <<>>
        /\ RetriesOf(w) \in 0 .. (MaxRetries - 1)
    BY EntryOf, <1>10 DEF Raised
  <2>2. UNCHANGED <<caller, delivered, pel, dlq, todo, fresh, reports,
                    returned, unknown, failures, crashes, faults>>
    BY <1>10 DEF Raised, history, bounds
  <2>3. CASE RetriesOf(w) + 1 < MaxRetries
    <3>1. XAdd(TaskOf(w), RetriesOf(w) + 1) /\ wpc' = [wpc EXCEPT ![w] = "requeued"]
          /\ UNCHANGED status
      BY <1>10, <2>3 DEF Raised, Goto
    <3>3. stream' \in Seq([task : Task, retries : 0 .. (MaxRetries - 1)])
          /\ Len(stream') = Len(stream) + 1
      <4>1. [task |-> TaskOf(w), retries |-> RetriesOf(w) + 1]
              \in [task : Task, retries : 0 .. (MaxRetries - 1)]
        <5>1. RetriesOf(w) + 1 \in 0 .. (MaxRetries - 1)
          BY <2>1, <2>3, NextRetry
        <5> QED BY <2>1, <5>1
      <4>2. stream \in Seq([task : Task, retries : 0 .. (MaxRetries - 1)])
        OBVIOUS
      <4> QED BY <3>1, <4>1, <4>2, ElementFacts DEF XAdd
    <3>2. first' \in 1 .. (Len(stream') + 1)
      BY <3>1, <3>3, XAddFirst
    <3>4. wpc' \in [Worker -> WorkerState]
          /\ \A v \in Worker : wpc'[v] \notin Idle => todo[v] # <<>>
      BY <2>1, <3>1 DEF WorkerState
    <3>5. UNCHANGED status
      BY <3>1
    <3>6. delivered' \in 0 .. Len(stream')
      BY <2>2, <3>3
    <3>7. trimmed' \subseteq Task
      BY <3>1, XAddTrims
    <3> QED BY <2>2, <3>2, <3>3, <3>4, <3>5, <3>6, <3>7
  <2>4. CASE ~(RetriesOf(w) + 1 < MaxRetries)
    <3>1. /\ status' = [status EXCEPT ![TaskOf(w)] = "failed"]
          /\ wpc' = [wpc EXCEPT ![w] = "dead"] /\ UNCHANGED <<stream, first, trimmed>>
      BY <1>10, <2>4 DEF Raised, Goto, SetStatus
    <3>2. status' \in [Task -> Status]
      BY <2>1, <3>1 DEF Status
    <3>3. wpc' \in [Worker -> WorkerState]
      BY <3>1 DEF WorkerState
    <3>4. \A v \in Worker : wpc'[v] \notin Idle => todo[v] # <<>>
      BY <2>1, <3>1
    <3>5. UNCHANGED <<stream, first, trimmed>>
      BY <3>1
    <3> QED BY <2>2, <3>2, <3>3, <3>4, <3>5
  <2> QED BY <2>3, <2>4
<1>11. ASSUME NEW w \in Worker, SetRetrying(w) PROVE TypeOK'
  <2>1. TaskOf(w) \in Task /\ wpc[w] = "requeued" /\ todo[w] # <<>>
    BY EntryOf, <1>11 DEF SetRetrying
  <2> QED
    BY <1>11, <2>1 DEF SetRetrying, Goto, WorkerState, SetStatus, Status, group, history, bounds
<1>12. ASSUME NEW w \in Worker, DeadLetter(w) PROVE TypeOK'
  <2>1. TaskOf(w) \in Task /\ wpc[w] = "dead" /\ todo[w] # <<>>
    BY EntryOf, <1>12 DEF DeadLetter
  <2> QED
    BY <1>12, <2>1 DEF DeadLetter, Goto, WorkerState, group, history, bounds
<1>13. ASSUME NEW w \in Worker, Ack(w) PROVE TypeOK'
  <2>1. wpc[w] = "ack" /\ Tail(todo[w]) \in Seq(1 .. delivered)
    BY EntryOf, <1>13 DEF Ack
  <2> QED
    BY <1>13, <2>1 DEF Ack, Goto, WorkerState, history, bounds
<1>14. ASSUME NEW w \in Worker, Fault(w) PROVE TypeOK'
  <2>1. UNCHANGED <<caller, stream, first, trimmed, delivered, pel, status, dlq, fresh, reports,
                    returned, unknown, crashes>> /\ faults' \in 0 .. MaxFaults
    BY <1>14 DEF Fault, group
  <2>2. CASE /\ wpc[w] = "returned" /\ wpc' = [wpc EXCEPT ![w] = "raised"]
             /\ failures' = [failures EXCEPT ![TaskOf(w)] = @ + 1] /\ UNCHANGED todo
    <3>1. TaskOf(w) \in Task /\ todo[w] # <<>>
      BY EntryOf, <2>2
    <3>2. failures' \in [Task -> Nat]
      BY <2>2, <3>1, FailureCounted
    <3>3. wpc' \in [Worker -> WorkerState]
          /\ \A v \in Worker : wpc'[v] \notin Idle => todo[v] # <<>>
      BY <2>2, <3>1 DEF WorkerState
    <3> QED BY <2>1, <2>2, <3>2, <3>3
  <2>3. CASE /\ todo[w] # <<>> /\ wpc' = [wpc EXCEPT ![w] = "pick"]
             /\ todo' = [todo EXCEPT ![w] = Tail(@)] /\ UNCHANGED failures
    <3>1. Tail(todo[w]) \in Seq(1 .. delivered)
      BY <2>3, TailFacts
    <3> QED BY <2>1, <2>3, <3>1 DEF WorkerState
  <2>4. CASE /\ \/ wpc' = [wpc EXCEPT ![w] = "scan"]
                \/ wpc' = [wpc EXCEPT ![w] = "ended"]
             /\ UNCHANGED <<todo, failures>>
    BY <2>1, <2>4 DEF WorkerState
  <2> QED BY EntryOf, <1>14, <2>2, <2>3, <2>4 DEF Fault, Goto
<1>15. ASSUME NEW w \in Worker, Crash(w) PROVE TypeOK'
  <2>1. wpc' \in [Worker -> WorkerState]
    BY <1>15 DEF Crash, Goto, WorkerState
  <2>2. todo' \in [Worker -> Seq(1 .. delivered)] /\ fresh' \in [Worker -> 0 .. delivered]
    BY <1>15 DEF Crash
  <2>3. \A v \in Worker : wpc'[v] \notin Idle => todo'[v] # <<>>
    BY <1>15 DEF Crash, Goto
  <2>4. crashes' \in 0 .. MaxCrashes /\ reports' \subseteq reports
    BY <1>15 DEF Crash
  <2>5. UNCHANGED <<caller, stream, first, trimmed, delivered, pel, status, dlq,
                    returned, unknown, failures, faults>>
    BY <1>15 DEF Crash, group, history
  <2> QED BY <2>1, <2>2, <2>3, <2>4, <2>5
<1>16. ASSUME NEW p \in reports, Report(p) PROVE TypeOK'
  <2>1. p.task \in Task /\ p.status \in Status
    OBVIOUS
  <2> QED BY <1>16, <2>1 DEF Report, SetStatus, group, history, bounds
<1>17. CASE UNCHANGED vars
  BY <1>17 DEF vars, group, history, bounds
<1> QED
  BY <1>1, <1>2, <1>3, <1>4, <1>5, <1>6, <1>7, <1>8, <1>9, <1>10, <1>11, <1>12, <1>13,
     <1>14, <1>15, <1>16, <1>17 DEF Next, Loop

(* Every reachable state is well typed: in particular a worker that processes  *)
(* an entry has one, and no entry carries MaxRetries retries.                  *)
THEOREM TypeCorrect == Spec => []TypeOK
<1>1. Init => TypeOK
  BY InitType
<1>2. TypeOK /\ [Next]_vars => TypeOK'
  BY StepType
<1> QED BY <1>1, <1>2, PTL DEF Spec

-------------------------------------------------------------------------------
(* The inductive invariant *)

(* Entries are added for accepted tasks only.                                  *)
EntriesAccepted == \A i \in DOMAIN stream : stream[i].task \in Accepted

Attempting == {"run", "returned", "raised", "requeued", "dead"}

(* Only registered tasks are attempted, and only those have an outcome.         *)
AttemptsRegistered ==
  /\ \A w \in Worker : wpc[w] \in Attempting => TaskOf(w) \in Registered
  /\ \A w \in Worker : wpc[w] = "returned" => TaskOf(w) \in returned
  /\ returned \cup dlq \subseteq Registered
  /\ unknown \cap Registered = {}
  /\ \A p \in reports : p.task \in Reporting

(* The retries written into an entry never exceed the failures of its task,     *)
(* and a failed attempt is counted before it is acted on.                       *)
RetriesEarned ==
  /\ \A i \in DOMAIN stream : stream[i].retries <= failures[stream[i].task]
  /\ \A w \in Worker : wpc[w] = "raised" => RetriesOf(w) < failures[TaskOf(w)]
  /\ \A w \in Worker : wpc[w] = "dead" => MaxRetries <= failures[TaskOf(w)]

(* A worker acknowledges an entry only when its task is settled or has a later   *)
(* live entry (unless MAXLEN dropped one of its entries): what makes XACK safe,  *)
(* whoever else processes the same entries.                                      *)
AckSafe ==
  \A w \in Worker, t \in Task \ trimmed, k \in Nat :
    wpc[w] \in {"requeued", "ack"} /\ t = TaskOf(w) /\ k = Cur(w) => Covered(t, k)

IInv ==
  /\ TypeOK
  /\ EntriesAccepted
  /\ AttemptsRegistered
  /\ RetriesEarned
  /\ DeadLetterEarned
  /\ NoTaskLost
  /\ AckSafe

(* What a step never changes: the entries already added.                        *)
Grows ==
  /\ Len(stream) <= Len(stream')
  /\ \A i \in 1 .. Len(stream) : stream'[i] = stream[i]

LEMMA SameEntry ==
  ASSUME TypeOK, Grows, NEW v \in Worker, wpc[v] \notin Idle, todo'[v] = todo[v]
  PROVE  Cur(v)' = Cur(v) /\ TaskOf(v)' = TaskOf(v) /\ RetriesOf(v)' = RetriesOf(v)
<1>1. Cur(v)' = Cur(v)
  BY DEF Cur
<1>2. Cur(v) \in 1 .. Len(stream)
  BY EntryOf
<1> QED BY <1>1, <1>2 DEF TaskOf, RetriesOf, Grows

LEMMA XAddGrows ==
  ASSUME TypeOK, NEW t \in Task, NEW n \in 0 .. (MaxRetries - 1), XAdd(t, n)
  PROVE  /\ Grows /\ Len(stream') = Len(stream) + 1
         /\ stream'[Len(stream')] = [task |-> t, retries |-> n]
         /\ first <= first'
<1>1. stream \in Seq([task : Task, retries : 0 .. (MaxRetries - 1)])
  BY DEF TypeOK
<1>2. [task |-> t, retries |-> n] \in [task : Task, retries : 0 .. (MaxRetries - 1)]
  OBVIOUS
<1>3. stream' = Append(stream, [task |-> t, retries |-> n])
  BY DEF XAdd
<1>4. first <= first'
  BY <1>1, ElementFacts, BoundAssumption DEF XAdd, TypeOK
<1> QED BY <1>1, <1>2, <1>3, <1>4, ElementFacts DEF Grows

LEMMA StreamStep ==
  ASSUME TypeOK, [Next]_vars
  PROVE  Grows /\ first <= first'
<1>1. ASSUME NEW t \in Task, Enqueue(t) PROVE Grows /\ first <= first'
  <2>1. 0 \in 0 .. (MaxRetries - 1)
    BY BoundAssumption
  <2> QED BY <1>1, <2>1, XAddGrows DEF Enqueue
<1>2. ASSUME NEW w \in Worker, Raised(w), RetriesOf(w) + 1 < MaxRetries
      PROVE  Grows /\ first <= first'
  <2>1. TaskOf(w) \in Task /\ RetriesOf(w) \in 0 .. (MaxRetries - 1)
    BY <1>2, EntryOf DEF Raised, Idle
  <2>2. RetriesOf(w) + 1 \in 0 .. (MaxRetries - 1)
    BY <1>2, <2>1, BoundAssumption
  <2> QED BY <1>2, <2>1, <2>2, XAddGrows DEF Raised
<1>3. ASSUME UNCHANGED <<stream, first>> PROVE Grows /\ first <= first'
  BY <1>3 DEF Grows, TypeOK
<1>4. ASSUME NEW t \in Task, SetPending(t) PROVE UNCHANGED <<stream, first>>
  BY <1>4 DEF SetPending, group
<1>5. ASSUME NEW w \in Worker, Loop(w) \/ Fault(w) \/ Crash(w),
             ~(Raised(w) /\ RetriesOf(w) + 1 < MaxRetries)
      PROVE  UNCHANGED <<stream, first>>
  BY <1>5 DEF Loop, Start, Scan, Read, Pick, Begin, Run, SetCompleted, Raised, SetRetrying,
              DeadLetter, Ack, Fault, Crash, group
<1>6. ASSUME NEW p \in reports, Report(p) PROVE UNCHANGED <<stream, first>>
  BY <1>6 DEF Report, group
<1>7. CASE UNCHANGED vars
  BY <1>3, <1>7 DEF vars, group
<1> QED BY <1>1, <1>2, <1>3, <1>4, <1>5, <1>6, <1>7 DEF Next, Loop

(* A worker's step leaves the other workers where they are.                      *)
LEMMA WorkerStep ==
  ASSUME TypeOK, NEW w \in Worker, Loop(w) \/ Fault(w) \/ Crash(w)
  PROVE  /\ UNCHANGED caller
         /\ \A v \in Worker \ {w} : wpc'[v] = wpc[v] /\ todo'[v] = todo[v]
BY DEF TypeOK, Loop, Start, Scan, Read, Pick, Begin, Run, SetCompleted, Raised, SetRetrying,
       DeadLetter, Ack, Fault, Crash, Goto

(* EntriesAccepted: only enqueue adds an entry for a task that has none.          *)
LEMMA StepAccepted ==
  ASSUME IInv, [Next]_vars
  PROVE  EntriesAccepted'
<1> USE DEF IInv
<1>1. ASSUME NEW t \in Task, NEW n \in 0 .. (MaxRetries - 1), XAdd(t, n),
             Accepted \subseteq Accepted', t \in Accepted'
      PROVE  EntriesAccepted'
  <2>0. Grows /\ Len(stream') = Len(stream) + 1
        /\ stream'[Len(stream')] = [task |-> t, retries |-> n]
    BY <1>1, XAddGrows
  <2>1. Grows /\ Len(stream') = Len(stream) + 1 /\ stream'[Len(stream')].task = t
    BY <2>0
  <2>2. DOMAIN stream = 1 .. Len(stream) /\ DOMAIN stream' = 1 .. Len(stream')
        /\ Len(stream) \in Nat
    BY <1>1 DEF TypeOK, XAdd
  <2>3. ASSUME NEW i \in DOMAIN stream' PROVE stream'[i].task \in Accepted'
    BY <1>1, <2>1, <2>2 DEF EntriesAccepted, Grows
  <2> QED BY <2>3 DEF EntriesAccepted
<1>2. ASSUME UNCHANGED stream, Accepted \subseteq Accepted' PROVE EntriesAccepted'
  BY <1>2 DEF EntriesAccepted
<1>3. ASSUME NEW t \in Task, Enqueue(t) PROVE EntriesAccepted'
  <2>1. Accepted \subseteq Accepted' /\ t \in Accepted'
    BY <1>3 DEF Enqueue, Accepted, TypeOK
  <2>2. 0 \in 0 .. (MaxRetries - 1)
    BY BoundAssumption
  <2> QED BY <1>1, <1>3, <2>1, <2>2 DEF Enqueue
<1>4. ASSUME NEW t \in Task, SetPending(t) PROVE EntriesAccepted'
  <2>1. Accepted \subseteq Accepted' /\ UNCHANGED stream
    BY <1>4 DEF SetPending, Accepted, TypeOK
  <2> QED BY <1>2, <2>1
<1>5. ASSUME NEW w \in Worker, Loop(w) \/ Fault(w) \/ Crash(w) PROVE EntriesAccepted'
  <2>1. Accepted' = Accepted
    BY <1>5, WorkerStep DEF Accepted
  <2>2. CASE Raised(w) /\ RetriesOf(w) + 1 < MaxRetries
    <3>1. /\ TaskOf(w) \in Task /\ RetriesOf(w) \in 0 .. (MaxRetries - 1)
          /\ Cur(w) \in 1 .. Len(stream)
      BY <2>2, EntryOf DEF Raised, Idle
    <3>2. RetriesOf(w) + 1 \in 0 .. (MaxRetries - 1)
      BY <2>2, <3>1, BoundAssumption
    <3>3. TaskOf(w) \in Accepted
      BY <3>1 DEF EntriesAccepted, TaskOf, TypeOK
    <3> QED BY <1>1, <2>1, <2>2, <3>1, <3>2, <3>3 DEF Raised
  <2>3. CASE ~(Raised(w) /\ RetriesOf(w) + 1 < MaxRetries)
    <3>1. UNCHANGED stream
      BY <1>5, <2>3 DEF Loop, Start, Scan, Read, Pick, Begin, Run, SetCompleted, Raised,
                        SetRetrying, DeadLetter, Ack, Fault, Crash, group
    <3> QED BY <1>2, <2>1, <3>1
  <2> QED BY <2>2, <2>3
<1>6. ASSUME NEW p \in reports, Report(p) PROVE EntriesAccepted'
  <2>1. UNCHANGED stream /\ Accepted' = Accepted
    BY <1>6 DEF Report, Accepted
  <2> QED BY <1>2, <2>1
<1>7. CASE UNCHANGED vars
  <2>1. UNCHANGED stream /\ Accepted' = Accepted
    BY <1>7 DEF vars, Accepted
  <2> QED BY <1>2, <2>1
<1> QED BY <1>3, <1>4, <1>5, <1>6, <1>7 DEF Next

(* AttemptsRegistered: _execute_task looks the name up before anything else.      *)
LEMMA StepRegistered ==
  ASSUME IInv, [Next]_vars
  PROVE  AttemptsRegistered'
<1> USE DEF IInv
<1>0. Grows
  BY StreamStep
<1>1. ASSUME NEW w \in Worker, Loop(w) \/ Fault(w) \/ Crash(w) PROVE AttemptsRegistered'
  <2>1. /\ returned \subseteq returned' /\ returned' \cup dlq' \subseteq Registered
        /\ unknown' \cap Registered = {}
        /\ wpc'[w] \in Attempting =>
             /\ UNCHANGED todo /\ wpc[w] \notin Idle /\ TaskOf(w) \in Registered
             /\ wpc'[w] = "returned" => TaskOf(w) \in returned'
    <3> USE DEF TypeOK, AttemptsRegistered, Attempting, Idle, Goto, history
    <3>1. CASE Start(w) \/ Scan(w) \/ Read(w) \/ Pick(w) \/ SetCompleted(w) \/ SetRetrying(w)
               \/ Ack(w) \/ Crash(w)
      BY <3>1 DEF Start, Scan, Read, Pick, SetCompleted, SetRetrying, Ack, Crash
    <3>2. CASE Begin(w)
      BY <3>2 DEF Begin
    <3>3. CASE Run(w)
      BY <3>3, RunCases DEF Run
    <3>4. CASE Raised(w)
      BY <3>4 DEF Raised
    <3>5. CASE DeadLetter(w)
      BY <3>5 DEF DeadLetter
    <3>6. CASE Fault(w)
      BY <3>6 DEF Fault
    <3> QED BY <1>1, <3>1, <3>2, <3>3, <3>4, <3>5, <3>6 DEF Loop
  <2>2. ASSUME NEW p \in reports' PROVE p.task \in Reporting
    <3>1. CASE Run(w)
      <4>1. p \in reports \/ (TaskOf(w) \in Reporting /\ p.task = TaskOf(w))
        BY <2>2, <3>1 DEF Run
      <4> QED BY <4>1 DEF AttemptsRegistered
    <3>2. CASE ~Run(w)
      <4>1. reports' \subseteq reports
        BY <1>1, <3>2 DEF Loop, Start, Scan, Read, Pick, Begin, SetCompleted, Raised,
                          SetRetrying, DeadLetter, Ack, Fault, Crash
      <4> QED BY <2>2, <4>1 DEF AttemptsRegistered
    <3> QED BY <3>1, <3>2
  <2>3. ASSUME NEW v \in Worker, wpc'[v] \in Attempting
        PROVE  TaskOf(v)' \in Registered /\ (wpc'[v] = "returned" => TaskOf(v)' \in returned')
    <3>1. CASE v = w
      BY <1>0, <2>1, <2>3, <3>1, SameEntry
    <3>2. CASE v # w
      <4>1. wpc'[v] = wpc[v] /\ todo'[v] = todo[v] /\ wpc[v] \notin Idle
        BY <1>1, <2>3, <3>2, WorkerStep DEF Attempting, Idle
      <4>2. TaskOf(v)' = TaskOf(v)
        BY <1>0, <4>1, SameEntry
      <4> QED BY <2>1, <2>3, <4>1, <4>2 DEF AttemptsRegistered
    <3> QED BY <3>1, <3>2
  <2> QED BY <2>1, <2>2, <2>3 DEF AttemptsRegistered, Attempting
<1>2. ASSUME UNCHANGED <<wpc, todo, returned, dlq, unknown>>, reports' \subseteq reports
      PROVE  AttemptsRegistered'
  <2>1. ASSUME NEW v \in Worker, wpc[v] \in Attempting PROVE TaskOf(v)' = TaskOf(v)
    BY <1>0, <1>2, <2>1, SameEntry DEF Attempting, Idle
  <2> QED BY <1>2, <2>1 DEF AttemptsRegistered, Attempting
<1>3. ASSUME NEW t \in Task, Enqueue(t) \/ SetPending(t) PROVE AttemptsRegistered'
  BY <1>2, <1>3 DEF Enqueue, SetPending, history
<1>4. ASSUME NEW p \in reports, Report(p) PROVE AttemptsRegistered'
  BY <1>2, <1>4 DEF Report, history
<1>5. CASE UNCHANGED vars
  BY <1>2, <1>5 DEF vars, history
<1> QED BY <1>1, <1>3, <1>4, <1>5 DEF Next

(* Failures are only ever added to.                                               *)
LEMMA FailuresGrow ==
  ASSUME TypeOK, [Next]_vars
  PROVE  \A t \in Task : failures'[t] \in Nat /\ failures[t] <= failures'[t]
<1>1. ASSUME UNCHANGED failures
      PROVE  \A t \in Task : failures'[t] \in Nat /\ failures[t] <= failures'[t]
  BY <1>1 DEF TypeOK
<1>2. ASSUME NEW u \in Task, failures' = [failures EXCEPT ![u] = @ + 1]
      PROVE  \A t \in Task : failures'[t] \in Nat /\ failures[t] <= failures'[t]
  BY <1>2 DEF TypeOK
<1>3. ASSUME NEW w \in Worker, Run(w)
      PROVE  \A t \in Task : failures'[t] \in Nat /\ failures[t] <= failures'[t]
  <2>1. TaskOf(w) \in Task
    BY <1>3, EntryOf DEF Run, Idle
  <2> QED BY <1>1, <1>2, <1>3, <2>1, RunCases
<1>4. ASSUME NEW w \in Worker, Fault(w)
      PROVE  \A t \in Task : failures'[t] \in Nat /\ failures[t] <= failures'[t]
  <2>1. CASE wpc[w] = "returned" /\ failures' = [failures EXCEPT ![TaskOf(w)] = @ + 1]
    <3>1. TaskOf(w) \in Task
      BY <2>1, EntryOf DEF Idle
    <3> QED BY <1>2, <2>1, <3>1
  <2>2. CASE UNCHANGED failures
    BY <1>1, <2>2
  <2> QED BY <1>4, <2>1, <2>2 DEF Fault
<1>5. ASSUME NEW w \in Worker, Loop(w) \/ Crash(w), ~Run(w) PROVE UNCHANGED failures
  BY <1>5 DEF Loop, Start, Scan, Read, Pick, Begin, SetCompleted, Raised, SetRetrying,
              DeadLetter, Ack, Crash, history
<1>6. ASSUME NEW t \in Task, Enqueue(t) \/ SetPending(t) PROVE UNCHANGED failures
  BY <1>6 DEF Enqueue, SetPending, history
<1>7. ASSUME NEW p \in reports, Report(p) PROVE UNCHANGED failures
  BY <1>7 DEF Report, history
<1>8. CASE UNCHANGED vars
  BY <1>1, <1>8 DEF vars, history
<1> QED BY <1>1, <1>3, <1>4, <1>5, <1>6, <1>7, <1>8 DEF Next, Loop

(* RetriesEarned: an attempt fails, then its entry is added again with one more.   *)
LEMMA StepRetries ==
  ASSUME IInv, [Next]_vars
  PROVE  RetriesEarned'
<1> USE DEF IInv
<1>0. Grows /\ \A t \in Task : failures'[t] \in Nat /\ failures[t] \in Nat
                              /\ failures[t] <= failures'[t]
  BY StreamStep, FailuresGrow DEF TypeOK
<1>1. Len(stream) \in Nat /\ DOMAIN stream = 1 .. Len(stream)
      /\ \A i \in 1 .. Len(stream) :
           stream[i].task \in Task /\ stream[i].retries \in 0 .. (MaxRetries - 1)
  <2>1. stream \in Seq([task : Task, retries : 0 .. (MaxRetries - 1)])
    BY DEF TypeOK
  <2>2. Len(stream) \in Nat /\ DOMAIN stream = 1 .. Len(stream)
    BY <2>1
  <2>3. \A i \in 1 .. Len(stream) :
          stream[i] \in [task : Task, retries : 0 .. (MaxRetries - 1)]
    BY <2>1, ElementFacts
  <2> QED BY <2>2, <2>3
(* the entries *)
<1>2. ASSUME NEW t \in Task, NEW n \in 0 .. (MaxRetries - 1), XAdd(t, n), n <= failures'[t],
             NEW i \in DOMAIN stream'
      PROVE  stream'[i].retries <= failures'[stream'[i].task]
  <2>1. Len(stream') = Len(stream) + 1
        /\ stream'[Len(stream')] = [task |-> t, retries |-> n]
    BY <1>2, XAddGrows
  <2>2. DOMAIN stream' = 1 .. Len(stream')
    BY <1>2 DEF XAdd, TypeOK
  <2>3. CASE i = Len(stream')
    BY <1>2, <2>1, <2>3
  <2>4. CASE i # Len(stream')
    <3>1. i \in 1 .. Len(stream) /\ stream'[i] = stream[i]
      BY <1>0, <1>1, <2>1, <2>2, <2>4 DEF Grows
    <3>2. stream[i].retries <= failures[stream[i].task]
      BY <1>1, <3>1 DEF RetriesEarned
    <3> QED BY <1>0, <1>1, <3>1, <3>2, BoundAssumption
  <2> QED BY <2>3, <2>4
<1>3. ASSUME UNCHANGED stream, NEW i \in DOMAIN stream'
      PROVE  stream'[i].retries <= failures'[stream'[i].task]
  <2>1. stream[i].retries <= failures[stream[i].task]
    BY <1>1, <1>3 DEF RetriesEarned
  <2> QED BY <1>0, <1>1, <1>3, <2>1, BoundAssumption
<1>4. \A i \in DOMAIN stream' : stream'[i].retries <= failures'[stream'[i].task]
  <2>1. ASSUME NEW t \in Task, Enqueue(t)
        PROVE  \A i \in DOMAIN stream' : stream'[i].retries <= failures'[stream'[i].task]
    <3>1. 0 \in 0 .. (MaxRetries - 1) /\ 0 <= failures'[t] /\ XAdd(t, 0)
      BY <1>0, <2>1, BoundAssumption DEF Enqueue
    <3> QED BY <1>2, <3>1
  <2>2. ASSUME NEW w \in Worker, Raised(w), RetriesOf(w) + 1 < MaxRetries
        PROVE  \A i \in DOMAIN stream' : stream'[i].retries <= failures'[stream'[i].task]
    <3>1. TaskOf(w) \in Task /\ RetriesOf(w) \in 0 .. (MaxRetries - 1)
      BY <2>2, EntryOf DEF Raised, Idle
    <3>2. RetriesOf(w) + 1 \in 0 .. (MaxRetries - 1)
      BY <2>2, <3>1, BoundAssumption
    <3>3. RetriesOf(w) < failures[TaskOf(w)]
      BY <2>2 DEF RetriesEarned, Raised
    <3>4. RetriesOf(w) + 1 <= failures'[TaskOf(w)]
      BY <1>0, <3>1, <3>3
    <3>5. XAdd(TaskOf(w), RetriesOf(w) + 1)
      BY <2>2 DEF Raised
    <3> QED BY <1>2, <3>1, <3>2, <3>4, <3>5
  <2>3. ASSUME NEW t \in Task, SetPending(t) PROVE UNCHANGED stream
    BY <2>3 DEF SetPending
  <2>4. ASSUME NEW w \in Worker, Loop(w) \/ Fault(w) \/ Crash(w),
               ~(Raised(w) /\ RetriesOf(w) + 1 < MaxRetries)
        PROVE  UNCHANGED stream
    BY <2>4 DEF Loop, Start, Scan, Read, Pick, Begin, Run, SetCompleted, Raised, SetRetrying,
                DeadLetter, Ack, Fault, Crash, group
  <2>5. ASSUME NEW p \in reports, Report(p) PROVE UNCHANGED stream
    BY <2>5 DEF Report
  <2>6. CASE UNCHANGED vars
    BY <1>3, <2>6 DEF vars
  <2> QED BY <1>3, <2>1, <2>2, <2>3, <2>4, <2>5, <2>6 DEF Next, Loop
(* the workers *)
<1>5. ASSUME NEW v \in Worker, wpc'[v] = wpc[v], todo'[v] = todo[v]
      PROVE  /\ wpc'[v] = "raised" => RetriesOf(v)' < failures'[TaskOf(v)']
             /\ wpc'[v] = "dead" => MaxRetries <= failures'[TaskOf(v)']
  <2> SUFFICES ASSUME wpc[v] \in {"raised", "dead"}
               PROVE  /\ wpc[v] = "raised" => RetriesOf(v)' < failures'[TaskOf(v)']
                      /\ wpc[v] = "dead" => MaxRetries <= failures'[TaskOf(v)']
    BY <1>5
  <2>1. TaskOf(v)' = TaskOf(v) /\ RetriesOf(v)' = RetriesOf(v) /\ TaskOf(v) \in Task
        /\ RetriesOf(v) \in 0 .. (MaxRetries - 1)
    BY <1>0, <1>5, SameEntry, EntryOf DEF Idle
  <2>2. /\ wpc[v] = "raised" => RetriesOf(v) < failures[TaskOf(v)]
        /\ wpc[v] = "dead" => MaxRetries <= failures[TaskOf(v)]
    BY DEF RetriesEarned
  <2>3. failures[TaskOf(v)] <= failures'[TaskOf(v)] /\ failures[TaskOf(v)] \in Nat
        /\ failures'[TaskOf(v)] \in Nat
    BY <1>0, <2>1
  <2> QED BY <2>1, <2>2, <2>3, BoundAssumption
<1>6. ASSUME NEW w \in Worker, Loop(w) \/ Fault(w) \/ Crash(w), wpc'[w] \in {"raised", "dead"}
      PROVE  /\ wpc'[w] = "raised" => RetriesOf(w)' < failures'[TaskOf(w)']
             /\ wpc'[w] = "dead" => MaxRetries <= failures'[TaskOf(w)']
  <2>1. \/ Run(w) /\ wpc'[w] = "raised"
        \/ Fault(w) /\ wpc[w] = "returned" /\ wpc'[w] = "raised"
        \/ Raised(w) /\ wpc'[w] = "dead"
    <3>1. CASE Start(w) \/ Scan(w) \/ Read(w) \/ Pick(w) \/ Begin(w)
      BY <1>6, <3>1 DEF TypeOK, Start, Scan, Read, Pick, Begin, Goto
    <3>2. CASE SetCompleted(w) \/ SetRetrying(w) \/ DeadLetter(w) \/ Ack(w) \/ Crash(w)
      BY <1>6, <3>2 DEF TypeOK, SetCompleted, SetRetrying, DeadLetter, Ack, Crash, Goto
    <3>3. CASE Run(w)
      BY <1>6, <3>3 DEF TypeOK, Run, Goto
    <3>4. CASE Raised(w)
      BY <1>6, <3>4 DEF TypeOK, Raised, Goto
    <3>5. CASE Fault(w)
      BY <1>6, <3>5 DEF TypeOK, Fault, Goto
    <3> QED BY <1>6, <3>1, <3>2, <3>3, <3>4, <3>5 DEF Loop
  <2>2. wpc[w] \notin Idle /\ todo'[w] = todo[w]
    BY <2>1 DEF Run, Fault, Raised, Goto, TypeOK, Idle
  <2>3. /\ TaskOf(w)' = TaskOf(w) /\ RetriesOf(w)' = RetriesOf(w) /\ TaskOf(w) \in Task
        /\ RetriesOf(w) \in 0 .. (MaxRetries - 1) /\ Cur(w) \in 1 .. Len(stream)
    BY <1>0, <2>2, SameEntry, EntryOf
  <2>4. RetriesOf(w) <= failures[TaskOf(w)] /\ failures[TaskOf(w)] \in Nat
    BY <1>0, <1>1, <2>3 DEF RetriesEarned, RetriesOf, TaskOf
  <2>5. CASE wpc'[w] = "raised"
    <3>1. failures' = [failures EXCEPT ![TaskOf(w)] = @ + 1]
      BY <2>1, <2>5, RunCases DEF Fault, Goto, TypeOK
    <3>2. failures'[TaskOf(w)] = failures[TaskOf(w)] + 1
      BY <2>3, <3>1 DEF TypeOK
    <3> QED BY <2>3, <2>4, <2>5, <3>2
  <2>6. CASE wpc'[w] = "dead"
    <3>1. UNCHANGED failures /\ ~(RetriesOf(w) + 1 < MaxRetries)
          /\ RetriesOf(w) < failures[TaskOf(w)]
      BY <2>1, <2>6 DEF Raised, Goto, TypeOK, history, RetriesEarned
    <3> QED BY <2>3, <2>4, <2>6, <3>1, BoundAssumption
  <2> QED BY <1>6, <2>5, <2>6
<1>7. ASSUME NEW v \in Worker
      PROVE  /\ wpc'[v] = "raised" => RetriesOf(v)' < failures'[TaskOf(v)']
             /\ wpc'[v] = "dead" => MaxRetries <= failures'[TaskOf(v)']
  <2>1. ASSUME NEW w \in Worker, Loop(w) \/ Fault(w) \/ Crash(w)
        PROVE  /\ wpc'[v] = "raised" => RetriesOf(v)' < failures'[TaskOf(v)']
               /\ wpc'[v] = "dead" => MaxRetries <= failures'[TaskOf(v)']
    BY <1>5, <1>6, <2>1, WorkerStep
  <2>2. ASSUME NEW t \in Task, Enqueue(t) \/ SetPending(t) PROVE UNCHANGED <<wpc, todo>>
    BY <2>2 DEF Enqueue, SetPending
  <2>3. ASSUME NEW p \in reports, Report(p) PROVE UNCHANGED <<wpc, todo>>
    BY <2>3 DEF Report
  <2>4. CASE UNCHANGED vars
    BY <1>5, <2>4 DEF vars
  <2> QED BY <1>5, <2>1, <2>2, <2>3, <2>4 DEF Next
<1> QED BY <1>4, <1>7 DEF RetriesEarned

(* DeadLetterEarned: "failed" and the dead-letter entry are written by a worker     *)
(* whose last attempt was the MaxRetries-th failure.                                *)
LEMMA StepDeadLetter ==
  ASSUME IInv, [Next]_vars
  PROVE  DeadLetterEarned'
<1> USE DEF IInv
<1>1. \A t \in Task : failures'[t] \in Nat /\ failures[t] \in Nat /\ failures[t] <= failures'[t]
  BY FailuresGrow DEF TypeOK
<1>2. MaxRetries \in Nat
  BY BoundAssumption
<1>3. ASSUME dlq' \subseteq dlq,
             \A t \in Task : status'[t] = "failed" /\ t \in Registered \ Reporting =>
                             status[t] = "failed"
      PROVE  DeadLetterEarned'
  BY <1>1, <1>2, <1>3 DEF DeadLetterEarned
<1>4. ASSUME NEW u \in Task, MaxRetries <= failures[u], dlq' \subseteq dlq \cup {u},
             \A t \in Task : status'[t] = "failed" => status[t] = "failed" \/ t = u
      PROVE  DeadLetterEarned'
  BY <1>1, <1>2, <1>4 DEF DeadLetterEarned
<1>5. ASSUME NEW t \in Task, Enqueue(t) \/ SetPending(t) PROVE DeadLetterEarned'
  BY <1>3, <1>5 DEF Enqueue, SetPending, SetStatus, TypeOK
<1>6. ASSUME NEW w \in Worker, Start(w) \/ Scan(w) \/ Read(w) \/ Pick(w) \/ Run(w) \/ Ack(w)
                                \/ Fault(w) \/ Crash(w)
      PROVE  DeadLetterEarned'
  BY <1>3, <1>6 DEF Start, Scan, Read, Pick, Run, Ack, Fault, Crash
<1>7. ASSUME NEW w \in Worker, SetCompleted(w) \/ SetRetrying(w) PROVE DeadLetterEarned'
  <2>1. TaskOf(w) \in Task /\ dlq' = dlq
        /\ \E s \in {"completed", "retrying"} : status' = [status EXCEPT ![TaskOf(w)] = s]
    BY <1>7, EntryOf DEF SetCompleted, SetRetrying, SetStatus, Idle
  <2> QED BY <1>3, <2>1 DEF TypeOK
<1>8. ASSUME NEW w \in Worker, Begin(w) PROVE DeadLetterEarned'
  <2>1. TaskOf(w) \in Task /\ dlq' = dlq
        /\ \/ status' = [status EXCEPT ![TaskOf(w)] = "running"]
           \/ TaskOf(w) \notin Registered /\ status' = [status EXCEPT ![TaskOf(w)] = "failed"]
    BY <1>8, EntryOf DEF Begin, SetStatus, Idle
  <2> QED BY <1>3, <2>1 DEF TypeOK
<1>9. ASSUME NEW w \in Worker, Raised(w) PROVE DeadLetterEarned'
  <2>1. TaskOf(w) \in Task /\ RetriesOf(w) \in Nat /\ RetriesOf(w) < failures[TaskOf(w)]
    BY <1>9, EntryOf DEF Raised, Idle, RetriesEarned
  <2>2. CASE RetriesOf(w) + 1 < MaxRetries
    BY <1>3, <1>9, <2>2 DEF Raised
  <2>3. CASE ~(RetriesOf(w) + 1 < MaxRetries)
    <3>1. MaxRetries <= failures[TaskOf(w)]
      BY <1>1, <1>2, <2>1, <2>3
    <3>2. dlq' = dlq /\ status' = [status EXCEPT ![TaskOf(w)] = "failed"]
      BY <1>9, <2>3 DEF Raised, SetStatus
    <3> QED BY <1>4, <2>1, <3>1, <3>2 DEF TypeOK
  <2> QED BY <2>2, <2>3
<1>10. ASSUME NEW w \in Worker, DeadLetter(w) PROVE DeadLetterEarned'
  <2>1. TaskOf(w) \in Task /\ MaxRetries <= failures[TaskOf(w)]
    BY <1>10, EntryOf DEF DeadLetter, Idle, RetriesEarned
  <2> QED BY <1>4, <1>10, <2>1 DEF DeadLetter
<1>11. ASSUME NEW p \in reports, Report(p) PROVE DeadLetterEarned'
  <2>1. p.task \in Reporting /\ p.task \in Task
    BY DEF AttemptsRegistered, TypeOK
  <2> QED BY <1>3, <1>11, <2>1 DEF Report, SetStatus, TypeOK
<1>12. CASE UNCHANGED vars
  BY <1>3, <1>12 DEF vars
<1> QED
  BY <1>5, <1>6, <1>7, <1>8, <1>9, <1>10, <1>11, <1>12 DEF Next, Loop

-------------------------------------------------------------------------------
(* No task is lost *)

(* What covers a task goes on covering it while no entry loses its liveness.         *)
LEMMA CoveredStays ==
  ASSUME TypeOK, TypeOK', Grows,
         returned \subseteq returned', unknown \subseteq unknown', dlq \subseteq dlq',
         NEW t, NEW k \in Nat, Covered(t, k),
         \A i \in 1 .. Len(stream) : stream[i].task = t /\ k < i /\ Live(i) => Live(i)'
  PROVE  Covered(t, k)'
<1>1. /\ DOMAIN stream = 1 .. Len(stream) /\ Len(stream) \in Nat
      /\ DOMAIN stream' = 1 .. Len(stream') /\ Len(stream') \in Nat
  BY DEF TypeOK
<1>2. CASE Settled(t)
  BY <1>2 DEF Covered, Settled
<1>3. CASE \E i \in DOMAIN stream : i > k /\ stream[i].task = t /\ Live(i)
  <2>1. PICK i \in 1 .. Len(stream) : i > k /\ stream[i].task = t /\ Live(i)
    BY <1>1, <1>3
  <2>2. i \in DOMAIN stream' /\ stream'[i].task = t /\ Live(i)'
    BY <1>1, <2>1 DEF Grows
  <2> QED BY <2>1, <2>2 DEF Covered
<1> QED BY <1>2, <1>3 DEF Covered

(* An entry that MAXLEN drops before it was acknowledged marks its task as trimmed.  *)
LEMMA Trims ==
  ASSUME TypeOK, [Next]_vars
  PROVE  /\ trimmed \subseteq trimmed'
         /\ \A i \in 1 .. Len(stream) :
              Live(i) /\ stream[i].task \notin trimmed' => i >= first'
<1> DEFINE P == /\ trimmed \subseteq trimmed'
                /\ \A i \in 1 .. Len(stream) :
                     Live(i) /\ stream[i].task \notin trimmed' => i >= first'
<1>0. DOMAIN stream = 1 .. Len(stream) /\ Len(stream) \in Nat /\ first \in Nat
  BY DEF TypeOK
<1>1. ASSUME NEW t, NEW n, XAdd(t, n), first' \in Nat PROVE P
  <2>1. trimmed' = trimmed \cup
          {stream[i].task : i \in {j \in DOMAIN stream : Live(j) /\ j < first'}}
    BY <1>1 DEF XAdd
  <2>2. ASSUME NEW i \in 1 .. Len(stream), Live(i), stream[i].task \notin trimmed'
        PROVE  i >= first'
    <3>1. ~(i < first')
      BY <1>0, <2>1, <2>2
    <3> QED BY <1>0, <1>1, <3>1
  <2> QED BY <2>1, <2>2
<1>2. ASSUME UNCHANGED <<first, trimmed>> PROVE P
  BY <1>2 DEF Live
<1> HIDE DEF P
<1>3. first' \in Nat
  <2>1. TypeOK'
    BY StepType
  <2>2. Len(stream') \in Nat /\ first' \in 1 .. (Len(stream') + 1)
    BY <2>1 DEF TypeOK
  <2> QED BY <2>2
<1>4. ASSUME NEW t \in Task, Enqueue(t) PROVE P
  BY <1>1, <1>3, <1>4 DEF Enqueue
<1>5. ASSUME NEW t \in Task, SetPending(t) PROVE P
  BY <1>2, <1>5 DEF SetPending, group
<1>6. ASSUME NEW w \in Worker, Raised(w) PROVE P
  BY <1>1, <1>2, <1>3, <1>6 DEF Raised
<1>7. ASSUME NEW w \in Worker, Loop(w) \/ Fault(w) \/ Crash(w), ~Raised(w) PROVE P
  BY <1>2, <1>7 DEF Loop, Start, Scan, Read, Pick, Begin, Run, SetCompleted, SetRetrying,
                    DeadLetter, Ack, Fault, Crash, group
<1>8. ASSUME NEW p \in reports, Report(p) PROVE P
  BY <1>2, <1>8 DEF Report, group
<1>9. ASSUME UNCHANGED vars PROVE P
  BY <1>2, <1>9 DEF vars, group
<1>10. P
  BY <1>4, <1>5, <1>6, <1>7, <1>8, <1>9 DEF Next, Loop
<1> QED BY <1>10 DEF P

LEMMA StepSafe ==
  ASSUME IInv, [Next]_vars
  PROVE  NoTaskLost' /\ AckSafe'
<1>1. /\ Grows /\ first <= first' /\ TypeOK /\ TypeOK' /\ NoTaskLost /\ AckSafe
  BY StepType, StreamStep DEF IInv
<1>2. /\ DOMAIN stream = 1 .. Len(stream) /\ Len(stream) \in Nat
      /\ DOMAIN stream' = 1 .. Len(stream') /\ Len(stream') \in Nat
      /\ delivered \in Nat /\ delivered <= Len(stream) /\ delivered' \in Nat
      /\ first \in Nat /\ first' \in Nat
  BY <1>1 DEF TypeOK
<1>3. returned \subseteq returned' /\ unknown \subseteq unknown' /\ dlq \subseteq dlq'
  <2>1. ASSUME NEW w \in Worker, Loop(w) \/ Fault(w) \/ Crash(w)
        PROVE  returned \subseteq returned' /\ unknown \subseteq unknown' /\ dlq \subseteq dlq'
    <3>1. CASE Run(w)
      BY <3>1, RunCases DEF Run
    <3>2. CASE ~Run(w)
      BY <2>1, <3>2 DEF Loop, Start, Scan, Read, Pick, Begin, SetCompleted, Raised,
                        SetRetrying, DeadLetter, Ack, Fault, Crash, history
    <3> QED BY <3>1, <3>2
  <2>2. ASSUME NEW t \in Task, Enqueue(t) \/ SetPending(t)
        PROVE  UNCHANGED <<returned, unknown, dlq>>
    BY <2>2 DEF Enqueue, SetPending, history
  <2>3. ASSUME NEW p \in reports, Report(p) PROVE UNCHANGED <<returned, unknown, dlq>>
    BY <2>3 DEF Report, history
  <2>4. CASE UNCHANGED vars
    BY <2>4 DEF vars, history
  <2> QED BY <2>1, <2>2, <2>3, <2>4 DEF Next
(* Only an acknowledgement takes an entry that MAXLEN leaves out of the group's reach. *)
<1>4. ASSUME NEW i \in 1 .. Len(stream), Live(i), stream[i].task \notin trimmed',
             \A w \in Worker : Ack(w) => Cur(w) # i
      PROVE  Live(i)'
  <2>0. i \in Nat /\ i >= first' /\ i >= first /\ (i > delivered \/ i \in pel)
    BY <1>1, <1>4, Trims DEF Live
  <2> SUFFICES i > delivered' \/ i \in pel'
    BY <2>0 DEF Live
  <2>1. CASE UNCHANGED <<delivered, pel>>
    BY <2>0, <2>1
  <2>2. ASSUME NEW w \in Worker, Read(w) PROVE i > delivered' \/ i \in pel'
    <3>1. PICK n \in Nat : n = IF delivered + 1 < first THEN first ELSE delivered + 1
      BY <1>2
    <3>2. CASE n <= Len(stream)
      <4>1. delivered' = n /\ pel' = pel \cup {n}
        BY <2>2, <3>1, <3>2 DEF Read
      <4>2. i > delivered => i >= n
        BY <1>2, <2>0, <3>1
      <4> QED BY <2>0, <4>1, <4>2
    <3>3. CASE ~(n <= Len(stream))
      <4>1. UNCHANGED <<delivered, pel>>
        BY <2>2, <3>1, <3>3 DEF Read
      <4> QED BY <2>1, <4>1
    <3> QED BY <3>2, <3>3
  <2>3. ASSUME NEW w \in Worker, Ack(w) PROVE i > delivered' \/ i \in pel'
    <3>1. delivered' = delivered /\ pel' = pel \ {Cur(w)} /\ Cur(w) # i
      BY <1>4, <2>3 DEF Ack
    <3> QED BY <2>0, <3>1
  <2>4. ASSUME NEW w \in Worker, Loop(w) \/ Fault(w) \/ Crash(w), ~Read(w), ~Ack(w)
        PROVE  UNCHANGED <<delivered, pel>>
    BY <2>4 DEF Loop, Start, Scan, Pick, Begin, Run, SetCompleted, Raised, SetRetrying,
                DeadLetter, Fault, Crash, group
  <2>5. ASSUME NEW t \in Task, Enqueue(t) \/ SetPending(t) PROVE UNCHANGED <<delivered, pel>>
    BY <2>5 DEF Enqueue, SetPending, group
  <2>6. ASSUME NEW p \in reports, Report(p) PROVE UNCHANGED <<delivered, pel>>
    BY <2>6 DEF Report, group
  <2>7. CASE UNCHANGED vars
    BY <2>1, <2>7 DEF vars, group
  <2> QED BY <2>1, <2>2, <2>3, <2>4, <2>5, <2>6, <2>7 DEF Next, Loop
<1>0. trimmed \subseteq trimmed'
  BY <1>1, Trims
<1>5. ASSUME NEW t \in Task, t \notin trimmed', NEW k \in Nat, Covered(t, k)
      PROVE  Covered(t, k)'
  <2>1. CASE \E w \in Worker : Ack(w) /\ TaskOf(w) = t /\ k < Cur(w)
    <3>1. PICK w \in Worker : Ack(w) /\ TaskOf(w) = t /\ k < Cur(w)
      BY <2>1
    <3>2. wpc[w] = "ack" /\ Cur(w) \in 1 .. Len(stream)
      BY <1>1, <3>1, EntryOf DEF Ack, Idle
    <3>3. PICK c \in Nat : c = Cur(w)
      BY <3>2
    <3>4. Covered(t, c)
      <4>1. t \in Task \ trimmed
        BY <1>0, <1>5
      <4> QED BY <1>1, <3>1, <3>2, <3>3, <4>1 DEF AckSafe
    <3>5. ASSUME NEW v \in Worker, Ack(v) PROVE Cur(v) = c
      <4>1. CASE v = w
        BY <3>3, <4>1
      <4>2. CASE v # w
        <5>1. wpc'[w] = wpc[w] /\ wpc'[w] = "pick"
          BY <1>1, <3>1, <3>5, <4>2, WorkerStep DEF Ack, Goto, TypeOK, Loop
        <5> QED BY <3>2, <5>1
      <4> QED BY <4>1, <4>2
    <3>6. \A i \in 1 .. Len(stream) : stream[i].task = t /\ c < i /\ Live(i) => Live(i)'
      BY <1>4, <1>5, <3>3, <3>5
    <3>7. Covered(t, c)'
      BY <1>1, <1>3, <3>4, <3>6, CoveredStays
    <3> QED BY <1>2, <3>1, <3>3, <3>7 DEF Covered
  <2>2. CASE ~\E w \in Worker : Ack(w) /\ TaskOf(w) = t /\ k < Cur(w)
    <3>1. ASSUME NEW i \in 1 .. Len(stream), stream[i].task = t, k < i, Live(i)
          PROVE  Live(i)'
      BY <1>4, <1>5, <2>2, <3>1 DEF TaskOf
    <3> QED BY <1>1, <1>3, <1>5, <3>1, CoveredStays
  <2> QED BY <2>1, <2>2
(* A new entry is live. *)
<1>6. ASSUME NEW t \in Task, NEW n \in 0 .. (MaxRetries - 1), XAdd(t, n),
             UNCHANGED delivered, NEW k \in Nat, k <= Len(stream)
      PROVE  Covered(t, k)'
  <2>1. Len(stream') = Len(stream) + 1 /\ stream'[Len(stream')] = [task |-> t, retries |-> n]
    BY <1>1, <1>6, XAddGrows
  <2>2. PICK i \in Nat : i = Len(stream')
    BY <1>2
  <2>3. i >= first'
    BY <1>1, <1>2, <1>6, <2>1, <2>2, XAddFirst
  <2>4. i \in DOMAIN stream' /\ stream'[i].task = t /\ i > k /\ Live(i)'
    BY <1>1, <1>2, <1>6, <2>1, <2>2, <2>3 DEF Live
  <2> QED BY <2>4 DEF Covered
<1>7. NoTaskLost'
  <2> SUFFICES ASSUME NEW t \in Accepted', t \notin trimmed' PROVE Covered(t, 0)'
    BY DEF NoTaskLost
  <2>0. t \in Task
    BY DEF Accepted
  <2>1. CASE t \in Accepted
    BY <1>0, <1>1, <1>5, <2>0, <2>1 DEF NoTaskLost
  <2>2. CASE t \notin Accepted
    <3>1. ASSUME NEW u \in Task, Enqueue(u) PROVE Covered(t, 0)'
      <4>1. t = u
        BY <1>1, <2>0, <2>2, <3>1 DEF Enqueue, Accepted, TypeOK
      <4>2. 0 \in 0 .. (MaxRetries - 1) /\ XAdd(t, 0) /\ UNCHANGED delivered /\ 0 <= Len(stream)
        BY <1>2, <3>1, <4>1, BoundAssumption DEF Enqueue
      <4> QED BY <1>6, <2>0, <4>2
    <3>2. ASSUME NEW u \in Task, SetPending(u) PROVE FALSE
      BY <1>1, <2>0, <2>2, <3>2 DEF SetPending, Accepted, TypeOK
    <3>3. ASSUME NEW w \in Worker, Loop(w) \/ Fault(w) \/ Crash(w) PROVE FALSE
      BY <1>1, <2>2, <3>3, WorkerStep DEF Accepted
    <3>4. ASSUME NEW p \in reports, Report(p) PROVE FALSE
      BY <2>2, <3>4 DEF Report, Accepted
    <3>5. CASE UNCHANGED vars
      BY <2>2, <3>5 DEF vars, Accepted
    <3> QED BY <3>1, <3>2, <3>3, <3>4, <3>5 DEF Next
  <2> QED BY <2>1, <2>2
<1>8. AckSafe'
  <2> SUFFICES ASSUME NEW v \in Worker, NEW t \in Task, t \notin trimmed', NEW k \in Nat,
                      wpc'[v] \in {"requeued", "ack"}, t = TaskOf(v)', k = Cur(v)'
               PROVE  Covered(t, k)'
    BY DEF AckSafe
  <2>1. ASSUME wpc[v] \in {"requeued", "ack"}, todo'[v] = todo[v] PROVE Covered(t, k)'
    <3>1. t = TaskOf(v) /\ k = Cur(v)
      BY <1>1, <2>1, SameEntry DEF Idle
    <3>2. Covered(t, k)
      BY <1>0, <1>1, <2>1, <3>1 DEF AckSafe
    <3> QED BY <1>5, <3>2
  <2>2. ASSUME Loop(v) \/ Fault(v) \/ Crash(v), ~(wpc[v] \in {"requeued", "ack"} /\ todo'[v] = todo[v])
        PROVE  Covered(t, k)'
    <3>1. /\ wpc[v] \notin Idle /\ todo'[v] = todo[v]
          /\ \/ Begin(v) /\ TaskOf(v) \notin Registered
             \/ SetCompleted(v) \/ DeadLetter(v)
             \/ Raised(v) /\ RetriesOf(v) + 1 < MaxRetries
      BY <1>1, <2>2 DEF TypeOK, Idle, Loop, Start, Scan, Read, Pick, Begin, Run, SetCompleted,
                        Raised, SetRetrying, DeadLetter, Ack, Fault, Crash, Goto
    <3>2. /\ t = TaskOf(v) /\ k = Cur(v) /\ k \in 1 .. Len(stream)
          /\ RetriesOf(v) \in 0 .. (MaxRetries - 1)
      BY <1>1, <3>1, SameEntry, EntryOf
    <3>3. CASE Begin(v) /\ TaskOf(v) \notin Registered
      BY <3>2, <3>3 DEF Begin, Covered, Settled
    <3>4. CASE SetCompleted(v)
      BY <3>2, <3>4 DEF SetCompleted, IInv, AttemptsRegistered, Covered, Settled, history
    <3>5. CASE DeadLetter(v)
      BY <3>2, <3>5 DEF DeadLetter, Covered, Settled
    <3>6. CASE Raised(v) /\ RetriesOf(v) + 1 < MaxRetries
      <4>1. RetriesOf(v) + 1 \in 0 .. (MaxRetries - 1)
        BY <3>2, <3>6, BoundAssumption
      <4>2. XAdd(t, RetriesOf(v) + 1) /\ UNCHANGED delivered /\ k <= Len(stream)
        BY <1>2, <3>2, <3>6 DEF Raised
      <4> QED BY <1>6, <4>1, <4>2
    <3> QED BY <3>1, <3>3, <3>4, <3>5, <3>6
  <2>3. ASSUME NEW w \in Worker, w # v, Loop(w) \/ Fault(w) \/ Crash(w)
        PROVE  wpc'[v] = wpc[v] /\ todo'[v] = todo[v]
    BY <1>1, <2>3, WorkerStep
  <2>4. ASSUME NEW u \in Task, Enqueue(u) \/ SetPending(u) PROVE UNCHANGED <<wpc, todo>>
    BY <2>4 DEF Enqueue, SetPending
  <2>5. ASSUME NEW p \in reports, Report(p) PROVE UNCHANGED <<wpc, todo>>
    BY <2>5 DEF Report
  <2>6. CASE UNCHANGED vars
    BY <2>1, <2>6 DEF vars
  <2> QED BY <2>1, <2>2, <2>3, <2>4, <2>5, <2>6 DEF Next
<1> QED BY <1>7, <1>8

-------------------------------------------------------------------------------
(* Theorems *)

LEMMA InitInv == Init => IInv
<1> SUFFICES ASSUME Init PROVE IInv
  OBVIOUS
<1>1. TypeOK
  BY InitType
<1>2. stream = <<>> /\ DOMAIN stream = {}
  BY DEF Init
<1>3. EntriesAccepted /\ RetriesEarned
  BY <1>2 DEF Init, EntriesAccepted, RetriesEarned
<1>4. AttemptsRegistered
  BY DEF Init, AttemptsRegistered, Attempting
<1>5. DeadLetterEarned
  BY TaskAssumption DEF Init, DeadLetterEarned
<1>6. NoTaskLost /\ AckSafe
  BY DEF Init, NoTaskLost, AckSafe, Accepted
<1> QED BY <1>1, <1>3, <1>4, <1>5, <1>6 DEF IInv

LEMMA StepInv == IInv /\ [Next]_vars => IInv'
<1> SUFFICES ASSUME IInv, [Next]_vars PROVE IInv'
  OBVIOUS
<1>1. TypeOK'
  BY StepType DEF IInv
<1>2. EntriesAccepted' /\ AttemptsRegistered' /\ RetriesEarned' /\ DeadLetterEarned'
  BY StepAccepted, StepRegistered, StepRetries, StepDeadLetter
<1>3. NoTaskLost' /\ AckSafe'
  BY StepSafe
<1> QED BY <1>1, <1>2, <1>3 DEF IInv

(* The strengthened invariant holds in every reachable state.                         *)
THEOREM InductiveInvariant == Spec => []IInv
<1> QED BY InitInv, StepInv, PTL DEF Spec

(* Whatever servers crash and whatever Redis commands fail, a task that enqueue       *)
(* accepted is lost only if MAXLEN dropped an unacknowledged entry of that task.      *)
THEOREM TasksKept == Spec => []NoTaskLost
<1>1. IInv => NoTaskLost
  BY DEF IInv
<1> QED BY <1>1, InductiveInvariant, PTL

(* Nothing reaches the dead-letter stream, and no handler's task is shown as failed, *)
(* before MaxRetries of its attempts failed.                                         *)
THEOREM DeadLettersEarned == Spec => []DeadLetterEarned
<1>1. IInv => DeadLetterEarned
  BY DEF IInv
<1> QED BY <1>1, InductiveInvariant, PTL

-------------------------------------------------------------------------------
(* The refinement *)

Outcome(t) == CASE t \in returned -> "returned"
                [] t \in dlq \ returned -> "dead"
                [] t \in unknown \ (returned \cup dlq) -> "unknown"
                [] OTHER -> "none"

LEMMA InitPromise == Init => Promise!Init
BY DEF Init, Promise!Init, Accepted

(* Every step of the queue is a step of the promise or changes nothing it mentions.   *)
LEMMA StepPromise == IInv /\ [Next]_vars => [Promise!Next]_(Promise!vars)
<1> SUFFICES ASSUME IInv, [Next]_vars PROVE [Promise!Next]_(Promise!vars)
  OBVIOUS
<1> USE DEF IInv
<1>1. ASSUME Accepted' = Accepted, UNCHANGED <<failures, returned, dlq, unknown>>
      PROVE  UNCHANGED Promise!vars
  BY <1>1 DEF Promise!vars
<1>2. ASSUME NEW t \in Task, Enqueue(t) PROVE Promise!Next
  <2>1. Accepted' = Accepted \cup {t} /\ UNCHANGED <<failures, returned, dlq, unknown>>
    BY <1>2 DEF Enqueue, Accepted, TypeOK, history
  <2>2. Promise!Accept(t)
    BY <2>1 DEF Promise!Accept
  <2> QED BY <2>2 DEF Promise!Next
<1>3. ASSUME NEW t \in Task, SetPending(t) PROVE UNCHANGED Promise!vars
  BY <1>1, <1>3 DEF SetPending, Accepted, TypeOK, history
<1>4. ASSUME NEW w \in Worker, wpc[w] \notin Idle
      PROVE  TaskOf(w) \in Task /\ TaskOf(w) \in Accepted
  <2>1. TaskOf(w) \in Task /\ Cur(w) \in 1 .. Len(stream)
    BY <1>4, EntryOf
  <2>2. DOMAIN stream = 1 .. Len(stream)
    BY DEF TypeOK
  <2> QED BY <2>1, <2>2 DEF EntriesAccepted, TaskOf
<1>5. ASSUME NEW t \in Task, t \in Accepted, Accepted' = Accepted,
             failures' = [failures EXCEPT ![t] = @ + 1], UNCHANGED <<returned, dlq, unknown>>
      PROVE  Promise!Next
  <2>1. Promise!Fail(t)
    BY <1>5 DEF Promise!Fail
  <2> QED BY <2>1 DEF Promise!Next
<1>6. ASSUME NEW w \in Worker, Loop(w) \/ Fault(w) \/ Crash(w)
      PROVE  [Promise!Next]_(Promise!vars)
  <2>0. Accepted' = Accepted
    BY <1>6, WorkerStep DEF Accepted
  <2>1. CASE Run(w)
    <3>1. PICK t \in Task : t = TaskOf(w) /\ t \in Accepted
      BY <1>4, <2>1 DEF Run, Idle
    <3>2. UNCHANGED <<dlq, unknown>>
      BY <2>1 DEF Run
    <3>3. CASE returned' = returned \cup {t} /\ UNCHANGED failures
      <4>1. Promise!Succeed(t)
        BY <2>0, <3>1, <3>2, <3>3 DEF Promise!Succeed
      <4> QED BY <3>1, <4>1 DEF Promise!Next
    <3>4. CASE failures' = [failures EXCEPT ![t] = @ + 1] /\ UNCHANGED returned
      BY <1>5, <2>0, <3>1, <3>2, <3>4
    <3>5. \/ returned' = returned \cup {t} /\ UNCHANGED failures
          \/ failures' = [failures EXCEPT ![t] = @ + 1] /\ UNCHANGED returned
      BY <2>1, <3>1, RunCases
    <3> QED BY <3>3, <3>4, <3>5
  <2>2. CASE DeadLetter(w)
    <3>1. PICK t \in Task : t = TaskOf(w) /\ t \in Accepted
      BY <1>4, <2>2 DEF DeadLetter, Idle
    <3>2. t \notin unknown /\ MaxRetries <= failures[t]
      BY <2>2, <3>1 DEF DeadLetter, AttemptsRegistered, Attempting, RetriesEarned
    <3>3. dlq' = dlq \cup {t} /\ UNCHANGED <<failures, returned, unknown>>
      BY <2>2, <3>1 DEF DeadLetter, history
    <3>4. CASE t \in returned \cup dlq
      <4>1. \A u \in Task : Outcome(u)' = Outcome(u)
        BY <3>3, <3>4 DEF Outcome
      <4> QED BY <2>0, <3>3, <4>1 DEF Promise!vars, Outcome
    <3>5. CASE t \notin returned \cup dlq
      <4>1. /\ Outcome(t) = "none" /\ Outcome(t)' = "dead"
            /\ \A u \in Task \ {t} : Outcome(u)' = Outcome(u)
        BY <3>2, <3>3, <3>5 DEF Outcome
      <4>2. Promise!GiveUp(t)
        BY <2>0, <3>1, <3>2, <3>3, <4>1 DEF Promise!GiveUp, Outcome
      <4> QED BY <3>1, <4>2 DEF Promise!Next
    <3> QED BY <3>4, <3>5
  <2>3. CASE Begin(w)
    <3>1. PICK t \in Task : t = TaskOf(w) /\ t \in Accepted
      BY <1>4, <2>3 DEF Begin, Idle
    <3>2. UNCHANGED <<failures, returned, dlq>>
      BY <2>3 DEF Begin
    <3>3. CASE UNCHANGED unknown
      BY <1>1, <2>0, <3>2, <3>3
    <3>4. CASE t \notin Registered /\ t \notin unknown /\ unknown' = unknown \cup {t}
      <4>1. t \notin returned \cup dlq
        BY <3>4 DEF AttemptsRegistered
      <4>2. Promise!Refuse(t)
        BY <2>0, <3>1, <3>2, <3>4, <4>1 DEF Promise!Refuse
      <4> QED BY <3>1, <4>2 DEF Promise!Next
    <3> QED BY <2>3, <3>1, <3>3, <3>4 DEF Begin
  <2>4. CASE Fault(w)
    <3>1. UNCHANGED <<returned, dlq, unknown>>
      BY <2>4 DEF Fault
    <3>2. CASE wpc[w] = "returned" /\ failures' = [failures EXCEPT ![TaskOf(w)] = @ + 1]
      <4>1. TaskOf(w) \in Task /\ TaskOf(w) \in Accepted
        BY <1>4, <3>2 DEF Idle
      <4> QED BY <1>5, <2>0, <3>1, <3>2, <4>1
    <3>3. CASE UNCHANGED failures
      BY <1>1, <2>0, <3>1, <3>3
    <3> QED BY <2>4, <3>2, <3>3 DEF Fault
  <2>5. CASE ~Run(w) /\ ~DeadLetter(w) /\ ~Begin(w) /\ ~Fault(w)
    <3>1. UNCHANGED <<failures, returned, dlq, unknown>>
      BY <1>6, <2>5 DEF Loop, Start, Scan, Read, Pick, SetCompleted, Raised, SetRetrying, Ack,
                        Crash, history
    <3> QED BY <1>1, <2>0, <3>1
  <2> QED BY <2>1, <2>2, <2>3, <2>4, <2>5
<1>7. ASSUME NEW p \in reports, Report(p) PROVE UNCHANGED Promise!vars
  BY <1>1, <1>7 DEF Report, Accepted, history
<1>8. CASE UNCHANGED vars
  BY <1>1, <1>8 DEF vars, Accepted, history
<1> QED BY <1>2, <1>3, <1>6, <1>7, <1>8 DEF Next

(* The queue implements AtLeastOnce: a task is settled only after it was accepted,    *)
(* given up only after MaxRetries failures, never refused or given up once it has an  *)
(* outcome.                                                                           *)
THEOREM PromiseKept == Spec => KeepsPromise
<1> QED BY InductiveInvariant, InitPromise, StepPromise, PTL DEF Spec, KeepsPromise, Promise!Spec

-------------------------------------------------------------------------------
(* The attempts of a task *)

OneWorker == \A v, w \in Worker : v = w

(* The worker w has used up attempt x[2] of the entry x[1]: the attempt failed, *)
(* or the entry is only waiting for its acknowledgement.                        *)
SpentBy(w, x, s, m, q) ==
  /\ q[w] # <<>> /\ Head(q[w]) = x[1]
  /\ \/ m[w] \in {"requeued", "dead", "ack"}
     \/ m[w] = "raised" /\ x[2] = s[x[1]].retries

(* The attempts of t that its entries still allow: x[2] counts from the retries *)
(* written into the entry x[1].                                                 *)
LeftOf(t, s, d, p, m, q) ==
  {x \in (1 .. Len(s)) \X (0 .. MaxRetries - 1) :
     /\ s[x[1]].task = t /\ s[x[1]].retries <= x[2]
     /\ x[1] > d \/ x[1] \in p
     /\ \A w \in Worker : ~SpentBy(w, x, s, m, q)}

(* The ids a worker still has to process are pending, each once.                *)
Ascends(q, p) ==
  /\ \A i \in 1 .. Len(q) : q[i] \in p
  /\ \A i, j \in 1 .. Len(q) : i < j => q[i] < q[j]

Pending == \A w \in Worker : Ascends(todo[w], pel)

LEMMA TailAscends ==
  ASSUME NEW d \in Nat, NEW q \in Seq(1 .. d), q # <<>>, NEW p, Ascends(q, p)
  PROVE  Head(q) \in p /\ Ascends(Tail(q), p) /\ Ascends(Tail(q), p \ {Head(q)})
<1>1. /\ Len(q) \in Nat /\ Len(q) >= 1 /\ Head(q) = q[1] /\ Len(Tail(q)) = Len(q) - 1
      /\ \A i \in 1 .. Len(Tail(q)) : Tail(q)[i] = q[i + 1] /\ i + 1 \in 1 .. Len(q)
      /\ \A i \in 1 .. Len(q) : q[i] \in Int
  OBVIOUS
<1>2. 1 \in 1 .. Len(q)
  BY <1>1
<1>3. Head(q) \in p
  BY <1>1, <1>2 DEF Ascends
<1>4. \A i \in 1 .. Len(Tail(q)) : Tail(q)[i] \in p /\ Tail(q)[i] # Head(q)
  <2> TAKE i \in 1 .. Len(Tail(q))
  <2>1. i + 1 \in 1 .. Len(q) /\ Tail(q)[i] = q[i + 1] /\ 1 < i + 1
    BY <1>1
  <2>2. q[1] < q[i + 1] /\ q[i + 1] \in p
    BY <1>2, <2>1 DEF Ascends
  <2> QED BY <1>1, <1>2, <2>1, <2>2
<1>5. \A i, j \in 1 .. Len(Tail(q)) : i < j => Tail(q)[i] < Tail(q)[j]
  <2> TAKE i, j \in 1 .. Len(Tail(q))
  <2>1. i + 1 \in 1 .. Len(q) /\ j + 1 \in 1 .. Len(q) /\ (i < j => i + 1 < j + 1)
    BY <1>1
  <2> QED BY <1>1, <2>1 DEF Ascends
<1> QED BY <1>3, <1>4, <1>5 DEF Ascends

LEMMA AppendAscends ==
  ASSUME NEW d \in Nat, NEW q \in Seq(1 .. d), NEW p, Ascends(q, p), NEW e \in Nat, d < e
  PROVE  Ascends(Append(q, e), p \cup {e})
<1>1. /\ Len(q) \in Nat /\ Len(Append(q, e)) = Len(q) + 1
      /\ \A i \in 1 .. Len(q) : Append(q, e)[i] = q[i] /\ q[i] < e
      /\ Append(q, e)[Len(q) + 1] = e
  OBVIOUS
<1>2. \A i \in 1 .. Len(q) + 1 : i \in 1 .. Len(q) \/ i = Len(q) + 1
  BY <1>1
<1>3. \A i \in 1 .. Len(q) + 1 : Append(q, e)[i] \in p \cup {e}
  BY <1>1, <1>2 DEF Ascends
<1>4. \A i, j \in 1 .. Len(q) + 1 : i < j => Append(q, e)[i] < Append(q, e)[j]
  <2> TAKE i, j \in 1 .. Len(q) + 1
  <2> HAVE i < j
  <2>1. i \in 1 .. Len(q)
    BY <1>1
  <2>2. CASE j \in 1 .. Len(q)
    BY <1>1, <2>1, <2>2 DEF Ascends
  <2>3. CASE j = Len(q) + 1
    BY <1>1, <2>1, <2>3
  <2> QED BY <1>2, <2>2, <2>3
<1> QED BY <1>1, <1>3, <1>4 DEF Ascends

(* The only worker keeps its ids pending until it acknowledges them.             *)
LEMMA StepPending ==
  ASSUME OneWorker, TypeOK, Pending, [Next]_vars
  PROVE  Pending'
<1>1. ASSUME UNCHANGED <<todo, pel>> PROVE Pending'
  BY <1>1 DEF Pending
<1>2. ASSUME NEW w \in Worker, Ascends(todo'[w], pel') PROVE Pending'
  BY <1>2 DEF OneWorker, Pending
<1>3. ASSUME NEW w \in Worker, Loop(w) \/ Fault(w) \/ Crash(w) PROVE Pending'
  <2>1. todo[w] \in Seq(1 .. delivered) /\ delivered \in Nat /\ Ascends(todo[w], pel)
        /\ (wpc[w] \notin Idle => todo[w] # <<>>)
        /\ pel \in SUBSET (1 .. delivered) /\ todo \in [Worker -> Seq(1 .. delivered)]
    BY DEF TypeOK, Pending, Idle
  <2>2. ASSUME Scan(w) PROVE Pending'
    <3>1. PICK q \in Ascending(Oldest(pel, ScanMax)) : todo' = [todo EXCEPT ![w] = q]
      BY <2>2 DEF Scan
    <3>2. q \in [1 .. Cardinality(Oldest(pel, ScanMax)) -> Oldest(pel, ScanMax)]
          /\ \A i, j \in DOMAIN q : i < j => q[i] < q[j]
      BY <3>1 DEF Ascending
    <3>3. q \in Seq(1 .. delivered)
      BY <2>1, <3>1, AscendingFacts
    <3>4. DOMAIN q = 1 .. Len(q) /\ Oldest(pel, ScanMax) \subseteq pel
      BY <3>3 DEF Oldest
    <3>5. Ascends(q, pel)
      BY <3>2, <3>4 DEF Ascends
    <3>6. todo'[w] = q /\ pel' = pel
      BY <2>1, <2>2, <3>1 DEF Scan, group
    <3> QED BY <1>2, <3>5, <3>6
  <2>3. ASSUME Read(w) PROVE Pending'
    <3>1. CASE UNCHANGED <<pel, todo>>
      BY <1>1, <3>1
    <3>2. CASE ~UNCHANGED <<pel, todo>>
      <4>1. PICK next \in Nat : /\ delivered < next /\ pel' = pel \cup {next}
                                /\ todo' = [todo EXCEPT ![w] = Append(@, next)]
        <5> DEFINE n == IF delivered + 1 < first THEN first ELSE delivered + 1
        <5>1. n \in Nat /\ delivered < n
          BY DEF TypeOK
        <5>2. pel' = pel \cup {n} /\ todo' = [todo EXCEPT ![w] = Append(@, n)]
          BY <2>3, <3>2 DEF Read
        <5> HIDE DEF n
        <5> QED BY <5>1, <5>2
      <4>2. todo'[w] = Append(todo[w], next)
        BY <2>1, <4>1
      <4>3. Ascends(Append(todo[w], next), pel \cup {next})
        BY <2>1, <4>1, AppendAscends
      <4> QED BY <1>2, <4>1, <4>2, <4>3
    <3> QED BY <3>1, <3>2
  <2>4. ASSUME Ack(w) PROVE Pending'
    <3>1. todo[w] # <<>> /\ todo'[w] = Tail(todo[w]) /\ pel' = pel \ {Head(todo[w])}
      BY <2>1, <2>4 DEF Ack, Idle, Cur
    <3>2. Ascends(Tail(todo[w]), pel \ {Head(todo[w])})
      BY <2>1, <3>1, TailAscends
    <3> QED BY <1>2, <3>1, <3>2
  <2>5. ASSUME todo[w] # <<>>, todo' = [todo EXCEPT ![w] = Tail(@)], pel' = pel PROVE Pending'
    <3>1. todo'[w] = Tail(todo[w])
      BY <2>1, <2>5
    <3>2. Ascends(Tail(todo[w]), pel)
      BY <2>1, <2>5, TailAscends
    <3> QED BY <1>2, <2>5, <3>1, <3>2
  <2>6. ASSUME Crash(w) PROVE Pending'
    <3>1. todo'[w] = <<>> /\ Ascends(<<>>, pel')
      BY <2>1, <2>6 DEF Crash, Ascends
    <3> QED BY <1>2, <3>1
  <2>7. ASSUME Pick(w) \/ Fault(w) PROVE Pending'
    <3>1. \/ UNCHANGED <<todo, pel>>
          \/ todo[w] # <<>> /\ todo' = [todo EXCEPT ![w] = Tail(@)] /\ pel' = pel
      BY <2>1, <2>7 DEF Pick, Fault, group, Idle
    <3> QED BY <1>1, <2>5, <3>1
  <2>8. ASSUME \/ Start(w) \/ Begin(w) \/ Run(w) \/ SetCompleted(w) \/ Raised(w)
               \/ SetRetrying(w) \/ DeadLetter(w)
        PROVE  Pending'
    <3>1. UNCHANGED <<todo, pel>>
      BY <2>8 DEF Start, Begin, Run, SetCompleted, Raised, SetRetrying, DeadLetter, group
    <3> QED BY <1>1, <3>1
  <2> QED BY <1>3, <2>2, <2>3, <2>4, <2>6, <2>7, <2>8 DEF Loop
<1>4. ASSUME NEW t \in Task, Enqueue(t) \/ SetPending(t) PROVE Pending'
  BY <1>1, <1>4 DEF Enqueue, SetPending, group
<1>5. ASSUME NEW p \in reports, Report(p) PROVE Pending'
  BY <1>1, <1>5 DEF Report, group
<1>6. CASE UNCHANGED vars
  BY <1>1, <1>6 DEF vars, group
<1> QED BY <1>3, <1>4, <1>5, <1>6 DEF Next

-------------------------------------------------------------------------------
(* The attempts left *)

LEMMA LeftFinite ==
  ASSUME NEW t, NEW s, NEW d, NEW p, NEW m, NEW q, Len(s) \in Nat
  PROVE  /\ IsFiniteSet(LeftOf(t, s, d, p, m, q))
         /\ Cardinality(LeftOf(t, s, d, p, m, q)) \in Nat
<1> DEFINE A == 1 .. Len(s)
           B == 0 .. MaxRetries - 1
<1>1. IsFiniteSet(A) /\ IsFiniteSet(B)
  BY BoundAssumption, FS_Interval
<1>2. IsFiniteSet(A \X B)
  BY <1>1, FS_Product
<1>3. LeftOf(t, s, d, p, m, q) \subseteq A \X B
  BY DEF LeftOf
<1> QED BY <1>2, <1>3, FS_Subset, FS_CardinalityType

(* An entry allows at most MaxRetries attempts.                                  *)
LEMMA AttemptsOfOne ==
  ASSUME NEW i
  PROVE  /\ IsFiniteSet({i} \X (0 .. MaxRetries - 1))
         /\ Cardinality({i} \X (0 .. MaxRetries - 1)) = MaxRetries
<1>1. IsFiniteSet({i}) /\ Cardinality({i}) = 1
  BY FS_Singleton
<1>2. IsFiniteSet(0 .. MaxRetries - 1) /\ Cardinality(0 .. MaxRetries - 1) = MaxRetries
  BY BoundAssumption, FS_Interval
<1>3. /\ IsFiniteSet({i} \X (0 .. MaxRetries - 1))
      /\ Cardinality({i} \X (0 .. MaxRetries - 1)) = 1 * MaxRetries
  BY ZenonT(40), <1>1, <1>2, FS_Product
<1> QED BY <1>3, BoundAssumption

LEMMA OneEntryMore ==
  ASSUME NEW L, IsFiniteSet(L), NEW K, NEW i, K \subseteq L \cup ({i} \X (0 .. MaxRetries - 1))
  PROVE  Cardinality(K) <= Cardinality(L) + MaxRetries
<1> DEFINE N == {i} \X (0 .. MaxRetries - 1)
<1>1. IsFiniteSet(N) /\ Cardinality(N) = MaxRetries
  BY AttemptsOfOne
<1> HIDE DEF N
<1>2. IsFiniteSet(L \cup N) /\ Cardinality(L \cup N) =
        Cardinality(L) + Cardinality(N) - Cardinality(L \cap N)
  BY <1>1, FS_Union
<1>3. Cardinality(K) <= Cardinality(L \cup N) /\ IsFiniteSet(K)
  BY <1>2, FS_Subset DEF N
<1>4. Cardinality(L \cap N) \in Nat /\ Cardinality(L) \in Nat /\ Cardinality(K) \in Nat
      /\ Cardinality(L \cup N) \in Nat
  BY <1>2, <1>3, FS_Intersection, FS_CardinalityType
<1> QED BY <1>1, <1>2, <1>3, <1>4, BoundAssumption

(* One more crash or failed command allows MaxRetries more attempts.              *)
LEMMA RoomMore ==
  ASSUME NEW a \in Nat, NEW k \in Nat, NEW b \in Nat, a <= MaxRetries * k, b <= a + MaxRetries
  PROVE  b <= MaxRetries * (k + 1)
<1>1. MaxRetries * (k + 1) = MaxRetries * k + MaxRetries /\ MaxRetries * k \in Nat
  BY BoundAssumption
<1> QED BY <1>1, BoundAssumption

LeftNow(t) == LeftOf(t, stream, delivered, pel, wpc, todo)
LeftNext(t) == LeftOf(t, stream', delivered', pel', wpc', todo')

(* What the only worker has not used up, or gives back, is left afterwards.       *)
LEMMA LeftShrinks ==
  ASSUME OneWorker, NEW w \in Worker, stream' = stream, NEW t,
         \A i \in 1 .. Len(stream) : i > delivered' \/ i \in pel' => i > delivered \/ i \in pel,
         \A x : SpentBy(w, x, stream, wpc, todo) /\ (x[1] > delivered' \/ x[1] \in pel') =>
                  SpentBy(w, x, stream, wpc', todo')
  PROVE  LeftNext(t) \subseteq LeftNow(t)
<1> SUFFICES ASSUME NEW x \in LeftNext(t) PROVE x \in LeftNow(t)
  OBVIOUS
<1>1. /\ x \in (1 .. Len(stream)) \X (0 .. MaxRetries - 1)
      /\ stream[x[1]].task = t /\ stream[x[1]].retries <= x[2]
      /\ x[1] > delivered' \/ x[1] \in pel'
      /\ ~SpentBy(w, x, stream, wpc', todo')
  BY DEF LeftNext, LeftOf
<1>2. ~SpentBy(w, x, stream, wpc, todo)
  BY <1>1
<1>3. \A v \in Worker : ~SpentBy(v, x, stream, wpc, todo)
  BY <1>2 DEF OneWorker
<1>4. x[1] > delivered \/ x[1] \in pel
  BY <1>1
<1> QED BY <1>1, <1>3, <1>4 DEF LeftNow, LeftOf

(* Giving an entry up half-way leaves all its attempts again, but no others.      *)
LEMMA LeftReturned ==
  ASSUME OneWorker, NEW w \in Worker, stream' = stream, NEW t,
         delivered' = delivered, pel' = pel
  PROVE  LeftNext(t) \subseteq LeftNow(t) \cup ({Head(todo[w])} \X (0 .. MaxRetries - 1))
<1> SUFFICES ASSUME NEW x \in LeftNext(t), x[1] # Head(todo[w]) PROVE x \in LeftNow(t)
  BY DEF LeftNext, LeftOf
<1>1. /\ x \in (1 .. Len(stream)) \X (0 .. MaxRetries - 1)
      /\ stream[x[1]].task = t /\ stream[x[1]].retries <= x[2]
      /\ x[1] > delivered \/ x[1] \in pel
  BY DEF LeftNext, LeftOf
<1>2. \A v \in Worker : ~SpentBy(v, x, stream, wpc, todo)
  BY DEF OneWorker, SpentBy
<1> QED BY <1>1, <1>2 DEF LeftNow, LeftOf

(* A failed attempt is one attempt less.                                          *)
LEMMA LeftFails ==
  ASSUME OneWorker, TypeOK, Pending, NEW w \in Worker, wpc[w] \in {"run", "returned"},
         UNCHANGED <<stream, delivered, pel, todo>>, wpc' = [wpc EXCEPT ![w] = "raised"]
  PROVE  \A t \in Task :
           /\ LeftNext(t) \subseteq LeftNow(t)
           /\ t = TaskOf(w) => Cardinality(LeftNext(t)) + 1 <= Cardinality(LeftNow(t))
<1>1. \A t \in Task : LeftNext(t) \subseteq LeftNow(t)
  BY LeftShrinks DEF SpentBy, TypeOK
<1>2. ASSUME NEW t, t = TaskOf(w)
      PROVE  Cardinality(LeftNext(t)) + 1 <= Cardinality(LeftNow(t))
  <2> DEFINE a == <<Cur(w), RetriesOf(w)>>
  <2>1. /\ todo[w] # <<>> /\ Cur(w) \in 1 .. Len(stream) /\ RetriesOf(w) \in 0 .. MaxRetries - 1
        /\ todo[w] \in Seq(1 .. delivered) /\ delivered \in Nat
    <3>1. wpc[w] \notin Idle
      BY DEF Idle
    <3>2. todo[w] \in Seq(1 .. delivered) /\ delivered \in Nat
      BY DEF TypeOK
    <3> QED BY <3>1, <3>2, EntryOf
  <2>2. Cur(w) \in pel
    BY <2>1, TailAscends DEF Pending, Cur
  <2>3. a \in LeftNow(t)
    <3>1. \A v \in Worker : ~SpentBy(v, a, stream, wpc, todo)
      BY DEF OneWorker, SpentBy
    <3>2. /\ a \in (1 .. Len(stream)) \X (0 .. MaxRetries - 1)
          /\ a[1] = Cur(w) /\ a[2] = RetriesOf(w)
      BY <2>1
    <3>3. stream[a[1]].task = t /\ stream[a[1]].retries <= a[2]
      BY <1>2, <2>1, <3>2 DEF TaskOf, RetriesOf
    <3> HIDE DEF a
    <3> QED BY <2>2, <3>1, <3>2, <3>3 DEF LeftNow, LeftOf
  <2>4. a \notin LeftNext(t)
    <3>1. wpc'[w] = "raised"
      BY DEF TypeOK
    <3>2. SpentBy(w, a, stream', wpc', todo')
      BY <2>1, <3>1 DEF SpentBy, Cur, RetriesOf
    <3> QED BY <3>2 DEF LeftNext, LeftOf
  <2>5. Len(stream) \in Nat
    BY DEF TypeOK
  <2>6. IsFiniteSet(LeftNow(t))
    BY <2>5, LeftFinite DEF LeftNow
  <2>7. LeftNext(t) \subseteq LeftNow(t) \ {a}
    BY <1>1, <1>2, <2>4, EntryOf DEF Idle
  <2> HIDE DEF a
  <2>8. Cardinality(LeftNow(t) \ {a}) = Cardinality(LeftNow(t)) - 1
        /\ IsFiniteSet(LeftNow(t) \ {a})
    BY <2>3, <2>6, FS_RemoveElement
  <2>9. Cardinality(LeftNext(t)) <= Cardinality(LeftNow(t) \ {a}) /\ IsFiniteSet(LeftNext(t))
    BY <2>7, <2>8, FS_Subset
  <2>10. Cardinality(LeftNext(t)) \in Nat /\ Cardinality(LeftNow(t)) \in Nat
    BY <2>6, <2>9, FS_CardinalityType
  <2> QED BY <2>8, <2>9, <2>10
<1> QED BY <1>1, <1>2

(* The attempts of a retry are those the entry it replaces had left.              *)
LEMMA LeftMoves ==
  ASSUME OneWorker, TypeOK, Pending, NEW w \in Worker, Raised(w), RetriesOf(w) + 1 < MaxRetries,
         NEW t
  PROVE  Cardinality(LeftNext(t)) <= Cardinality(LeftNow(t))
<1> DEFINE i == Cur(w)
           r == RetriesOf(w)
<1>1. /\ todo[w] # <<>> /\ i \in 1 .. Len(stream) /\ i \in 1 .. delivered
      /\ r \in 0 .. MaxRetries - 1 /\ r + 1 \in 0 .. MaxRetries - 1 /\ TaskOf(w) \in Task
      /\ todo[w] \in Seq(1 .. delivered) /\ delivered \in Nat /\ wpc[w] = "raised"
  <2>1. wpc[w] \notin Idle /\ wpc[w] = "raised"
    BY DEF Idle, Raised
  <2>2. todo[w] \in Seq(1 .. delivered) /\ delivered \in Nat
    BY DEF TypeOK
  <2>3. todo[w] # <<>> /\ i \in 1 .. Len(stream) /\ i \in 1 .. delivered
        /\ r \in 0 .. (MaxRetries - 1) /\ TaskOf(w) \in Task
    BY <2>1, EntryOf
  <2>4. r + 1 \in 0 .. (MaxRetries - 1)
    BY <2>3, NextRetry
  <2> QED BY <2>1, <2>2, <2>3, <2>4
<1>2. i \in pel
  BY <1>1, TailAscends DEF Pending, Cur
<1>3. PICK n \in Nat : n = Len(stream)
  BY DEF TypeOK
<1>4. /\ Len(stream') = n + 1 /\ stream'[n + 1] = [task |-> TaskOf(w), retries |-> r + 1]
      /\ \A j \in 1 .. n : stream'[j] = stream[j]
  BY <1>1, <1>3, XAddGrows DEF Raised, Grows
<1>5. /\ todo' = todo /\ delivered' = delivered /\ pel' = pel
      /\ wpc'[w] = "requeued"
  BY DEF Raised, Goto, TypeOK
<1>6. delivered <= n /\ i \in 1 .. n /\ stream[i].task = TaskOf(w) /\ stream[i].retries = r
  BY <1>1, <1>3 DEF TypeOK, TaskOf, RetriesOf
<1>7. IsFiniteSet(LeftNow(t))
  BY <1>3, LeftFinite DEF LeftNow
<1> DEFINE home(x) == IF x[1] = n + 1 THEN <<i, x[2]>> ELSE x
           h == [x \in LeftNext(t) |-> home(x)]
<1>8. ASSUME NEW x \in LeftNext(t) PROVE home(x) \in LeftNow(t) /\ x[1] # i
  <2>1. /\ x \in (1 .. n + 1) \X (0 .. MaxRetries - 1)
        /\ stream'[x[1]].task = t /\ stream'[x[1]].retries <= x[2]
        /\ x[1] > delivered \/ x[1] \in pel
        /\ ~SpentBy(w, x, stream', wpc', todo')
    BY <1>4, <1>5 DEF LeftNext, LeftOf
  <2>2. x[1] # i
    BY <1>1, <1>5, <2>1 DEF SpentBy, Cur
  <2>3. CASE x[1] = n + 1
    <3>1. t = TaskOf(w) /\ r + 1 <= x[2] /\ home(x) = <<i, x[2]>>
      BY <1>4, <2>1, <2>3
    <3>2. \A v \in Worker : ~SpentBy(v, <<i, x[2]>>, stream, wpc, todo)
      BY <1>1, <1>6, <2>1, <3>1 DEF OneWorker, SpentBy
    <3>3. <<i, x[2]>> \in (1 .. Len(stream)) \X (0 .. MaxRetries - 1)
          /\ stream[i].retries <= x[2]
      BY <1>1, <1>6, <2>1, <3>1
    <3> HIDE DEF i, r
    <3>4. <<i, x[2]>> \in LeftNow(t)
      BY <1>2, <1>6, <3>1, <3>2, <3>3 DEF LeftNow, LeftOf
    <3> QED BY <2>2, <3>1, <3>4
  <2>4. CASE x[1] # n + 1
    <3>1. x[1] \in 1 .. n /\ home(x) = x
      BY <1>3, <2>1, <2>4
    <3>2. \A v \in Worker : ~SpentBy(v, x, stream, wpc, todo)
      BY <1>1, <2>2 DEF OneWorker, SpentBy, Cur
    <3>3. x \in LeftNow(t)
      BY <1>3, <1>4, <2>1, <3>1, <3>2 DEF LeftNow, LeftOf
    <3> QED BY <2>2, <3>1, <3>3
  <2> QED BY <2>3, <2>4
<1>9. ASSUME NEW x \in LeftNext(t), NEW y \in LeftNext(t), home(x) = home(y) PROVE x = y
  <2>1. x[1] # i /\ y[1] # i
    BY <1>8
  <2>2. x = <<x[1], x[2]>> /\ y = <<y[1], y[2]>>
    BY DEF LeftNext, LeftOf
  <2> QED BY <1>9, <2>1, <2>2
<1> HIDE DEF home
<1>10. h \in Injection(LeftNext(t), LeftNow(t))
  BY <1>8, <1>9 DEF Injection, IsInjective
<1> HIDE DEF h
<1> QED BY <1>7, <1>10, FS_Injection

-------------------------------------------------------------------------------
(* Bounded attempts *)

(* A chain of retries for the call of enqueue and one for each crash and each     *)
(* failed command.                                                                *)
Chains(t, c, k, e) == (k + e) + (IF c[t] = "idle" THEN 0 ELSE 1)

Attempts(t) == failures[t] + Cardinality(LeftNow(t))
AttemptsNext(t) == failures'[t] + Cardinality(LeftNext(t))

(* What has failed and what is left never exceeds MaxRetries attempts a chain.    *)
AttemptsBounded ==
  \A t \in Task : Attempts(t) <= MaxRetries * Chains(t, caller, crashes, faults)

LEMMA AttemptsType ==
  ASSUME TypeOK, TypeOK', NEW t \in Task
  PROVE  /\ Attempts(t) \in Nat /\ AttemptsNext(t) \in Nat
         /\ failures[t] \in Nat /\ failures'[t] \in Nat
         /\ IsFiniteSet(LeftNow(t)) /\ IsFiniteSet(LeftNext(t))
         /\ Cardinality(LeftNow(t)) \in Nat /\ Cardinality(LeftNext(t)) \in Nat
         /\ Chains(t, caller, crashes, faults) \in Nat
<1>1. Len(stream) \in Nat /\ Len(stream') \in Nat
  BY DEF TypeOK
<1>2. failures[t] \in Nat /\ failures'[t] \in Nat
  BY DEF TypeOK
<1>3. /\ IsFiniteSet(LeftNow(t)) /\ IsFiniteSet(LeftNext(t))
      /\ Cardinality(LeftNow(t)) \in Nat /\ Cardinality(LeftNext(t)) \in Nat
  BY <1>1, LeftFinite DEF LeftNow, LeftNext
<1>4. Chains(t, caller, crashes, faults) \in Nat
  BY BoundAssumption DEF Chains, TypeOK
<1> QED BY <1>2, <1>3, <1>4 DEF Attempts, AttemptsNext

(* A step uses attempts up, or opens a chain for at most MaxRetries more.          *)
LEMMA Spends ==
  ASSUME TypeOK, TypeOK', NEW t \in Task,
         Cardinality(LeftNext(t)) <= Cardinality(LeftNow(t)), failures'[t] = failures[t]
  PROVE  AttemptsNext(t) <= Attempts(t)
BY AttemptsType DEF Attempts, AttemptsNext

LEMMA SpendsSubset ==
  ASSUME TypeOK, TypeOK', NEW t \in Task, LeftNext(t) \subseteq LeftNow(t),
         failures'[t] = failures[t]
  PROVE  AttemptsNext(t) <= Attempts(t)
<1>1. Cardinality(LeftNext(t)) <= Cardinality(LeftNow(t))
  BY AttemptsType, FS_Subset
<1> QED BY <1>1, Spends

LEMMA KeepsBound ==
  ASSUME TypeOK, TypeOK', AttemptsBounded, UNCHANGED <<crashes, faults>>,
         \A t \in Task : (caller'[t] = "idle") = (caller[t] = "idle"),
         \A t \in Task : AttemptsNext(t) <= Attempts(t)
  PROVE  \A t \in Task : AttemptsNext(t) <= MaxRetries * Chains(t, caller', crashes', faults')
<1> TAKE t \in Task
<1>1. Chains(t, caller', crashes', faults') = Chains(t, caller, crashes, faults)
  BY DEF Chains
<1>2. PICK z \in Nat : z = MaxRetries * Chains(t, caller, crashes, faults)
  BY AttemptsType, BoundAssumption
<1> QED BY <1>1, <1>2, AttemptsType DEF AttemptsBounded

LEMMA OpensChain ==
  ASSUME TypeOK, TypeOK', AttemptsBounded, NEW t \in Task,
         Chains(t, caller', crashes', faults') = Chains(t, caller, crashes, faults) + 1,
         AttemptsNext(t) <= Attempts(t) + MaxRetries
  PROVE  AttemptsNext(t) <= MaxRetries * Chains(t, caller', crashes', faults')
<1>1. Attempts(t) <= MaxRetries * Chains(t, caller, crashes, faults)
  BY DEF AttemptsBounded
<1> QED BY <1>1, AttemptsType, RoomMore

LEMMA OneChainMore ==
  ASSUME TypeOK, TypeOK', NEW t \in Task, caller'[t] = caller[t],
         crashes' + faults' = crashes + faults + 1
  PROVE  Chains(t, caller', crashes', faults') = Chains(t, caller, crashes, faults) + 1
<1>1. PICK k \in Nat : k = crashes + faults
  BY BoundAssumption DEF TypeOK
<1>2. PICK l \in Nat : l = crashes' + faults' /\ l = k + 1
  BY <1>1
<1>3. PICK b \in Nat : b = IF caller[t] = "idle" THEN 0 ELSE 1
  OBVIOUS
<1>4. Chains(t, caller, crashes, faults) = k + b /\ Chains(t, caller', crashes', faults') = l + b
  BY <1>1, <1>2, <1>3 DEF Chains
<1> QED BY <1>2, <1>4

LEMMA StepAttempts ==
  ASSUME OneWorker, TypeOK, TypeOK', Pending, AttemptsBounded, [Next]_vars
  PROVE  \A t \in Task : AttemptsNext(t) <= MaxRetries * Chains(t, caller', crashes', faults')
<1> DEFINE Goal ==
      \A t \in Task : AttemptsNext(t) <= MaxRetries * Chains(t, caller', crashes', faults')
<1>1. ASSUME UNCHANGED <<stream, delivered, pel, wpc, todo, failures, crashes, faults>>,
             \A t \in Task : (caller'[t] = "idle") = (caller[t] = "idle")
      PROVE  Goal
  <2>1. \A t \in Task : LeftNext(t) = LeftNow(t)
    BY <1>1 DEF LeftNext, LeftNow
  <2>2. \A t \in Task : AttemptsNext(t) <= Attempts(t)
    BY <1>1, <2>1, SpendsSubset
  <2> QED BY <1>1, <2>2, KeepsBound
<1>2. ASSUME NEW w \in Worker, UNCHANGED <<stream, failures, caller, crashes, faults>>,
             \A i \in 1 .. Len(stream) : i > delivered' \/ i \in pel' => i > delivered \/ i \in pel,
             \A x : SpentBy(w, x, stream, wpc, todo) /\ (x[1] > delivered' \/ x[1] \in pel') =>
                      SpentBy(w, x, stream, wpc', todo')
      PROVE  Goal
  <2>1. \A t \in Task : LeftNext(t) \subseteq LeftNow(t)
    BY <1>2, LeftShrinks
  <2>2. \A t \in Task : AttemptsNext(t) <= Attempts(t)
    BY <1>2, <2>1, SpendsSubset
  <2> QED BY <1>2, <2>2, KeepsBound
<1>3. ASSUME NEW w \in Worker, wpc[w] \in {"run", "returned"},
             UNCHANGED <<stream, delivered, pel, todo>>, wpc' = [wpc EXCEPT ![w] = "raised"],
             failures' = [failures EXCEPT ![TaskOf(w)] = @ + 1]
      PROVE  \A t \in Task : AttemptsNext(t) <= Attempts(t)
  <2> TAKE t \in Task
  <2>1. LeftNext(t) \subseteq LeftNow(t)
        /\ (t = TaskOf(w) => Cardinality(LeftNext(t)) + 1 <= Cardinality(LeftNow(t)))
    BY <1>3, LeftFails
  <2>2. CASE t # TaskOf(w)
    <3>1. failures'[t] = failures[t]
      BY <1>3, <2>2 DEF TypeOK
    <3> QED BY <2>1, <3>1, SpendsSubset
  <2>3. CASE t = TaskOf(w)
    <3>1. failures'[t] = failures[t] + 1
      BY <1>3, <2>3 DEF TypeOK
    <3> QED BY <2>1, <2>3, <3>1, AttemptsType DEF Attempts, AttemptsNext
  <2> QED BY <2>2, <2>3
<1>4. ASSUME NEW w \in Worker, UNCHANGED <<stream, delivered, pel, failures, caller>>,
             crashes' + faults' = crashes + faults + 1
      PROVE  Goal
  <2> SUFFICES ASSUME NEW t \in Task
               PROVE  AttemptsNext(t) <= MaxRetries * Chains(t, caller', crashes', faults')
    OBVIOUS
  <2>1. Cardinality(LeftNext(t)) <= Cardinality(LeftNow(t)) + MaxRetries
    BY <1>4, LeftReturned, OneEntryMore, AttemptsType
  <2>2. AttemptsNext(t) <= Attempts(t) + MaxRetries
    BY <1>4, <2>1, AttemptsType, BoundAssumption DEF Attempts, AttemptsNext
  <2>3. Chains(t, caller', crashes', faults') = Chains(t, caller, crashes, faults) + 1
    BY <1>4, OneChainMore
  <2> QED BY <2>2, <2>3, OpensChain
<1>5. ASSUME NEW w \in Worker, Loop(w) PROVE Goal
  <2>1. UNCHANGED <<caller, crashes, faults>>
    BY <1>5 DEF Loop, Start, Scan, Read, Pick, Begin, Run, SetCompleted, Raised, SetRetrying,
                DeadLetter, Ack, bounds
  <2>2. CASE Run(w)
    <3>1. CASE UNCHANGED failures /\ Goto(w, "returned")
      BY <1>2, <2>1, <2>2, <3>1 DEF Run, Goto, SpentBy, group
    <3>2. CASE /\ failures' = [failures EXCEPT ![TaskOf(w)] = @ + 1] /\ Goto(w, "raised")
      <4>1. \A t \in Task : AttemptsNext(t) <= Attempts(t)
        BY <1>3, <2>2, <3>2 DEF Run, Goto, group
      <4> QED BY <2>1, <4>1, KeepsBound
    <3> QED BY <2>2, <3>1, <3>2, RunCases
  <2>3. CASE Raised(w) /\ RetriesOf(w) + 1 < MaxRetries
    <3>1. \A t \in Task : failures'[t] = failures[t]
      BY <2>3 DEF Raised, history
    <3>2. \A t \in Task : AttemptsNext(t) <= Attempts(t)
      BY <2>3, <3>1, LeftMoves, Spends
    <3> QED BY <2>1, <3>2, KeepsBound
  <2>4. CASE Raised(w) /\ ~(RetriesOf(w) + 1 < MaxRetries)
    BY <1>2, <2>1, <2>4 DEF Raised, Goto, SpentBy, TypeOK, history
  <2>5. CASE Read(w)
    <3>1. /\ UNCHANGED <<stream, failures>> /\ wpc[w] = "read"
          /\ \A i \in 1 .. Len(stream) : i > delivered' \/ i \in pel' => i > delivered \/ i \in pel
      <4>1. UNCHANGED <<stream, failures>> /\ wpc[w] = "read"
        BY <2>5 DEF Read, history
      <4>2. PICK d \in Nat, n \in Nat : d = delivered /\ n = IF d + 1 < first THEN first ELSE d + 1
        BY DEF TypeOK
      <4>3. \/ delivered' = n /\ pel' = pel \cup {n}
            \/ UNCHANGED <<delivered, pel>>
        BY <2>5, <4>2 DEF Read
      <4>4. d < n
        BY <4>2 DEF TypeOK
      <4> QED BY <4>1, <4>2, <4>3, <4>4
    <3>2. \A x : ~SpentBy(w, x, stream, wpc, todo)
      BY <3>1 DEF SpentBy
    <3> QED BY <1>2, <2>1, <3>1, <3>2
  <2>6. CASE Ack(w)
    <3>1. /\ UNCHANGED <<stream, failures, delivered>> /\ pel' = pel \ {Cur(w)}
          /\ Cur(w) \in 1 .. delivered /\ delivered \in Nat
      <4>1. wpc[w] \notin Idle /\ delivered \in Nat
        BY <2>6 DEF Ack, Idle, TypeOK
      <4>2. Cur(w) \in 1 .. delivered
        BY <4>1, EntryOf
      <4> QED BY <2>6, <4>1, <4>2 DEF Ack, history
    <3>2. \A x : SpentBy(w, x, stream, wpc, todo) => ~(x[1] > delivered' \/ x[1] \in pel')
      BY <3>1 DEF SpentBy, Cur
    <3> QED BY <1>2, <2>1, <3>1, <3>2
  <2>7. CASE Start(w) \/ Scan(w) \/ Pick(w) \/ Begin(w) \/ SetCompleted(w)
    <3>1. /\ UNCHANGED <<stream, failures, delivered, pel>>
          /\ wpc[w] \in {"off", "scan", "pick", "begin", "returned"}
      BY <2>7 DEF Start, Scan, Pick, Begin, SetCompleted, history, group
    <3>2. \A x : ~SpentBy(w, x, stream, wpc, todo)
      BY <3>1 DEF SpentBy
    <3> QED BY <1>2, <2>1, <3>1, <3>2
  <2>8. CASE SetRetrying(w) \/ DeadLetter(w)
    BY <1>2, <2>1, <2>8 DEF SetRetrying, DeadLetter, Goto, SpentBy, TypeOK, history, group
  <2> QED BY <1>5, <2>2, <2>3, <2>4, <2>5, <2>6, <2>7, <2>8 DEF Loop
<1>6. ASSUME NEW w \in Worker, Fault(w) PROVE Goal
  <2>1. /\ UNCHANGED <<stream, delivered, pel, caller, crashes>> /\ faults' = faults + 1
    BY <1>6 DEF Fault, group
  <2>2. crashes' + faults' = crashes + faults + 1
    BY <2>1 DEF TypeOK
  <2>3. CASE UNCHANGED failures
    BY <1>4, <2>1, <2>2, <2>3
  <2>4. CASE /\ wpc[w] = "returned" /\ Goto(w, "raised") /\ UNCHANGED todo
             /\ failures' = [failures EXCEPT ![TaskOf(w)] = @ + 1]
    <3>1. \A t \in Task : AttemptsNext(t) <= Attempts(t)
      BY <1>3, <2>1, <2>4 DEF Goto
    <3>2. ASSUME NEW t \in Task PROVE AttemptsNext(t) <= Attempts(t) + MaxRetries
      BY <3>1, AttemptsType, BoundAssumption
    <3> QED BY <2>1, <2>2, <3>2, OneChainMore, OpensChain
  <2> QED BY <1>6, <2>3, <2>4 DEF Fault
<1>7. ASSUME NEW w \in Worker, Crash(w) PROVE Goal
  <2>1. /\ UNCHANGED <<stream, delivered, pel, caller, faults, failures>> /\ crashes' = crashes + 1
    BY <1>7 DEF Crash, group, history
  <2>2. crashes' + faults' = crashes + faults + 1
    BY <2>1 DEF TypeOK
  <2> QED BY <1>4, <2>1, <2>2
<1>8. ASSUME NEW u \in Task, Enqueue(u) PROVE Goal
  <2>1. /\ UNCHANGED <<delivered, pel, wpc, todo, failures, crashes, faults>> /\ XAdd(u, 0)
        /\ caller[u] = "idle" /\ caller'[u] = "added"
        /\ \A t \in Task : t # u => caller'[t] = caller[t]
    BY <1>8 DEF Enqueue, history, bounds, TypeOK
  <2>2. PICK n \in Nat : n = Len(stream)
    BY DEF TypeOK
  <2>3. 0 \in 0 .. (MaxRetries - 1)
    BY BoundAssumption
  <2>4. /\ Len(stream') = n + 1 /\ stream'[n + 1] = [task |-> u, retries |-> 0]
        /\ \A j \in 1 .. n : stream'[j] = stream[j]
    BY <2>1, <2>2, <2>3, XAddGrows DEF Grows
  <2>5. ASSUME NEW t \in Task, NEW x \in LeftNext(t), x[1] # n + 1 PROVE x \in LeftNow(t)
    <3>1. /\ x \in (1 .. n) \X (0 .. MaxRetries - 1)
          /\ stream[x[1]].task = t /\ stream[x[1]].retries <= x[2]
          /\ x[1] > delivered \/ x[1] \in pel
          /\ \A v \in Worker : ~SpentBy(v, x, stream', wpc, todo)
      BY <2>1, <2>2, <2>4, <2>5 DEF LeftNext, LeftOf
    <3>2. \A v \in Worker : ~SpentBy(v, x, stream, wpc, todo)
      BY <2>4, <3>1 DEF SpentBy
    <3> QED BY <2>2, <3>1, <3>2 DEF LeftNow, LeftOf
  <2>6. ASSUME NEW t \in Task, t # u
        PROVE  AttemptsNext(t) <= MaxRetries * Chains(t, caller', crashes', faults')
    <3>1. \A x \in LeftNext(t) : x[1] # n + 1
      BY <2>4, <2>6 DEF LeftNext, LeftOf
    <3>2. AttemptsNext(t) <= Attempts(t)
      BY <2>1, <2>5, <3>1, SpendsSubset
    <3>3. Chains(t, caller', crashes', faults') = Chains(t, caller, crashes, faults)
      BY <2>1, <2>6 DEF Chains
    <3>4. PICK z \in Nat : z = MaxRetries * Chains(t, caller, crashes, faults)
      BY AttemptsType, BoundAssumption
    <3> QED BY <3>2, <3>3, <3>4, AttemptsType DEF AttemptsBounded
  <2>7. AttemptsNext(u) <= MaxRetries * Chains(u, caller', crashes', faults')
    <3>1. LeftNext(u) \subseteq LeftNow(u) \cup ({n + 1} \X (0 .. MaxRetries - 1))
      <4>1. ASSUME NEW x \in LeftNext(u), x[1] = n + 1
            PROVE  x \in {n + 1} \X (0 .. MaxRetries - 1)
        BY <4>1 DEF LeftNext, LeftOf
      <4> QED BY <2>5, <4>1
    <3>2. Cardinality(LeftNext(u)) <= Cardinality(LeftNow(u)) + MaxRetries
      BY <3>1, AttemptsType, OneEntryMore
    <3>3. AttemptsNext(u) <= Attempts(u) + MaxRetries
      BY <2>1, <3>2, AttemptsType, BoundAssumption DEF Attempts, AttemptsNext
    <3>4. Chains(u, caller', crashes', faults') = Chains(u, caller, crashes, faults) + 1
      BY <2>1, BoundAssumption DEF Chains, TypeOK
    <3> QED BY <3>3, <3>4, OpensChain
  <2> QED BY <2>6, <2>7
<1>9. ASSUME NEW u \in Task, SetPending(u) PROVE Goal
  <2>1. /\ UNCHANGED <<stream, delivered, pel, wpc, todo, failures, crashes, faults>>
        /\ \A t \in Task : (caller'[t] = "idle") = (caller[t] = "idle")
    BY <1>9 DEF SetPending, group, history, bounds, TypeOK
  <2> QED BY <1>1, <2>1
<1>10. ASSUME NEW p \in reports, Report(p) PROVE Goal
  <2>1. UNCHANGED <<caller, stream, delivered, pel, wpc, todo, failures, crashes, faults>>
    BY <1>10 DEF Report, group, history, bounds
  <2> QED BY <1>1, <2>1
<1>11. CASE UNCHANGED vars
  <2>1. UNCHANGED <<caller, stream, delivered, pel, wpc, todo, failures, crashes, faults>>
    BY <1>11 DEF vars, group, history, bounds
  <2> QED BY <1>1, <2>1
<1> QED BY <1>5, <1>6, <1>7, <1>8, <1>9, <1>10, <1>11 DEF Next

(* With one server process a task never fails more often than MaxRetries times for   *)
(* the call of enqueue and for each crash and each failed Redis command.             *)
THEOREM AttemptsAlwaysBounded ==
  ASSUME OneWorker
  PROVE  Spec => []RetryChainsBounded
<1> DEFINE AInv == TypeOK /\ Pending /\ AttemptsBounded
<1>1. Init => AInv
  <2> SUFFICES ASSUME Init PROVE AInv
    OBVIOUS
  <2>1. TypeOK
    BY InitType
  <2>2. Pending
    BY DEF Init, Pending, Ascends
  <2>3. ASSUME NEW t \in Task
        PROVE  Attempts(t) <= MaxRetries * Chains(t, caller, crashes, faults)
    <3>1. LeftNow(t) = {}
      BY DEF Init, LeftNow, LeftOf
    <3>2. Attempts(t) = 0
      BY <3>1, FS_EmptySet DEF Init, Attempts
    <3>3. Chains(t, caller, crashes, faults) = 0
      BY DEF Init, Chains
    <3> QED BY <3>2, <3>3, BoundAssumption
  <2> QED BY <2>1, <2>2, <2>3 DEF AttemptsBounded
<1>2. AInv /\ [Next]_vars => AInv'
  <2> SUFFICES ASSUME AInv, [Next]_vars PROVE AInv'
    OBVIOUS
  <2>1. TypeOK' /\ Pending'
    BY StepType, StepPending
  <2>2. \A t \in Task : AttemptsNext(t) <= MaxRetries * Chains(t, caller', crashes', faults')
    BY <2>1, StepAttempts
  <2>3. AttemptsBounded'
    BY <2>2 DEF AttemptsBounded, Attempts, AttemptsNext, LeftNow, LeftNext
  <2> QED BY <2>1, <2>3
<1>3. AInv => RetryChainsBounded
  <2> SUFFICES ASSUME AInv, NEW t \in Task
               PROVE  failures[t] <= MaxRetries * (1 + crashes + faults)
    BY DEF RetryChainsBounded
  <2>1. Attempts(t) <= MaxRetries * Chains(t, caller, crashes, faults)
    BY DEF AttemptsBounded
  <2>2. failures[t] \in Nat /\ Cardinality(LeftNow(t)) \in Nat
    BY LeftFinite DEF TypeOK, LeftNow
  <2>3. crashes \in Nat /\ faults \in Nat
    BY BoundAssumption DEF TypeOK
  <2>4. PICK k \in Nat : k = crashes + faults
    BY <2>3
  <2>5. /\ MaxRetries * k <= MaxRetries * (k + 1)
        /\ MaxRetries * (k + 1) = MaxRetries * (1 + crashes + faults)
    <3>1. k + 1 = 1 + crashes + faults
      BY <2>3, <2>4
    <3>2. MaxRetries * (k + 1) = MaxRetries * k + MaxRetries /\ MaxRetries * k \in Nat
      BY BoundAssumption
    <3> QED BY <3>1, <3>2, BoundAssumption
  <2>6. Chains(t, caller, crashes, faults) \in {k, k + 1}
    BY <2>3, <2>4 DEF Chains
  <2>7. MaxRetries * k \in Nat /\ MaxRetries * (k + 1) \in Nat
    BY BoundAssumption
  <2> QED BY <2>1, <2>2, <2>5, <2>6, <2>7 DEF Attempts
<1> HIDE DEF AInv
<1> QED BY <1>1, <1>2, <1>3, PTL DEF Spec
===============================================================================
