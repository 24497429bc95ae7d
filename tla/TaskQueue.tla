------------------------------- MODULE TaskQueue -------------------------------
(***************************************************************************)
(* The background task queue (backend/app/core/task_queue.py): a Redis      *)
(* stream read through one consumer group, a status key per task, a worker  *)
(* loop per server process and a dead-letter stream.                        *)
(*                                                                          *)
(* Redis commands are atomic; every await on one is a step boundary.  The   *)
(* id of a stream entry is its position in `stream'.  XADD's MAXLEN drops   *)
(* the oldest entries whether or not they were delivered or acknowledged;   *)
(* XPENDING lists the oldest pending entries of the whole group, those of   *)
(* other workers included.  A process can die at any step and is restarted; *)
(* a Redis command can fail.                                                *)
(***************************************************************************)
EXTENDS Integers, Sequences, FiniteSets

CONSTANTS
  Task,         \* the calls of enqueue
  Registered,   \* the tasks whose name is in _task_registry
  Reporting,    \* the tasks whose handler swallows its errors and reports its
                \* own outcome through progress_callback (onboarding_setup)
  Worker,       \* the server processes
  MaxRetries,   \* TASK_MAX_RETRIES
  StreamMax,    \* the maxlen of XADD
  ScanMax,      \* the count of xpending_range
  MaxCrashes,   \* bound on process deaths
  MaxFaults     \* bound on failed Redis commands

ASSUME TaskAssumption == Registered \subseteq Task /\ Reporting \subseteq Registered

ASSUME BoundAssumption ==
  /\ MaxRetries \in Nat \ {0}
  /\ StreamMax \in Nat \ {0}
  /\ ScanMax \in Nat \ {0}
  /\ MaxCrashes \in Nat
  /\ MaxFaults \in Nat

VARIABLES
  caller,     \* where the call of enqueue of each task is
  stream,     \* every entry ever added: the task and its payload's "retries"
  first,      \* the oldest entry MAXLEN has not dropped
  trimmed,    \* history: the tasks with an entry dropped before it was acknowledged
  delivered,  \* the group's last delivered id
  pel,        \* the group's pending entries
  status,     \* successcore:task_status:<task>
  dlq,        \* the tasks in the dead-letter stream
  wpc,        \* where each worker is
  todo,       \* the ids it still has to process in this round
  fresh,      \* the id xreadgroup returned in this round, 0 if none
  reports,    \* _update_status tasks not yet run: [worker, task, status]
  returned,   \* history: the tasks whose handler returned
  unknown,    \* history: the tasks refused as unknown
  failures,   \* history: how often each task went through the except branch
  crashes, faults

group == <<first, trimmed, delivered, pel>>
history == <<returned, unknown, failures>>
bounds == <<crashes, faults>>
vars == <<caller, stream, group, status, dlq, wpc, todo, fresh, reports, history, bounds>>

-------------------------------------------------------------------------------
Status == {"not_found", "pending", "running", "retrying", "completed", "failed"}

(* "ended": the worker's coroutine is over, _worker_running still says True.     *)
WorkerState == {"off", "ended", "scan", "read", "pick", "begin", "run", "returned",
                "raised", "requeued", "dead", "ack"}

(* A worker outside of these states is processing an entry.                     *)
Idle == {"off", "ended", "scan", "read", "pick"}

TypeOK ==
  /\ caller \in [Task -> {"idle", "added", "done"}]
  /\ stream \in Seq([task : Task, retries : 0 .. (MaxRetries - 1)])
  /\ first \in 1 .. (Len(stream) + 1)
  /\ trimmed \subseteq Task
  /\ delivered \in 0 .. Len(stream)
  /\ pel \subseteq 1 .. delivered
  /\ status \in [Task -> Status]
  /\ dlq \subseteq Task
  /\ wpc \in [Worker -> WorkerState]
  /\ todo \in [Worker -> Seq(1 .. delivered)]
  /\ \A w \in Worker : wpc[w] \notin Idle => todo[w] # <<>>
  /\ fresh \in [Worker -> 0 .. delivered]
  /\ reports \subseteq [worker : Worker, task : Task, status : Status]
  /\ returned \subseteq Task
  /\ unknown \subseteq Task
  /\ failures \in [Task -> Nat]
  /\ crashes \in 0 .. MaxCrashes
  /\ faults \in 0 .. MaxFaults

Init ==
  /\ caller = [t \in Task |-> "idle"]
  /\ stream = <<>>
  /\ first = 1
  /\ trimmed = {}
  /\ delivered = 0
  /\ pel = {}
  /\ status = [t \in Task |-> "not_found"]
  /\ dlq = {}
  /\ wpc = [w \in Worker |-> "off"]
  /\ todo = [w \in Worker |-> <<>>]
  /\ fresh = [w \in Worker |-> 0]
  /\ reports = {}
  /\ returned = {}
  /\ unknown = {}
  /\ failures = [t \in Task |-> 0]
  /\ crashes = 0
  /\ faults = 0

(* The entry a worker is processing, its task and its retries.                  *)
Cur(w) == Head(todo[w])
TaskOf(w) == stream[Cur(w)].task
RetriesOf(w) == stream[Cur(w)].retries

Goto(w, s) == wpc' = [wpc EXCEPT ![w] = s]

(* r.set(task_status:<t>, s).                                                   *)
SetStatus(t, s) == status' = [status EXCEPT ![t] = s]

(* The group will hand entry i out: for the first time, or as pending.          *)
Live(i) == i >= first /\ (i > delivered \/ i \in pel)

(* r.xadd(STREAM_KEY, ..., maxlen=StreamMax).                                   *)
XAdd(t, n) ==
  /\ stream' = Append(stream, [task |-> t, retries |-> n])
  /\ first' = IF Len(stream) + 1 - StreamMax >= first
              THEN Len(stream) + 2 - StreamMax ELSE first
  /\ trimmed' = trimmed \cup
       {stream[i].task : i \in {j \in DOMAIN stream : Live(j) /\ j < first'}}

(* The count oldest members of a set of ids (xpending_range).                   *)
Oldest(S, count) == {i \in S : Cardinality({j \in S : j < i}) < count}

(* The sequences that list a set of ids in ascending order: there is one.       *)
Ascending(S) ==
  {q \in [1 .. Cardinality(S) -> S] : \A i, j \in DOMAIN q : i < j => q[i] < q[j]}

-------------------------------------------------------------------------------
(* enqueue: the entry first, the status key afterwards.                         *)
Enqueue(t) ==
  /\ caller[t] = "idle"
  /\ caller' = [caller EXCEPT ![t] = "added"]
  /\ XAdd(t, 0)
  /\ UNCHANGED <<delivered, pel, status, dlq, wpc, todo, fresh, reports, history, bounds>>

SetPending(t) ==
  /\ caller[t] = "added"
  /\ caller' = [caller EXCEPT ![t] = "done"]
  /\ SetStatus(t, "pending")
  /\ UNCHANGED <<stream, group, dlq, wpc, todo, fresh, reports, history, bounds>>

(* start_worker, also after the process was restarted: the loop is reached when  *)
(* the group could be created or found (otherwise: Fault).                      *)
Start(w) ==
  /\ wpc[w] = "off"
  /\ Goto(w, "scan")
  /\ UNCHANGED <<caller, stream, group, status, dlq, todo, fresh, reports, history, bounds>>

(* Mutant: entries left pending by a crash are not looked at.                   *)
ScanNothing(w) ==
  /\ wpc[w] = "scan"
  /\ todo' = [todo EXCEPT ![w] = <<>>]
  /\ Goto(w, "read")
  /\ UNCHANGED <<caller, stream, group, status, dlq, fresh, reports, history, bounds>>

(* xpending_range: the pending entries, of any worker, of any age.              *)
Scan(w) ==
  /\ wpc[w] = "scan"
  /\ \E q \in Ascending(Oldest(pel, ScanMax)) : todo' = [todo EXCEPT ![w] = q]
  /\ Goto(w, "read")
  /\ UNCHANGED <<caller, stream, group, status, dlq, fresh, reports, history, bounds>>

(* xreadgroup: one entry not yet delivered, or none when the block times out.   *)
Read(w) ==
  /\ wpc[w] = "read"
  /\ LET next == IF delivered + 1 < first THEN first ELSE delivered + 1 IN
     IF next <= Len(stream)
     THEN /\ delivered' = next
          /\ pel' = pel \cup {next}
          /\ todo' = [todo EXCEPT ![w] = Append(@, next)]
          /\ fresh' = [fresh EXCEPT ![w] = next]
     ELSE /\ fresh' = [fresh EXCEPT ![w] = 0]
          /\ UNCHANGED <<delivered, pel, todo>>
  /\ Goto(w, "pick")
  /\ UNCHANGED <<caller, stream, first, trimmed, status, dlq, reports, history, bounds>>

(* The next entry of the round; xrange finds nothing of a dropped one, which    *)
(* is passed over and stays pending.                                            *)
Pick(w) ==
  /\ wpc[w] = "pick"
  /\ IF todo[w] = <<>> THEN Goto(w, "scan") /\ UNCHANGED todo
     ELSE IF Cur(w) >= first \/ Cur(w) = fresh[w]
          THEN Goto(w, "begin") /\ UNCHANGED todo
          ELSE todo' = [todo EXCEPT ![w] = Tail(@)] /\ UNCHANGED wpc
  /\ UNCHANGED <<caller, stream, group, status, dlq, fresh, reports, history, bounds>>

(* _execute_task: unknown names fail at once, others are marked running.        *)
Begin(w) ==
  /\ wpc[w] = "begin"
  /\ IF TaskOf(w) \in Registered
     THEN SetStatus(TaskOf(w), "running") /\ Goto(w, "run") /\ UNCHANGED unknown
     ELSE /\ SetStatus(TaskOf(w), "failed")
          /\ Goto(w, "ack")
          /\ unknown' = unknown \cup {TaskOf(w)}
  /\ UNCHANGED <<caller, stream, group, dlq, todo, fresh, reports, returned, failures, bounds>>

(* The handler returns, or raises unless it swallows its own errors; a          *)
(* reporting one leaves its last progress report and its outcome behind.        *)
Run(w) ==
  /\ wpc[w] = "run"
  /\ LET t == TaskOf(w) IN
     \/ /\ Goto(w, "returned")
        /\ returned' = returned \cup {t}
        /\ IF t \in Reporting
           THEN \E s \in {"completed", "failed"} :
                  reports' = reports \cup
                    {[worker |-> w, task |-> t, status |-> x] : x \in {"running", s}}
           ELSE UNCHANGED reports
        /\ UNCHANGED failures
     \/ /\ t \notin Reporting
        /\ Goto(w, "raised")
        /\ failures' = [failures EXCEPT ![t] = @ + 1]
        /\ UNCHANGED <<returned, reports>>
  /\ UNCHANGED <<caller, stream, group, status, dlq, todo, fresh, unknown, bounds>>

SetCompleted(w) ==
  /\ wpc[w] = "returned"
  /\ SetStatus(TaskOf(w), "completed")
  /\ Goto(w, "ack")
  /\ UNCHANGED <<caller, stream, group, dlq, todo, fresh, reports, history, bounds>>

(* Mutant: gives up one attempt early.                                          *)
RaisedEarly(w) ==
  /\ wpc[w] = "raised"
  /\ IF RetriesOf(w) + 2 < MaxRetries
     THEN XAdd(TaskOf(w), RetriesOf(w) + 1) /\ Goto(w, "requeued") /\ UNCHANGED status
     ELSE /\ SetStatus(TaskOf(w), "failed")
          /\ Goto(w, "dead")
          /\ UNCHANGED <<stream, first, trimmed>>
  /\ UNCHANGED <<caller, delivered, pel, dlq, todo, fresh, reports, history, bounds>>

(* Mutant: the retried entry keeps its old count.                               *)
RaisedForgets(w) ==
  /\ wpc[w] = "raised"
  /\ IF RetriesOf(w) + 1 < MaxRetries
     THEN XAdd(TaskOf(w), RetriesOf(w)) /\ Goto(w, "requeued") /\ UNCHANGED status
     ELSE /\ SetStatus(TaskOf(w), "failed")
          /\ Goto(w, "dead")
          /\ UNCHANGED <<stream, first, trimmed>>
  /\ UNCHANGED <<caller, delivered, pel, dlq, todo, fresh, reports, history, bounds>>

(* Mutant: one attempt too many.                                                *)
RaisedOneMore(w) ==
  /\ wpc[w] = "raised"
  /\ IF RetriesOf(w) + 1 <= MaxRetries
     THEN XAdd(TaskOf(w), RetriesOf(w) + 1) /\ Goto(w, "requeued") /\ UNCHANGED status
     ELSE /\ SetStatus(TaskOf(w), "failed")
          /\ Goto(w, "dead")
          /\ UNCHANGED <<stream, first, trimmed>>
  /\ UNCHANGED <<caller, delivered, pel, dlq, todo, fresh, reports, history, bounds>>

(* Mutant: shown as retrying but not added again.                               *)
RaisedSwallows(w) ==
  /\ wpc[w] = "raised"
  /\ IF RetriesOf(w) + 1 < MaxRetries
     THEN Goto(w, "requeued") /\ UNCHANGED status
     ELSE SetStatus(TaskOf(w), "failed") /\ Goto(w, "dead")
  /\ UNCHANGED <<caller, stream, group, dlq, todo, fresh, reports, history, bounds>>

(* After the backoff the payload is added again with one more retry; the last   *)
(* attempt marks the task failed instead.                                       *)
Raised(w) ==
  /\ wpc[w] = "raised"
  /\ IF RetriesOf(w) + 1 < MaxRetries
     THEN XAdd(TaskOf(w), RetriesOf(w) + 1) /\ Goto(w, "requeued") /\ UNCHANGED status
     ELSE /\ SetStatus(TaskOf(w), "failed")
          /\ Goto(w, "dead")
          /\ UNCHANGED <<stream, first, trimmed>>
  /\ UNCHANGED <<caller, delivered, pel, dlq, todo, fresh, reports, history, bounds>>

SetRetrying(w) ==
  /\ wpc[w] = "requeued"
  /\ SetStatus(TaskOf(w), "retrying")
  /\ Goto(w, "ack")
  /\ UNCHANGED <<caller, stream, group, dlq, todo, fresh, reports, history, bounds>>

DeadLetter(w) ==
  /\ wpc[w] = "dead"
  /\ dlq' = dlq \cup {TaskOf(w)}
  /\ Goto(w, "ack")
  /\ UNCHANGED <<caller, stream, group, status, todo, fresh, reports, history, bounds>>

Ack(w) ==
  /\ wpc[w] = "ack"
  /\ pel' = pel \ {Cur(w)}
  /\ todo' = [todo EXCEPT ![w] = Tail(@)]
  /\ Goto(w, "pick")
  /\ UNCHANGED <<caller, stream, first, trimmed, delivered, status, dlq, fresh, reports, history,
                 bounds>>

(* A Redis command fails.  Inside the try of _execute_task (the write of        *)
(* "completed") that counts as a failed attempt; in its except branch or before *)
(* it the loop logs the error and passes on, the entry stays pending; in the    *)
(* two reads of the round the whole round is given up.  Before the loop's try,  *)
(* in get_redis and _ensure_consumer_group, it ends the worker for good.        *)
Fault(w) ==
  /\ faults < MaxFaults
  /\ faults' = faults + 1
  /\ \/ /\ wpc[w] = "returned"
        /\ Goto(w, "raised")
        /\ failures' = [failures EXCEPT ![TaskOf(w)] = @ + 1]
        /\ UNCHANGED todo
     \/ /\ \/ wpc[w] \in {"begin", "raised", "requeued", "dead", "ack"}
           \/ wpc[w] = "pick" /\ todo[w] # <<>> /\ Cur(w) # fresh[w]
        /\ Goto(w, "pick")
        /\ todo' = [todo EXCEPT ![w] = Tail(@)]
        /\ UNCHANGED failures
     \/ /\ wpc[w] = "read"
        /\ Goto(w, "scan")
        /\ UNCHANGED <<todo, failures>>
     \/ /\ wpc[w] = "off"
        /\ Goto(w, "ended")
        /\ UNCHANGED <<todo, failures>>
  /\ UNCHANGED <<caller, stream, group, status, dlq, fresh, reports, returned, unknown, crashes>>

(* The process dies: its loop and its unrun _update_status tasks are gone.      *)
Crash(w) ==
  /\ crashes < MaxCrashes
  /\ wpc[w] # "off"
  /\ crashes' = crashes + 1
  /\ Goto(w, "off")
  /\ todo' = [todo EXCEPT ![w] = <<>>]
  /\ fresh' = [fresh EXCEPT ![w] = 0]
  /\ reports' = {p \in reports : p.worker # w}
  /\ UNCHANGED <<caller, stream, group, status, dlq, history, faults>>

(* _update_status, scheduled by progress_callback and awaited by nobody; of     *)
(* its read-modify-write only the status is kept.                               *)
Report(p) ==
  /\ p \in reports
  /\ SetStatus(p.task, p.status)
  /\ reports' = reports \ {p}
  /\ UNCHANGED <<caller, stream, group, dlq, wpc, todo, fresh, history, bounds>>

Loop(w) ==
  \/ Start(w) \/ Scan(w) \/ Read(w) \/ Pick(w) \/ Begin(w) \/ Run(w)
  \/ SetCompleted(w) \/ Raised(w) \/ SetRetrying(w) \/ DeadLetter(w) \/ Ack(w)

Next ==
  \/ \E t \in Task : Enqueue(t) \/ SetPending(t)
  \/ \E w \in Worker : Loop(w) \/ Fault(w) \/ Crash(w)
  \/ \E p \in reports : Report(p)

(* The event loop runs the worker's coroutine and handlers end; the platform    *)
(* restarts a dead process.  Nothing is assumed of the callers.                 *)
Fairness == \A w \in Worker : WF_vars(Loop(w))

Spec == Init /\ [][Next]_vars

FairSpec == Spec /\ Fairness

-------------------------------------------------------------------------------
(* Properties *)

Accepted == {t \in Task : caller[t] # "idle"}

Settled(t) == t \in returned \cup unknown \cup dlq

(* No server has a worker: the lifespan starts each once and never looks again.  *)
NoWorkerLeft == \A w \in Worker : wpc[w] = "ended"

Covered(t, k) ==
  \/ Settled(t)
  \/ \E i \in DOMAIN stream : i > k /\ stream[i].task = t /\ Live(i)

(* "At-least-once delivery": whatever crashes and Redis failures happen between *)
(* XADD, the handler, the re-XADD and XACK, an accepted task has been settled   *)
(* or the group still has an entry of it to hand out, unless MAXLEN dropped an  *)
(* entry of this very task before it was acknowledged.                          *)
NoTaskLost == \A t \in Accepted \ trimmed : Covered(t, 0)

(* A task is dead-lettered, or shown as failed, only after MaxRetries of its    *)
(* attempts failed, whichever of its duplicate entries they belonged to.        *)
DeadLetterEarned ==
  \A t \in Task :
    t \in dlq \/ (status[t] = "failed" /\ t \in Registered \ Reporting) =>
      failures[t] >= MaxRetries

(* With one worker a crash or a Redis failure at the wrong step can fork one    *)
(* more chain of retries, no more: the attempts stay bounded.                   *)
RetryChainsBounded ==
  \A t \in Task : failures[t] <= MaxRetries * (1 + crashes + faults)

(* An accepted task does not wait for ever, unless MAXLEN dropped it or Redis   *)
(* failed at the start of every worker: such a server takes calls of enqueue    *)
(* and runs none of them until its process is restarted.                        *)
EventuallySettled ==
  \A t \in Task : (t \in Accepted) ~> (Settled(t) \/ t \in trimmed \/ NoWorkerLeft)

Promise == INSTANCE AtLeastOnce WITH
  accepted <- Accepted,
  outcome <- [t \in Task |-> CASE t \in returned -> "returned"
                                [] t \in dlq \ returned -> "dead"
                                [] t \in unknown \ (returned \cup dlq) -> "unknown"
                                [] OTHER -> "none"]

(* The queue implements AtLeastOnce.                                            *)
KeepsPromise == Promise!Spec
===============================================================================
