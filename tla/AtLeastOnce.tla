------------------------------ MODULE AtLeastOnce ------------------------------
(* What the background task queue promises its callers: a task that was        *)
(* accepted is attempted until its handler returns, until MaxRetries attempts   *)
(* have failed, or until it turns out that nothing is registered under its      *)
(* name.  It may be attempted again after that (at least once, not exactly).    *)
EXTENDS Naturals

CONSTANTS Task, MaxRetries

VARIABLES
  accepted,   \* the tasks a caller handed over
  failures,   \* how many attempts of each task failed
  outcome     \* how each task was settled, "none" until it is

vars == <<accepted, failures, outcome>>

Init ==
  /\ accepted = {}
  /\ failures = [t \in Task |-> 0]
  /\ outcome = [t \in Task |-> "none"]

Accept(t) ==
  /\ accepted' = accepted \cup {t}
  /\ UNCHANGED <<failures, outcome>>

Fail(t) ==
  /\ t \in accepted
  /\ failures' = [failures EXCEPT ![t] = @ + 1]
  /\ UNCHANGED <<accepted, outcome>>

(* A duplicate attempt may still succeed after the task was given up.           *)
Succeed(t) ==
  /\ t \in accepted
  /\ outcome' = [outcome EXCEPT ![t] = "returned"]
  /\ UNCHANGED <<accepted, failures>>

GiveUp(t) ==
  /\ t \in accepted
  /\ outcome[t] = "none"
  /\ failures[t] >= MaxRetries
  /\ outcome' = [outcome EXCEPT ![t] = "dead"]
  /\ UNCHANGED <<accepted, failures>>

Refuse(t) ==
  /\ t \in accepted
  /\ outcome[t] = "none"
  /\ outcome' = [outcome EXCEPT ![t] = "unknown"]
  /\ UNCHANGED <<accepted, failures>>

Next == \E t \in Task : Accept(t) \/ Fail(t) \/ Succeed(t) \/ GiveUp(t) \/ Refuse(t)

Spec == Init /\ [][Next]_vars

Settled == \A t \in Task : (t \in accepted) ~> (outcome[t] # "none")
===============================================================================
