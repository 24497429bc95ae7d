---------------------------- MODULE ProviderCascade ----------------------------
(***************************************************************************)
(* How a call of a language model finds a model that answers: the cascades  *)
(* of backend/app/services/agent_executor.py and agent_streaming.py over    *)
(* the circuit breaker of model_fallback.py, and the cache of answers of    *)
(* llm_cache.py in front of it.                                             *)
(*                                                                          *)
(* A model stands for its provider, which the breaker counts by.  Of time   *)
(* only whether a provider's last failure is recent is kept: that is, no    *)
(* more than CIRCUIT_BREAKER_COOLDOWN ago.  A try is one _safe_call with    *)
(* its retries.  An agent may list its fallbacks as objects, which          *)
(* parse_fallback_models takes as they are when they name a model: such an  *)
(* entry may have no provider.  The cache's second tier, of templates       *)
(* (llm_cache.py:86), is left out.                                          *)
(***************************************************************************)
EXTENDS Integers, Sequences, FiniteSets

CONSTANTS
  Call, Provider,
  KindOf,      \* "run" (a run's loop), "direct" (domain services) or "stream"
  QuestionOf,  \* model, messages and tools
  Models,      \* build_full_cascade of a call, each entry its provider
  NoProvider,  \* of an entry without one
  Threshold,   \* CIRCUIT_BREAKER_THRESHOLD
  Sound        \* providers that answer a call (its keys are the agent's and tenant's)

ASSUME CascadeAssumption ==
  /\ IsFiniteSet(Call)
  /\ KindOf \in [Call -> {"run", "direct", "stream"}]
  /\ NoProvider \notin Provider
  /\ Models \in [Call -> Seq(Provider \cup {NoProvider})]
  /\ \A c \in Call : Len(Models[c]) > 0 /\ Models[c][1] \in Provider
  /\ Threshold \in Nat \ {0}
  /\ Sound \in [Call -> SUBSET Provider]

VARIABLES
  pc, at,      \* where a call is in its cascade
  outcome,
  failures,    \* _consecutive_failures
  recent,      \* providers whose last failure is recent
  cached,      \* the questions with an answer in the cache
  failed       \* history: the tries that failed, by call and place in its cascade

cascadeVars == <<pc, at, outcome, failures, recent, cached, failed>>

-------------------------------------------------------------------------------
Questions == {QuestionOf[c] : c \in Call}

CascadeTypeOK ==
  /\ pc \in [Call -> {"idle", "looking", "calling", "ended"}]
  /\ at \in [Call -> Nat \ {0}]
  /\ outcome \in [Call -> {"none", "response", "text", "raised", "cancelled"}]
  /\ failures \in [Provider -> Nat]
  /\ recent \subseteq Provider
  /\ cached \subseteq Questions
  /\ failed \subseteq Call \X (Nat \ {0})

CascadeInit ==
  /\ pc = [c \in Call |-> "idle"]
  /\ at = [c \in Call |-> 1]
  /\ outcome = [c \in Call |-> "none"]
  /\ failures = [p \in Provider |-> 0]
  /\ recent = {} /\ cached = {} /\ failed = {}

End(c, o) ==
  /\ pc' = [pc EXCEPT ![c] = "ended"]
  /\ outcome' = [outcome EXCEPT ![c] = o]

(* The next entry of the cascade.                                               *)
MoveOn(c) ==
  /\ pc' = [pc EXCEPT ![c] = "looking"]
  /\ at' = [at EXCEPT ![c] = @ + 1]
  /\ UNCHANGED outcome

Current(c) == Models[c][at[c]]

(* The failed tries of a provider.                                              *)
Failed(p) == {t \in failed : Models[t[1]][t[2]] = p}

-------------------------------------------------------------------------------
(* The breaker. *)

Healthy(p) == failures[p] < Threshold \/ p \notin recent

(* is_healthy forgets the failures once they are not recent.                    *)
Checked(p) ==
  IF failures[p] >= Threshold /\ p \notin recent
  THEN [failures EXCEPT ![p] = 0] ELSE failures

(* Mutant: a success makes up for one failure.                                  *)
SuccessForgivesOne(p) == [failures EXCEPT ![p] = @ - 1]

RecordSuccess(p) == [failures EXCEPT ![p] = 0]

RecordFailure(p) == [failures EXCEPT ![p] = @ + 1]

(* More than the cooldown has passed.                                           *)
CoolDown(p) ==
  /\ p \in recent
  /\ recent' = recent \ {p}
  /\ UNCHANGED <<pc, at, outcome, failures, cached, failed>>

(* The dashboards ask for the state of a provider, and change it.               *)
Stats(p) ==
  /\ Checked(p) # failures
  /\ failures' = Checked(p)
  /\ UNCHANGED <<pc, at, outcome, recent, cached, failed>>

-------------------------------------------------------------------------------
(* A call. *)

(* Only the runs look into the cache.  What cache_set stored is the text of the *)
(* response object (json.dumps with default=str), and so a text comes back.     *)
Ask(c) ==
  /\ pc[c] = "idle"
  /\ IF KindOf[c] = "run" /\ QuestionOf[c] \in cached
     THEN End(c, "text")
     ELSE pc' = [pc EXCEPT ![c] = "looking"] /\ UNCHANGED outcome
  /\ UNCHANGED <<at, failures, recent, cached, failed>>

InCascade(c) == pc[c] = "looking" /\ at[c] <= Len(Models[c])

(* entry["provider"] of an entry without one: the KeyError, outside the try,    *)
(* ends the call whatever entries follow.                                       *)
Incomplete(c) ==
  /\ InCascade(c) /\ Current(c) = NoProvider
  /\ End(c, "raised")
  /\ UNCHANGED <<at, failures, recent, cached, failed>>

(* Mutant: the breaker is looked at after the try only.                         *)
TryAnyway(c) ==
  /\ InCascade(c) /\ Current(c) \in Provider
  /\ pc' = [pc EXCEPT ![c] = "calling"]
  /\ failures' = Checked(Current(c))
  /\ UNCHANGED <<at, outcome, recent, cached, failed>>

Try(c) ==
  /\ InCascade(c) /\ Current(c) \in Provider /\ Healthy(Current(c))
  /\ pc' = [pc EXCEPT ![c] = "calling"]
  /\ failures' = Checked(Current(c))
  /\ UNCHANGED <<at, outcome, recent, cached, failed>>

(* Mutant: an open circuit ends the call.                                       *)
SkipAll(c) ==
  /\ InCascade(c) /\ Current(c) \in Provider /\ ~Healthy(Current(c))
  /\ End(c, "raised") /\ UNCHANGED at
  /\ UNCHANGED <<failures, recent, cached, failed>>

(* The circuit is open; the last entry of a stream's cascade raises at once.    *)
Skip(c) ==
  /\ InCascade(c) /\ Current(c) \in Provider /\ ~Healthy(Current(c))
  /\ IF KindOf[c] = "stream" /\ at[c] = Len(Models[c])
     THEN End(c, "raised") /\ UNCHANGED at
     ELSE MoveOn(c)
  /\ UNCHANGED <<failures, recent, cached, failed>>

(* A run stores the answer, under another key when the message was routed to    *)
(* another model or adapted to it.                                              *)
Answer(c) ==
  /\ pc[c] = "calling"
  /\ End(c, "response")
  /\ failures' = RecordSuccess(Current(c))
  /\ \/ cached' = cached
     \/ KindOf[c] = "run" /\ cached' = cached \cup {QuestionOf[c]}
  /\ UNCHANGED <<at, recent, failed>>

Fail(c) ==
  /\ pc[c] = "calling" /\ Current(c) \notin Sound[c]
  /\ MoveOn(c)
  /\ failed' = failed \cup {<<c, at[c]>>}
  /\ failures' = RecordFailure(Current(c))
  /\ recent' = recent \cup {Current(c)}
  /\ UNCHANGED cached

GiveUp(c) ==
  /\ pc[c] = "looking" /\ at[c] > Len(Models[c])
  /\ End(c, "raised")
  /\ UNCHANGED <<at, failures, recent, cached, failed>>

(* The run is cut off: nothing is recorded.                                     *)
Cancel(c) ==
  /\ pc[c] \in {"looking", "calling"}
  /\ End(c, "cancelled")
  /\ UNCHANGED <<at, failures, recent, cached, failed>>

(* Ten minutes later.                                                           *)
Expire(q) ==
  /\ q \in cached
  /\ cached' = cached \ {q}
  /\ UNCHANGED <<pc, at, outcome, failures, recent, failed>>

CallStep(c) ==
  \/ Ask(c) \/ Try(c) \/ Skip(c) \/ Incomplete(c)
  \/ Answer(c) \/ Fail(c) \/ GiveUp(c) \/ Cancel(c)

CascadeNext ==
  \/ \E c \in Call : CallStep(c)
  \/ \E p \in Provider : CoolDown(p) \/ Stats(p)
  \/ \E q \in Questions : Expire(q)

CascadeSpec == CascadeInit /\ [][CascadeNext]_cascadeVars

-------------------------------------------------------------------------------
(* Properties *)

Trying(p) == {c \in Call : pc[c] = "calling" /\ Current(c) = p}

(* The breaker is overshot by the calls in flight only: however calls, cooldowns *)
(* and dashboards interleave, a provider that keeps failing is tried no more     *)
(* often than the threshold allows, plus once for every other caller.            *)
BreakerHolds ==
  \A p \in Provider :
    failures[p] + Cardinality(Trying(p)) <= Threshold - 1 + Cardinality(Call)

(* A call fails for its own want of a model only.  When it raises, it has come to *)
(* an entry that names no provider, or there is none in its cascade that would    *)
(* have answered it, except those on which other calls, of other tenants' keys it *)
(* may be, have failed often enough to open their circuit.                        *)
FallbackReaches ==
  \A c \in Call : outcome[c] = "raised" =>
    \/ at[c] \in DOMAIN Models[c] /\ Current(c) = NoProvider
    \/ \A i \in DOMAIN Models[c] : Models[c][i] \in Sound[c] =>
         LET shutBy == {t \in Failed(Models[c][i]) : t[1] # c}
         IN Cardinality(shutBy) >= Threshold

(* "Multi-tier LLM response caching": the caller of the cascade reads choices and *)
(* usage of what it gets, which a cached answer must have too.                    *)
CachedAnswersUsable == \A c \in Call : outcome[c] # "text"
===============================================================================
