---------------------------- MODULE LlmAccessProofs ----------------------------
(***************************************************************************)
(* Proofs about LlmAccess for any number of calls, any cascades of models   *)
(* and any threshold.  First of ProviderCascade alone.  The breaker: a try  *)
(* starts only below the threshold, and a failure counts one up where it    *)
(* takes one try away.  The fallback: a provider's counter counts tries     *)
(* that failed, and those of a call are of providers that do not answer it, *)
(* so that a circuit it finds open was opened by others.  Then of the       *)
(* whole: every step of LlmAccess is a step of the cascade or leaves the    *)
(* cascade alone, and the same of the pool, whose agents are in one place   *)
(* at most.                                                                 *)
(***************************************************************************)
EXTENDS LlmAccess, FiniteSetTheorems, TLAPS

-------------------------------------------------------------------------------
(* Types *)

(* A try is a try of an entry of the call's cascade.                            *)
InRange ==
  \A c \in Call : pc[c] = "calling" => at[c] \in DOMAIN Models[c] /\ Current(c) \in Provider

TInv == CascadeTypeOK /\ InRange

LEMMA TypeInit == CascadeInit => TInv
BY CascadeAssumption DEF CascadeInit, TInv, CascadeTypeOK, InRange, Questions

LEMMA CheckedType ==
  ASSUME failures \in [Provider -> Nat], NEW p \in Provider
  PROVE  /\ Checked(p) \in [Provider -> Nat]
         /\ Checked(p)[p] = (IF failures[p] >= Threshold /\ p \notin recent
                             THEN 0 ELSE failures[p])
         /\ \A o \in Provider : o # p => Checked(p)[o] = failures[o]
BY DEF Checked

LEMMA CurrentType ==
  ASSUME NEW c \in Call, at[c] \in Nat \ {0}, at[c] <= Len(Models[c])
  PROVE  at[c] \in DOMAIN Models[c] /\ Current(c) \in Provider \cup {NoProvider}
<1>1. Models[c] \in Seq(Provider \cup {NoProvider})
  BY CascadeAssumption
<1> QED BY <1>1 DEF Current

(* Every step of a call, the breaker, the clock or the cache keeps the types.   *)
LEMMA TypeStep == ASSUME TInv, [CascadeNext]_cascadeVars PROVE TInv'
<1> USE DEF TInv, CascadeTypeOK, InRange
<1>1. ASSUME NEW c \in Call, Ask(c) PROVE TInv'
  BY <1>1 DEF Ask, End, Current
<1>2. ASSUME NEW c \in Call, Try(c) PROVE TInv'
  <2>1. at[c] \in DOMAIN Models[c] /\ Current(c) \in Provider
    BY <1>2, CurrentType DEF Try, InCascade
  <2>2. PICK p \in Provider : p = Current(c)
    BY <2>1
  <2>3. failures' = Checked(p)
    BY <1>2, <2>2 DEF Try
  <2>4. InRange'
    BY <1>2, <2>1 DEF Try, Current
  <2>5. failures' \in [Provider -> Nat]
    BY <2>3, CheckedType
  <2>6. CascadeTypeOK'
    BY <1>2, <2>5 DEF Try, Questions
  <2> QED BY <2>4, <2>6
<1>3. ASSUME NEW c \in Call, Skip(c) PROVE TInv'
  <2> DEFINE Goes(a, w) == at' = [at EXCEPT ![c] = a] /\ pc' = [pc EXCEPT ![c] = w]
  <2>a. Goes(at[c], "ended") \/ Goes(at[c] + 1, "looking")
    BY <1>3 DEF Skip, End, MoveOn
  <2>1. at' \in [Call -> Nat \ {0}] /\ pc'[c] # "calling"
        /\ \A d \in Call : d # c => pc'[d] = pc[d] /\ at'[d] = at[d]
    BY <2>a
  <2>2. CascadeTypeOK'
    BY <1>3, <2>1 DEF Skip, End, MoveOn
  <2> QED BY <2>1, <2>2 DEF Current
<1>4. ASSUME NEW c \in Call, Answer(c) PROVE TInv'
  <2>1. failures' \in [Provider -> Nat]
    BY <1>4 DEF Answer, RecordSuccess
  <2>2. cached' \subseteq Questions
    BY <1>4 DEF Answer, Questions
  <2> QED BY <1>4, <2>1, <2>2 DEF Answer, End, Current
<1>5. ASSUME NEW c \in Call, Fail(c) PROVE TInv'
  <2>1. PICK p \in Provider : p = Current(c)
    BY <1>5 DEF Fail
  <2>2. failures' \in [Provider -> Nat] /\ recent' \subseteq Provider
    BY <1>5, <2>1 DEF Fail, RecordFailure
  <2>3. failed' \subseteq Call \X (Nat \ {0})
    BY <1>5 DEF Fail
  <2>4. pc' \in [Call -> {"idle", "looking", "calling", "ended"}]
        /\ at' \in [Call -> Nat \ {0}] /\ UNCHANGED <<outcome, cached>>
    BY <1>5 DEF Fail, MoveOn
  <2>5. InRange'
    BY <1>5 DEF Fail, MoveOn, Current
  <2> QED BY <2>2, <2>3, <2>4, <2>5 DEF Questions
<1>6. ASSUME NEW c \in Call, Incomplete(c) \/ GiveUp(c) \/ Cancel(c) PROVE TInv'
  BY <1>6 DEF Incomplete, GiveUp, Cancel, End, Current
<1>7. ASSUME NEW p \in Provider, CoolDown(p) \/ Stats(p) PROVE TInv'
  BY <1>7, CheckedType DEF CoolDown, Stats, Current
<1>8. ASSUME NEW q \in Questions, Expire(q) PROVE TInv'
  BY <1>8 DEF Expire, Current
<1>9. ASSUME UNCHANGED cascadeVars PROVE TInv'
  BY <1>9 DEF cascadeVars, Questions, Current
<1> QED BY <1>1, <1>2, <1>3, <1>4, <1>5, <1>6, <1>7, <1>8, <1>9
        DEF CascadeNext, CallStep

(* The state keeps its types: in particular a provider's failures are never      *)
(* negative, and a call that tries tries an entry of its cascade.               *)
THEOREM TypeCorrect == CascadeSpec => []TInv
<1>1. CascadeInit => TInv
  BY TypeInit
<1>2. TInv /\ [CascadeNext]_cascadeVars => TInv'
  BY TypeStep
<1> QED BY <1>1, <1>2, PTL DEF CascadeSpec

-------------------------------------------------------------------------------
(* The breaker *)

LEMMA TryingFinite ==
  ASSUME NEW p
  PROVE  /\ IsFiniteSet(Trying(p)) /\ Cardinality(Trying(p)) \in Nat
         /\ Cardinality(Trying(p)) <= Cardinality(Call)
         /\ Cardinality(Call) \in Nat
<1>1. Trying(p) \in SUBSET Call
  BY DEF Trying
<1> QED BY <1>1, CascadeAssumption, FS_Subset, FS_CardinalityType

(* The same of the next state, whose tries are a set of calls too.              *)
LEMMA TryingFiniteNext ==
  ASSUME NEW p
  PROVE  /\ Trying(p)' \in SUBSET Call
         /\ Cardinality(Trying(p)') \in Nat
         /\ Cardinality(Trying(p)') <= Cardinality(Call)
<1>1. Trying(p)' \in SUBSET Call
  BY DEF Trying
<1> QED BY <1>1, CascadeAssumption, FS_Subset, FS_CardinalityType

(* Where neither failures nor tries of a provider grow the bound is kept.       *)
LEMMA BoundKept ==
  ASSUME TInv, TInv', BreakerHolds, NEW p \in Provider,
         failures'[p] <= failures[p], Trying(p)' \subseteq Trying(p)
  PROVE  failures'[p] + Cardinality(Trying(p)') <= Threshold - 1 + Cardinality(Call)
<1>1. /\ Cardinality(Trying(p)') \in Nat
      /\ Cardinality(Trying(p)') <= Cardinality(Trying(p))
  BY TryingFinite, FS_Subset, FS_CardinalityType
<1>2. failures[p] \in Nat /\ failures'[p] \in Nat
  BY DEF TInv, CascadeTypeOK
<1>3. failures[p] + Cardinality(Trying(p)) <= Threshold - 1 + Cardinality(Call)
  BY DEF BreakerHolds
<1> QED BY <1>1, <1>2, <1>3, TryingFinite, CascadeAssumption

(* And where no failures below the threshold remain.                            *)
LEMMA BoundFresh ==
  ASSUME TInv', NEW p \in Provider, failures'[p] <= Threshold - 1
  PROVE  failures'[p] + Cardinality(Trying(p)') <= Threshold - 1 + Cardinality(Call)
<1>1. failures'[p] \in Nat
  BY DEF TInv, CascadeTypeOK
<1>2. /\ Cardinality(Trying(p)') \in Nat
      /\ Cardinality(Trying(p)') <= Cardinality(Call)
  BY TryingFiniteNext
<1>3. Cardinality(Call) \in Nat /\ Threshold \in Nat
  BY CascadeAssumption, FS_CardinalityType
<1> QED BY <1>1, <1>2, <1>3

LEMMA BreakerStep ==
  ASSUME TInv, TInv', BreakerHolds, [CascadeNext]_cascadeVars
  PROVE  BreakerHolds'
<1> SUFFICES ASSUME NEW p \in Provider
             PROVE  failures'[p] + Cardinality(Trying(p)')
                      <= Threshold - 1 + Cardinality(Call)
  BY DEF BreakerHolds
<1>0. failures \in [Provider -> Nat] /\ failures' \in [Provider -> Nat]
  BY DEF TInv, CascadeTypeOK
<1>1. ASSUME NEW c \in Call, Ask(c) \/ Skip(c) \/ Incomplete(c) \/ GiveUp(c) \/ Cancel(c)
      PROVE  failures' = failures /\ Trying(p)' \subseteq Trying(p)
  <2>1. failures' = failures
    BY <1>1 DEF Ask, Skip, Incomplete, GiveUp, Cancel
  <2>2. /\ pc'[c] # "calling"
        /\ \A d \in Call : d # c => pc'[d] = pc[d] /\ at'[d] = at[d]
    BY <1>1 DEF Ask, Skip, Incomplete, GiveUp, Cancel, End, MoveOn, TInv, CascadeTypeOK
  <2> QED BY <2>1, <2>2 DEF Trying, Current
<1>2. ASSUME NEW c \in Call, Try(c)
      PROVE  \/ failures'[p] <= Threshold - 1
             \/ failures'[p] = failures[p] /\ Trying(p)' \subseteq Trying(p)
  <2>1. PICK o \in Provider : o = Current(c)
    BY <1>2, CurrentType DEF Try, InCascade, TInv, CascadeTypeOK
  <2>2. failures' = Checked(o) /\ Healthy(o)
    BY <1>2, <2>1 DEF Try
  <2>3. CASE p = o
    BY <1>0, <2>2, <2>3, CheckedType, CascadeAssumption DEF Healthy
  <2>4. CASE p # o
    <3>1. failures'[p] = failures[p]
      BY <1>0, <2>2, <2>4, CheckedType
    <3>2. /\ at' = at /\ Current(c) # p
          /\ \A d \in Call : d # c => pc'[d] = pc[d]
      BY <1>2, <2>1, <2>4 DEF Try, TInv, CascadeTypeOK
    <3> QED BY <3>1, <3>2 DEF Trying, Current
  <2> QED BY <2>3, <2>4
<1>3. ASSUME NEW c \in Call, Answer(c)
      PROVE  \/ failures'[p] <= Threshold - 1
             \/ failures'[p] = failures[p] /\ Trying(p)' \subseteq Trying(p)
  <2>1. CASE p = Current(c)
    BY <1>0, <1>3, <2>1, CascadeAssumption DEF Answer, RecordSuccess
  <2>2. CASE p # Current(c)
    <3>1. failures'[p] = failures[p]
      BY <1>0, <1>3, <2>2 DEF Answer, RecordSuccess
    <3>2. /\ at' = at /\ pc'[c] # "calling"
          /\ \A d \in Call : d # c => pc'[d] = pc[d]
      BY <1>3 DEF Answer, End, TInv, CascadeTypeOK
    <3> QED BY <3>1, <3>2 DEF Trying, Current
  <2> QED BY <2>1, <2>2
<1>4. ASSUME NEW c \in Call, Fail(c)
      PROVE  failures'[p] + Cardinality(Trying(p)')
               <= Threshold - 1 + Cardinality(Call)
  <2>1. /\ pc'[c] # "calling" /\ pc[c] = "calling"
        /\ \A d \in Call : d # c => pc'[d] = pc[d] /\ at'[d] = at[d]
    BY <1>4 DEF Fail, MoveOn, TInv, CascadeTypeOK
  <2>2. Trying(p)' = Trying(p) \ {c}
    BY <2>1 DEF Trying, Current
  <2>3. CASE p = Current(c)
    <3>1. c \in Trying(p)
      BY <2>1, <2>3 DEF Trying
    <3>2. Cardinality(Trying(p)') = Cardinality(Trying(p)) - 1
      BY <2>2, <3>1, TryingFinite, FS_RemoveElement
    <3>3. failures'[p] = failures[p] + 1
      BY <1>0, <1>4, <2>3 DEF Fail, RecordFailure
    <3> QED BY <1>0, <3>2, <3>3, TryingFinite, CascadeAssumption DEF BreakerHolds
  <2>4. CASE p # Current(c)
    <3>1. failures'[p] = failures[p]
      BY <1>0, <1>4, <2>4 DEF Fail, RecordFailure
    <3>2. failures'[p] <= failures[p] /\ Trying(p)' \subseteq Trying(p)
      BY <1>0, <2>2, <3>1
    <3> QED BY <3>2, BoundKept
  <2> QED BY <2>3, <2>4
<1>5. ASSUME NEW o \in Provider, CoolDown(o) \/ Stats(o)
      PROVE  failures'[p] <= failures[p] /\ Trying(p)' \subseteq Trying(p)
  <2>1. failures'[p] <= failures[p]
    BY <1>0, <1>5, CheckedType DEF CoolDown, Stats
  <2>2. pc' = pc /\ at' = at
    BY <1>5 DEF CoolDown, Stats
  <2> QED BY <2>1, <2>2 DEF Trying, Current
<1>6. ASSUME UNCHANGED cascadeVars \/ (\E q \in Questions : Expire(q))
      PROVE  failures' = failures /\ Trying(p)' \subseteq Trying(p)
  BY <1>6 DEF cascadeVars, Expire, Trying, Current
<1>7. failures'[p] = failures[p] => failures'[p] <= failures[p]
  BY <1>0
<1> QED BY <1>1, <1>2, <1>3, <1>4, <1>5, <1>6, <1>7, BoundKept, BoundFresh
        DEF CascadeNext, CallStep

(* However calls of any kind interleave with cooldowns and dashboards, a         *)
(* provider that keeps failing is tried Threshold times, and once more for each  *)
(* other caller that was let through before the circuit opened.                  *)
THEOREM BreakerAlwaysHolds == CascadeSpec => []BreakerHolds
<1>1. CascadeInit => BreakerHolds
  <2> SUFFICES ASSUME CascadeInit, NEW p \in Provider
               PROVE  failures[p] + Cardinality(Trying(p))
                        <= Threshold - 1 + Cardinality(Call)
    BY DEF BreakerHolds
  <2>1. failures[p] = 0
    BY DEF CascadeInit
  <2> QED BY <2>1, TryingFinite, CascadeAssumption
<1>2. TInv /\ TInv' /\ BreakerHolds /\ [CascadeNext]_cascadeVars => BreakerHolds'
  BY BreakerStep
<1> QED BY <1>1, <1>2, TypeCorrect, PTL DEF CascadeSpec

-------------------------------------------------------------------------------
(* The fallback *)

Shutters(p, c) == {t \in Failed(p) : t[1] # c}

(* The counter of a provider counts tries that failed; the tries of a call fail   *)
(* on providers that do not answer it, behind the place it has come to; and a     *)
(* provider that would have answered was passed because others had it shut.       *)
Counted == \A p \in Provider : failures[p] <= Cardinality(Failed(p))

Unsound ==
  /\ IsFiniteSet(failed)
  /\ \A t \in failed : Models[t[1]][t[2]] \notin Sound[t[1]] /\ t[2] < at[t[1]]

Shut(c, i) == Models[c][i] \in Sound[c] => Cardinality(Shutters(Models[c][i], c)) >= Threshold

Passed ==
  \A c \in Call : pc[c] # "ended" => \A i \in DOMAIN Models[c] : i < at[c] => Shut(c, i)

Excused(c) ==
  \/ at[c] \in DOMAIN Models[c] /\ Current(c) = NoProvider
  \/ \A i \in DOMAIN Models[c] : Shut(c, i)

Raises == \A c \in Call : outcome[c] = "raised" => Excused(c)

FInv == TInv /\ Counted /\ Unsound /\ Passed /\ Raises

(* Failed tries are never forgotten, and so is what they have shut.              *)
LEMMA FailedGrows ==
  ASSUME Unsound, Unsound', failed \subseteq failed'
  PROVE  /\ \A p : /\ Cardinality(Failed(p)) \in Nat /\ Cardinality(Failed(p)') \in Nat
                   /\ Cardinality(Failed(p)) <= Cardinality(Failed(p)')
         /\ \A c \in Call : \A i \in DOMAIN Models[c] : Shut(c, i) => Shut(c, i)'
<1>1. IsFiniteSet(failed) /\ IsFiniteSet(failed')
  BY DEF Unsound
<1>2. ASSUME NEW p
      PROVE  /\ Cardinality(Failed(p)) \in Nat /\ Cardinality(Failed(p)') \in Nat
             /\ Cardinality(Failed(p)) <= Cardinality(Failed(p)')
  <2>1. Failed(p)' \in SUBSET (failed') /\ Failed(p) \in SUBSET (Failed(p)')
    BY DEF Failed
  <2> QED BY <1>1, <2>1, FS_Subset, FS_CardinalityType
<1>3. ASSUME NEW c \in Call, NEW i \in DOMAIN Models[c], Shut(c, i)
      PROVE  Shut(c, i)'
  <2> DEFINE p == Models[c][i]
             A == Shutters(p, c)
             B == {t \in Failed(p)' : t[1] # c}
  <2>1. B \in SUBSET (failed') /\ A \in SUBSET B
    BY DEF Failed, Shutters
  <2>2. Cardinality(A) \in Nat /\ Cardinality(B) \in Nat /\ Cardinality(A) <= Cardinality(B)
    <3> HIDE DEF A, B
    <3> QED BY <1>1, <2>1, FS_Subset, FS_CardinalityType
  <2>3. Shut(c, i)' <=> (p \in Sound[c] => Cardinality(B) >= Threshold)
    BY DEF Shut, Shutters
  <2>4. p \in Sound[c] => Cardinality(A) >= Threshold
    BY <1>3 DEF Shut
  <2> HIDE DEF A, B, p
  <2> QED BY <2>2, <2>3, <2>4, CascadeAssumption
<1> QED BY <1>2, <1>3

(* A step of a call moves itself alone; where it goes on, the places it leaves    *)
(* behind have to be shut, and where it raises, all of them.                     *)
LEMMA CallMoves ==
  ASSUME FInv, Unsound', failed \subseteq failed', NEW c \in Call,
         \A d \in Call : d # c =>
           pc'[d] = pc[d] /\ at'[d] = at[d] /\ outcome'[d] = outcome[d],
         pc'[c] # "ended" => \A i \in DOMAIN Models[c] : i < at'[c] => Shut(c, i)',
         outcome'[c] = "raised" => Excused(c)'
  PROVE  Passed' /\ Raises'
<1>1. ASSUME NEW d \in Call, d # c PROVE Excused(d) => Excused(d)'
  <2>1. at'[d] = at[d]
    BY <1>1
  <2>2. \A i \in DOMAIN Models[d] : Shut(d, i) => Shut(d, i)'
    BY FailedGrows DEF FInv
  <2>3. Excused(d) =>
          \/ at'[d] \in DOMAIN Models[d] /\ Models[d][at'[d]] = NoProvider
          \/ \A i \in DOMAIN Models[d] : Shut(d, i)'
    BY <2>1, <2>2 DEF Excused, Current
  <2>4. Excused(d)' <=>
          \/ at'[d] \in DOMAIN Models[d] /\ Models[d][at'[d]] = NoProvider
          \/ \A i \in DOMAIN Models[d] : Shut(d, i)'
    BY DEF Excused, Current
  <2> QED BY <2>3, <2>4
<1>2. Passed'
  BY FailedGrows DEF FInv, Passed
<1> QED BY <1>1, <1>2 DEF FInv, Raises

LEMMA FallbackStep == ASSUME FInv, TInv', [CascadeNext]_cascadeVars PROVE FInv'
<1>0. /\ failures \in [Provider -> Nat] /\ at \in [Call -> Nat \ {0}]
      /\ pc \in [Call -> {"idle", "looking", "calling", "ended"}]
      /\ outcome \in [Call -> {"none", "response", "text", "raised", "cancelled"}]
      /\ failures' \in [Provider -> Nat] /\ Threshold \in Nat \ {0}
  BY CascadeAssumption DEF FInv, TInv, CascadeTypeOK
<1>a. ASSUME NEW c \in Call PROVE Len(Models[c]) \in Nat /\ DOMAIN Models[c] = 1 .. Len(Models[c])
  BY CascadeAssumption
<1> USE DEF FInv
<1>b. ASSUME failed' = failed, \A c \in Call : at'[c] >= at[c],
             \A p \in Provider : failures'[p] <= failures[p]
      PROVE  Counted' /\ Unsound'
  <2>1. \A p \in Provider : Cardinality(Failed(p)') = Cardinality(Failed(p))
    BY <1>b DEF Failed
  <2>2. ASSUME NEW p \in Provider PROVE Cardinality(Failed(p)) \in Nat
    <3>1. Failed(p) \in SUBSET failed
      BY DEF Failed
    <3> QED BY <3>1, FS_Subset, FS_CardinalityType DEF Unsound
  <2>3. Counted'
    BY <1>0, <1>b, <2>1, <2>2 DEF Counted
  <2>4. failed \subseteq Call \X (Nat \ {0}) /\ at' \in [Call -> Nat \ {0}]
    BY DEF TInv, CascadeTypeOK
  <2>5. ASSUME NEW t \in failed PROVE t[2] < at'[t[1]]
    BY <1>0, <1>b, <2>4 DEF Unsound
  <2>6. Unsound'
    BY <1>b, <2>5 DEF Unsound
  <2> QED BY <2>3, <2>6
<1>1. ASSUME NEW c \in Call, Ask(c) PROVE Counted' /\ Unsound' /\ Passed' /\ Raises'
  <2>1. at' = at /\ failures' = failures /\ failed' = failed
    BY <1>1 DEF Ask
  <2>2. Counted' /\ Unsound'
    BY <1>0, <1>b, <2>1
  <2>3. /\ pc[c] # "ended"
        /\ \A d \in Call : d # c => pc'[d] = pc[d] /\ outcome'[d] = outcome[d]
        /\ outcome'[c] = "raised" => outcome[c] = "raised"
    BY <1>0, <1>1 DEF Ask, End
  <2>4. \A i \in DOMAIN Models[c] : i < at'[c] => Shut(c, i)'
    BY <2>1, <2>2, <2>3, FailedGrows DEF Passed
  <2>5. outcome'[c] = "raised" => Excused(c)'
    BY <2>1, <2>2, <2>3, FailedGrows DEF Raises, Excused, Current
  <2> QED BY <2>1, <2>2, <2>3, <2>4, <2>5, CallMoves
<1>2. ASSUME NEW c \in Call, Try(c) PROVE Counted' /\ Unsound' /\ Passed' /\ Raises'
  <2>1. PICK o \in Provider : o = Current(c)
    BY <1>2 DEF Try
  <2>2. failures' = Checked(o)
    BY <1>2, <2>1 DEF Try
  <2>3. \A p \in Provider : failures'[p] <= failures[p]
    BY <1>0, <2>2, CheckedType
  <2>4. at' = at /\ outcome' = outcome /\ failed' = failed
    BY <1>2 DEF Try
  <2>5. /\ pc[c] # "ended"
        /\ \A d \in Call : d # c => pc'[d] = pc[d]
    BY <1>0, <1>2 DEF Try, InCascade
  <2>6. Counted' /\ Unsound'
    BY <1>0, <1>b, <2>3, <2>4
  <2>7. \A i \in DOMAIN Models[c] : i < at'[c] => Shut(c, i)'
    BY <2>4, <2>5, <2>6, FailedGrows DEF Passed
  <2>8. outcome'[c] = "raised" => Excused(c)'
    BY <2>4, <2>6, FailedGrows DEF Raises, Excused, Current
  <2> QED BY <2>4, <2>5, <2>6, <2>7, <2>8, CallMoves
<1>3. ASSUME NEW c \in Call, Skip(c) PROVE Counted' /\ Unsound' /\ Passed' /\ Raises'
  <2>1. PICK o \in Provider : o = Current(c)
    BY <1>3 DEF Skip
  <2>2. failures[o] >= Threshold
    BY <1>0, <1>3, <2>1 DEF Skip, Healthy
  <2>3. failures' = failures /\ failed' = failed /\ \A d \in Call : at'[d] >= at[d]
    BY <1>0, <1>3 DEF Skip, MoveOn
  <2>4. Counted' /\ Unsound'
    BY <1>0, <1>b, <2>3
  <2>5. Shut(c, at[c])
    <3> SUFFICES ASSUME o \in Sound[c] PROVE Cardinality(Shutters(o, c)) >= Threshold
      BY <2>1 DEF Shut, Current
    <3>1. Shutters(o, c) = Failed(o)
      BY DEF Shutters, Failed, Unsound
    <3>2. Failed(o) \in SUBSET failed
      BY DEF Failed
    <3>3. Cardinality(Failed(o)) \in Nat
      BY <3>2, FS_Subset, FS_CardinalityType DEF Unsound
    <3>4. failures[o] <= Cardinality(Failed(o))
      BY DEF Counted
    <3> QED BY <1>0, <2>2, <3>1, <3>3, <3>4
  <2>6. /\ pc[c] # "ended" /\ at[c] \in DOMAIN Models[c]
        /\ \A d \in Call : d # c => pc'[d] = pc[d] /\ at'[d] = at[d] /\ outcome'[d] = outcome[d]
    BY <1>0, <1>3, <1>a DEF Skip, InCascade, MoveOn, End
  <2>7. \A i \in DOMAIN Models[c] : i <= at[c] => Shut(c, i)'
    <3>1. \A i \in DOMAIN Models[c] : i <= at[c] => Shut(c, i)
      BY <1>0, <1>a, <2>5, <2>6 DEF Passed
    <3> QED BY <2>3, <2>4, <3>1, FailedGrows
  <2>8. CASE KindOf[c] = "stream" /\ at[c] = Len(Models[c])
    <3>1. pc' = [pc EXCEPT ![c] = "ended"]
      BY <1>3, <2>8 DEF Skip, End
    <3>2. Excused(c)'
      BY <1>0, <1>a, <2>7, <2>8 DEF Excused
    <3>3. pc'[c] = "ended"
      BY <1>0, <3>1
    <3> QED BY <2>3, <2>4, <2>6, <3>2, <3>3, CallMoves
  <2>9. CASE ~(KindOf[c] = "stream" /\ at[c] = Len(Models[c]))
    <3>1. at'[c] = at[c] + 1 /\ outcome' = outcome
      BY <1>0, <1>3, <2>9 DEF Skip, MoveOn
    <3>2. \A i \in DOMAIN Models[c] : i < at'[c] => Shut(c, i)'
      BY <1>0, <1>a, <2>7, <3>1
    <3>3. outcome'[c] = "raised" => Excused(c)'
      <4>1. Current(c) # NoProvider
        BY <2>1, CascadeAssumption
      <4> QED BY <2>3, <2>4, <3>1, <4>1, FailedGrows DEF Raises, Excused
    <3> QED BY <2>3, <2>4, <2>6, <3>2, <3>3, CallMoves
  <2> QED BY <2>8, <2>9
<1>4. ASSUME NEW c \in Call, Answer(c) PROVE Counted' /\ Unsound' /\ Passed' /\ Raises'
  <2>1. PICK o \in Provider : o = Current(c)
    BY <1>4 DEF Answer, TInv, InRange
  <2>2. failures' = [failures EXCEPT ![o] = 0]
    BY <1>4, <2>1 DEF Answer, RecordSuccess
  <2>3. at' = at /\ failed' = failed /\ \A p \in Provider : failures'[p] <= failures[p]
    BY <1>0, <1>4, <2>2 DEF Answer
  <2>4. /\ pc'[c] = "ended" /\ outcome'[c] # "raised"
        /\ \A d \in Call : d # c => pc'[d] = pc[d] /\ outcome'[d] = outcome[d]
    BY <1>0, <1>4 DEF Answer, End
  <2>5. Counted' /\ Unsound'
    BY <1>0, <1>b, <2>3
  <2> QED BY <2>3, <2>4, <2>5, CallMoves
<1>5. ASSUME NEW c \in Call, Fail(c) PROVE Counted' /\ Unsound' /\ Passed' /\ Raises'
  <2>1. PICK o \in Provider : o = Current(c)
    BY <1>5 DEF Fail, TInv, InRange
  <2>2. /\ failures' = [failures EXCEPT ![o] = @ + 1]
        /\ failed' = failed \cup {<<c, at[c]>>} /\ outcome' = outcome
        /\ pc[c] = "calling" /\ o \notin Sound[c] /\ at[c] \in DOMAIN Models[c]
    BY <1>5, <2>1 DEF Fail, RecordFailure, MoveOn, TInv, InRange
  <2>3. /\ at'[c] = at[c] + 1
        /\ \A d \in Call : d # c => pc'[d] = pc[d] /\ at'[d] = at[d]
    BY <1>0, <1>5 DEF Fail, MoveOn
  <2>4. <<c, at[c]>> \notin failed
    BY <1>0 DEF Unsound
  <2>5. Unsound'
    <3>1. IsFiniteSet(failed')
      BY <2>2, FS_AddElement DEF Unsound
    <3>2. failed \subseteq Call \X (Nat \ {0})
      BY DEF TInv, CascadeTypeOK
    <3>3. ASSUME NEW t \in failed PROVE t[2] < at'[t[1]]
      BY <1>0, <2>3, <3>2 DEF Unsound
    <3>4. ASSUME NEW t \in failed'
          PROVE  Models[t[1]][t[2]] \notin Sound[t[1]] /\ t[2] < at'[t[1]]
      <4>1. CASE t \in failed
        BY <3>3, <4>1 DEF Unsound
      <4>2. CASE t = <<c, at[c]>>
        BY <1>0, <2>1, <2>2, <2>3, <4>2 DEF Current
      <4> QED BY <2>2, <4>1, <4>2
    <3> QED BY <3>1, <3>4 DEF Unsound
  <2>6. failed \subseteq failed'
    BY <2>2
  <2>7. Counted'
    <3>1. ASSUME NEW p \in Provider, p # o PROVE failures'[p] <= Cardinality(Failed(p)')
      <4>1. /\ Cardinality(Failed(p)) \in Nat /\ Cardinality(Failed(p)') \in Nat
            /\ Cardinality(Failed(p)) <= Cardinality(Failed(p)')
        BY <2>5, <2>6, FailedGrows
      <4>2. failures'[p] = failures[p] /\ failures[p] <= Cardinality(Failed(p))
        BY <1>0, <2>2, <3>1 DEF Counted
      <4> QED BY <1>0, <4>1, <4>2
    <3>2. failures'[o] <= Cardinality(Failed(o)')
      <4>1. Failed(o)' = Failed(o) \cup {<<c, at[c]>>}
        BY <2>1, <2>2 DEF Failed, Current
      <4>2. <<c, at[c]>> \notin Failed(o) /\ Failed(o) \in SUBSET failed
        BY <2>4 DEF Failed
      <4>3. IsFiniteSet(Failed(o)) /\ Cardinality(Failed(o)) \in Nat
        BY <4>2, FS_Subset, FS_CardinalityType DEF Unsound
      <4>4. Cardinality(Failed(o)') = Cardinality(Failed(o)) + 1
        BY <4>1, <4>2, <4>3, FS_AddElement
      <4>5. failures'[o] = failures[o] + 1 /\ failures[o] <= Cardinality(Failed(o))
        BY <1>0, <2>2 DEF Counted
      <4> QED BY <1>0, <4>3, <4>4, <4>5
    <3> QED BY <3>1, <3>2 DEF Counted
  <2>8. Shut(c, at[c])
    BY <2>1, <2>2 DEF Shut, Current
  <2>9. \A i \in DOMAIN Models[c] : i < at'[c] => Shut(c, i)'
    <3>1. \A i \in DOMAIN Models[c] : i < at'[c] => i < at[c] \/ i = at[c]
      BY <1>0, <1>a, <2>3
    <3>2. \A i \in DOMAIN Models[c] : i < at'[c] => Shut(c, i)
      BY <2>2, <2>8, <3>1 DEF Passed
    <3> QED BY <2>5, <2>6, <3>2, FailedGrows
  <2>10. outcome'[c] = "raised" => Excused(c)'
    <3>1. Current(c) # NoProvider
      BY <2>1, CascadeAssumption
    <3> QED BY <2>2, <2>5, <2>6, <3>1, FailedGrows DEF Raises, Excused
  <2> QED BY <2>2, <2>3, <2>5, <2>6, <2>7, <2>9, <2>10, CallMoves
<1>6. ASSUME NEW c \in Call, Incomplete(c) \/ GiveUp(c) \/ Cancel(c)
      PROVE  Counted' /\ Unsound' /\ Passed' /\ Raises'
  <2>1. at' = at /\ failures' = failures /\ failed' = failed
    BY <1>6 DEF Incomplete, GiveUp, Cancel
  <2>2. Counted' /\ Unsound'
    BY <1>0, <1>b, <2>1
  <2>3. /\ pc'[c] = "ended" /\ pc[c] # "ended"
        /\ \A d \in Call : d # c => pc'[d] = pc[d] /\ outcome'[d] = outcome[d]
    <3>1. pc[c] # "ended" /\ (End(c, "raised") \/ End(c, "cancelled"))
      BY <1>6 DEF Incomplete, GiveUp, Cancel, InCascade
    <3>2. pc'[c] = "ended" /\ \A d \in Call : d # c => pc'[d] = pc[d]
      BY <1>0, <3>1 DEF End
    <3>3. \A d \in Call : d # c => outcome'[d] = outcome[d]
      BY <1>0, <3>1 DEF End
    <3> QED BY <3>1, <3>2, <3>3
  <2>4. outcome'[c] = "raised" => Excused(c)'
    <3>1. CASE Incomplete(c)
      BY <1>0, <1>a, <2>1, <3>1 DEF Incomplete, InCascade, Excused, Current
    <3>2. CASE GiveUp(c)
      <4>a. at[c] > Len(Models[c])
        BY <3>2 DEF GiveUp
      <4>b. \A i \in DOMAIN Models[c] : i < at[c]
        BY <1>0, <1>a, <4>a
      <4>1. \A i \in DOMAIN Models[c] : Shut(c, i)
        BY <2>3, <4>b DEF Passed
      <4> QED BY <2>1, <2>2, <4>1, FailedGrows DEF Excused
    <3>3. CASE Cancel(c)
      BY <1>0, <3>3 DEF Cancel, End
    <3> QED BY <1>6, <3>1, <3>2, <3>3
  <2> QED BY <2>1, <2>2, <2>3, <2>4, CallMoves
<1>7. ASSUME \/ \E o \in Provider : CoolDown(o) \/ Stats(o)
             \/ \E q \in Questions : Expire(q)
             \/ UNCHANGED cascadeVars
      PROVE  Counted' /\ Unsound' /\ Passed' /\ Raises'
  <2>1. UNCHANGED <<pc, at, outcome, failed>>
    BY <1>7 DEF CoolDown, Stats, Expire, cascadeVars
  <2>2. \A p \in Provider : failures'[p] <= failures[p]
    BY <1>0, <1>7, CheckedType DEF CoolDown, Stats, Expire, cascadeVars
  <2>3. Counted' /\ Unsound'
    BY <1>0, <1>b, <2>1, <2>2
  <2>4. \A c \in Call : \A i \in DOMAIN Models[c] : Shut(c, i) => Shut(c, i)'
    BY <2>1, <2>3, FailedGrows
  <2>5. Passed' /\ Raises'
    BY <2>1, <2>4 DEF Passed, Raises, Excused, Current
  <2> QED BY <2>3, <2>5
<1> QED BY <1>1, <1>2, <1>3, <1>4, <1>5, <1>6, <1>7 DEF CascadeNext, CallStep

(* Whatever else fails, is cancelled or asked for, a call raises only at an entry *)
(* without a provider, or when nothing in its cascade would answer it but what    *)
(* others have shut.                                                             *)
THEOREM FallbackAlwaysReaches == CascadeSpec => []FallbackReaches
<1>1. CascadeInit => FInv
  <2>1. CascadeInit => Raises /\ Passed
    BY CascadeAssumption DEF CascadeInit, Raises, Passed
  <2>2. CascadeInit => Unsound /\ \A p : Failed(p) = {}
    BY FS_EmptySet DEF CascadeInit, Unsound, Failed
  <2>3. CascadeInit => Counted
    BY <2>2, FS_EmptySet DEF CascadeInit, Counted
  <2> QED BY <2>1, <2>2, <2>3, TypeInit DEF FInv
<1>2. FInv /\ TInv' /\ [CascadeNext]_cascadeVars => FInv'
  BY FallbackStep
<1>3. FInv => FallbackReaches
  BY DEF FInv, FallbackReaches, Raises, Excused, Shut, Shutters
<1> QED BY <1>1, <1>2, <1>3, TypeCorrect, PTL DEF CascadeSpec
-------------------------------------------------------------------------------
(* LlmAccess. *)

(* The composition implements the cascade.                                      *)
THEOREM CascadeImplemented == Spec => CascadeSpec
<1>1. Init => CascadeInit
  BY DEF Init
<1>2. [Next]_vars => [CascadeNext]_cascadeVars
  <2>1. ASSUME NEW c \in Call, Step(c) PROVE CascadeNext
    BY <2>1 DEF Step, CascadeNext
  <2>2. ASSUME NEW c \in Run, Get(c) \/ GiveBack(c) \/ Abandon(c)
        PROVE  UNCHANGED cascadeVars
    BY <2>2 DEF Get, GiveBack, Abandon
  <2>3. ASSUME Environment PROVE CascadeNext \/ UNCHANGED cascadeVars
    BY <2>3 DEF Environment, CascadeNext
  <2>4. ASSUME UNCHANGED vars PROVE UNCHANGED cascadeVars
    BY <2>4 DEF vars
  <2> QED BY <2>1, <2>2, <2>3, <2>4 DEF Next
<1> QED BY <1>1, <1>2, PTL DEF Spec, CascadeSpec

(* For any number of runs, streams and direct calls over any cascades, while     *)
(* warm agents come and go: a provider that keeps failing is tried no more often *)
(* than the breaker allows.                                                      *)
THEOREM BreakerHoldsInRuns == Spec => []BreakerHolds
BY CascadeImplemented, BreakerAlwaysHolds, PTL

(* And a call with a provider that would answer it raises only where an entry     *)
(* names none, or others have shut it.                                           *)
THEOREM FallbackReachesInRuns == Spec => []FallbackReaches
BY CascadeImplemented, FallbackAlwaysReaches, PTL

-------------------------------------------------------------------------------
(* WarmPool. *)

(* What is in a pool or with a run was made, and is in one place.                *)
MadeOnly ==
  /\ \A i \in DOMAIN available : available[i] <= made
  /\ \A r \in Run : held[r] # NoAgent => held[r] <= made

PoolInv == PoolTypeOK /\ MadeOnly /\ AgentsExclusive

LEMMA PoolInvStarts == PoolInit => PoolInv
BY PoolAssumption
   DEF PoolInit, PoolInv, PoolTypeOK, MadeOnly, AgentsExclusive, Contains, IsInjective, Agents

(* Agents 1 .. k, m of them in av and others with the runs, each in one place.     *)
Placed(av, m, hd, k) ==
  /\ av \in [1 .. m -> 1 .. k]
  /\ \A i, j \in 1 .. m : av[i] = av[j] => i = j
  /\ hd \in [Run -> (1 .. k) \cup {NoAgent}]
  /\ \A r, s \in Run : r # s /\ hd[r] # NoAgent => hd[r] # hd[s]
  /\ \A i \in 1 .. m : \A r \in Run : av[i] # hd[r]

LEMMA PoolFacts ==
  ASSUME PoolInv
  PROVE  /\ Placed(available, Len(available), held, made)
         /\ Len(available) \in Nat /\ DOMAIN available = 1 .. Len(available)
         /\ available \in Seq(Agents)
         /\ made \in 0 .. MaxAgents /\ made \in Nat /\ MaxAgents \in Nat /\ NoAgent \notin Nat
         /\ aged \subseteq Agents /\ inUse \in Agents \cup {NoAgent}
<1>1. /\ available \in Seq(Agents) /\ held \in [Run -> Agents \cup {NoAgent}]
      /\ made \in 0 .. MaxAgents /\ made \in Nat /\ MaxAgents \in Nat /\ NoAgent \notin Nat
  BY PoolAssumption DEF PoolInv, PoolTypeOK
<1>2. /\ Len(available) \in Nat /\ DOMAIN available = 1 .. Len(available)
      /\ available \in [1 .. Len(available) -> Agents]
  BY <1>1
<1>3. available \in [1 .. Len(available) -> 1 .. made]
  BY <1>1, <1>2 DEF PoolInv, MadeOnly, Agents
<1>4. held \in [Run -> (1 .. made) \cup {NoAgent}]
  BY <1>1 DEF PoolInv, MadeOnly, Agents
<1> QED BY <1>1, <1>2, <1>3, <1>4
        DEF Placed, PoolInv, PoolTypeOK, AgentsExclusive, Contains, IsInjective

LEMMA PoolKeeps ==
  ASSUME PoolInv, made' \in 0 .. MaxAgents, aged' \subseteq Agents,
         inUse' \in Agents \cup {NoAgent},
         NEW m \in Nat, Placed(available', m, held', made')
  PROVE  PoolInv'
<1>1. 1 .. made' \subseteq Agents /\ made' \in Nat /\ NoAgent \notin 1 .. made'
  BY PoolAssumption DEF Agents
<1>2. available' \in Seq(Agents) /\ Len(available') = m /\ DOMAIN available' = 1 .. m
  BY <1>1 DEF Placed
<1>3. PoolTypeOK'
  BY <1>1, <1>2 DEF PoolTypeOK, Agents, Placed
<1>4. MadeOnly'
  BY <1>1, <1>2 DEF MadeOnly, Placed
<1>5. AgentsExclusive'
  BY <1>2 DEF AgentsExclusive, Contains, IsInjective, Placed
<1> QED BY <1>3, <1>4, <1>5 DEF PoolInv

(* Giving an agent back to a pool, and to nowhere.                                *)
LEMMA PlacedBack ==
  ASSUME NEW av, NEW m \in Nat, NEW hd, NEW k \in Nat, NoAgent \notin Nat,
         Placed(av, m, hd, k), NEW r \in Run, hd[r] # NoAgent,
         NEW hd2, hd2 = [hd EXCEPT ![r] = NoAgent]
  PROVE  /\ Placed(av, m, hd2, k)
         /\ \A av2 \in [1 .. m + 1 -> 1 .. k] :
              av2[m + 1] = hd[r] /\ (\A i \in 1 .. m : av2[i] = av[i]) =>
                Placed(av2, m + 1, hd2, k)
<1>1. /\ hd2 \in [Run -> (1 .. k) \cup {NoAgent}]
      /\ \A s \in Run : hd2[s] = IF s = r THEN NoAgent ELSE hd[s]
  BY DEF Placed
<1>2. \A i \in 1 .. m : av[i] # NoAgent
  BY DEF Placed
<1>3. Placed(av, m, hd2, k)
  BY <1>1, <1>2 DEF Placed
<1>4. ASSUME NEW av2 \in [1 .. m + 1 -> 1 .. k], av2[m + 1] = hd[r],
             \A i \in 1 .. m : av2[i] = av[i]
      PROVE  Placed(av2, m + 1, hd2, k)
  <2>1. \A i \in 1 .. m + 1 : i \in 1 .. m \/ i = m + 1
    OBVIOUS
  <2>2. \A i \in 1 .. m : av2[i] # hd[r]
    BY <1>4 DEF Placed
  <2>3. \A i, j \in 1 .. m + 1 : av2[i] = av2[j] => i = j
    BY <1>4, <2>1, <2>2 DEF Placed
  <2>4. \A s \in Run : hd[r] # hd2[s]
    BY <1>1 DEF Placed
  <2>5. \A i \in 1 .. m + 1 : \A s \in Run : av2[i] # hd2[s]
    BY <1>3, <1>4, <2>1, <2>4 DEF Placed
  <2> QED BY <1>3, <2>3, <2>5 DEF Placed
<1> QED BY <1>3, <1>4

LEMMA PoolInvKept == PoolInv /\ PoolNext => PoolInv'
<1> SUFFICES ASSUME PoolInv, PoolNext PROVE PoolInv'
  OBVIOUS
<1> DEFINE n == Len(available)
<1>0. /\ Placed(available, n, held, made)
      /\ n \in Nat /\ DOMAIN available = 1 .. n /\ available \in Seq(Agents)
      /\ made \in 0 .. MaxAgents /\ made \in Nat /\ MaxAgents \in Nat /\ NoAgent \notin Nat
      /\ aged \subseteq Agents /\ inUse \in Agents \cup {NoAgent}
  BY PoolFacts
<1>1. /\ available \in [1 .. n -> 1 .. made] /\ held \in [Run -> (1 .. made) \cup {NoAgent}]
      /\ \A i \in 1 .. n : available[i] \in Nat /\ available[i] \in Agents
  BY <1>0 DEF Placed, Agents
<1>2. ASSUME NEW r \in Run, GetWarm(r) PROVE PoolInv'
  <2>1. /\ n \in Nat \ {0} /\ n - 1 \in Nat /\ UNCHANGED <<aged, made>> /\ held[r] = NoAgent
        /\ available' = [i \in 1 .. n - 1 |-> available[i]]
        /\ inUse' = available[n] /\ held' = [held EXCEPT ![r] = available[n]]
    BY <1>0, <1>2 DEF GetWarm, Last, Front
  <2> HIDE DEF n
  <2>2. available[n] \in 1 .. made /\ available[n] \in Agents /\ available[n] # NoAgent
    BY <1>0, <1>1, <2>1
  <2>3. /\ available' \in [1 .. n - 1 -> 1 .. made]
        /\ \A i \in 1 .. n - 1 : i \in 1 .. n /\ i # n /\ available'[i] = available[i]
    BY <1>1, <2>1
  <2>4. /\ held' \in [Run -> (1 .. made) \cup {NoAgent}]
        /\ \A s \in Run : held'[s] = IF s = r THEN available[n] ELSE held[s]
    BY <1>1, <2>1, <2>2
  <2>5. \A i \in 1 .. n - 1 : available'[i] # available[n]
    BY <1>0, <2>1, <2>3 DEF Placed
  <2>6. \A s \in Run : held[s] # available[n]
    BY <1>0, <2>1 DEF Placed
  <2>7. Placed(available', n - 1, held', made)
    BY <1>0, <2>3, <2>4, <2>5, <2>6 DEF Placed
  <2> QED BY <1>0, <2>1, <2>2, <2>7, PoolKeeps
<1>3. ASSUME NEW r \in Run, GetCold(r) PROVE PoolInv'
  <2>1. /\ made < MaxAgents /\ UNCHANGED <<available, aged>>
        /\ made' = made + 1 /\ inUse' = made + 1 /\ held' = [held EXCEPT ![r] = made + 1]
    BY <1>3 DEF GetCold
  <2>2. /\ made + 1 \in Agents /\ made' \in 0 .. MaxAgents /\ made' \in Nat
        /\ made + 1 # NoAgent /\ made + 1 \in 1 .. made + 1 /\ made + 1 \notin 1 .. made
        /\ 1 .. made \subseteq 1 .. made + 1
    BY <1>0, <2>1 DEF Agents
  <2> HIDE DEF n
  <2>3. /\ held' \in [Run -> (1 .. made + 1) \cup {NoAgent}]
        /\ \A s \in Run : held'[s] = IF s = r THEN made + 1 ELSE held[s]
        /\ \A s \in Run : held[s] # made + 1
    BY <1>1, <2>1, <2>2
  <2>4. /\ available \in [1 .. n -> 1 .. made + 1]
        /\ \A i \in 1 .. n : available[i] # made + 1
    BY <1>1, <2>2
  <2>5. Placed(available, n, held', made + 1)
    BY <1>0, <2>3, <2>4 DEF Placed
  <2> QED BY <1>0, <2>1, <2>2, <2>5, PoolKeeps
<1>4. ASSUME NEW r \in Run, Return(r) PROVE PoolInv'
  <2>1. /\ held[r] # NoAgent /\ UNCHANGED <<aged, made>> /\ inUse' = NoAgent
        /\ held' = [held EXCEPT ![r] = NoAgent]
        /\ available' = Append(available, held[r]) \/ available' = available
    BY <1>4 DEF Return
  <2>2. CASE available' = available
    <3>1. Placed(available, n, held', made)
      BY <1>0, <2>1, PlacedBack
    <3> QED BY <1>0, <2>1, <2>2, <3>1, PoolKeeps
  <2>3. CASE available' = Append(available, held[r])
    <3>1. held[r] \in 1 .. made
      BY <1>1, <2>1
    <3>2. /\ n + 1 \in Nat /\ DOMAIN available' = 1 .. n + 1
          /\ available' = [i \in 1 .. n + 1 |-> available'[i]]
          /\ available'[n + 1] = held[r] /\ \A i \in 1 .. n : available'[i] = available[i]
      BY <1>0, <2>3
    <3> HIDE DEF n
    <3>3. \A i \in 1 .. n + 1 : available'[i] \in 1 .. made
      BY <1>0, <1>1, <3>1, <3>2
    <3>4. available' \in [1 .. n + 1 -> 1 .. made]
      BY <3>2, <3>3
    <3>5. Placed(available', n + 1, held', made)
      BY <1>0, <2>1, <3>2, <3>4, PlacedBack
    <3> QED BY <1>0, <2>1, <3>2, <3>5, PoolKeeps
  <2> QED BY <2>1, <2>2, <2>3
<1>5. ASSUME NEW r \in Run, Drop(r) PROVE PoolInv'
  <2>1. /\ UNCHANGED <<available, inUse, aged, made>> /\ held[r] # NoAgent
        /\ held' = [held EXCEPT ![r] = NoAgent]
    BY <1>5 DEF Drop
  <2>2. Placed(available, n, held', made)
    BY <1>0, <2>1, PlacedBack
  <2> QED BY <1>0, <2>1, <2>2, PoolKeeps
<1>6. ASSUME NEW a \in Agents, Age(a) PROVE PoolInv'
  <2>1. UNCHANGED <<available, held, inUse, made>> /\ aged' \subseteq Agents
    BY <1>0, <1>6 DEF Age
  <2> QED BY <1>0, <2>1, PoolKeeps
<1>7. ASSUME Evict PROVE PoolInv'
  <2> DEFINE kept == {i \in DOMAIN available : Young(available[i])}
             k == Cardinality(kept)
  <2>1. PICK f \in [1 .. k -> kept] :
          /\ \A i, j \in DOMAIN f : i < j => f[i] < f[j]
          /\ available' = [i \in DOMAIN f |-> available[f[i]]]
    BY <1>7 DEF Evict
  <2>2. kept \subseteq 1 .. n
    BY <1>0
  <2>3. k \in Nat
    <3>1. IsFiniteSet(1 .. n)
      BY <1>0, FS_Interval
    <3> QED BY <2>2, <3>1, FS_Subset, FS_CardinalityType
  <2> HIDE DEF kept, k, n
  <2>4. DOMAIN f = 1 .. k /\ \A i \in 1 .. k : f[i] \in 1 .. n
    BY <2>1, <2>2
  <2>5. ASSUME NEW i \in 1 .. k, NEW j \in 1 .. k, f[i] = f[j] PROVE i = j
    <3>1. f[i] \in 1 .. n /\ f[j] \in 1 .. n
      BY <2>4
    <3>2. i < j \/ j < i => f[i] < f[j] \/ f[j] < f[i]
      BY <2>1, <2>4
    <3>3. i \in Int /\ j \in Int /\ f[i] \in Int
      BY <1>0, <2>3, <3>1
    <3>4. ~(f[i] < f[j]) /\ ~(f[j] < f[i])
      BY <2>5, <3>3
    <3> QED BY <3>2, <3>3, <3>4
  <2>6. /\ available' \in [1 .. k -> 1 .. made]
        /\ \A i \in 1 .. k : available'[i] = available[f[i]]
    BY <1>1, <2>1, <2>4
  <2>7. Placed(available', k, held, made)
    BY <1>0, <2>4, <2>5, <2>6 DEF Placed
  <2>8. UNCHANGED <<held, inUse, aged, made>>
    BY <1>7 DEF Evict
  <2> QED BY <1>0, <2>3, <2>7, <2>8, PoolKeeps
<1> QED BY <1>2, <1>3, <1>4, <1>5, <1>6, <1>7 DEF PoolNext

(* Whatever runs take, give back and drop, no two ever work with one warm agent,  *)
(* for any number of runs and any size of the pool.                              *)
THEOREM AgentsAlwaysExclusive == PoolSpec => []PoolInv
<1>1. PoolInv /\ UNCHANGED poolVars => PoolInv'
  BY DEF PoolInv, PoolTypeOK, MadeOnly, AgentsExclusive, poolVars
<1> QED BY <1>1, PoolInvStarts, PoolInvKept, PTL DEF PoolSpec

(* The composition implements the pool as well.                                 *)
THEOREM PoolImplemented == Spec => PoolSpec
<1>1. Init => PoolInit
  BY DEF Init
<1>2. [Next]_vars => [PoolNext]_poolVars
  <2>1. ASSUME NEW c \in Call, Step(c) PROVE UNCHANGED poolVars
    BY <2>1 DEF Step
  <2>2. ASSUME NEW c \in Run, Get(c) \/ GiveBack(c) \/ Abandon(c)
        PROVE  PoolNext
    BY <2>2 DEF Get, GiveBack, Abandon, PoolNext
  <2>3. ASSUME Environment PROVE PoolNext \/ UNCHANGED poolVars
    BY <2>3 DEF Environment, PoolNext
  <2>4. ASSUME UNCHANGED vars PROVE UNCHANGED poolVars
    BY <2>4 DEF vars
  <2> QED BY <2>1, <2>2, <2>3, <2>4 DEF Next
<1> QED BY <1>1, <1>2, PTL DEF Spec, PoolSpec

(* Runs of the executor that call models, end, give their agents back or are cut  *)
(* off never share one.                                                          *)
THEOREM AgentsExclusiveInRuns == Spec => []AgentsExclusive
<1>1. PoolInv => AgentsExclusive
  BY DEF PoolInv
<1> QED BY <1>1, PoolImplemented, AgentsAlwaysExclusive, PTL

(* Both parts keep their types.                                                  *)
THEOREM AccessTypeCorrect == Spec => []TypeOK
<1>1. TInv /\ PoolInv => TypeOK
  BY DEF TInv, PoolInv, TypeOK
<1> QED
  BY <1>1, CascadeImplemented, PoolImplemented, TypeCorrect, AgentsAlwaysExclusive, PTL
===============================================================================
