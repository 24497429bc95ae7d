----------------------------- MODULE AgentRunProofs -----------------------------
(***************************************************************************)
(* What AgentRun promises of a run's row and of the money that follows it,  *)
(* for any number of runs, agents, users, costs and limits.  The row and    *)
(* its cost are honest at the end because of what holds on the way there:   *)
(* until the one commit of the executor the row shows nothing, and the cost *)
(* it will show is known.  Debts and caps are compared with sums over the   *)
(* rows; the facts about such sums that this takes come in between.         *)
(***************************************************************************)
EXTENDS AgentRun, FiniteSetTheorems, WellFoundedInduction, TLAPS

-------------------------------------------------------------------------------
(* The inductive invariant: what a run shows at each stage. *)

(* No decision, no cost, and at most a row that a tool committed.                *)
AtWork(r) ==
  /\ outcome[r] = "none" /\ row[r] \in {"none", "running"}
  /\ cost[r] = 0 /\ rowCost[r] = 0 /\ used[r] = 0 /\ aside[r] = 0

(* What the row will say.                                                        *)
Decided(r) ==
  /\ outcome[r] \in {"success", "failed"}
  /\ cost[r] <= used[r]
  /\ outcome[r] = "success" => cost[r] = Charged(r, used[r] - aside[r])

Along(r) ==
  /\ pc[r] \in {"idle", "opened"} => AtWork(r) /\ row[r] = "none"
  /\ pc[r] = "working" => AtWork(r)
  /\ pc[r] \in {"worked", "billed"} =>
       Decided(r) /\ row[r] \in {"none", "running"} /\ rowCost[r] = 0
  /\ pc[r] \in {"logged", "recorded"} =>
       Decided(r) /\ row[r] = outcome[r] /\ rowCost[r] = cost[r]
  /\ pc[r] = "ended" => Honest(r)

Inv == TypeOK /\ \A r \in Run : Along(r)

(* A run another run's step does not touch stays where it is.                    *)
LEMMA Untouched ==
  ASSUME NEW r \in Run, Along(r), pc'[r] = pc[r], outcome'[r] = outcome[r],
         used'[r] = used[r], aside'[r] = aside[r], cost'[r] = cost[r], row'[r] = row[r],
         rowCost'[r] = rowCost[r]
  PROVE  Along(r)'
BY DEF Along, AtWork, Decided, Honest, Charged

-------------------------------------------------------------------------------
(* Types. *)

LEMMA ChargedIsNat == ASSUME NEW r \in Run, NEW c \in Nat PROVE Charged(r, c) \in Nat
BY DEF Charged

LEMMA DebtType ==
  ASSUME TypeOK, NEW r \in Run PROVE DebtAfter(r) \in [User -> Nat]
<1>1. base[r] + cost[r] \in Nat
  BY DEF TypeOK
<1> QED BY <1>1 DEF DebtAfter, TypeOK

LEMMA SpentType ==
  ASSUME TypeOK, NEW r \in Run PROVE SpentAfter(r) \in [Agent -> Nat]
<1>1. seen[r] + cost[r] \in Nat
  BY DEF TypeOK
<1> QED BY <1>1 DEF SpentAfter, TypeOK

LEMMA TypeKept == Inv /\ [Next]_vars => TypeOK'
<1> SUFFICES ASSUME Inv, [Next]_vars PROVE TypeOK'
  OBVIOUS
<1> USE DEF Inv
<1>1. ASSUME NEW r \in Run, Begin(r) PROVE TypeOK'
  BY <1>1 DEF Begin, End, Goto, TypeOK, session
<1>2. ASSUME NEW r \in Run, Throttle(r) \/ Grant(r) \/ CommitByTool(r) PROVE TypeOK'
  BY <1>2 DEF Throttle, Grant, CommitByTool, End, Goto, TypeOK, session
<1>3. ASSUME NEW r \in Run, NEW c \in Costs, NEW j \in Costs,
             Succeed(r, c, j) \/ Empty(r, c, j) \/ Raise(r, c) \/ Pause(r, c)
      PROVE  TypeOK'
  <2>1. c \in Nat /\ j \in Nat /\ c + j \in Nat /\ Charged(r, c) \in Nat
    BY AmountAssumption, ChargedIsNat
  <2>2. CASE Succeed(r, c, j) \/ Empty(r, c, j)
    BY <2>1, <2>2 DEF Succeed, Empty, Spend, Goto, TypeOK
  <2>3. CASE Raise(r, c) \/ Pause(r, c)
    BY <2>1, <2>3 DEF Raise, Pause, End, Goto, TypeOK
  <2> QED BY <1>3, <2>2, <2>3
<1>4. ASSUME NEW r \in Run, Bill(r) PROVE TypeOK'
  BY <1>4 DEF Bill, Goto, TypeOK
<1>5. ASSUME NEW r \in Run, Commit(r) PROVE TypeOK'
  <2>1. outcome[r] \in {"success", "failed"}
    BY <1>5 DEF Commit, Along, Decided
  <2> QED BY <1>5, <2>1, DebtType DEF Commit, Goto, TypeOK, session
<1>6. ASSUME NEW r \in Run, Record(r) \/ Keep(r) \/ Discard(r) PROVE TypeOK'
  <2>1. spent[AgentOf[r]] \in Nat
    BY RunAssumption DEF TypeOK
  <2> QED BY <1>6, <2>1, SpentType DEF Record, Keep, Discard, Goto, TypeOK, session
<1>7. ASSUME NEW r \in Run, Lose(r) PROVE TypeOK'
  BY <1>7, AmountAssumption DEF Lose, End, Goto, TypeOK, session
<1>8. ASSUME UNCHANGED vars PROVE TypeOK'
  BY <1>8 DEF vars, session, TypeOK
<1> QED BY <1>1, <1>2, <1>3, <1>4, <1>5, <1>6, <1>7, <1>8 DEF Next

-------------------------------------------------------------------------------
(* Stages. *)

(* The step of a run is that run's.                                              *)
LEMMA StageKept ==
  ASSUME Inv, NEW r \in Run, Along(r)',
         \A x \in Run \ {r} :
           /\ pc'[x] = pc[x] /\ outcome'[x] = outcome[x] /\ used'[x] = used[x]
           /\ aside'[x] = aside[x] /\ cost'[x] = cost[x] /\ row'[x] = row[x]
           /\ rowCost'[x] = rowCost[x]
  PROVE  \A x \in Run : Along(x)'
<1>1. ASSUME NEW x \in Run \ {r} PROVE Along(x)'
  BY Untouched DEF Inv
<1> QED BY <1>1

LEMMA AlongKept == Inv /\ Next => \A x \in Run : Along(x)'
<1> SUFFICES ASSUME Inv, Next PROVE \A x \in Run : Along(x)'
  OBVIOUS
<1> USE DEF Inv
<1>1. ASSUME NEW r \in Run, Begin(r) PROVE \A x \in Run : Along(x)'
  <2>1. AtWork(r) /\ row[r] = "none"
    BY <1>1 DEF Begin, MayStart, Along
  <2>2. Along(r)'
    BY <1>1, <2>1 DEF Begin, End, Goto, session, TypeOK, Along, AtWork, Honest, Charged
  <2> QED BY <1>1, <2>2, StageKept DEF Begin, End, Goto, session, TypeOK
<1>2. ASSUME NEW r \in Run, Throttle(r) PROVE \A x \in Run : Along(x)'
  <2>1. Along(r)'
    BY <1>2 DEF Throttle, End, Goto, session, TypeOK, Along, AtWork, Honest, Charged
  <2> QED BY <1>2, <2>1, StageKept DEF Throttle, End, Goto, session, TypeOK
<1>3. ASSUME NEW r \in Run, Grant(r) PROVE \A x \in Run : Along(x)'
  <2>1. Along(r)'
    BY <1>3 DEF Grant, Goto, session, TypeOK, Along, AtWork
  <2> QED BY <1>3, <2>1, StageKept DEF Grant, Goto, session, TypeOK
<1>4. ASSUME NEW r \in Run, CommitByTool(r) PROVE \A x \in Run : Along(x)'
  <2>1. Along(r)'
    BY <1>4 DEF CommitByTool, session, TypeOK, Along, AtWork
  <2> QED BY <1>4, <2>1, StageKept DEF CommitByTool, session, TypeOK
<1>5. ASSUME NEW r \in Run, NEW c \in Costs, NEW j \in Costs,
             Succeed(r, c, j) \/ Empty(r, c, j) \/ Raise(r, c)
      PROVE  \A x \in Run : Along(x)'
  <2>1. AtWork(r) /\ c \in Nat /\ j \in Nat
    BY <1>5, AmountAssumption DEF Succeed, Empty, Raise, Along
  <2>2. Charged(r, c) \in {0, c} /\ c + j - j = c /\ c <= c + j
    BY <2>1 DEF Charged
  <2>3. CASE Succeed(r, c, j) \/ Empty(r, c, j)
    <3>1. /\ pc'[r] = "worked" /\ used'[r] = c + j /\ aside'[r] = j
          /\ cost'[r] = Charged(r, c) /\ outcome'[r] \in {"success", "failed"}
          /\ row'[r] = row[r] /\ rowCost'[r] = rowCost[r]
      BY <2>3 DEF Succeed, Empty, Spend, Goto, TypeOK
    <3>2. Charged(r, used[r] - aside[r])' = Charged(r, c)
      BY <2>1, <2>2, <3>1 DEF Charged
    <3>3. cost'[r] <= used'[r]
      BY <2>1, <2>2, <3>1
    <3>4. Decided(r)'
      BY <3>1, <3>2, <3>3 DEF Decided
    <3>5. Along(r)'
      BY <2>1, <3>1, <3>4 DEF Along, AtWork
    <3> QED BY <2>3, <3>5, StageKept DEF Succeed, Empty, Spend, Goto, TypeOK
  <2>4. CASE Raise(r, c)
    <3>1. /\ pc'[r] = "worked" /\ used'[r] = c /\ cost'[r] = cost[r]
          /\ outcome'[r] = "failed" /\ row'[r] = row[r] /\ rowCost'[r] = rowCost[r]
      BY <2>4 DEF Raise, Goto, TypeOK
    <3>2. Along(r)'
      BY <2>1, <3>1 DEF Along, AtWork, Decided
    <3> QED BY <2>4, <3>2, StageKept DEF Raise, Goto, TypeOK
  <2> QED BY <1>5, <2>3, <2>4
<1>10. ASSUME NEW r \in Run, NEW c \in Costs, Pause(r, c) PROVE \A x \in Run : Along(x)'
  <2>1. AtWork(r) /\ c \in Nat
    BY <1>10, AmountAssumption DEF Pause, Along
  <2>2. /\ pc'[r] = "ended" /\ outcome'[r] = "paused" /\ row'[r] = "paused"
        /\ used'[r] = c /\ rowCost'[r] = 0
    BY <1>10, <2>1 DEF Pause, End, Goto, TypeOK, AtWork
  <2>3. Along(r)'
    BY <2>1, <2>2 DEF Along, Honest
  <2> QED BY <1>10, <2>3, StageKept DEF Pause, End, Goto, TypeOK
<1>6. ASSUME NEW r \in Run, Bill(r) PROVE \A x \in Run : Along(x)'
  <2>1. Along(r)'
    BY <1>6 DEF Bill, Goto, TypeOK, Along, Decided, Charged
  <2> QED BY <1>6, <2>1, StageKept DEF Bill, Goto, TypeOK
<1>7. ASSUME NEW r \in Run, Commit(r) PROVE \A x \in Run : Along(x)'
  <2>1. Decided(r)
    BY <1>7 DEF Commit, Along
  <2>2. /\ pc'[r] \in {"ended", "logged"} /\ row'[r] = outcome[r] /\ rowCost'[r] = cost[r]
        /\ outcome'[r] = outcome[r] /\ used'[r] = used[r] /\ aside'[r] = aside[r]
        /\ cost'[r] = cost[r]
    BY <1>7 DEF Commit, Goto, session, TypeOK
  <2>3. Along(r)'
    BY <2>1, <2>2 DEF Along, Decided, Honest, Charged
  <2> QED BY <1>7, <2>3, StageKept DEF Commit, Goto, session, TypeOK
<1>8. ASSUME NEW r \in Run, Record(r) \/ Keep(r) \/ Discard(r)
      PROVE  \A x \in Run : Along(x)'
  <2>1. /\ pc[r] \in {"logged", "recorded"} /\ pc'[r] \in {"recorded", "ended"}
        /\ \A x \in Run \ {r} : pc'[x] = pc[x]
        /\ outcome' = outcome /\ used' = used /\ aside' = aside /\ cost' = cost
        /\ row' = row /\ rowCost' = rowCost
    BY <1>8 DEF Record, Keep, Discard, Goto, session, TypeOK
  <2>2. Decided(r) /\ row[r] = outcome[r] /\ rowCost[r] = cost[r]
    BY <2>1 DEF Along
  <2>3. Along(r)'
    BY <2>1, <2>2 DEF Along, Decided, Honest, Charged
  <2> QED BY <2>1, <2>3, StageKept
<1>9. ASSUME NEW r \in Run, Lose(r) PROVE \A x \in Run : Along(x)'
  <2>1. /\ pc'[r] = "ended" /\ outcome'[r] = "lost" /\ row'[r] = row[r]
        /\ rowCost'[r] = rowCost[r] /\ used'[r] = used[r] /\ aside'[r] = aside[r]
    BY <1>9 DEF Lose, End, Goto, session, TypeOK
  <2>2. /\ rowCost[r] <= used[r]
        /\ row[r] = "success" => rowCost[r] = Charged(r, used[r] - aside[r])
    BY <1>9 DEF Lose, TypeOK, Along, AtWork, Decided
  <2>3. Along(r)'
    BY <2>1, <2>2 DEF Along, Honest, Charged
  <2> QED BY <1>9, <2>3, StageKept DEF Lose, End, Goto, session, TypeOK
<1> QED BY <1>1, <1>2, <1>3, <1>4, <1>5, <1>10, <1>6, <1>7, <1>8, <1>9 DEF Next

-------------------------------------------------------------------------------
LEMMA InvHolds == Spec => []Inv
<1>1. Init => Inv
  BY AmountAssumption DEF Init, Inv, TypeOK, Along, AtWork
<1>2. Inv /\ [Next]_vars => Inv'
  <2> SUFFICES ASSUME Inv, [Next]_vars PROVE Inv'
    OBVIOUS
  <2>1. CASE Next
    BY <2>1, TypeKept, AlongKept DEF Inv
  <2>2. CASE UNCHANGED vars
    <3>1. \A r \in Run : Along(r)'
      BY <2>2, Untouched DEF Inv, vars, session
    <3> QED BY <3>1, TypeKept DEF Inv
  <2> QED BY <2>1, <2>2
<1> QED BY <1>1, <1>2, PTL DEF Spec

(* The types of a run's state: in particular only a run that ended with a result  *)
(* or an error writes its status into its row, and no amount is ever negative.    *)
THEOREM TypeCorrect == Spec => []TypeOK
<1>1. Inv => TypeOK
  BY DEF Inv
<1> QED BY <1>1, InvHolds, PTL

(* Whatever tools commit, however a run ends and whichever sessions are lost, the *)
(* row of a run that is over is honest about its outcome and its cost.            *)
THEOREM RowsAlwaysHonest == Spec => []RowHonest
<1>1. Inv => RowHonest
  BY DEF Inv, Along, Honest, RowHonest
<1> QED BY <1>1, InvHolds, PTL

-------------------------------------------------------------------------------
(* Sums.  Total folds over a set in an order that CHOOSE picks.  The fold is the   *)
(* only function that adds up the subsets in this way, and counting units is one: *)
(* so a sum is a cardinality, and the order does not matter.                      *)

(* The amounts as sets of units, which are counted instead of added.             *)
UnitsOf(f, x) == {x} \X (0 .. f[x] - 1)

Units(f, S) == UNION {UnitsOf(f, x) : x \in S}

LEMMA UnitsOfOne ==
  ASSUME NEW f, NEW x, f[x] \in Nat
  PROVE  IsFiniteSet(UnitsOf(f, x)) /\ Cardinality(UnitsOf(f, x)) = f[x]
<1>1. IsFiniteSet({x}) /\ Cardinality({x}) = 1
  BY FS_Singleton
<1>2. PICK b \in Int : b = f[x] - 1
  OBVIOUS
<1>3. IsFiniteSet(0 .. b) /\ Cardinality(0 .. b) = IF 0 > b THEN 0 ELSE b - 0 + 1
  BY FS_Interval
<1>4. Cardinality(UnitsOf(f, x)) = 1 * f[x] /\ IsFiniteSet(UnitsOf(f, x))
  <2>1. (IF 0 > b THEN 0 ELSE b - 0 + 1) = f[x]
    BY <1>2
  <2>2. Cardinality(0 .. b) = f[x]
    BY <1>3, <2>1
  <2>3. UnitsOf(f, x) = {x} \X (0 .. b)
    BY <1>2 DEF UnitsOf
  <2>4. IsFiniteSet(0 .. b)
    BY <1>3
  <2> HIDE <1>3
  <2>5. Cardinality({x} \X (0 .. b)) = Cardinality({x}) * Cardinality(0 .. b)
        /\ IsFiniteSet({x} \X (0 .. b))
    BY <1>1, <2>4, FS_Product
  <2> QED BY <1>1, <2>2, <2>3, <2>5
<1> QED BY <1>4

LEMMA UnitsFinite ==
  ASSUME NEW S, IsFiniteSet(S), NEW f, \A x \in S : f[x] \in Nat
  PROVE  IsFiniteSet(Units(f, S)) /\ Cardinality(Units(f, S)) \in Nat
<1>1. IsFiniteSet({UnitsOf(f, x) : x \in S})
  <2> DEFINE T == {UnitsOf(f, x) : x \in S}
             m == [x \in S |-> UnitsOf(f, x)]
  <2>1. m \in Surjection(S, T)
    BY DEF Surjection
  <2> QED BY <2>1, FS_Surjection
<1>2. \A T \in {UnitsOf(f, x) : x \in S} : IsFiniteSet(T)
  BY UnitsOfOne
<1> HIDE DEF UnitsOf
<1>3. IsFiniteSet(Units(f, S))
  BY <1>1, <1>2, FS_UNION DEF Units
<1> QED BY <1>3, FS_CardinalityType

LEMMA UnitsSplit ==
  ASSUME NEW S, IsFiniteSet(S), NEW f, \A y \in S : f[y] \in Nat, NEW x \in S
  PROVE  Cardinality(Units(f, S)) = f[x] + Cardinality(Units(f, S \ {x}))
<1> DEFINE R == S \ {x}
<1>1. IsFiniteSet(R)
  BY FS_Subset
<1>2. IsFiniteSet(Units(f, R)) /\ Cardinality(Units(f, R)) \in Nat
  BY <1>1, UnitsFinite
<1>3. IsFiniteSet(UnitsOf(f, x)) /\ Cardinality(UnitsOf(f, x)) = f[x]
  BY UnitsOfOne
<1>4. Units(f, S) = UnitsOf(f, x) \cup Units(f, R)
  BY DEF Units
<1>5. UnitsOf(f, x) \cap Units(f, R) = {}
  BY DEF Units, UnitsOf
<1>6. Cardinality(UnitsOf(f, x) \cap Units(f, R)) = 0
  BY <1>5, FS_EmptySet
<1>7. Cardinality(Units(f, S)) =
        Cardinality(UnitsOf(f, x)) + Cardinality(Units(f, R))
          - Cardinality(UnitsOf(f, x) \cap Units(f, R))
  BY <1>2, <1>3, <1>4, FS_Union
<1> HIDE DEF R
<1>8. Cardinality(Units(f, S)) = f[x] + Cardinality(Units(f, R))
  BY <1>2, <1>3, <1>6, <1>7
<1> QED BY <1>8 DEF R

(* What the fold's recursive function satisfies.                                   *)
Adds(f, S, h) ==
  h = [s \in SUBSET S |->
         IF s = {} THEN 0 ELSE LET x == CHOOSE x \in s : TRUE IN f[x] + h[s \ {x}]]

LEMMA UnitsAdd ==
  ASSUME NEW S, IsFiniteSet(S), NEW f, \A y \in S : f[y] \in Nat
  PROVE  Adds(f, S, [s \in SUBSET S |-> Cardinality(Units(f, s))])
<1> DEFINE h == [s \in SUBSET S |-> Cardinality(Units(f, s))]
<1>1. ASSUME NEW s \in SUBSET S
      PROVE  h[s] = IF s = {} THEN 0
                    ELSE LET x == CHOOSE x \in s : TRUE IN f[x] + h[s \ {x}]
  <2>1. CASE s = {}
    BY <2>1, FS_EmptySet DEF Units
  <2>2. CASE s # {}
    <3> DEFINE x == CHOOSE x \in s : TRUE
    <3>1. x \in s
      BY <2>2
    <3>2. IsFiniteSet(s) /\ \A y \in s : f[y] \in Nat
      BY FS_Subset
    <3> HIDE DEF x
    <3>3. Cardinality(Units(f, s)) = f[x] + Cardinality(Units(f, s \ {x}))
      BY <3>1, <3>2, UnitsSplit
    <3>4. h[s] = f[x] + h[s \ {x}]
      BY <3>3
    <3> QED BY <2>2, <3>4 DEF x
  <2> QED BY <2>1, <2>2
<1> HIDE DEF h
<1>2. h = [s \in SUBSET S |->
         IF s = {} THEN 0 ELSE LET x == CHOOSE x \in s : TRUE IN f[x] + h[s \ {x}]]
  <2>1. h = [s \in SUBSET S |-> h[s]]
    BY DEF h
  <2> QED BY <1>1, <2>1
<1> QED BY <1>2 DEF Adds, h

(* Two functions that do, agree: a smallest subset on which they differ has a     *)
(* smaller one.                                                                   *)
LEMMA OneSum ==
  ASSUME NEW S, IsFiniteSet(S), NEW f, NEW g, NEW h, Adds(f, S, g), Adds(f, S, h)
  PROVE  g[S] = h[S]
<1> DEFINE Wrong == {s \in SUBSET S : g[s] # h[s]}
<1>1. SUFFICES ASSUME Wrong # {} PROVE FALSE
  OBVIOUS
<1>2. Wrong \subseteq FiniteSubsetsOf(S)
  BY FS_Subset DEF FiniteSubsetsOf
<1>3. PICK s \in Wrong : \A t \in Wrong : ~ (<<t, s>> \in StrictSubsetOrdering(S))
  BY <1>1, <1>2, FS_StrictSubsetOrderingWellFounded, WFMin
<1>4. s # {}
  BY DEF Adds
<1> DEFINE x == CHOOSE x \in s : TRUE
<1>5. x \in s
  BY <1>4
<1>6. g[s] = f[x] + g[s \ {x}] /\ h[s] = f[x] + h[s \ {x}]
  BY <1>4 DEF Adds
<1> HIDE DEF x
<1>7. s \ {x} \in Wrong
  BY <1>6
<1>8. <<s \ {x}, s>> \in StrictSubsetOrdering(S)
  BY <1>5 DEF StrictSubsetOrdering
<1> QED BY <1>3, <1>7, <1>8

(* A sum is the number of its units.                                               *)
LEMMA TotalCounts ==
  ASSUME NEW S, IsFiniteSet(S), NEW f, \A x \in S : f[x] \in Nat
  PROVE  Total(f, S) = Cardinality(Units(f, S))
<1> DEFINE g == [s \in SUBSET S |-> Cardinality(Units(f, s))]
           h == CHOOSE h : Adds(f, S, h)
<1>1. Adds(f, S, g)
  BY UnitsAdd
<1>2. Adds(f, S, h)
  BY <1>1
<1>3. Total(f, S) = h[S]
  BY DEF Total, MapThenSumSet, MapThenFoldSet, Adds
<1>4. g[S] = Cardinality(Units(f, S))
  OBVIOUS
<1> HIDE DEF g, h
<1> QED BY <1>1, <1>2, <1>3, <1>4, OneSum

LEMMA TotalType ==
  ASSUME NEW S, IsFiniteSet(S), NEW f, \A x \in S : f[x] \in Nat
  PROVE  Total(f, S) \in Nat
BY TotalCounts, UnitsFinite

(* Any element can be taken out of a sum ...                                       *)
LEMMA TotalSplit ==
  ASSUME NEW S, IsFiniteSet(S), NEW f, \A y \in S : f[y] \in Nat, NEW x \in S
  PROVE  /\ Total(f, S \ {x}) \in Nat
         /\ Total(f, S) = f[x] + Total(f, S \ {x})
<1>1. IsFiniteSet(S \ {x})
  BY FS_Subset
<1>2. Total(f, S) = Cardinality(Units(f, S))
  BY TotalCounts
<1>3. Total(f, S \ {x}) = Cardinality(Units(f, S \ {x}))
  BY <1>1, TotalCounts
<1>4. Total(f, S \ {x}) \in Nat
  BY <1>1, TotalType
<1> QED BY <1>2, <1>3, <1>4, UnitsSplit

(* ... and only the values on the set matter.                                      *)
LEMMA TotalSame ==
  ASSUME NEW S, IsFiniteSet(S), NEW f, NEW g,
         \A x \in S : f[x] \in Nat /\ g[x] = f[x]
  PROVE  Total(g, S) = Total(f, S)
<1>1. Units(g, S) = Units(f, S)
  BY DEF Units, UnitsOf
<1> QED BY <1>1, TotalCounts

LEMMA TotalOfNothing ==
  ASSUME NEW S, IsFiniteSet(S), NEW f, \A x \in S : f[x] = 0
  PROVE  Total(f, S) = 0
<1>1. Units(f, S) = {}
  BY DEF Units, UnitsOf
<1> QED BY <1>1, TotalCounts, FS_EmptySet

(* Where one value grows, the sum grows with it.                                   *)
LEMMA TotalAdds ==
  ASSUME NEW S, IsFiniteSet(S), NEW f, NEW g, \A x \in S : f[x] \in Nat /\ g[x] \in Nat,
         NEW r, NEW n \in Nat, g[r] = f[r] + n, \A x \in S \ {r} : g[x] = f[x]
  PROVE  Total(g, S) = Total(f, S) + IF r \in S THEN n ELSE 0
<1>1. Total(f, S) \in Nat
  BY TotalType
<1>2. CASE r \notin S
  <2>1. Total(g, S) = Total(f, S)
    BY <1>2, TotalSame
  <2> QED BY <1>1, <1>2, <2>1
<1>3. CASE r \in S
  <2>1. /\ Total(f, S \ {r}) \in Nat
        /\ Total(f, S) = f[r] + Total(f, S \ {r})
    BY <1>3, TotalSplit
  <2>2. Total(g, S) = g[r] + Total(g, S \ {r})
    BY <1>3, TotalSplit
  <2>3. IsFiniteSet(S \ {r})
    BY FS_Subset
  <2>4. Total(g, S \ {r}) = Total(f, S \ {r})
    BY <2>3, TotalSame
  <2>5. f[r] \in Nat
    BY <1>3
  <2>6. Total(g, S) = Total(f, S) + n
    BY <2>1, <2>2, <2>4, <2>5
  <2> QED BY <1>3, <2>6
<1> QED BY <1>2, <1>3

LEMMA TotalLess ==
  ASSUME NEW S, IsFiniteSet(S), NEW f, NEW g,
         \A x \in S : f[x] \in Nat /\ g[x] \in Nat /\ f[x] <= g[x]
  PROVE  Total(f, S) <= Total(g, S)
<1>1. Units(f, S) \subseteq Units(g, S)
  <2>1. ASSUME NEW x \in S PROVE UnitsOf(f, x) \subseteq UnitsOf(g, x)
    BY DEF UnitsOf
  <2> QED BY <2>1 DEF Units
<1>2. IsFiniteSet(Units(g, S))
  BY UnitsFinite
<1>3. Cardinality(Units(f, S)) <= Cardinality(Units(g, S))
  BY <1>1, <1>2, FS_Subset
<1> QED BY <1>3, TotalCounts

-------------------------------------------------------------------------------
(* Amounts. *)

(* What the rows of an agent's runs cost, and of those a user pays for.          *)
Cost(a) == Total(rowCost, RunsOf(a))

Owed(u) == Total(rowCost, PaidBy(u))

(* What the rows of those of an agent's runs cost that are over.                  *)
Booked == [r \in Run |-> IF pc[r] = "ended" THEN rowCost[r] ELSE 0]

Settled(a) == Total(Booked, RunsOf(a))

LEMMA CostType ==
  ASSUME TypeOK, NEW S \in SUBSET Run PROVE Total(rowCost, S) \in Nat
<1>1. IsFiniteSet(S)
  BY RunAssumption, FS_Subset
<1> QED BY <1>1, TotalType DEF TypeOK

LEMMA AmountTypes ==
  ASSUME TypeOK
  PROVE  /\ \A a \in Agent : Cost(a) \in Nat /\ Settled(a) \in Nat
         /\ \A u \in User : Owed(u) \in Nat
<1>1. ASSUME NEW a \in Agent PROVE Cost(a) \in Nat /\ Settled(a) \in Nat
  <2>1. RunsOf(a) \in SUBSET Run
    BY DEF RunsOf
  <2>2. IsFiniteSet(RunsOf(a))
    BY <2>1, RunAssumption, FS_Subset
  <2>3. \A x \in RunsOf(a) : Booked[x] \in Nat
    BY <2>1 DEF Booked, TypeOK
  <2> QED BY <2>1, <2>2, <2>3, CostType, TotalType DEF Cost, Settled
<1>2. \A u \in User : PaidBy(u) \in SUBSET Run
  BY DEF PaidBy
<1> QED BY <1>1, <1>2, CostType DEF Owed

(* Only a commit changes what a row costs: from nothing to the run's cost.        *)
LEMMA CommitAdds ==
  ASSUME Inv, NEW r \in Run, Commit(r), NEW S \in SUBSET Run
  PROVE  Total(rowCost', S) = Total(rowCost, S) + IF r \in S THEN cost[r] ELSE 0
<1>1. /\ rowCost[r] = 0 /\ cost[r] \in Nat /\ rowCost \in [Run -> Nat]
      /\ rowCost' = [rowCost EXCEPT ![r] = cost[r]]
  BY DEF Inv, Along, Commit, TypeOK
<1>2. IsFiniteSet(S)
  BY RunAssumption, FS_Subset
<1>3. rowCost'[r] = rowCost[r] + cost[r]
  BY <1>1
<1>4. \A x \in S : rowCost[x] \in Nat /\ rowCost'[x] \in Nat
  BY <1>1
<1>5. \A x \in S \ {r} : rowCost'[x] = rowCost[x]
  BY <1>1
<1>6. cost[r] \in Nat
  BY <1>1
<1> QED BY <1>2, <1>3, <1>4, <1>5, <1>6, TotalAdds

LEMMA CommitAmounts ==
  ASSUME Inv, NEW r \in Run, Commit(r)
  PROVE  /\ \A a \in Agent : Cost(a)' = Cost(a) + IF AgentOf[r] = a THEN cost[r] ELSE 0
         /\ \A u \in User : Owed(u)' = Owed(u) + IF UserOf[r] = u THEN cost[r] ELSE 0
<1>1. ASSUME NEW a \in Agent
      PROVE  Cost(a)' = Cost(a) + IF AgentOf[r] = a THEN cost[r] ELSE 0
  <2>1. RunsOf(a) \in SUBSET Run /\ (r \in RunsOf(a) <=> AgentOf[r] = a)
    BY DEF RunsOf
  <2>2. Total(rowCost', RunsOf(a)) =
          Total(rowCost, RunsOf(a)) + IF r \in RunsOf(a) THEN cost[r] ELSE 0
    BY <2>1, CommitAdds
  <2> QED BY <2>1, <2>2 DEF Cost, RunsOf
<1>2. ASSUME NEW u \in User
      PROVE  Owed(u)' = Owed(u) + IF UserOf[r] = u THEN cost[r] ELSE 0
  <2>1. PaidBy(u) \in SUBSET Run /\ (r \in PaidBy(u) <=> UserOf[r] = u)
    BY DEF PaidBy
  <2>2. Total(rowCost', PaidBy(u)) =
          Total(rowCost, PaidBy(u)) + IF r \in PaidBy(u) THEN cost[r] ELSE 0
    BY <2>1, CommitAdds
  <2> QED BY <2>1, <2>2 DEF Owed, PaidBy
<1> QED BY <1>1, <1>2

LEMMA SameAmounts ==
  ASSUME rowCost' = rowCost
  PROVE  (\A a \in Agent : Cost(a)' = Cost(a)) /\ \A u \in User : Owed(u)' = Owed(u)
BY DEF Cost, Owed, RunsOf, PaidBy, Total, MapThenSumSet, MapThenFoldSet

-------------------------------------------------------------------------------
(* Nobody is charged more than the rows cost.  A run loads an amount and writes   *)
(* it back with its own cost; in between, other runs can only have added to the   *)
(* rows, so what it writes is still covered.  The rows behind what an agent has   *)
(* spent are those of the runs that are over: the run that writes is not.         *)

Debts ==
  /\ \A u \in User : debt[u] <= Owed(u)
  /\ \A r \in Run : pc[r] = "billed" /\ UserOf[r] \in User => base[r] <= Owed(UserOf[r])

Spendings ==
  /\ \A a \in Agent : spent[a] <= Settled(a)
  /\ \A r \in Run : pc[r] = "recorded" => seen[r] <= Settled(AgentOf[r])

(* No step takes anything off the rows.                                           *)
LEMMA RowsGrow ==
  Inv /\ [Next]_vars =>
    \A x \in Run : rowCost[x] <= rowCost'[x] /\ (pc[x] = "ended" => pc'[x] = "ended")
<1> DEFINE Grow == \A x \in Run : rowCost[x] <= rowCost'[x]
                                   /\ (pc[x] = "ended" => pc'[x] = "ended")
<1> SUFFICES ASSUME Inv, [Next]_vars PROVE Grow
  OBVIOUS
<1> USE DEF Inv
<1>0. \A x \in Run : rowCost[x] \in Nat
  BY DEF TypeOK
<1>1. ASSUME NEW r \in Run, Commit(r) PROVE Grow
  <2>1. rowCost[r] = 0 /\ cost[r] \in Nat
    BY <1>1 DEF Commit, Along, TypeOK
  <2> QED BY <1>0, <1>1, <2>1 DEF Commit, Goto, TypeOK
<1>2. ASSUME NEW r \in Run, pc[r] # "ended", rowCost' = rowCost,
             \A x \in Run \ {r} : pc'[x] = pc[x]
      PROVE  Grow
  BY <1>0, <1>2
<1>3. ASSUME NEW r \in Run,
             Begin(r) \/ Throttle(r) \/ Grant(r) \/ CommitByTool(r) \/ Bill(r) \/ Record(r)
               \/ Keep(r) \/ Discard(r) \/ Lose(r)
      PROVE  Grow
  <2>1. pc[r] # "ended" /\ rowCost' = rowCost /\ \A x \in Run \ {r} : pc'[x] = pc[x]
    BY <1>3 DEF Begin, MayStart, Throttle, Grant, CommitByTool, Bill, Record, Keep, Discard,
                Lose, End, Goto, TypeOK
  <2> QED BY <1>2, <2>1
<1>4. ASSUME NEW r \in Run, NEW c \in Costs, NEW j \in Costs,
             Succeed(r, c, j) \/ Empty(r, c, j) \/ Raise(r, c) \/ Pause(r, c)
      PROVE  Grow
  <2>1. pc[r] # "ended" /\ rowCost' = rowCost /\ \A x \in Run \ {r} : pc'[x] = pc[x]
    BY <1>4 DEF Succeed, Empty, Raise, Pause, End, Goto, TypeOK
  <2> QED BY <1>2, <2>1
<1>5. CASE UNCHANGED vars
  BY <1>0, <1>5 DEF vars
<1> HIDE DEF Grow
<1> QED BY <1>1, <1>3, <1>4, <1>5 DEF Next

LEMMA AmountsGrow ==
  ASSUME Inv, [Next]_vars
  PROVE  /\ \A u \in User : Owed(u) \in Nat /\ Owed(u)' \in Nat /\ Owed(u) <= Owed(u)'
         /\ \A a \in Agent : /\ Settled(a) \in Nat /\ Settled(a)' \in Nat
                             /\ Settled(a) <= Settled(a)'
<1>0. TypeOK /\ TypeOK'
  BY TypeKept DEF Inv
<1>3. \A x \in Run : rowCost[x] \in Nat /\ rowCost'[x] \in Nat
  BY <1>0 DEF TypeOK
<1>4. \A x \in Run : /\ rowCost[x] <= rowCost'[x]
                     /\ pc[x] = "ended" => pc'[x] = "ended"
  BY RowsGrow
<1>1. ASSUME NEW u \in User
      PROVE  Owed(u) \in Nat /\ Owed(u)' \in Nat /\ Owed(u) <= Owed(u)'
  <2>1. PaidBy(u) \subseteq Run /\ PaidBy(u)' = PaidBy(u)
    BY DEF PaidBy
  <2>2. IsFiniteSet(PaidBy(u))
    BY <2>1, RunAssumption, FS_Subset
  <2>3. \A x \in PaidBy(u) :
          rowCost[x] \in Nat /\ rowCost'[x] \in Nat /\ rowCost[x] <= rowCost'[x]
    BY <1>3, <1>4, <2>1
  <2>4. /\ Total(rowCost, PaidBy(u)) <= Total(rowCost', PaidBy(u))
        /\ Total(rowCost, PaidBy(u)) \in Nat /\ Total(rowCost', PaidBy(u)) \in Nat
    BY <2>2, <2>3, TotalLess, TotalType
  <2> QED BY <2>1, <2>4 DEF Owed
<1>2. ASSUME NEW a \in Agent
      PROVE  Settled(a) \in Nat /\ Settled(a)' \in Nat /\ Settled(a) <= Settled(a)'
  <2>1. RunsOf(a) \subseteq Run /\ RunsOf(a)' = RunsOf(a)
    BY DEF RunsOf
  <2>2. IsFiniteSet(RunsOf(a))
    BY <2>1, RunAssumption, FS_Subset
  <2>3. ASSUME NEW x \in RunsOf(a)
        PROVE  Booked[x] \in Nat /\ Booked'[x] \in Nat /\ Booked[x] <= Booked'[x]
    <3>1. /\ rowCost[x] \in Nat /\ rowCost'[x] \in Nat /\ rowCost[x] <= rowCost'[x]
          /\ pc[x] = "ended" => pc'[x] = "ended"
      BY <1>3, <1>4, <2>1
    <3> QED BY <2>1, <3>1 DEF Booked
  <2>4. /\ Total(Booked, RunsOf(a)) <= Total(Booked', RunsOf(a))
        /\ Total(Booked, RunsOf(a)) \in Nat /\ Total(Booked', RunsOf(a)) \in Nat
    BY <2>2, <2>3, TotalLess, TotalType
  <2> QED BY <2>1, <2>4 DEF Settled
<1> QED BY <1>1, <1>2

(* The commit adds to the rows what it adds to the debt.                           *)
LEMMA DebtsCommit ==
  ASSUME Inv, Debts, NEW r \in Run, Commit(r) PROVE Debts'
<1>1. /\ pc[r] = "billed" /\ pc'[r] \in {"ended", "logged"} /\ debt' = DebtAfter(r)
      /\ \A x \in Run \ {r} : pc'[x] = pc[x]
      /\ base' = base
  BY DEF Commit, Goto, session, Inv, TypeOK
<1>2. base[r] \in Nat /\ cost[r] \in Nat /\ \A x \in Run : base[x] \in Nat
  BY DEF Inv, TypeOK
<1>3. [Next]_vars
  BY DEF Next
<1>4. ASSUME NEW u \in User
      PROVE  /\ Owed(u) \in Nat /\ Owed(u)' \in Nat /\ Owed(u) <= Owed(u)'
             /\ UserOf[r] = u => Owed(u)' = Owed(u) + cost[r]
  BY <1>2, <1>3, CommitAmounts, AmountsGrow
<1>5. ASSUME NEW u \in User PROVE debt'[u] <= Owed(u)'
  <2>1. debt'[u] = IF u = UserOf[r] /\ cost[r] > 0 THEN base[r] + cost[r] ELSE debt[u]
    BY <1>1 DEF DebtAfter
  <2>2. debt[u] \in Nat /\ debt[u] <= Owed(u)
    BY DEF Debts, Inv, TypeOK
  <2>3. u = UserOf[r] => base[r] <= Owed(u)
    BY <1>1 DEF Debts
  <2>4. CASE u = UserOf[r] /\ cost[r] > 0
    BY <1>2, <1>4, <2>1, <2>3, <2>4
  <2>5. CASE ~ (u = UserOf[r] /\ cost[r] > 0)
    BY <1>4, <2>1, <2>2, <2>5
  <2> QED BY <2>4, <2>5
<1>6. ASSUME NEW x \in Run, pc'[x] = "billed", UserOf[x] \in User
      PROVE  base'[x] <= Owed(UserOf[x])'
  <2>1. base'[x] = base[x] /\ base[x] <= Owed(UserOf[x])
    BY <1>1, <1>6 DEF Debts
  <2> QED BY <1>2, <1>4, <1>6, <2>1
<1> QED BY <1>5, <1>6 DEF Debts

LEMMA DebtsKept == Inv /\ Debts /\ [Next]_vars => Debts'
<1> SUFFICES ASSUME Inv, Debts, [Next]_vars PROVE Debts'
  OBVIOUS
<1>0. /\ \A u \in User : Owed(u) \in Nat /\ Owed(u)' \in Nat /\ Owed(u) <= Owed(u)'
      /\ \A x \in Run : base[x] \in Nat
      /\ \A u \in User : debt[u] \in Nat
  BY AmountsGrow DEF Inv, TypeOK
<1>1. ASSUME debt' = debt,
             \A x \in Run : pc'[x] = "billed" => pc[x] = "billed" /\ base'[x] = base[x]
      PROVE  Debts'
  <2>1. ASSUME NEW u \in User PROVE debt'[u] <= Owed(u)'
    BY <1>0, <1>1 DEF Debts
  <2>2. ASSUME NEW x \in Run, pc'[x] = "billed", UserOf[x] \in User
        PROVE  base'[x] <= Owed(UserOf[x])'
    BY <1>0, <1>1, <2>2 DEF Debts
  <2> QED BY <2>1, <2>2 DEF Debts
<1>2. ASSUME NEW r \in Run,
             Begin(r) \/ Throttle(r) \/ Grant(r) \/ CommitByTool(r) \/ Record(r) \/ Keep(r)
               \/ Discard(r) \/ Lose(r)
      PROVE  Debts'
  BY <1>1, <1>2 DEF Begin, Throttle, Grant, CommitByTool, Record, Keep, Discard, Lose, End,
                    Goto, session, Inv, TypeOK
<1>3. ASSUME NEW r \in Run, NEW c \in Costs, NEW j \in Costs,
             Succeed(r, c, j) \/ Empty(r, c, j) \/ Raise(r, c) \/ Pause(r, c)
      PROVE  Debts'
  BY <1>1, <1>3 DEF Succeed, Empty, Raise, Pause, End, Goto, Inv, TypeOK
<1>4. ASSUME NEW r \in Run, Bill(r) PROVE Debts'
  <2>1. /\ pc[r] = "worked" /\ debt' = debt
        /\ \A x \in Run \ {r} : pc'[x] = pc[x] /\ base'[x] = base[x]
        /\ UserOf[r] \in User => base'[r] = debt[UserOf[r]]
    BY <1>4 DEF Bill, Goto, Inv, TypeOK
  <2>2. ASSUME NEW u \in User PROVE debt'[u] <= Owed(u)'
    BY <1>0, <2>1 DEF Debts
  <2>3. ASSUME NEW x \in Run, pc'[x] = "billed", UserOf[x] \in User
        PROVE  base'[x] <= Owed(UserOf[x])'
    BY <1>0, <2>1, <2>3 DEF Debts
  <2> QED BY <2>2, <2>3 DEF Debts
<1>5. CASE UNCHANGED vars
  BY <1>1, <1>5 DEF vars, session
<1> QED BY <1>2, <1>3, <1>4, <1>5, DebtsCommit DEF Next

(* What a run writes to its cap, its row shows from this step on.                  *)
LEMMA SpendingsKeep ==
  ASSUME Inv, Spendings, NEW r \in Run, Keep(r) PROVE Spendings'
<1>1. /\ pc[r] = "recorded" /\ pc'[r] = "ended" /\ spent' = SpentAfter(r)
      /\ \A x \in Run \ {r} : pc'[x] = pc[x]
      /\ seen' = seen /\ rowCost' = rowCost
  BY DEF Keep, Goto, session, Inv, TypeOK
<1>2. /\ cost[r] \in Nat /\ rowCost[r] = cost[r] /\ \A x \in Run : rowCost[x] \in Nat
      /\ \A x \in Run : seen[x] \in Nat
  BY <1>1 DEF Inv, Along, TypeOK
<1>3. [Next]_vars
  BY DEF Next
<1>4. \A a \in Agent : /\ Settled(a) \in Nat /\ Settled(a)' \in Nat
                       /\ Settled(a) <= Settled(a)'
  BY <1>3, AmountsGrow
<1>5. ASSUME NEW a \in Agent, AgentOf[r] = a PROVE Settled(a)' = Settled(a) + cost[r]
  <2>1. RunsOf(a) \subseteq Run /\ r \in RunsOf(a) /\ RunsOf(a)' = RunsOf(a)
    BY <1>5 DEF RunsOf
  <2>2. IsFiniteSet(RunsOf(a))
    BY <2>1, RunAssumption, FS_Subset
  <2>3. Booked'[r] = Booked[r] + cost[r] /\ \A x \in RunsOf(a) \ {r} : Booked'[x] = Booked[x]
    BY <1>1, <1>2, <2>1 DEF Booked
  <2>4. \A x \in RunsOf(a) : Booked[x] \in Nat /\ Booked'[x] \in Nat
    BY <1>1, <1>2, <2>1 DEF Booked
  <2>5. Total(Booked', RunsOf(a)) =
          Total(Booked, RunsOf(a)) + IF r \in RunsOf(a) THEN cost[r] ELSE 0
    BY <1>2, <2>2, <2>3, <2>4, TotalAdds
  <2> QED BY <2>1, <2>5 DEF Settled
<1>6. ASSUME NEW a \in Agent PROVE spent'[a] <= Settled(a)'
  <2>1. spent'[a] \in {spent[a], IF a = AgentOf[r] THEN seen[r] + cost[r] ELSE spent[a]}
    BY <1>1 DEF SpentAfter, Inv, TypeOK
  <2>2. spent[a] <= Settled(a) /\ spent[a] \in Nat
    BY DEF Spendings, Inv, TypeOK
  <2>3. a = AgentOf[r] => seen[r] <= Settled(a)
    BY <1>1 DEF Spendings
  <2> QED BY <1>2, <1>4, <1>5, <2>1, <2>2, <2>3
<1>7. ASSUME NEW x \in Run, pc'[x] = "recorded" PROVE seen'[x] <= Settled(AgentOf[x])'
  <2>1. AgentOf[x] \in Agent /\ seen'[x] = seen[x] /\ seen[x] <= Settled(AgentOf[x])
    BY <1>1, <1>7, RunAssumption DEF Spendings
  <2> QED BY <1>2, <1>4, <2>1
<1> QED BY <1>6, <1>7 DEF Spendings

LEMMA SpendingsKept == Inv /\ Spendings /\ [Next]_vars => Spendings'
<1> SUFFICES ASSUME Inv, Spendings, [Next]_vars PROVE Spendings'
  OBVIOUS
<1>0. /\ \A a \in Agent : /\ Settled(a) \in Nat /\ Settled(a)' \in Nat
                          /\ Settled(a) <= Settled(a)' /\ spent[a] \in Nat
      /\ \A x \in Run : seen[x] \in Nat /\ AgentOf[x] \in Agent
  BY AmountsGrow, RunAssumption DEF Inv, TypeOK
<1>1. ASSUME spent' = spent,
             \A x \in Run : pc'[x] = "recorded" =>
               \/ pc[x] = "recorded" /\ seen'[x] = seen[x]
               \/ seen'[x] = spent[AgentOf[x]]
      PROVE  Spendings'
  <2>1. ASSUME NEW a \in Agent PROVE spent'[a] <= Settled(a)'
    BY <1>0, <1>1 DEF Spendings
  <2>2. ASSUME NEW x \in Run, pc'[x] = "recorded" PROVE seen'[x] <= Settled(AgentOf[x])'
    BY <1>0, <1>1, <2>2 DEF Spendings
  <2> QED BY <2>1, <2>2 DEF Spendings
<1>2. ASSUME NEW r \in Run,
             Begin(r) \/ Throttle(r) \/ Grant(r) \/ CommitByTool(r) \/ Bill(r) \/ Commit(r)
               \/ Record(r) \/ Discard(r) \/ Lose(r)
      PROVE  Spendings'
  <2>1. CASE Record(r)
    BY <1>1, <2>1 DEF Record, Goto, Inv, TypeOK
  <2>2. CASE ~Record(r)
    BY <1>1, <1>2, <2>2 DEF Begin, Throttle, Grant, CommitByTool, Bill, Commit, Discard,
                            Lose, End, Goto, session, Inv, TypeOK
  <2> QED BY <2>1, <2>2
<1>3. ASSUME NEW r \in Run, NEW c \in Costs, NEW j \in Costs,
             Succeed(r, c, j) \/ Empty(r, c, j) \/ Raise(r, c) \/ Pause(r, c)
      PROVE  Spendings'
  BY <1>1, <1>3 DEF Succeed, Empty, Raise, Pause, End, Goto, Inv, TypeOK
<1>4. CASE UNCHANGED vars
  BY <1>1, <1>4 DEF vars, session
<1> QED BY <1>2, <1>3, <1>4, SpendingsKeep DEF Next

LEMMA ChargesStart == Init => Debts /\ Spendings
<1> SUFFICES ASSUME Init PROVE Debts /\ Spendings
  OBVIOUS
<1>1. /\ \A a \in Agent : Settled(a) \in Nat
      /\ \A u \in User : Owed(u) \in Nat
  BY AmountTypes, AmountAssumption DEF Init, TypeOK
<1> QED BY <1>1 DEF Init, Debts, Spendings

(* However runs interleave, whatever they cost and whichever of them are lost, no  *)
(* user is charged and no agent is recorded with more than the rows cost.          *)
THEOREM NeverAnyoneOvercharged == Spec => []NeverOvercharged
<1>1. Inv /\ Debts /\ Spendings => NeverOvercharged
  <2> SUFFICES ASSUME Inv, Debts, Spendings PROVE NeverOvercharged
    OBVIOUS
  <2>1. ASSUME NEW a \in Agent PROVE spent[a] <= Cost(a)
    <3>1. RunsOf(a) \subseteq Run /\ IsFiniteSet(RunsOf(a))
      BY RunAssumption, FS_Subset DEF RunsOf
    <3>2. \A x \in RunsOf(a) :
            Booked[x] \in Nat /\ rowCost[x] \in Nat /\ Booked[x] <= rowCost[x]
      BY <3>1 DEF Booked, Inv, TypeOK
    <3>3. Settled(a) <= Cost(a)
      BY <3>1, <3>2, TotalLess DEF Settled, Cost
    <3>4. spent[a] \in Nat /\ Settled(a) \in Nat /\ Cost(a) \in Nat /\ spent[a] <= Settled(a)
      BY AmountTypes DEF Inv, TypeOK, Spendings
    <3> QED BY <3>3, <3>4
  <2> QED BY <2>1 DEF Debts, NeverOvercharged, Owed, Cost
<1> QED BY <1>1, ChargesStart, DebtsKept, SpendingsKept, InvHolds, PTL DEF Spec

-------------------------------------------------------------------------------
(* Agents that only the scheduler runs.  It runs one schedule after the other, so *)
(* what a run loads from the cap is still there when the run writes it back.      *)

OneSchedule == \A x, y \in Cron : Open(x) /\ Open(y) => x = y

LEMMA OneScheduleKept == Inv /\ OneSchedule /\ [Next]_vars => OneSchedule'
<1> SUFFICES ASSUME Inv, OneSchedule, [Next]_vars PROVE OneSchedule'
  OBVIOUS
<1>1. ASSUME NEW r \in Run, Begin(r) PROVE OneSchedule'
  <2>1. /\ r \in Cron => \A x \in Cron : ~Open(x)
        /\ \A x \in Run \ {r} : pc'[x] = pc[x]
    BY <1>1 DEF Begin, MayStart, End, Goto, Inv, TypeOK
  <2> QED BY <2>1, RunAssumption DEF OneSchedule, Open
<1>2. ASSUME NEW r \in Run, Open(r), \A x \in Run \ {r} : pc'[x] = pc[x]
      PROVE  OneSchedule'
  BY <1>2, RunAssumption DEF OneSchedule, Open
<1>3. ASSUME NEW r \in Run, Throttle(r) \/ Grant(r) \/ CommitByTool(r) PROVE OneSchedule'
  <2>1. Open(r) /\ \A x \in Run \ {r} : pc'[x] = pc[x]
    BY <1>3 DEF Throttle, Grant, CommitByTool, End, Goto, Open, Inv, TypeOK
  <2> QED BY <1>2, <2>1
<1>4. ASSUME NEW r \in Run, NEW c \in Costs, NEW j \in Costs,
             Succeed(r, c, j) \/ Empty(r, c, j) \/ Raise(r, c) \/ Pause(r, c)
      PROVE  OneSchedule'
  <2>1. Open(r) /\ \A x \in Run \ {r} : pc'[x] = pc[x]
    BY <1>4 DEF Succeed, Empty, Raise, Pause, End, Goto, Open, Inv, TypeOK
  <2> QED BY <1>2, <2>1
<1>5. ASSUME NEW r \in Run,
             Bill(r) \/ Commit(r) \/ Record(r) \/ Keep(r) \/ Discard(r) \/ Lose(r)
      PROVE  OneSchedule'
  <2>1. Open(r) /\ \A x \in Run \ {r} : pc'[x] = pc[x]
    BY <1>5 DEF Bill, Commit, Record, Keep, Discard, Lose, End, Goto, Open, Inv, TypeOK
  <2> QED BY <1>2, <2>1
<1>6. CASE UNCHANGED vars
  BY <1>6 DEF vars, OneSchedule, Open
<1> QED BY <1>1, <1>3, <1>4, <1>5, <1>6 DEF Next

(* A run claims nothing, or what LLM calls may cost.                               *)
Costed == \A r \in Run : cost[r] \in Costs \cup {0}

LEMMA CostedKept == Inv /\ Costed /\ [Next]_vars => Costed'
<1> SUFFICES ASSUME Inv, Costed, [Next]_vars PROVE Costed'
  OBVIOUS
<1>1. ASSUME NEW r \in Run, NEW c \in Costs, NEW j \in Costs,
             Succeed(r, c, j) \/ Empty(r, c, j)
      PROVE  Costed'
  <2>1. Charged(r, c) \in {0, c}
    BY DEF Charged
  <2> QED BY <1>1, <2>1 DEF Succeed, Empty, Spend, Costed, Inv, TypeOK
<1>2. ASSUME cost' = cost PROVE Costed'
  BY <1>2 DEF Costed
<1> QED BY <1>1, <1>2 DEF Next, Begin, Throttle, Grant, CommitByTool, Raise, Pause, Bill,
                          Commit, Record, Keep, Discard, Lose, vars, session

(* What may be spent before a run is blocked.                                      *)
Room == IF Estimate <= Limit THEN Limit - Estimate ELSE 0

Due(r) == pc[r] \in {"logged", "recorded"}

(* What the cap shows is what the rows cost, up to the run that has its commit     *)
(* behind it and the scheduler's ahead; and a run that goes on found room.         *)
Tracked(a) ==
  /\ \A r \in RunsOf(a) : pc[r] = "recorded" => seen[r] = spent[a]
  /\ \A r \in RunsOf(a) : Due(r) => spent[a] + cost[r] = Cost(a)
  /\ (\A r \in RunsOf(a) : ~Due(r)) => spent[a] = Cost(a)
  /\ Limit > 0 => \A r \in RunsOf(a) : Open(r) /\ ~Due(r) => spent[a] <= Room

(* The rows hold the room and one run more at the most.                            *)
Capped(a) == Limit > 0 => \E c \in Costs \cup {0} : Cost(a) <= Room + c

LEMMA RoomType == Room \in Nat /\ Max({0, Limit - Estimate}) = Room
<1>1. Room \in Nat /\ Room \in {0, Limit - Estimate} /\ \A x \in {0, Limit - Estimate} : Room >= x
  BY AmountAssumption DEF Room
<1>2. \A y \in {0, Limit - Estimate} :
        (\A x \in {0, Limit - Estimate} : y >= x) => y = Room
  BY <1>1, AmountAssumption
<1> QED BY <1>1, <1>2 DEF Max

LEMMA ScheduledFacts ==
  ASSUME NEW a \in Scheduled
  PROVE  /\ a \in Agent /\ RunsOf(a) \subseteq Cron /\ RunsOf(a) \subseteq Run
         /\ \A r \in RunsOf(a) : ModeOf[r] = "standard" /\ AgentOf[r] = a
BY DEF Scheduled, RunsOf

(* While a schedule of the agent is open no other run of the agent is.             *)
LEMMA OnlyOpen ==
  ASSUME OneSchedule, NEW a \in Scheduled, NEW r \in RunsOf(a), Open(r)
  PROVE  \A x \in RunsOf(a) : Open(x) => x = r
BY ScheduledFacts DEF OneSchedule

(* A step that leaves the agent's cap and rows alone, and whose run, if it is one  *)
(* of the agent's, stays on this side of its commit.                              *)
LEMMA TrackedUntouched ==
  ASSUME NEW a \in Agent, Tracked(a), NEW r \in Run,
         spent'[a] = spent[a], Cost(a)' = Cost(a),
         \A x \in RunsOf(a) \ {r} :
           pc'[x] = pc[x] /\ seen'[x] = seen[x] /\ cost'[x] = cost[x],
         r \in RunsOf(a) =>
           ~Due(r) /\ ~Due(r)' /\ (Open(r)' => (Limit > 0 => spent[a] <= Room))
  PROVE  Tracked(a)'
<1>1. \A x \in RunsOf(a) : Due(x)' <=> Due(x)
  BY DEF Due
<1>2. ASSUME NEW x \in RunsOf(a), pc'[x] = "recorded" PROVE seen'[x] = spent'[a]
  BY <1>2 DEF Tracked, Due
<1>3. ASSUME NEW x \in RunsOf(a), Due(x)' PROVE spent'[a] + cost'[x] = Cost(a)'
  BY <1>1, <1>3 DEF Tracked
<1>4. (\A x \in RunsOf(a) : ~Due(x)') => spent'[a] = Cost(a)'
  BY <1>1 DEF Tracked
<1>5. RunsOf(a)' = RunsOf(a) /\ Room' = Room
  BY DEF RunsOf, Room
<1>6. ASSUME Limit > 0, NEW x \in RunsOf(a), Open(x)', ~Due(x)' PROVE spent'[a] <= Room
  BY <1>1, <1>6 DEF Tracked, Open
<1> HIDE DEF Room, Due, Open
<1> QED BY <1>2, <1>3, <1>4, <1>5, <1>6 DEF Tracked, RunsOf, Room

(* The commit of a schedule: the rows are ahead of the cap by its cost.             *)
LEMMA TrackedCommit ==
  ASSUME Inv, OneSchedule, Costed, NEW a \in Scheduled, Tracked(a), NEW r \in RunsOf(a),
         Commit(r)
  PROVE  Tracked(a)' /\ Capped(a)'
<1>1. /\ a \in Agent /\ r \in Run /\ r \in Cron /\ AgentOf[r] = a /\ ModeOf[r] = "standard"
  BY ScheduledFacts
<1>2. /\ pc[r] = "billed" /\ pc'[r] = "logged" /\ \A x \in Run \ {r} : pc'[x] = pc[x]
      /\ seen' = seen /\ cost' = cost /\ spent' = spent
  BY <1>1 DEF Commit, Goto, ReturnsEarly, session, Inv, TypeOK
<1>3. \A x \in RunsOf(a) : Open(x) => x = r
  BY <1>2, OnlyOpen DEF Open
<1>4. \A x \in RunsOf(a) : Open(x)' => x = r
  BY <1>2, <1>3 DEF Open, RunsOf
<1>5. (Limit > 0 => spent[a] <= Room) /\ spent[a] = Cost(a)
  <2>1. \A x \in RunsOf(a) : ~Due(x)
    BY <1>2, <1>3 DEF Open, Due
  <2>2. Open(r)
    BY <1>2 DEF Open
  <2> QED BY <2>1, <2>2 DEF Tracked
<1>6. spent[a] \in Nat /\ cost[r] \in Nat /\ cost[r] \in Costs \cup {0}
  BY <1>1 DEF Inv, TypeOK, Costed
<1>7. Cost(a)' = spent[a] + cost[r]
  BY <1>1, <1>5, CommitAmounts
<1>8. Limit > 0 => Cost(a)' <= Room + cost[r]
  BY <1>5, <1>6, <1>7, RoomType
<1>9. Capped(a)'
  BY <1>6, <1>8 DEF Capped, Room
<1>10. Due(r)' /\ ~Due(r)
  BY <1>2 DEF Due
<1>11. /\ \A x \in RunsOf(a) : pc'[x] # "recorded"
       /\ \A x \in RunsOf(a) : Due(x)' => spent'[a] + cost'[x] = Cost(a)'
       /\ ~ \A x \in RunsOf(a) : ~Due(x)'
       /\ \A x \in RunsOf(a) : Open(x)' => Due(x)'
  BY <1>2, <1>4, <1>7, <1>10 DEF Open, Due
<1>12. Tracked(a)'
  BY <1>11 DEF Tracked, RunsOf, Room, Open, Due
<1> QED BY <1>9, <1>12

(* The record loads what is there: no other run of the agent is open.               *)
LEMMA TrackedRecord ==
  ASSUME Inv, OneSchedule, NEW a \in Scheduled, Tracked(a), NEW r \in RunsOf(a), Record(r)
  PROVE  Tracked(a)' /\ Cost(a)' = Cost(a)
<1>1. /\ a \in Agent /\ r \in Run /\ r \in Cron /\ AgentOf[r] = a
  BY ScheduledFacts
<1>2. /\ pc[r] = "logged" /\ pc'[r] = "recorded" /\ \A x \in Run \ {r} : pc'[x] = pc[x]
      /\ seen'[r] = spent[a] /\ cost' = cost /\ spent' = spent /\ rowCost' = rowCost
  BY <1>1 DEF Record, Goto, Inv, TypeOK
<1>3. \A x \in RunsOf(a) : Open(x)' => x = r
  BY <1>2, OnlyOpen DEF Open, RunsOf
<1>4. spent[a] + cost[r] = Cost(a) /\ Cost(a)' = Cost(a)
  <2>1. Due(r)
    BY <1>2 DEF Due
  <2>2. spent[a] + cost[r] = Cost(a)
    BY <2>1 DEF Tracked
  <2> QED BY <1>1, <1>2, <2>2, SameAmounts
<1>5. Due(r)'
  BY <1>2 DEF Due
<1>6. /\ \A x \in RunsOf(a) : pc'[x] = "recorded" => seen'[x] = spent'[a]
      /\ \A x \in RunsOf(a) : Due(x)' => spent'[a] + cost'[x] = Cost(a)'
      /\ ~ \A x \in RunsOf(a) : ~Due(x)'
      /\ \A x \in RunsOf(a) : Open(x)' => Due(x)'
  BY <1>2, <1>3, <1>4, <1>5 DEF Open, Due
<1>7. Tracked(a)'
  BY <1>6 DEF Tracked, RunsOf, Room, Open, Due
<1> QED BY <1>4, <1>7

(* The scheduler's commit closes the gap.                                           *)
LEMMA TrackedKeep ==
  ASSUME Inv, OneSchedule, NEW a \in Scheduled, Tracked(a), NEW r \in RunsOf(a), Keep(r)
  PROVE  Tracked(a)' /\ Cost(a)' = Cost(a)
<1>1. /\ a \in Agent /\ r \in Run /\ r \in Cron /\ AgentOf[r] = a
  BY ScheduledFacts
<1>2. /\ pc[r] = "recorded" /\ pc'[r] = "ended" /\ \A x \in Run \ {r} : pc'[x] = pc[x]
      /\ seen' = seen /\ cost' = cost /\ spent' = SpentAfter(r) /\ rowCost' = rowCost
  BY <1>1 DEF Keep, Goto, session, Inv, TypeOK
<1>3. \A x \in RunsOf(a) : ~Open(x)'
  BY <1>2, OnlyOpen DEF Open, RunsOf
<1>4. seen[r] = spent[a] /\ spent[a] + cost[r] = Cost(a)
  BY <1>2 DEF Tracked, Due
<1>5. spent[a] \in Nat /\ cost[r] \in Nat /\ spent \in [Agent -> Nat]
  BY <1>1 DEF Inv, TypeOK
<1>6. spent'[a] = IF cost[r] > 0 THEN seen[r] + cost[r] ELSE spent[a]
  BY <1>1, <1>2, <1>5 DEF SpentAfter
<1>7. spent'[a] = Cost(a) /\ Cost(a)' = Cost(a)
  BY <1>1, <1>2, <1>4, <1>5, <1>6, SameAmounts
<1>8. \A x \in RunsOf(a) : pc'[x] # "recorded" /\ ~Due(x)'
  BY <1>3 DEF Open, Due
<1> QED BY <1>3, <1>7, <1>8 DEF Tracked, Open, RunsOf, Due

LEMMA TrackedKept ==
  ASSUME Inv, OneSchedule, Costed, Next, lost' = 0, NEW a \in Scheduled, Tracked(a), Capped(a)
  PROVE  Tracked(a)' /\ Capped(a)'
<1>0. a \in Agent /\ RunsOf(a) \subseteq Cron /\ RunsOf(a) \subseteq Run
  BY ScheduledFacts
<1>1. ASSUME Cost(a)' = Cost(a) PROVE Capped(a)'
  BY <1>1 DEF Capped, Room
<1>2. ASSUME NEW r \in Run, Open(r), r \in RunsOf(a) => ~Due(r) /\ ~Due(r)',
             \A x \in Run \ {r} : pc'[x] = pc[x] /\ cost'[x] = cost[x],
             seen' = seen, spent' = spent, rowCost' = rowCost
      PROVE  Tracked(a)' /\ Capped(a)'
  <2>1. Cost(a)' = Cost(a)
    BY <1>0, <1>2, SameAmounts
  <2>2. r \in RunsOf(a) => (Limit > 0 => spent[a] <= Room)
    BY <1>2 DEF Tracked
  <2>3. \A x \in RunsOf(a) \ {r} :
          pc'[x] = pc[x] /\ seen'[x] = seen[x] /\ cost'[x] = cost[x]
    BY <1>0, <1>2
  <2>4. spent'[a] = spent[a]
    BY <1>2
  <2>5. Tracked(a)'
    BY <1>0, <1>2, <2>1, <2>2, <2>3, <2>4, TrackedUntouched
  <2> QED BY <1>1, <2>1, <2>5
<1>3. ASSUME NEW r \in Run, Begin(r) PROVE Tracked(a)' /\ Capped(a)'
  <2>1. /\ pc[r] = "idle" /\ pc'[r] \in {"ended", "opened"}
        /\ \A x \in Run \ {r} : pc'[x] = pc[x]
        /\ seen' = seen /\ cost' = cost /\ spent' = spent /\ rowCost' = rowCost
        /\ pc'[r] = "opened" => ~OverBudget(AgentOf[r])
    BY <1>3 DEF Begin, MayStart, End, Goto, session, Inv, TypeOK
  <2>2. Cost(a)' = Cost(a)
    BY <1>0, <2>1, SameAmounts
  <2>3. ASSUME r \in RunsOf(a), Open(r)' PROVE Limit > 0 => spent[a] <= Room
    <3>1. ~OverBudget(a)
      BY <2>1, <2>3 DEF Open, RunsOf
    <3>2. spent[a] \in Nat
      BY <1>0 DEF Inv, TypeOK
    <3>3. Limit > 0 => spent[a] + Estimate <= Limit
      BY <3>1, <3>2, AmountAssumption DEF OverBudget
    <3> QED BY <3>2, <3>3, AmountAssumption DEF Room
  <2>4. ~Due(r) /\ ~Due(r)'
    BY <2>1 DEF Due
  <2>5. /\ spent'[a] = spent[a]
        /\ \A x \in RunsOf(a) \ {r} :
             pc'[x] = pc[x] /\ seen'[x] = seen[x] /\ cost'[x] = cost[x]
    BY <1>0, <2>1
  <2>6. Tracked(a)'
    BY <1>0, <2>2, <2>3, <2>4, <2>5, TrackedUntouched
  <2> QED BY <1>1, <2>2, <2>6
<1>4. ASSUME NEW r \in Run, Throttle(r) \/ Grant(r) \/ CommitByTool(r)
      PROVE  Tracked(a)' /\ Capped(a)'
  <2>1. /\ pc[r] \in {"opened", "working"} /\ pc'[r] \in {"working", "ended"}
        /\ \A x \in Run \ {r} : pc'[x] = pc[x] /\ cost'[x] = cost[x]
        /\ seen' = seen /\ spent' = spent /\ rowCost' = rowCost
    BY <1>4 DEF Throttle, Grant, CommitByTool, End, Goto, session, Inv, TypeOK
  <2>2. Open(r) /\ ~Due(r) /\ ~Due(r)'
    BY <2>1 DEF Open, Due
  <2> QED BY <1>2, <2>1, <2>2
<1>5. ASSUME NEW r \in Run, NEW c \in Costs, NEW j \in Costs,
             Succeed(r, c, j) \/ Empty(r, c, j) \/ Raise(r, c) \/ Pause(r, c)
      PROVE  Tracked(a)' /\ Capped(a)'
  <2>1. /\ pc[r] = "working" /\ pc'[r] \in {"worked", "ended"}
        /\ \A x \in Run \ {r} : pc'[x] = pc[x] /\ cost'[x] = cost[x]
        /\ seen' = seen /\ spent' = spent /\ rowCost' = rowCost
    BY <1>5 DEF Succeed, Empty, Raise, Pause, Spend, End, Goto, Inv, TypeOK
  <2>2. Open(r) /\ ~Due(r) /\ ~Due(r)'
    BY <2>1 DEF Open, Due
  <2> QED BY <1>2, <2>1, <2>2
<1>6. ASSUME NEW r \in Run, Bill(r) PROVE Tracked(a)' /\ Capped(a)'
  <2>1. /\ pc[r] = "worked" /\ pc'[r] = "billed"
        /\ \A x \in Run \ {r} : pc'[x] = pc[x] /\ cost'[x] = cost[x]
        /\ seen' = seen /\ spent' = spent /\ rowCost' = rowCost
    BY <1>6 DEF Bill, Goto, Inv, TypeOK
  <2>2. Open(r) /\ ~Due(r) /\ ~Due(r)'
    BY <2>1 DEF Open, Due
  <2> QED BY <1>2, <2>1, <2>2
<1>7. ASSUME NEW r \in Run, Commit(r) PROVE Tracked(a)' /\ Capped(a)'
  <2>1. CASE r \in RunsOf(a)
    BY <1>7, <2>1, TrackedCommit
  <2>2. CASE r \notin RunsOf(a)
    <3>1. AgentOf[r] # a
      BY <2>2 DEF RunsOf
    <3>2. Cost(a) \in Nat /\ Cost(a)' = Cost(a)
      BY <1>0, <1>7, <3>1, CommitAmounts, AmountTypes DEF Inv
    <3>3. /\ \A x \in RunsOf(a) \ {r} : pc'[x] = pc[x] /\ seen'[x] = seen[x] /\ cost'[x] = cost[x]
          /\ spent'[a] = spent[a]
      BY <1>0, <1>7 DEF Commit, Goto, session, Inv, TypeOK
    <3>4. Tracked(a)'
      BY <1>0, <2>2, <3>2, <3>3, TrackedUntouched
    <3> QED BY <1>1, <3>2, <3>4
  <2> QED BY <2>1, <2>2
<1>8. ASSUME NEW r \in Run, Record(r) \/ Keep(r) \/ Discard(r)
      PROVE  Tracked(a)' /\ Capped(a)'
  <2>1. CASE r \in RunsOf(a)
    <3>1. Record(r) \/ Keep(r)
      BY <1>0, <1>8, <2>1 DEF Discard
    <3> QED BY <1>1, <2>1, <3>1, TrackedRecord, TrackedKeep
  <2>2. CASE r \notin RunsOf(a)
    <3>1. AgentOf[r] # a
      BY <2>2 DEF RunsOf
    <3>2. rowCost' = rowCost
      BY <1>8 DEF Record, Keep, Discard
    <3>3. Cost(a)' = Cost(a)
      BY <1>0, <3>2, SameAmounts
    <3>4. /\ \A x \in RunsOf(a) \ {r} : pc'[x] = pc[x] /\ seen'[x] = seen[x] /\ cost'[x] = cost[x]
          /\ spent'[a] = spent[a]
      BY <1>0, <1>8, <3>1 DEF Record, Keep, Discard, SpentAfter, Goto, session, Inv, TypeOK
    <3>5. Tracked(a)'
      BY <1>0, <2>2, <3>3, <3>4, TrackedUntouched
    <3> QED BY <1>1, <3>3, <3>5
  <2> QED BY <2>1, <2>2
<1>9. ASSUME NEW r \in Run, Lose(r) PROVE FALSE
  BY <1>9 DEF Lose, Inv, TypeOK
<1> QED BY <1>3, <1>4, <1>5, <1>6, <1>7, <1>8, <1>9 DEF Next

(* The whole of it, as long as no run is lost.                                     *)
ScheduleInv ==
  /\ Inv /\ OneSchedule /\ Costed
  /\ lost = 0 => \A a \in Scheduled : Tracked(a) /\ Capped(a)


LEMMA ScheduleInvStarts == Init => ScheduleInv
<1> SUFFICES ASSUME Init PROVE ScheduleInv
  OBVIOUS
<1>1. Inv
  BY AmountAssumption DEF Init, Inv, TypeOK, Along, AtWork
<1>2. OneSchedule /\ Costed
  BY RunAssumption DEF Init, OneSchedule, Open, Costed
<1>3. ASSUME NEW a \in Scheduled PROVE a \in Agent /\ Cost(a) = 0
  <2>1. a \in Agent /\ RunsOf(a) \subseteq Run
    BY ScheduledFacts
  <2>2. IsFiniteSet(RunsOf(a)) /\ \A r \in RunsOf(a) : rowCost[r] = 0
    BY <2>1, RunAssumption, FS_Subset DEF Init
  <2> QED BY <2>1, <2>2, TotalOfNothing DEF Cost
<1>4. ASSUME NEW a \in Scheduled PROVE Tracked(a)
  <2>1. \A r \in RunsOf(a) : pc[r] = "idle"
    BY ScheduledFacts DEF Init
  <2> QED BY <1>3, <2>1 DEF Tracked, Due, Open, Init
<1>5. ASSUME NEW a \in Scheduled PROVE Capped(a)
  BY <1>3, RoomType DEF Capped
<1> QED BY <1>1, <1>2, <1>4, <1>5 DEF ScheduleInv

LEMMA ScheduleInvKept == ScheduleInv /\ [Next]_vars => ScheduleInv'
<1> SUFFICES ASSUME ScheduleInv, [Next]_vars PROVE ScheduleInv'
  OBVIOUS
<1>1. CASE Next
  <2>1. Inv' /\ OneSchedule' /\ Costed'
    BY <1>1, TypeKept, AlongKept, OneScheduleKept, CostedKept DEF ScheduleInv, Inv
  <2>2. lost' = 0 => lost = 0
    BY <1>1 DEF Next, Begin, Throttle, Grant, CommitByTool, Succeed, Empty, Raise, Pause, Bill,
                Commit, Record, Keep, Discard, Lose, ScheduleInv, Inv, TypeOK
  <2>3. ASSUME lost' = 0, NEW a \in Scheduled PROVE Tracked(a)' /\ Capped(a)'
    BY <1>1, <2>2, <2>3, TrackedKept DEF ScheduleInv
  <2> QED BY <2>1, <2>3 DEF ScheduleInv, Scheduled, RunsOf
<1>2. CASE UNCHANGED vars
  <2> USE <1>2 DEF vars, session
  <2>1. Inv' /\ OneSchedule' /\ Costed'
    <3>1. \A r \in Run : Along(r)'
      BY Untouched DEF ScheduleInv, Inv
    <3> QED BY <3>1, TypeKept, OneScheduleKept, CostedKept DEF ScheduleInv, Inv
  <2>2. ASSUME NEW a \in Scheduled PROVE Cost(a)' = Cost(a)
    BY ScheduledFacts, SameAmounts
  <2>3. ASSUME lost = 0, NEW a \in Scheduled PROVE Tracked(a)' /\ Capped(a)'
    <3>1. Tracked(a) /\ Capped(a)
      BY <2>3 DEF ScheduleInv
    <3> QED BY <2>2, <3>1 DEF Tracked, Capped, Due, Open, RunsOf, Room
  <2> QED BY <2>1, <2>3 DEF ScheduleInv, Scheduled, RunsOf
<1> QED BY <1>1, <1>2

LEMMA ScheduleInvHolds == Spec => []ScheduleInv
BY ScheduleInvStarts, ScheduleInvKept, PTL DEF Spec

(* A cap that only schedules consume shows what the rows cost whenever none of     *)
(* them is open.                                                                   *)
THEOREM SchedulesAlwaysTracked == Spec => []ScheduledTracked
<1>1. ScheduleInv => ScheduledTracked
  <2> SUFFICES ASSUME ScheduleInv, lost = 0, NEW a \in Scheduled,
                      \A r \in RunsOf(a) : ~Open(r)
               PROVE  spent[a] = Cost(a)
    BY DEF ScheduledTracked, Cost
  <2>1. \A r \in RunsOf(a) : ~Due(r)
    BY DEF Open, Due
  <2> QED BY <2>1 DEF ScheduleInv, Tracked
<1> QED BY <1>1, ScheduleInvHolds, PTL

(* Its rows exceed the room below the limit by one run at most, whatever runs      *)
(* cost, as long as one of them is the most expensive.                             *)
THEOREM CapAlwaysHolds ==
  ASSUME NEW m \in Costs, \A c \in Costs : c <= m
  PROVE  Spec => []CapHolds
<1>1. m \in Nat /\ \A c \in Costs : c \in Nat
  BY AmountAssumption
<1>2. Max(Costs) = m
  <2>1. \A y \in Costs : (\A c \in Costs : y >= c) => y = m
    BY <1>1
  <2>2. \A c \in Costs : m >= c
    BY <1>1
  <2> QED BY <2>1, <2>2 DEF Max
<1>3. ScheduleInv => CapHolds
  <2> SUFFICES ASSUME ScheduleInv, lost = 0, Limit > 0, NEW a \in Scheduled
               PROVE  Cost(a) <= Room + m
    BY <1>2, RoomType DEF CapHolds, Cost
  <2>1. PICK c \in Costs \cup {0} : Cost(a) <= Room + c
    BY DEF ScheduleInv, Capped
  <2>2. c \in Nat /\ c <= m
    BY <1>1
  <2>3. Cost(a) \in Nat
    BY ScheduledFacts, AmountTypes DEF ScheduleInv, Inv
  <2> QED BY <1>1, <2>1, <2>2, <2>3, RoomType
<1> QED BY <1>3, ScheduleInvHolds, PTL
===============================================================================
