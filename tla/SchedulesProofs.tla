---------------------------- MODULE SchedulesProofs ----------------------------
(***************************************************************************)
(* What Schedules promises for any schedules, cron expressions, number of   *)
(* requests and crashes.                                                    *)
(***************************************************************************)
EXTENDS Schedules, FiniteSetTheorems, TLAPS

-------------------------------------------------------------------------------
(* Minutes. *)

(* A set of minutes that is not empty has a first: the one with the fewest        *)
(* minutes up to it.                                                             *)
LEMMA LeastMinute ==
  ASSUME NEW S \in SUBSET Nat, S # {}
  PROVE  \E m \in S : \A n \in S : m <= n
<1> DEFINE UpTo(m) == {x \in S : x <= m}
           Family == {UpTo(m) : m \in S}
<1>1. Family \subseteq FiniteSubsetsOf(S)
  <2>1. ASSUME NEW m \in S PROVE IsFiniteSet(UpTo(m))
    <3>1. m \in Nat /\ UpTo(m) \in SUBSET Nat /\ \A x \in UpTo(m) : x <= m
      OBVIOUS
    <3> QED BY <3>1, FS_BoundedSetOfNaturals
  <2> QED BY <2>1 DEF FiniteSubsetsOf
<1>2. Family # {}
  OBVIOUS
<1>3. PICK F \in Family : \A G \in Family : ~ (<<G, F>> \in StrictSubsetOrdering(S))
  BY <1>1, <1>2, FS_StrictSubsetOrderingWellFounded, WFMin
<1>4. PICK m \in S : F = UpTo(m)
  OBVIOUS
<1>5. ASSUME NEW n \in S, n < m PROVE FALSE
  <2>1. UpTo(n) \subseteq UpTo(m) /\ m \in UpTo(m) /\ m \notin UpTo(n)
    <3>1. m \in Nat /\ n \in Nat /\ ~ (m <= n) /\ m <= m
      BY <1>5
    <3>2. ASSUME NEW x \in UpTo(n) PROVE x \in UpTo(m)
      BY <1>5, <3>1, <3>2
    <3> QED BY <3>1, <3>2
  <2>2. <<UpTo(n), UpTo(m)>> \in StrictSubsetOrdering(S)
    BY <2>1 DEF StrictSubsetOrdering
  <2> QED BY <1>3, <1>4, <2>2
<1> QED BY <1>5

(* The next run of any expression lies ahead.                                    *)
LEMMA NextRunAhead ==
  ASSUME NEW c \in Crons, NEW t \in Nat
  PROVE  NextRun(c, t) \in Nat /\ NextRun(c, t) > t
<1>1. CASE Later(c, t) = {}
  BY <1>1 DEF NextRun
<1>2. CASE Later(c, t) # {}
  <2>1. Later(c, t) \in SUBSET Nat
    BY ScheduleAssumption DEF Later
  <2>2. NextRun(c, t) \in Later(c, t)
    BY <1>2, <2>1, LeastMinute DEF NextRun
  <2> QED BY <2>1, <2>2 DEF Later
<1> QED BY <1>1, <1>2

-------------------------------------------------------------------------------
(* The inductive invariant. *)

(* Nothing from minute n on has been run more often than sessions were lost.     *)
Fresh(s, n) == \A o \in Minute : n <= o => done[s][o] <= lost

(* A session exists during a tick only.                                          *)
Idle == ~busy => todo = {} /\ current = {} /\ sent = {} /\ ~inserted /\ ~executed

(* Only minutes that have come are run, during a tick only those up to its time. *)
PastOnly ==
  \A s \in Schedule, o \in Minute :
    done[s][o] > 0 => o <= clock /\ (busy => o <= now)

(* What the tick has before it is due at its time and as it was loaded.          *)
LoadedDue ==
  /\ todo \cap current = {}
  /\ \A s \in todo \cup current :
       memory[s].next <= now /\ stored[s].next = memory[s].next

(* A tick none of whose runs returned has moved no schedule on.                  *)
UnmovedYet == ~executed => \A s \in Schedule : memory[s].next = stored[s].next

(* What a commit will store is fresh, and what it will leave alone.              *)
CommitFresh ==
  \A s \in Schedule :
    /\ ~busy => Fresh(s, table[s].next)
    /\ busy => Fresh(s, memory[s].next)
    /\ busy /\ memory[s].next = stored[s].next => Fresh(s, table[s].next)

(* A schedule was moved on from a minute that was run or was refused a slot.     *)
MovedExplained ==
  \A s \in Schedule :
    memory[s].next # stored[s].next =>
      done[s][stored[s].next] > 0 \/ memory[s].last = "throttled"

Inv ==
  /\ TypeOK /\ now <= clock
  /\ Idle /\ PastOnly /\ LoadedDue /\ UnmovedYet /\ CommitFresh /\ MovedExplained
  /\ RepeatsExplained

LEMMA Minutes == 0 \in Minute /\ Minute \subseteq Nat
BY ScheduleAssumption DEF Minute

LEMMA BlankIsRow == Blank \in Row
BY ScheduleAssumption DEF Blank, Row, Statuses

LEMMA InvStarts == Init => Inv
<1> SUFFICES ASSUME Init PROVE Inv
  OBVIOUS
<1> USE DEF Init
<1>1. TypeOK
  <2>1. done \in [Schedule -> [Minute -> Nat]]
    OBVIOUS
  <2> QED BY <2>1, BlankIsRow, Minutes DEF TypeOK
<1>2. \A s \in Schedule, o \in Minute : done[s][o] = 0
  OBVIOUS
<1>3. PastOnly /\ RepeatsExplained /\ \A s \in Schedule : \A n : Fresh(s, n)
  BY <1>2 DEF PastOnly, RepeatsExplained, Fresh
<1>4. Idle /\ LoadedDue /\ UnmovedYet /\ MovedExplained
  BY DEF Idle, LoadedDue, UnmovedYet, MovedExplained
<1> QED BY <1>1, <1>3, <1>4 DEF Inv, CommitFresh

(* A minute ahead of the tick or of the clock has not been run.                  *)
LEMMA AheadIsFresh ==
  ASSUME Inv, NEW s \in Schedule, NEW n \in Nat,
         n > clock \/ (busy /\ n > now)
  PROVE  \A o \in Minute : n <= o => done[s][o] = 0
<1> SUFFICES ASSUME NEW o \in Minute, n <= o, done[s][o] # 0 PROVE FALSE
  OBVIOUS
<1>1. done[s][o] \in Nat /\ o \in Nat /\ clock \in Nat /\ now \in Nat
  BY Minutes DEF Inv, TypeOK
<1>2. o <= clock /\ (busy => o <= now)
  BY <1>1 DEF Inv, PastOnly
<1> QED BY <1>1, <1>2

(* What a commit makes of a schedule.                                            *)
LEMMA SavedRow ==
  ASSUME Inv, Save, NEW s \in Schedule
  PROVE  /\ table'[s] \in Row
         /\ table'[s].next =
              IF memory[s].next # stored[s].next THEN memory[s].next ELSE table[s].next
<1>1. table[s] \in Row /\ memory[s] \in Row /\ stored[s] \in Row
  BY DEF Inv, TypeOK
<1>2. Updated(s) \in Row
  BY <1>1 DEF Updated, Row
<1>3. Updated(s).next =
        IF memory[s].next # stored[s].next THEN memory[s].next ELSE table[s].next
  BY <1>1 DEF Updated, Row
<1>4. table'[s] = IF s \in Changed THEN Updated(s) ELSE table[s]
  BY DEF Save
<1>5. s \notin Changed => memory[s].next = stored[s].next
  BY DEF Changed
<1> QED BY <1>1, <1>2, <1>3, <1>4, <1>5

LEMMA SavedFresh ==
  ASSUME Inv, busy, Save, NEW s \in Schedule
  PROVE  Fresh(s, table'[s].next)
BY SavedRow DEF Inv, CommitFresh

LEMMA SavedTable == ASSUME Inv, Save PROVE table' \in [Schedule -> Row]
<1>1. table' = [s \in Schedule |-> table'[s]]
  BY DEF Save
<1> QED BY <1>1, SavedRow

(* After a loss nothing has been run too often, whatever is stored.              *)
LEMMA LostIsFresh ==
  ASSUME Inv, UNCHANGED done, lost' = lost + 1
  PROVE  /\ \A s \in Schedule : \A n : Fresh(s, n)'
         /\ RepeatsExplained'
BY DEF Inv, RepeatsExplained, Fresh, TypeOK

-------------------------------------------------------------------------------
(* The steps of the tick. *)

(* A session that is closed leaves nothing but what the table holds.             *)
LEMMA CloseKeeps ==
  ASSUME Inv, Close, UNCHANGED <<clock, life, done, edits>>,
         table' \in [Schedule -> Row],
         lost' = lost + 1 \/ (lost' = lost /\ \A s \in Schedule : Fresh(s, table'[s].next))
  PROVE  Inv'
<1> USE DEF Inv
<1>1. lost' \in Nat
  BY DEF TypeOK
<1>2. TypeOK' /\ (now <= clock)'
  <2>1. now' \in Minute /\ clock' \in Minute /\ now' <= clock'
    BY Minutes DEF Close, TypeOK
  <2>2. stored' \in [Schedule -> Row] /\ memory' \in [Schedule -> Row]
    BY BlankIsRow DEF Close
  <2>3. done' \in [Schedule -> [Minute -> Nat]]
    BY DEF TypeOK
  <2> QED BY <1>1, <2>1, <2>2, <2>3 DEF Close, TypeOK
<1>3. Idle' /\ LoadedDue' /\ UnmovedYet' /\ MovedExplained'
  BY DEF Close, Idle, LoadedDue, UnmovedYet, MovedExplained
<1>4. PastOnly'
  BY DEF Close, PastOnly
<1>5. CASE lost' = lost + 1
  BY <1>2, <1>3, <1>4, <1>5, LostIsFresh DEF CommitFresh, Close
<1>6. CASE lost' = lost /\ \A s \in Schedule : Fresh(s, table'[s].next)
  <2>1. RepeatsExplained'
    BY <1>6 DEF RepeatsExplained
  <2>2. CommitFresh'
    BY <1>6 DEF CommitFresh, Close, Fresh
  <2> QED BY <1>2, <1>3, <1>4, <2>1, <2>2
<1> QED BY <1>5, <1>6

LEMMA NextIsNat ==
  ASSUME TypeOK, NEW s \in Schedule
  PROVE  /\ table[s].next \in Nat /\ memory[s].next \in Nat /\ stored[s].next \in Nat
         /\ memory[s].cron \in Crons
BY DEF TypeOK, Row

(* What is noted of a run lies ahead of the tick.                                *)
LEMMA NotedAhead ==
  ASSUME Inv, NEW s \in Schedule, NEW status \in Statuses
  PROVE  /\ Noted(s, status) \in [Schedule -> Row]
         /\ Noted(s, status)[s].next \in Nat
         /\ Noted(s, status)[s].next > now
         /\ Noted(s, status)[s].last = status
         /\ \A r \in Schedule \ {s} : Noted(s, status)[r] = memory[r]
<1>1. memory \in [Schedule -> Row] /\ memory[s].cron \in Crons /\ now \in Nat
  BY NextIsNat, Minutes DEF Inv, TypeOK
<1> DEFINE n == NextRun(memory[s].cron, now)
<1>2. n \in Nat /\ n > now
  BY <1>1, NextRunAhead
<1> HIDE DEF n
<1>3. Noted(s, status) = [memory EXCEPT ![s].last = status, ![s].next = n]
  BY DEF Noted, n
<1> QED BY ZenonT(60), <1>1, <1>2, <1>3 DEF Row

LEMMA LoadKeeps == Inv /\ Load => Inv'
<1> SUFFICES ASSUME Inv, Load PROVE Inv'
  OBVIOUS
<1> USE DEF Inv
<1>1. TypeOK' /\ now' <= clock'
  BY Minutes DEF Load, TypeOK
<1>2. Idle'
  BY DEF Load, Idle
<1>3. PastOnly' /\ UnmovedYet' /\ MovedExplained' /\ RepeatsExplained'
  BY DEF Load, PastOnly, UnmovedYet, MovedExplained, RepeatsExplained
<1>4. current = {}
  BY DEF Load, Idle
<1>5. LoadedDue'
  BY <1>4 DEF Load, LoadedDue, Due
<1>6. CommitFresh'
  BY DEF Load, CommitFresh, Fresh
<1> QED BY <1>1, <1>2, <1>3, <1>5, <1>6

LEMMA PickKeeps == ASSUME Inv, NEW s \in Schedule, Pick(s) PROVE Inv'
<1> USE DEF Inv
<1>1. TypeOK' /\ now' <= clock'
  BY DEF Pick, TypeOK
<1>2. Idle' /\ LoadedDue'
  BY DEF Pick, Idle, LoadedDue
<1>3. PastOnly' /\ UnmovedYet' /\ MovedExplained' /\ RepeatsExplained'
  BY DEF Pick, PastOnly, UnmovedYet, MovedExplained, RepeatsExplained
<1>4. CommitFresh'
  BY DEF Pick, CommitFresh, Fresh
<1> QED BY <1>1, <1>2, <1>3, <1>4

LEMMA InsertKeeps == Inv /\ Insert => Inv'
<1> SUFFICES ASSUME Inv, Insert PROVE Inv'
  OBVIOUS
<1>1. CASE Stale
  BY <1>1, CloseKeeps DEF Insert, Inv, TypeOK
<1>2. CASE ~Stale
  <2> USE <1>2 DEF Inv
  <2>1. TypeOK' /\ now' <= clock'
    BY DEF Insert, TypeOK, Changed
  <2>2. Idle' /\ LoadedDue'
    BY DEF Insert, Idle, LoadedDue
  <2>3. PastOnly' /\ UnmovedYet' /\ MovedExplained' /\ RepeatsExplained'
    BY DEF Insert, PastOnly, UnmovedYet, MovedExplained, RepeatsExplained
  <2>4. CommitFresh'
    BY DEF Insert, CommitFresh, Fresh
  <2> QED BY <2>1, <2>2, <2>3, <2>4
<1> QED BY <1>1, <1>2

LEMMA CommitByToolKeeps == Inv /\ CommitByTool => Inv'
<1> SUFFICES ASSUME Inv, CommitByTool PROVE Inv'
  OBVIOUS
<1>1. Save /\ busy
  BY DEF CommitByTool, Inv, Idle
<1>2. table' \in [Schedule -> Row] /\ \A s \in Schedule : Fresh(s, table'[s].next)
  BY <1>1, SavedTable, SavedFresh
<1> USE DEF Inv
<1>3. TypeOK' /\ now' <= clock'
  BY <1>2 DEF CommitByTool, TypeOK
<1>4. Idle' /\ LoadedDue'
  BY DEF CommitByTool, Idle, LoadedDue
<1>5. PastOnly' /\ UnmovedYet' /\ MovedExplained' /\ RepeatsExplained'
  BY DEF CommitByTool, PastOnly, UnmovedYet, MovedExplained, RepeatsExplained
<1>6. CommitFresh'
  BY <1>1, <1>2 DEF CommitByTool, CommitFresh, Fresh
<1> QED BY <1>3, <1>4, <1>5, <1>6

LEMMA RaiseKeeps == ASSUME Inv, NEW s \in Schedule, Raise(s) PROVE Inv'
<1> USE DEF Inv
<1>1. memory' \in [Schedule -> Row] /\ \A r \in Schedule : memory'[r].next = memory[r].next
  BY ZenonT(40) DEF Raise, TypeOK, Row, Statuses
<1>2. TypeOK' /\ now' <= clock'
  BY <1>1 DEF Raise, TypeOK
<1>3. Idle' /\ LoadedDue' /\ UnmovedYet'
  BY <1>1 DEF Raise, Idle, LoadedDue, UnmovedYet, TypeOK
<1>4. PastOnly' /\ RepeatsExplained'
  BY DEF Raise, PastOnly, RepeatsExplained
<1>5. ASSUME NEW r \in Schedule, memory'[r].next # stored'[r].next
      PROVE  done'[r][stored'[r].next] > 0 \/ memory'[r].last = "throttled"
  <2>1. r # s
    BY <1>1, <1>5 DEF Raise, LoadedDue
  <2> QED BY <1>1, <1>5, <2>1 DEF Raise, MovedExplained, TypeOK
<1>6. CommitFresh'
  BY <1>1 DEF Raise, CommitFresh, Fresh
<1> QED BY <1>2, <1>3, <1>4, <1>5, <1>6 DEF MovedExplained

LEMMA FinishKeeps == Inv /\ Finish => Inv'
<1> SUFFICES ASSUME Inv, Finish PROVE Inv'
  OBVIOUS
<1>1. CASE executed /\ ~Stale
  <2>1. Save /\ busy /\ lost' = lost
    BY <1>1 DEF Finish
  <2> QED BY <2>1, SavedTable, SavedFresh, CloseKeeps DEF Finish
<1>2. CASE executed /\ Stale
  BY <1>2, CloseKeeps DEF Finish, Inv, TypeOK
<1>3. CASE ~executed
  <2>1. \A s \in Schedule : Fresh(s, table'[s].next)
    BY <1>3 DEF Finish, Inv, UnmovedYet, CommitFresh
  <2> QED BY <1>3, <2>1, CloseKeeps DEF Finish, Inv, TypeOK
<1> QED BY <1>1, <1>2, <1>3

(* A run that is refused a slot moves its schedule on, past everything run.      *)
LEMMA ThrottleKeeps == ASSUME Inv, NEW s \in Schedule, Throttle(s) PROVE Inv'
<1>1. busy /\ memory' = Noted(s, "throttled") /\ stored[s].next <= now
  BY DEF Throttle, Inv, Idle, LoadedDue
<1>2. /\ memory' \in [Schedule -> Row]
      /\ memory'[s].next \in Nat /\ memory'[s].next > now
      /\ memory'[s].last = "throttled"
      /\ \A r \in Schedule \ {s} : memory'[r] = memory[r]
  BY <1>1, NotedAhead DEF Statuses
<1>3. \A o \in Minute : memory'[s].next <= o => done[s][o] = 0
  BY <1>1, <1>2, AheadIsFresh
<1>4. memory'[s].next # stored[s].next
  BY <1>1, <1>2, NextIsNat, Minutes DEF Inv, TypeOK
<1> USE DEF Inv
<1>5. TypeOK' /\ now' <= clock'
  BY <1>2 DEF Throttle, TypeOK
<1>6. Idle' /\ PastOnly' /\ RepeatsExplained' /\ UnmovedYet'
  BY <1>1 DEF Throttle, Idle, PastOnly, RepeatsExplained, UnmovedYet
<1>7. LoadedDue'
  <2>1. ASSUME NEW r \in todo' \cup current'
        PROVE  memory'[r].next <= now' /\ stored'[r].next = memory'[r].next
    <3>1. r \in todo /\ r \in Schedule /\ r # s
      BY <2>1 DEF Throttle, TypeOK, LoadedDue
    <3> QED BY <1>2, <3>1 DEF Throttle, LoadedDue
  <2> QED BY <2>1 DEF LoadedDue, Throttle
<1>8. CommitFresh'
  <2>1. ASSUME NEW r \in Schedule, NEW n
        PROVE  Fresh(r, n)' <=> Fresh(r, n)
    BY DEF Throttle, Fresh
  <2>2. ASSUME NEW r \in Schedule
        PROVE  /\ Fresh(r, memory'[r].next)
               /\ memory'[r].next = stored'[r].next => Fresh(r, table'[r].next)
    <3>1. CASE r = s
      BY <1>3, <1>4, <3>1 DEF Throttle, Fresh, TypeOK
    <3>2. CASE r # s
      BY <1>1, <1>2, <3>2 DEF Throttle, CommitFresh
    <3> QED BY <3>1, <3>2
  <2> QED BY <1>1, <2>1, <2>2 DEF Throttle, CommitFresh
<1>9. MovedExplained'
  BY <1>2 DEF Throttle, MovedExplained
<1> QED BY <1>5, <1>6, <1>7, <1>8, <1>9

(* A run that returns is counted for the minute it was due at, which was fresh.   *)
LEMMA ReturnKeeps ==
  ASSUME Inv, NEW s \in Schedule, NEW status \in Ended, Return(s, status)
  PROVE  Inv'
<1> DEFINE o == memory[s].next
<1>1. busy /\ Save /\ memory' = Noted(s, status) /\ stored' = memory
  BY DEF Return, Inv, Idle
<1>2. o <= now /\ o \in Minute
  <2>1. o <= now /\ o \in Nat
    BY NextIsNat DEF Return, Inv, LoadedDue
  <2> QED BY <2>1, ScheduleAssumption DEF Inv, TypeOK, Minute
<1>3. /\ memory' \in [Schedule -> Row]
      /\ memory'[s].next \in Nat /\ memory'[s].next > now
      /\ \A r \in Schedule \ {s} : memory'[r] = memory[r]
  BY <1>1, NotedAhead DEF Ended, Statuses
<1>4. done[s][o] <= lost /\ done[s][o] \in Nat
  <2>1. Fresh(s, o)
    BY <1>1 DEF Inv, CommitFresh
  <2>2. o <= o
    <3>1. o \in Nat
      BY <1>2, Minutes
    <3> QED BY <3>1
  <2>3. done[s][o] \in Nat
    BY <1>2 DEF Inv, TypeOK
  <2> QED BY <1>2, <2>1, <2>2, <2>3 DEF Fresh
<1>5. /\ done' \in [Schedule -> [Minute -> Nat]]
      /\ done'[s][o] = done[s][o] + 1
      /\ \A p \in Minute \ {o} : done'[s][p] = done[s][p]
      /\ \A r \in Schedule \ {s} : done'[r] = done[r]
  BY <1>2, <1>4 DEF Return, Inv, TypeOK
<1>6. table' \in [Schedule -> Row] /\ \A r \in Schedule : Fresh(r, table'[r].next)
  BY <1>1, SavedTable, SavedFresh
<1>7. \A p \in Minute : memory'[s].next <= p => done'[s][p] = 0
  <2>1. \A p \in Minute : memory'[s].next <= p => done[s][p] = 0
    BY <1>1, <1>3, AheadIsFresh
  <2>2. \A p \in Minute : memory'[s].next <= p => p # o
    BY <1>2, <1>3, Minutes DEF Inv, TypeOK
  <2> QED BY <1>5, <2>1, <2>2
<1>8. memory'[s].next # stored'[s].next
  BY <1>1, <1>2, <1>3, Minutes DEF Inv, TypeOK
<1> HIDE DEF o
<1> USE DEF Inv
<1>9. TypeOK' /\ now' <= clock'
  BY <1>1, <1>3, <1>5, <1>6 DEF Return, TypeOK
<1>10. Idle' /\ UnmovedYet'
  BY <1>1 DEF Return, Idle, UnmovedYet
<1>11. PastOnly'
  <2>1. ASSUME NEW r \in Schedule, NEW p \in Minute, done'[r][p] > 0
        PROVE  p <= clock /\ p <= now
    <3>1. CASE r = s /\ p = o
      BY <1>2, <3>1, Minutes DEF TypeOK
    <3>2. CASE ~(r = s /\ p = o)
      BY <1>1, <1>5, <2>1, <3>2 DEF PastOnly
    <3> QED BY <3>1, <3>2
  <2> QED BY <2>1 DEF Return, PastOnly
<1>12. RepeatsExplained'
  <2>1. ASSUME NEW r \in Schedule, NEW p \in Minute
        PROVE  done'[r][p] <= 1 + lost
    <3>1. CASE r = s /\ p = o
      BY <1>4, <1>5, <3>1 DEF TypeOK
    <3>2. CASE ~(r = s /\ p = o)
      BY <1>5, <3>2 DEF RepeatsExplained
    <3> QED BY <3>1, <3>2
  <2> QED BY <2>1 DEF Return, RepeatsExplained
<1>13. LoadedDue'
  <2>1. ASSUME NEW r \in todo' \cup current'
        PROVE  memory'[r].next <= now' /\ stored'[r].next = memory'[r].next
    <3>1. r \in todo /\ r \in Schedule /\ r # s
      BY <2>1 DEF Return, TypeOK, LoadedDue
    <3> QED BY <1>1, <1>3, <3>1 DEF Return, LoadedDue
  <2> QED BY <2>1 DEF LoadedDue, Return
<1>14. CommitFresh'
  <2>1. ASSUME NEW r \in Schedule
        PROVE  /\ Fresh(r, memory[r].next)'
               /\ (memory[r].next = stored[r].next => Fresh(r, table[r].next))'
    <3>1. CASE r = s
      BY <1>7, <1>8, <3>1 DEF Return, Fresh, TypeOK
    <3>2. CASE r # s
      <4>1. \A n : Fresh(r, n)' <=> Fresh(r, n)
        BY <1>5, <3>2 DEF Return, Fresh
      <4> QED BY <1>1, <1>3, <1>6, <3>2, <4>1 DEF CommitFresh
    <3> QED BY <3>1, <3>2
  <2> QED BY <1>1, <2>1 DEF Return, CommitFresh
<1>15. MovedExplained'
  <2>1. ASSUME NEW r \in Schedule, memory'[r].next # stored'[r].next
        PROVE  done'[r][stored'[r].next] > 0
    <3>1. r = s
      BY <1>1, <1>3, <2>1
    <3> QED BY <1>1, <1>4, <1>5, <3>1 DEF o
  <2> QED BY <2>1 DEF MovedExplained
<1> QED BY <1>9, <1>10, <1>11, <1>12, <1>13, <1>14, <1>15

LEMMA CrashKeeps == Inv /\ Crash => Inv'
BY CloseKeeps DEF Crash, Inv, TypeOK

-------------------------------------------------------------------------------
(* The users and the clock. *)

(* A request writes a row whose next run is the one it had or lies ahead.        *)
LEMMA EditKeeps ==
  ASSUME Inv, UNCHANGED <<clock, tick, done, lost>>, edits' = edits + 1,
         life' \in [Schedule -> {"none", "live", "gone"}],
         table' \in [Schedule -> Row],
         \A s \in Schedule : table'[s].next = table[s].next \/ table'[s].next > clock
  PROVE  Inv'
<1> USE DEF Inv
<1>1. TypeOK' /\ now' <= clock'
  BY DEF TypeOK, tick
<1>2. Idle' /\ LoadedDue' /\ UnmovedYet' /\ MovedExplained'
  BY DEF tick, Idle, LoadedDue, UnmovedYet, MovedExplained
<1>3. PastOnly' /\ RepeatsExplained'
  BY DEF tick, PastOnly, RepeatsExplained
<1>4. ASSUME NEW s \in Schedule, Fresh(s, table[s].next) PROVE Fresh(s, table'[s].next)
  <2>1. CASE table'[s].next = table[s].next
    BY <1>4, <2>1
  <2>2. CASE table'[s].next > clock
    <3>1. table'[s].next \in Nat /\ lost \in Nat
      BY DEF Row, TypeOK
    <3>2. \A o \in Minute : table'[s].next <= o => done[s][o] = 0
      BY <2>2, <3>1, AheadIsFresh
    <3> QED BY <3>1, <3>2 DEF Fresh
  <2> QED BY <2>1, <2>2
<1>5. CommitFresh'
  BY <1>4 DEF tick, CommitFresh, Fresh
<1> QED BY <1>1, <1>2, <1>3, <1>5

LEMMA UserKeeps == Inv /\ UserStep => Inv'
<1> SUFFICES ASSUME Inv, UserStep PROVE Inv'
  OBVIOUS
<1>0. table \in [Schedule -> Row] /\ life \in [Schedule -> {"none", "live", "gone"}]
      /\ clock \in Nat
  BY Minutes DEF Inv, TypeOK
<1>1. ASSUME NEW s \in Schedule, NEW c \in Crons, SetCron(s, c) PROVE Inv'
  <2>1. NextRun(c, clock) \in Nat /\ NextRun(c, clock) > clock
    BY <1>0, NextRunAhead
  <2>2. /\ table' \in [Schedule -> Row]
        /\ \A r \in Schedule : table'[r].next = table[r].next \/ table'[r].next > clock
    BY ZenonT(40), <1>0, <1>1, <2>1 DEF SetCron, Row
  <2> QED BY <1>0, <1>1, <2>2, EditKeeps DEF SetCron, Edit
<1>2. ASSUME NEW s \in Schedule, NEW c \in Crons, NEW on \in BOOLEAN, Create(s, c, on)
      PROVE  Inv'
  <2>1. NextRun(c, clock) \in Nat /\ NextRun(c, clock) > clock
    BY <1>0, NextRunAhead
  <2>2. /\ table' \in [Schedule -> Row]
        /\ \A r \in Schedule : table'[r].next = table[r].next \/ table'[r].next > clock
    BY <1>0, <1>2, <2>1 DEF Create, Row, Statuses
  <2>3. life' \in [Schedule -> {"none", "live", "gone"}]
    BY <1>0, <1>2 DEF Create
  <2> QED BY <1>2, <2>2, <2>3, EditKeeps DEF Create, Edit
<1>3. ASSUME NEW s \in Schedule, NEW on \in BOOLEAN, SetActive(s, on) PROVE Inv'
  <2>1. /\ table' \in [Schedule -> Row]
        /\ \A r \in Schedule : table'[r].next = table[r].next
    BY <1>0, <1>3 DEF SetActive, Row
  <2> QED BY <1>0, <1>3, <2>1, EditKeeps DEF SetActive, Edit
<1>4. ASSUME NEW s \in Schedule, Delete(s) PROVE Inv'
  <2>1. life' \in [Schedule -> {"none", "live", "gone"}]
    BY <1>0, <1>4 DEF Delete
  <2> QED BY <1>0, <1>4, <2>1, EditKeeps DEF Delete, Edit
<1>5. ASSUME NEW s \in Schedule, NEW status \in Ended, RunNow(s, status) PROVE Inv'
  <2>1. /\ table' \in [Schedule -> Row]
        /\ \A r \in Schedule : table'[r].next = table[r].next
    BY <1>0, <1>5 DEF RunNow, Row, Ended, Statuses
  <2> QED BY <1>0, <1>5, <2>1, EditKeeps DEF RunNow, Edit
<1> QED BY <1>1, <1>2, <1>3, <1>4, <1>5 DEF UserStep

LEMMA AdvanceKeeps == Inv /\ Advance => Inv'
<1> SUFFICES ASSUME Inv, Advance PROVE Inv'
  OBVIOUS
<1> USE DEF Inv
<1>1. clock \in Nat /\ clock' \in Minute /\ clock' = clock + 1
  BY ScheduleAssumption, Minutes DEF Advance, TypeOK, Minute
<1>2. now \in Nat /\ \A o \in Minute : o \in Nat
  BY Minutes DEF TypeOK
<1>3. TypeOK' /\ now' <= clock'
  BY <1>1, <1>2 DEF Advance, TypeOK, tick
<1>4. PastOnly'
  <2>1. ASSUME NEW s \in Schedule, NEW o \in Minute, done[s][o] > 0
        PROVE  o <= clock' /\ (busy => o <= now)
    <3>1. o <= clock /\ (busy => o <= now)
      BY <2>1 DEF PastOnly
    <3> QED BY <1>1, <1>2, <3>1
  <2> QED BY <2>1 DEF Advance, PastOnly, tick
<1>5. /\ Idle' /\ LoadedDue' /\ UnmovedYet' /\ MovedExplained'
      /\ CommitFresh' /\ RepeatsExplained'
  BY DEF Advance, tick, Idle, LoadedDue, UnmovedYet, MovedExplained, CommitFresh,
         Fresh, RepeatsExplained
<1> QED BY <1>3, <1>4, <1>5

-------------------------------------------------------------------------------
(* The theorems. *)

LEMMA InvKept == Inv /\ [Next]_vars => Inv'
<1> SUFFICES ASSUME Inv, [Next]_vars PROVE Inv'
  OBVIOUS
<1>1. CASE TickStep
  BY <1>1, LoadKeeps, InsertKeeps, CommitByToolKeeps, FinishKeeps, PickKeeps,
     ThrottleKeeps, RaiseKeeps, ReturnKeeps DEF TickStep
<1>2. CASE UNCHANGED vars
  BY <1>2 DEF vars, tick, Inv, TypeOK, Idle, PastOnly, LoadedDue, UnmovedYet,
              CommitFresh, Fresh, MovedExplained, RepeatsExplained
<1> QED BY <1>1, <1>2, CrashKeeps, UserKeeps, AdvanceKeeps DEF Next

LEMMA InvHolds == Spec => []Inv
BY InvStarts, InvKept, PTL DEF Spec

(* Every variable keeps its type.                                               *)
THEOREM TypeCorrect == Spec => []TypeOK
<1>1. Inv => TypeOK
  BY DEF Inv
<1> QED BY <1>1, InvHolds, PTL

(* However ticks, requests and crashes interleave, an occurrence of a schedule is *)
(* run at most once more than ticks have lost what they noted.                   *)
THEOREM RepeatsAlwaysExplained == Spec => []RepeatsExplained
<1>1. Inv => RepeatsExplained
  BY DEF Inv
<1> QED BY <1>1, InvHolds, PTL

(* Without a user's request only a run that was committed, or was refused its     *)
(* slot, moves a schedule on.                                                    *)
THEOREM OnlyRunsEverMoveOn == Spec => OnlyRunsMoveOn
<1> DEFINE Explained ==
             \A s \in Schedule :
               table'[s].next # table[s].next =>
                 \/ edits' > edits
                 \/ done[s][stored[s].next] > 0
                 \/ memory[s].last = "throttled"
<1>1. Inv /\ [Next]_vars => [Explained]_vars
  <2> SUFFICES ASSUME Inv, Next PROVE Explained
    OBVIOUS
  <2>1. CASE Save
    BY <2>1, SavedRow DEF Inv, MovedExplained
  <2>2. CASE UNCHANGED table
    BY <2>2
  <2>3. CASE edits' = edits + 1
    BY <2>3 DEF Inv, TypeOK
  <2>4. Save \/ UNCHANGED table \/ edits' = edits + 1
    <3>1. CASE TickStep
      BY <3>1 DEF TickStep, Load, Pick, Insert, CommitByTool, Return, Throttle, Raise, Finish
    <3>2. CASE UserStep
      BY <3>2 DEF UserStep, Edit, Create, SetCron, SetActive, Delete, RunNow
    <3> QED BY <3>1, <3>2 DEF Next, Crash, Advance
  <2> QED BY <2>1, <2>2, <2>3, <2>4
<1> QED BY <1>1, InvHolds, PTL DEF Spec, OnlyRunsMoveOn
===============================================================================
