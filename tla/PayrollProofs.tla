------------------------------ MODULE PayrollProofs ------------------------------
(***************************************************************************)
(* What Payroll promises for any cycles, employees, bonuses and requests.   *)
(* One request at a time writes payslips where a theorem says OneProcessor: *)
(* ProcessesDraftsOnly and its run show what happens otherwise.  Totals are *)
(* compared with sums over payslips, which are counted as sets of units.    *)
(***************************************************************************)
EXTENDS Payroll, FiniteSetTheorems, WellFoundedInduction, TLAPS

OneProcessor == \A p, q \in Processor : p = q

-------------------------------------------------------------------------------
(* Amounts and sequences. *)

LEMMA GrossCoversTax ==
  ASSUME NEW S \in SUBSET Bonus
  PROVE  /\ Gross(S) \in Nat /\ Gross(S) - Tax \in Nat
         /\ Gross(S) - Tax <= Gross(S) /\ Gross(S) > 0
<1>1. Cardinality(S) \in Nat
  BY PayrollAssumption, FS_Subset, FS_CardinalityType
<1>2. BonusPay * Cardinality(S) \in Nat
  BY <1>1, PayrollAssumption
<1>3. Base \in Nat /\ Base > 0 /\ Tax \in Nat /\ Tax <= Base
  BY PayrollAssumption
<1> QED BY <1>2, <1>3 DEF Gross

LEMMA CentsType == ASSUME NEW x \in Nat PROVE Cents(x) \in Nat
BY DEF Cents

LEMMA CentsFacts ==
  ASSUME NEW g \in Nat, NEW n \in Nat, n <= g
  PROVE  /\ Cents(g) \in Nat /\ Cents(n) \in Nat /\ Cents(g - n) \in Nat /\ Cents(0) = 0
         /\ Cents(g) - (Cents(g - n) + Cents(n)) \in -1 .. 1
BY DEF Cents

LEMMA ToolTotals ==
  LET g == 12 * Base  n == Cardinality(Employee)
  IN  /\ g \in Nat /\ g - Tax \in Nat /\ n * g \in Nat /\ n * (g - Tax) \in Nat
      /\ n * (g - Tax) <= n * g
<1> DEFINE g == 12 * Base
           n == Cardinality(Employee)
<1>1. Base \in Nat /\ Tax \in Nat /\ Tax <= Base
  BY PayrollAssumption
<1>2. n \in Nat /\ g \in Nat /\ g - Tax \in Nat
  BY <1>1, PayrollAssumption, FS_CardinalityType
<1> HIDE DEF g, n
<1>3. n * g \in Nat /\ n * (g - Tax) \in Nat /\ n * Tax \in Nat
  BY <1>1, <1>2
<1>4. n * (g - Tax) = n * g - n * Tax
  BY <1>1, <1>2
<1>5. n * (g - Tax) <= n * g
  BY <1>3, <1>4
<1> QED BY <1>2, <1>3, <1>5 DEF g, n

LEMMA SetToSeqType ==
  ASSUME NEW S, IsFiniteSet(S)
  PROVE  SetToSeq(S) \in Seq(S) /\ \A i \in DOMAIN SetToSeq(S) : SetToSeq(S)[i] \in S
<1> DEFINE n == Cardinality(S)
<1>1. n \in Nat /\ ExistsBijection(1 .. n, S)
  BY FS_CardinalityType
<1>2. PICK f \in Bijection(1 .. n, S) : TRUE
  BY <1>1 DEF ExistsBijection
<1>3. f \in [1 .. n -> S] /\ IsInjective(f)
  BY <1>2 DEF Bijection, Injection, IsInjective
<1>4. SetToSeq(S) \in [1 .. n -> S]
  BY <1>3 DEF SetToSeq
<1> QED BY <1>1, <1>4

-------------------------------------------------------------------------------
(* Types. *)

Places == {"idle", "process", "tool", "bulk", "patch", "patched", "delete"}

ReqRow ==
  [pc : Places, cycle : Cycle \cup {NoCycle}, was : CycleStatus \cup {"none"},
   status : PatchStatus \cup {"none"}, gross : Nat, net : Nat,
   left : SUBSET Employee, open : SUBSET Employee, seen : [Employee -> SUBSET Bonus],
   count : Nat, booked : BOOLEAN, bonus : Bonus \cup {NoBonus}]

TypeInv ==
  /\ TypeOK
  /\ req \in [Req -> ReqRow]
  /\ \A q \in Req : req[q].pc = "delete" => req[q].bonus \in Bonus
  /\ \A q \in Req : req[q].pc \in {"patch", "patched"} => req[q].status \in PatchStatus

CycleRow == [status : CycleStatus, gross : Nat, net : Nat]

LEMMA IdleType == Idle \in ReqRow /\ Idle.pc = "idle" /\ Idle.cycle \notin Cycle /\ Idle.count = 0
BY PayrollAssumption DEF Idle, ReqRow, Places

(* A request that is replaced by one of the right shape keeps the types, if the   *)
(* tables it leaves have theirs.                                                 *)
LEMMA RequestType ==
  ASSUME TypeInv, NEW q \in Req, NEW r \in ReqRow, req' = [req EXCEPT ![q] = r],
         r.pc \in {"process", "tool", "bulk"} => q \in Processor,
         r.pc \notin {"idle", "delete"} <=> r.cycle \in Cycle,
         r.pc = "delete" => r.bonus \in Bonus,
         r.pc \in {"patch", "patched"} => r.status \in PatchStatus,
         r.count <= Len(slips'),
         slips' \in Seq(Slip), Len(slips) <= Len(slips'),
         cycle' \in [Cycle -> CycleRow],
         bonus' \in [Bonus -> {"absent", "pending", "paid", "deleted"}],
         journal' \subseteq [cycle : Cycle, debit : Nat, tax : Nat, payable : Nat],
         deaths' \in 0 .. MaxDeaths
  PROVE  TypeInv'
<1> USE DEF TypeInv
<1>1. req' \in [Req -> ReqRow] /\ \A p \in Req : req'[p] = IF p = q THEN r ELSE req[p]
  OBVIOUS
<1>2. Len(slips) \in Nat /\ Len(slips') \in Nat /\ \A p \in Req : req[p].count \in Nat
  BY DEF TypeOK, ReqRow
<1>3. ASSUME NEW p \in Req
      PROVE  /\ req'[p].pc \in Places
             /\ req'[p].pc \in {"process", "tool", "bulk"} => p \in Processor
             /\ req'[p].pc \notin {"idle", "delete"} <=> req'[p].cycle \in Cycle
             /\ req'[p].pc = "delete" => req'[p].bonus \in Bonus
             /\ req'[p].pc \in {"patch", "patched"} => req'[p].status \in PatchStatus
             /\ req'[p].count <= Len(slips')
  <2>1. CASE p = q
    BY <1>1, <2>1 DEF ReqRow
  <2>2. CASE p # q
    BY <1>1, <1>2, <2>2 DEF TypeOK, ReqRow
  <2> QED BY <2>1, <2>2
<1> QED BY <1>1, <1>3 DEF TypeOK, CycleRow, Places

LEMMA ClosedType ==
  ASSUME TypeInv, NEW q \in Req, Close(q),
         slips' \in Seq(Slip), Len(slips) <= Len(slips'),
         cycle' \in [Cycle -> CycleRow],
         bonus' \in [Bonus -> {"absent", "pending", "paid", "deleted"}],
         journal' \subseteq [cycle : Cycle, debit : Nat, tax : Nat, payable : Nat],
         deaths' \in 0 .. MaxDeaths
  PROVE  TypeInv'
<1>1. Len(slips') \in Nat /\ 0 <= Len(slips')
  OBVIOUS
<1>2. /\ Idle.pc \notin {"process", "tool", "bulk", "delete", "patch", "patched"}
      /\ ~ (Idle.pc \notin {"idle", "delete"}) /\ Idle.cycle \notin Cycle
      /\ Idle.count <= Len(slips')
  BY <1>1, IdleType
<1>3. req' = [req EXCEPT ![q] = Idle] /\ Idle \in ReqRow
  BY IdleType DEF Close
<1> QED BY <1>2, <1>3, RequestType

(* The tables keep their types.                                                  *)
LEMMA Unchanged ==
  ASSUME TypeInv
  PROVE  /\ slips \in Seq(Slip) /\ Len(slips) \in Nat
         /\ cycle \in [Cycle -> CycleRow]
         /\ bonus \in [Bonus -> {"absent", "pending", "paid", "deleted"}]
         /\ journal \subseteq [cycle : Cycle, debit : Nat, tax : Nat, payable : Nat]
         /\ deaths \in 0 .. MaxDeaths /\ deaths \in Nat
         /\ req \in [Req -> ReqRow]
BY PayrollAssumption DEF TypeInv, TypeOK, CycleRow

LEMMA TypeStarts == Init => TypeInv
<1> SUFFICES ASSUME Init PROVE TypeInv
  OBVIOUS
<1>1. \A q \in Req : req[q] = Idle /\ req \in [Req -> ReqRow]
  BY IdleType DEF Init
<1>2. slips \in Seq(Slip) /\ Len(slips) = 0
  BY DEF Init
<1>3. cycle \in [Cycle -> CycleRow]
  BY DEF Init, CycleRow, CycleStatus
<1>4. deaths \in 0 .. MaxDeaths
  BY PayrollAssumption DEF Init
<1>5. req \in [Req -> ReqRow]
  BY IdleType DEF Init
<1>6. \A q \in Req : /\ req[q].pc = "idle" /\ req[q].cycle \notin Cycle
                     /\ req[q].count <= Len(slips)
  BY <1>1, <1>2, IdleType
<1> QED BY <1>2, <1>3, <1>4, <1>5, <1>6 DEF Init, TypeInv, TypeOK, CycleRow

(* The payslips of requests that write them all at once.                         *)
LEMMA ConcatType ==
  ASSUME NEW s \in Seq(Slip), NEW S \in SUBSET Slip, IsFiniteSet(S)
  PROVE  LET t == s \o SetToSeq(S)
         IN  /\ t \in Seq(Slip) /\ Len(s) <= Len(t)
             /\ \A i \in DOMAIN s : i \in DOMAIN t /\ t[i] = s[i]
             /\ \A i \in DOMAIN t : i \in DOMAIN s \/ t[i] \in S
<1> DEFINE u == SetToSeq(S)
<1>1. u \in Seq(S) /\ \A i \in DOMAIN u : u[i] \in S
  BY SetToSeqType
<1>2. u \in Seq(Slip)
  BY <1>1
<1> HIDE DEF u
<1>3. s \o u \in Seq(Slip) /\ Len(s \o u) = Len(s) + Len(u) /\ Len(u) \in Nat /\ Len(s) \in Nat
  BY <1>2
<1>4. \A i \in DOMAIN s : i \in DOMAIN (s \o u) /\ (s \o u)[i] = s[i]
  BY <1>2
<1>5. ASSUME NEW i \in DOMAIN (s \o u), i \notin DOMAIN s
      PROVE  (s \o u)[i] \in S
  <2>1. i \in 1 .. Len(s) + Len(u) /\ ~ (i \in 1 .. Len(s))
    BY <1>2, <1>3, <1>5
  <2>2. i - Len(s) \in DOMAIN u /\ (s \o u)[i] = u[i - Len(s)]
    BY <1>2, <1>3, <2>1
  <2> QED BY <1>1, <2>2
<1> QED BY <1>3, <1>4, <1>5 DEF u

LEMMA SlipType ==
  ASSUME NEW c \in Cycle, NEW e \in Employee, NEW g \in Nat, NEW n \in Nat,
         NEW S \in SUBSET Bonus
  PROVE  SlipOf(c, e, g, n, S) \in Slip
BY DEF SlipOf, Slip

(* What tool and bulk add: a slip without bonuses for each employee left.         *)
Blanks(c, E, g, n) == {SlipOf(c, e, g, n, {}) : e \in E}

LEMMA BlanksType ==
  ASSUME NEW c \in Cycle, NEW E \in SUBSET Employee, NEW g \in Nat, NEW n \in Nat
  PROVE  Blanks(c, E, g, n) \subseteq Slip /\ IsFiniteSet(Blanks(c, E, g, n))
<1>1. IsFiniteSet(E)
  BY PayrollAssumption, FS_Subset
<1>2. IsFiniteSet(Blanks(c, E, g, n))
  <2> DEFINE f == [e \in E |-> SlipOf(c, e, g, n, {})]
  <2>1. f \in Surjection(E, Blanks(c, E, g, n))
    BY DEF Surjection, Blanks
  <2> QED BY <1>1, <2>1, FS_Surjection
<1> QED BY <1>2, SlipType DEF Blanks

LEMMA AddedType ==
  ASSUME TypeInv, NEW c \in Cycle, NEW E \in SUBSET Employee, NEW g \in Nat, NEW n \in Nat,
         slips' = slips \o SetToSeq(Blanks(c, E, g, n))
  PROVE  /\ slips' \in Seq(Slip) /\ Len(slips) <= Len(slips')
         /\ \A i \in DOMAIN slips : i \in DOMAIN slips' /\ slips'[i] = slips[i]
         /\ \A i \in DOMAIN slips' : i \in DOMAIN slips \/ slips'[i] \in Blanks(c, E, g, n)
<1> DEFINE B == Blanks(c, E, g, n)
<1>1. B \in SUBSET Slip /\ IsFiniteSet(B)
  BY BlanksType
<1>2. slips \in Seq(Slip) /\ slips' = slips \o SetToSeq(B)
  BY Unchanged
<1> HIDE DEF B
<1>3. /\ slips' \in Seq(Slip) /\ Len(slips) <= Len(slips')
      /\ \A i \in DOMAIN slips : i \in DOMAIN slips' /\ slips'[i] = slips[i]
      /\ \A i \in DOMAIN slips' : i \in DOMAIN slips \/ slips'[i] \in B
  BY <1>1, <1>2, ConcatType
<1> QED BY <1>3 DEF B

(* What becomes final stays the same slip.                                       *)
SameSlip(x, y) ==
  /\ x.cycle = y.cycle /\ x.employee = y.employee /\ x.gross = y.gross /\ x.net = y.net
  /\ x.bonuses = y.bonuses

LEMMA FinalizedType ==
  ASSUME TypeInv, NEW q \in Req
  PROVE  /\ Finalized(req[q]) \in Seq(Slip) /\ Len(Finalized(req[q])) = Len(slips)
         /\ DOMAIN Finalized(req[q]) = DOMAIN slips
         /\ \A i \in DOMAIN slips : SameSlip(Finalized(req[q])[i], slips[i])
<1>1. slips \in Seq(Slip) /\ Len(slips) \in Nat /\ DOMAIN slips = 1 .. Len(slips)
  BY Unchanged
<1>2. ASSUME NEW i \in DOMAIN slips
      PROVE  /\ [slips[i] EXCEPT !.final = TRUE] \in Slip /\ slips[i] \in Slip
             /\ SameSlip([slips[i] EXCEPT !.final = TRUE], slips[i])
             /\ SameSlip(slips[i], slips[i])
  <2>1. slips[i] \in Slip
    BY <1>1
  <2> QED BY <2>1 DEF Slip, SameSlip
<1>3. Finalized(req[q]) \in [1 .. Len(slips) -> Slip]
  BY <1>1, <1>2 DEF Finalized
<1>4. \A i \in DOMAIN slips :
        \/ Finalized(req[q])[i] = slips[i]
        \/ Finalized(req[q])[i] = [slips[i] EXCEPT !.final = TRUE]
  BY DEF Finalized
<1>5. Finalized(req[q]) \in Seq(Slip) /\ Len(Finalized(req[q])) = Len(slips)
  BY <1>1, <1>3
<1> QED BY <1>1, <1>2, <1>3, <1>4, <1>5

LEMMA SameTablesType ==
  ASSUME TypeInv, NEW q \in Req, NEW r \in ReqRow, req' = [req EXCEPT ![q] = r],
         UNCHANGED <<cycle, slips, bonus, journal>>, deaths' \in 0 .. MaxDeaths,
         r.pc \in {"process", "tool", "bulk"} => q \in Processor,
         r.pc \notin {"idle", "delete"} <=> r.cycle \in Cycle,
         r.pc = "delete" => r.bonus \in Bonus,
         r.pc \in {"patch", "patched"} => r.status \in PatchStatus,
         r.count <= Len(slips)
  PROVE  TypeInv'
<1>1. /\ r.count <= Len(slips') /\ Len(slips) <= Len(slips') /\ slips' \in Seq(Slip)
      /\ cycle' \in [Cycle -> CycleRow]
      /\ bonus' \in [Bonus -> {"absent", "pending", "paid", "deleted"}]
      /\ journal' \subseteq [cycle : Cycle, debit : Nat, tax : Nat, payable : Nat]
  BY Unchanged
<1> QED BY <1>1, RequestType

(* However a request begins to write payslips, it has loaded nothing yet.         *)
LEMMA Begins ==
  ASSUME NEW q \in Req, NEW c \in Cycle,
         ProcessBegin(q, c) \/ ToolBegin(q, c) \/ BulkBegin(q, c)
  PROVE  \E kind \in {"process", "tool", "bulk"}, E \in SUBSET Employee :
           /\ req' = [req EXCEPT ![q] = [Idle EXCEPT !.pc = kind, !.cycle = c, !.left = E]]
           /\ kind # "bulk" => cycle[c].status = "draft"
           /\ UNCHANGED <<cycle, journal>>
<1> DEFINE Begun(kind, E) ==
             /\ req' = [req EXCEPT ![q] = [Idle EXCEPT !.pc = kind, !.cycle = c, !.left = E]]
             /\ kind # "bulk" => cycle[c].status = "draft"
             /\ UNCHANGED <<cycle, journal>>
<1> SUFFICES \E kind \in {"process", "tool", "bulk"}, E \in SUBSET Employee : Begun(kind, E)
  OBVIOUS
<1>1. CASE ProcessBegin(q, c)
  <2>1. Begun("process", Employee)
    BY <1>1 DEF ProcessBegin, Open
  <2> HIDE DEF Begun
  <2> QED BY <2>1
<1>2. CASE ToolBegin(q, c)
  <2>1. Begun("tool", Employee)
    BY <1>2 DEF ToolBegin, Open
  <2> HIDE DEF Begun
  <2> QED BY <2>1
<1>3. CASE BulkBegin(q, c)
  <2> DEFINE E == {e \in Employee : SlipsOf(c, e) = {}}
  <2>1. Begun("bulk", E) /\ E \in SUBSET Employee
    BY <1>3 DEF BulkBegin, Open
  <2> HIDE DEF Begun, E
  <2> QED BY <2>1
<1> QED BY <1>1, <1>2, <1>3

(* The steps of the endpoints that write payslips.                               *)
LEMMA PayType == ASSUME TypeInv, NEW q \in Req, Pay(q) PROVE TypeInv'
<1> USE Unchanged
<1>0. req[q] \in ReqRow
  OBVIOUS
<1>1. ASSUME NEW c \in Cycle, ProcessBegin(q, c) \/ ToolBegin(q, c) \/ BulkBegin(q, c)
      PROVE  TypeInv'
  <2>1. PICK kind \in {"process", "tool", "bulk"}, E \in SUBSET Employee :
          /\ req' = [req EXCEPT ![q] = [Idle EXCEPT !.pc = kind, !.cycle = c, !.left = E]]
          /\ kind # "bulk" => cycle[c].status = "draft"
          /\ UNCHANGED <<cycle, journal>>
    BY <1>1, Begins
  <2> DEFINE r == [Idle EXCEPT !.pc = kind, !.cycle = c, !.left = E]
  <2>2. r \in ReqRow /\ r.pc = kind /\ r.cycle = c /\ r.count = 0
    BY DEF Idle, ReqRow, Places
  <2>3. q \in Processor /\ UNCHANGED <<cycle, slips, bonus, journal, deaths>>
    BY <1>1 DEF ProcessBegin, ToolBegin, BulkBegin
  <2>4. 0 <= Len(slips) /\ deaths' \in 0 .. MaxDeaths /\ req' = [req EXCEPT ![q] = r]
    BY <2>1, <2>3
  <2> HIDE DEF r
  <2> QED BY <2>2, <2>3, <2>4, SameTablesType
<1>2. ASSUME NEW e \in Employee, ReadEmployee(q, e) PROVE TypeInv'
  <2> DEFINE S == {b \in Bonus : OwnerOf[b] = e /\ bonus[b] = "pending"}
             r == [req[q] EXCEPT !.left = @ \ {e}, !.open = @ \cup {e}, !.seen[e] = S]
  <2>1. r \in ReqRow /\ r.pc = "process" /\ r.cycle = req[q].cycle /\ r.count = req[q].count
    BY <1>0, <1>2 DEF ReadEmployee, ReqRow
  <2>2. req' = [req EXCEPT ![q] = r]
    BY <1>2 DEF ReadEmployee
  <2>3. UNCHANGED <<cycle, slips, bonus, journal, deaths>>
    BY <1>2 DEF ReadEmployee
  <2>4. q \in Processor /\ req[q].cycle \in Cycle /\ req[q].count <= Len(slips)
    BY <1>2 DEF ReadEmployee, TypeInv, TypeOK
  <2>5. deaths' \in 0 .. MaxDeaths
    BY <2>3
  <2> HIDE DEF r
  <2> QED BY <2>1, <2>2, <2>3, <2>4, <2>5, SameTablesType
<1>3. ASSUME NEW e \in Employee, CommitEmployee(q, e) PROVE TypeInv'
  <2> DEFINE S == req[q].seen[e]
             r == [req[q] EXCEPT !.open = @ \ {e}, !.gross = @ + Gross(S),
                                 !.net = @ + Gross(S) - Tax]
  <2>1. S \in SUBSET Bonus /\ req[q].gross \in Nat /\ req[q].net \in Nat
    BY <1>0 DEF ReqRow
  <2>2. /\ Gross(S) \in Nat /\ Gross(S) - Tax \in Nat
        /\ req[q].net + Gross(S) - Tax \in Nat /\ req[q].gross + Gross(S) \in Nat
    <3>1. Gross(S) \in Nat /\ Gross(S) - Tax \in Nat
      BY <2>1, GrossCoversTax
    <3>2. Tax \in Nat
      BY PayrollAssumption
    <3> HIDE DEF S
    <3> QED BY <2>1, <3>1, <3>2
  <2>3. q \in Processor /\ req[q].cycle \in Cycle /\ req[q].count <= Len(slips)
    BY <1>3 DEF CommitEmployee, TypeInv, TypeOK
  <2>4. r \in ReqRow /\ r.pc = "process" /\ r.cycle = req[q].cycle /\ r.count = req[q].count
    BY <1>0, <1>3, <2>2 DEF CommitEmployee, ReqRow
  <2>5. req' = [req EXCEPT ![q] = r]
    BY <1>3 DEF CommitEmployee
  <2>6. slips' \in Seq(Slip) /\ Len(slips') = Len(slips) + 1
    BY <1>3, <2>1, <2>2, <2>3, SlipType DEF CommitEmployee
  <2>7. bonus' \in [Bonus -> {"absent", "pending", "paid", "deleted"}]
    BY <1>3 DEF CommitEmployee
  <2>8. UNCHANGED <<cycle, journal, deaths>>
    BY <1>3 DEF CommitEmployee
  <2>9. r.count <= Len(slips') /\ Len(slips) <= Len(slips')
    BY <1>0, <2>3, <2>4, <2>6 DEF ReqRow
  <2>10. /\ cycle' \in [Cycle -> CycleRow] /\ deaths' \in 0 .. MaxDeaths
         /\ journal' \subseteq [cycle : Cycle, debit : Nat, tax : Nat, payable : Nat]
    BY <2>8
  <2> HIDE DEF r, S
  <2> QED BY <2>3, <2>4, <2>5, <2>6, <2>7, <2>9, <2>10, RequestType
<1>4. ASSUME NEW e \in Employee, FailEmployee(q, e) PROVE TypeInv'
  <2> DEFINE r == [req[q] EXCEPT !.open = @ \ {e}]
  <2>1. r \in ReqRow /\ r.pc = "process" /\ r.cycle = req[q].cycle /\ r.count = req[q].count
    BY <1>0, <1>4 DEF FailEmployee, ReqRow
  <2>2. req' = [req EXCEPT ![q] = r] /\ UNCHANGED <<cycle, slips, bonus, journal>>
    BY <1>4 DEF FailEmployee
  <2>3. q \in Processor /\ req[q].cycle \in Cycle /\ req[q].count <= Len(slips)
    BY <1>4 DEF FailEmployee, TypeInv, TypeOK
  <2>4. deaths' \in 0 .. MaxDeaths
    BY <1>4, PayrollAssumption DEF FailEmployee
  <2> HIDE DEF r
  <2> QED BY <2>1, <2>2, <2>3, <2>4, SameTablesType
<1>5. CASE ProcessEnd(q)
  <2>1. req[q].cycle \in Cycle /\ req[q].gross \in Nat /\ req[q].net \in Nat
    BY <1>0, <1>5 DEF ProcessEnd, TypeInv, TypeOK, ReqRow
  <2>2. cycle' \in [Cycle -> CycleRow]
    BY <1>5, <2>1 DEF ProcessEnd, CycleRow, CycleStatus
  <2>3. Close(q) /\ UNCHANGED <<slips, bonus, journal, deaths>>
    BY <1>5 DEF ProcessEnd
  <2> QED BY <2>2, <2>3, ClosedType
<1>6. CASE ToolCommit(q)
  <2> DEFINE g == 12 * Base
             n == Cardinality(Employee)
  <2>1. req[q].cycle \in Cycle /\ req[q].left \in SUBSET Employee
    BY <1>0, <1>6 DEF ToolCommit, TypeInv, TypeOK, ReqRow
  <2>2. g \in Nat /\ g - Tax \in Nat /\ n * g \in Nat /\ n * (g - Tax) \in Nat
    BY ToolTotals
  <2>3. slips' = slips \o SetToSeq(Blanks(req[q].cycle, req[q].left, g, g - Tax))
    BY <1>6 DEF ToolCommit, Blanks
  <2>4. cycle' = [cycle EXCEPT ![req[q].cycle] =
                    [status |-> "processing", gross |-> n * g, net |-> n * (g - Tax)]]
    BY <1>6 DEF ToolCommit
  <2>5. Close(q) /\ UNCHANGED <<bonus, journal, deaths>>
    BY <1>6 DEF ToolCommit
  <2> HIDE DEF g, n
  <2>6. slips' \in Seq(Slip) /\ Len(slips) <= Len(slips')
    BY <2>1, <2>2, <2>3, AddedType
  <2>7. cycle' \in [Cycle -> CycleRow]
    BY <2>1, <2>2, <2>4 DEF CycleRow, CycleStatus
  <2> QED BY <2>5, <2>6, <2>7, ClosedType
<1>7. CASE BulkCommit(q)
  <2>1. req[q].cycle \in Cycle /\ req[q].left \in SUBSET Employee
    BY <1>0, <1>7 DEF BulkCommit, TypeInv, TypeOK, ReqRow
  <2>2. slips' = slips \o SetToSeq(Blanks(req[q].cycle, req[q].left, 0, 0))
    BY <1>7 DEF BulkCommit, Blanks
  <2>3. Close(q) /\ UNCHANGED <<cycle, bonus, journal, deaths>>
    BY <1>7 DEF BulkCommit
  <2>4. slips' \in Seq(Slip) /\ Len(slips) <= Len(slips')
    BY <2>1, <2>2, AddedType
  <2> QED BY <2>3, <2>4, ClosedType
<1> QED BY <1>1, <1>2, <1>3, <1>4, <1>5, <1>6, <1>7 DEF Pay

(* The steps of the clerk.                                                       *)
LEMMA ClerkType == ASSUME TypeInv, NEW q \in Req, Clerk(q) PROVE TypeInv'
<1> USE Unchanged
<1>0. req[q] \in ReqRow
  OBVIOUS
<1>1. ASSUME NEW c \in Cycle, NEW s \in PatchStatus, PatchBegin(q, c, s) PROVE TypeInv'
  <2> DEFINE r == [Idle EXCEPT !.pc = "patch", !.cycle = c, !.was = cycle[c].status,
                     !.status = s, !.gross = cycle[c].gross, !.net = cycle[c].net]
  <2>1. cycle[c] \in CycleRow
    OBVIOUS
  <2>2. r \in ReqRow /\ r.pc = "patch" /\ r.cycle = c /\ r.count = 0 /\ r.status = s
    BY <2>1 DEF Idle, ReqRow, Places, CycleRow
  <2>3. req' = [req EXCEPT ![q] = r] /\ UNCHANGED <<cycle, slips, bonus, journal, deaths>>
    BY <1>1 DEF PatchBegin, Open
  <2>4. 0 <= Len(slips) /\ deaths' \in 0 .. MaxDeaths
    BY <2>3
  <2> HIDE DEF r
  <2> QED BY <2>2, <2>3, <2>4, SameTablesType
<1>2. CASE PatchRead(q)
  <2> DEFINE r == [req[q] EXCEPT !.pc = "patched", !.count = Len(slips),
                                 !.booked = Booked(req[q].cycle)]
  <2>1. /\ r \in ReqRow /\ r.pc = "patched" /\ r.cycle = req[q].cycle
        /\ r.count = Len(slips) /\ r.status = req[q].status
    BY ZenonT(40), <1>0 DEF ReqRow, Places, Booked
  <2>2. req' = [req EXCEPT ![q] = r] /\ UNCHANGED <<cycle, slips, bonus, journal, deaths>>
    BY <1>2 DEF PatchRead
  <2>3. req[q].cycle \in Cycle /\ req[q].status \in PatchStatus
    BY <1>2 DEF PatchRead, TypeInv, TypeOK
  <2>4. Len(slips) <= Len(slips) /\ deaths' \in 0 .. MaxDeaths
    BY <2>2
  <2> HIDE DEF r
  <2> QED BY <2>1, <2>2, <2>3, <2>4, SameTablesType
<1>3. CASE PatchCommit(q)
  <2>1. req[q].cycle \in Cycle /\ req[q].status \in CycleStatus
    BY <1>0, <1>3 DEF PatchCommit, TypeInv, TypeOK, ReqRow, CycleStatus
  <2>2. Close(q) /\ UNCHANGED <<bonus, deaths>>
    BY <1>3 DEF PatchCommit
  <2>3. \/ UNCHANGED <<cycle, slips, journal>>
        \/ /\ cycle' = cycle \/ cycle' = [cycle EXCEPT ![req[q].cycle].status = req[q].status]
           /\ slips' = Finalized(req[q])
           /\ journal' = journal \/ journal' = journal \cup {Entry(req[q])}
    BY <1>3 DEF PatchCommit
  <2>4. slips' \in Seq(Slip) /\ Len(slips) <= Len(slips')
    BY <2>3, FinalizedType
  <2>5. cycle' \in [Cycle -> CycleRow]
    BY ZenonT(40), <2>1, <2>3 DEF CycleRow
  <2>6. Entry(req[q]) \in [cycle : Cycle, debit : Nat, tax : Nat, payable : Nat]
    <3>1. req[q].gross \in Nat /\ req[q].net \in Nat
      BY <1>0 DEF ReqRow
    <3>2. Cents(req[q].gross) \in Nat /\ Cents(req[q].net) \in Nat
      BY <3>1, CentsType
    <3>3. req[q].gross > req[q].net => Cents(req[q].gross - req[q].net) \in Nat
      <4>1. req[q].gross > req[q].net => req[q].gross - req[q].net \in Nat
        BY <3>1
      <4> QED BY <4>1, CentsType
    <3> QED BY <2>1, <3>2, <3>3 DEF Entry
  <2>7. journal' \subseteq [cycle : Cycle, debit : Nat, tax : Nat, payable : Nat]
    BY <2>3, <2>6
  <2> QED BY <2>2, <2>4, <2>5, <2>7, ClosedType
<1>4. ASSUME NEW b \in Bonus, DeleteBegin(q, b) PROVE TypeInv'
  <2> DEFINE r == [Idle EXCEPT !.pc = "delete", !.bonus = b]
  <2>1. r \in ReqRow /\ r.pc = "delete" /\ r.cycle \notin Cycle /\ r.count = 0 /\ r.bonus = b
    BY PayrollAssumption DEF Idle, ReqRow, Places
  <2>2. req' = [req EXCEPT ![q] = r] /\ UNCHANGED <<cycle, slips, bonus, journal, deaths>>
    BY <1>4 DEF DeleteBegin, Open
  <2>3. 0 <= Len(slips) /\ deaths' \in 0 .. MaxDeaths
    BY <2>2
  <2> HIDE DEF r
  <2> QED BY <2>1, <2>2, <2>3, SameTablesType
<1>5. CASE DeleteCommit(q)
  <2>1. bonus' \in [Bonus -> {"absent", "pending", "paid", "deleted"}]
    BY <1>5 DEF DeleteCommit
  <2>2. Close(q) /\ UNCHANGED <<cycle, slips, journal, deaths>>
    BY <1>5 DEF DeleteCommit
  <2>3. Len(slips) <= Len(slips')
    BY <2>2
  <2> QED BY <2>1, <2>2, <2>3, ClosedType
<1> QED BY <1>1, <1>2, <1>3, <1>4, <1>5 DEF Clerk

LEMMA TypeKept == TypeInv /\ [Next]_vars => TypeInv'
<1> SUFFICES ASSUME TypeInv, [Next]_vars PROVE TypeInv'
  OBVIOUS
<1> USE Unchanged
<1>1. ASSUME NEW c \in Cycle, CreateCycle(c) PROVE TypeInv'
  <2>1. cycle' \in [Cycle -> CycleRow]
    BY <1>1 DEF CreateCycle, CycleRow, CycleStatus
  <2> QED BY <1>1, <2>1 DEF CreateCycle, TypeInv, TypeOK, CycleRow
<1>2. ASSUME NEW b \in Bonus, CreateBonus(b) PROVE TypeInv'
  BY <1>2 DEF CreateBonus, TypeInv, TypeOK
<1>3. ASSUME NEW q \in Req, Abort(q) PROVE TypeInv'
  <2>1. deaths' \in 0 .. MaxDeaths /\ Len(slips) <= Len(slips')
    BY <1>3, PayrollAssumption DEF Abort
  <2> QED BY <1>3, <2>1, ClosedType DEF Abort
<1>4. CASE UNCHANGED vars
  BY <1>4 DEF vars, TypeInv, TypeOK
<1> QED BY <1>1, <1>2, <1>3, <1>4, PayType, ClerkType DEF Next

(* Every variable keeps its type.                                               *)
THEOREM TypeCorrect == Spec => []TypeOK
<1>1. TypeInv => TypeOK
  BY DEF TypeInv
<1> QED BY <1>1, TypeStarts, TypeKept, PTL DEF Spec

-------------------------------------------------------------------------------
(* Bonuses. *)

(* What all steps but the reading of an employee and its commit do to bonuses:    *)
(* no payslip lists a bonus it did not list before, ...                           *)
SameBonuses ==
  /\ \A i \in DOMAIN slips : i \in DOMAIN slips' /\ slips'[i].bonuses = slips[i].bonuses
  /\ \A i \in DOMAIN slips' : i \in DOMAIN slips \/ slips'[i].bonuses = {}

(* ... a bonus is created, or deleted by a request that set out to, ...            *)
BonusMoves ==
  \A b \in Bonus :
    \/ bonus'[b] = bonus[b]
    \/ bonus[b] = "absent" /\ bonus'[b] = "pending"
    \/ bonus'[b] = "deleted" /\ \E q \in Req : req[q].pc = "delete"

(* ... and what requests have read of employees can only be dropped.               *)
NothingRead ==
  \A q \in Req : req'[q].pc = "process" =>
    \A e \in req'[q].open :
      req[q].pc = "process" /\ e \in req[q].open /\ req'[q].seen[e] = req[q].seen[e]

LEMMA OneRequest ==
  ASSUME TypeInv, NEW q \in Req, NEW r, req' = [req EXCEPT ![q] = r],
         r.pc = "process" => \A e \in r.open :
           req[q].pc = "process" /\ e \in req[q].open /\ r.seen[e] = req[q].seen[e]
  PROVE  NothingRead
<1>1. \A p \in Req : req'[p] = IF p = q THEN r ELSE req[p]
  BY DEF TypeInv
<1> QED BY <1>1 DEF NothingRead

LEMMA ClosedReadsNothing ==
  ASSUME TypeInv, NEW q \in Req, Close(q)
  PROVE  NothingRead
BY IdleType, OneRequest DEF Close

LEMMA BonusEffects ==
  ASSUME TypeInv, [Next]_vars
  PROVE  \/ \E q \in Req, e \in Employee : ReadEmployee(q, e) \/ CommitEmployee(q, e)
         \/ SameBonuses /\ BonusMoves /\ NothingRead
<1>1. ASSUME UNCHANGED slips PROVE SameBonuses
  BY <1>1 DEF SameBonuses
<1>2. ASSUME UNCHANGED bonus PROVE BonusMoves
  BY <1>2 DEF BonusMoves
<1>3. ASSUME UNCHANGED req PROVE NothingRead
  BY <1>3 DEF NothingRead
<1>4. ASSUME NEW q \in Req, NEW c \in Cycle,
             ProcessBegin(q, c) \/ ToolBegin(q, c) \/ BulkBegin(q, c)
      PROVE  SameBonuses /\ BonusMoves /\ NothingRead
  <2>1. PICK kind \in {"process", "tool", "bulk"}, E \in SUBSET Employee :
          /\ req' = [req EXCEPT ![q] = [Idle EXCEPT !.pc = kind, !.cycle = c, !.left = E]]
          /\ kind # "bulk" => cycle[c].status = "draft"
          /\ UNCHANGED <<cycle, journal>>
    BY <1>4, Begins
  <2>2. [Idle EXCEPT !.pc = kind, !.cycle = c, !.left = E].open = {}
    BY DEF Idle
  <2>3. NothingRead
    BY <2>1, <2>2, OneRequest
  <2> QED BY <1>1, <1>2, <1>4, <2>3 DEF ProcessBegin, ToolBegin, BulkBegin
<1>5. ASSUME NEW q \in Req, NEW e \in Employee, FailEmployee(q, e)
      PROVE  SameBonuses /\ BonusMoves /\ NothingRead
  <2> DEFINE r == [req[q] EXCEPT !.open = @ \ {e}]
  <2>1. req' = [req EXCEPT ![q] = r]
    BY <1>5 DEF FailEmployee
  <2>2. req[q] \in ReqRow
    BY DEF TypeInv
  <2>3. r.open = req[q].open \ {e} /\ r.seen = req[q].seen /\ r.pc = req[q].pc
    BY <2>2 DEF ReqRow
  <2>4. NothingRead
    BY <2>1, <2>3, OneRequest
  <2> QED BY <1>1, <1>2, <1>5, <2>4 DEF FailEmployee
<1>6. ASSUME NEW q \in Req, ProcessEnd(q) \/ Abort(q)
      PROVE  SameBonuses /\ BonusMoves /\ NothingRead
  BY <1>1, <1>2, <1>6, ClosedReadsNothing DEF ProcessEnd, Abort
<1>7. ASSUME NEW q \in Req, ToolCommit(q) \/ BulkCommit(q)
      PROVE  SameBonuses /\ BonusMoves /\ NothingRead
  <2>1. req[q].cycle \in Cycle /\ req[q].left \in SUBSET Employee
    BY <1>7 DEF ToolCommit, BulkCommit, TypeInv, TypeOK, ReqRow
  <2>2. PICK g \in Nat, n \in Nat :
          slips' = slips \o SetToSeq(Blanks(req[q].cycle, req[q].left, g, n))
    <3>1. CASE ToolCommit(q)
      <4>1. slips' = slips \o SetToSeq(
              Blanks(req[q].cycle, req[q].left, 12 * Base, 12 * Base - Tax))
        BY <3>1 DEF ToolCommit, Blanks
      <4>2. 12 * Base \in Nat /\ 12 * Base - Tax \in Nat
        BY ToolTotals
      <4> QED BY <4>1, <4>2
    <3>2. CASE BulkCommit(q)
      <4>1. slips' = slips \o SetToSeq(Blanks(req[q].cycle, req[q].left, 0, 0))
        BY <3>2 DEF BulkCommit, Blanks
      <4> QED BY <4>1
    <3> QED BY <1>7, <3>1, <3>2
  <2>3. \A x \in Blanks(req[q].cycle, req[q].left, g, n) : x.bonuses = {}
    BY DEF Blanks, SlipOf
  <2>4. SameBonuses
    BY <2>1, <2>2, <2>3, AddedType DEF SameBonuses
  <2> QED BY <1>2, <1>7, <2>4, ClosedReadsNothing DEF ToolCommit, BulkCommit
<1>8. ASSUME NEW q \in Req, Clerk(q)
      PROVE  SameBonuses /\ BonusMoves /\ NothingRead
  <2>1. ASSUME NEW c \in Cycle, NEW t \in PatchStatus, PatchBegin(q, c, t)
        PROVE  SameBonuses /\ BonusMoves /\ NothingRead
    <3> DEFINE r == [Idle EXCEPT !.pc = "patch", !.cycle = c, !.was = cycle[c].status,
                       !.status = t, !.gross = cycle[c].gross, !.net = cycle[c].net]
    <3>1. req' = [req EXCEPT ![q] = r]
      BY <2>1 DEF PatchBegin, Open
    <3>2. r.pc = "patch"
      BY DEF Idle
    <3> QED BY <1>1, <1>2, <2>1, <3>1, <3>2, OneRequest DEF PatchBegin
  <2>2. ASSUME PatchRead(q) PROVE SameBonuses /\ BonusMoves /\ NothingRead
    <3> DEFINE r == [req[q] EXCEPT !.pc = "patched", !.count = Len(slips),
                                   !.booked = Booked(req[q].cycle)]
    <3>1. req[q] \in ReqRow
      BY DEF TypeInv
    <3>2. req' = [req EXCEPT ![q] = r] /\ r.pc = "patched"
      BY <2>2, <3>1 DEF PatchRead, ReqRow
    <3> QED BY <1>1, <1>2, <2>2, <3>2, OneRequest DEF PatchRead
  <2>3. ASSUME PatchCommit(q) PROVE SameBonuses /\ BonusMoves /\ NothingRead
    <3>1. slips' = slips \/ slips' = Finalized(req[q])
      BY <2>3 DEF PatchCommit
    <3>2. SameBonuses
      BY <1>1, <3>1, FinalizedType DEF SameBonuses, SameSlip
    <3> QED BY <1>2, <2>3, <3>2, ClosedReadsNothing DEF PatchCommit
  <2>4. ASSUME NEW b \in Bonus, DeleteBegin(q, b)
        PROVE  SameBonuses /\ BonusMoves /\ NothingRead
    <3> DEFINE r == [Idle EXCEPT !.pc = "delete", !.bonus = b]
    <3>1. req' = [req EXCEPT ![q] = r]
      BY <2>4 DEF DeleteBegin, Open
    <3>2. r.pc = "delete"
      BY DEF Idle
    <3> QED BY <1>1, <1>2, <2>4, <3>1, <3>2, OneRequest DEF DeleteBegin
  <2>5. ASSUME DeleteCommit(q) PROVE SameBonuses /\ BonusMoves /\ NothingRead
    <3>1. BonusMoves
      BY <2>5 DEF DeleteCommit, BonusMoves, TypeInv, TypeOK
    <3> QED BY <1>1, <2>5, <3>1, ClosedReadsNothing DEF DeleteCommit
  <2> QED BY <1>8, <2>1, <2>2, <2>3, <2>4, <2>5 DEF Clerk
<1>9. ASSUME NEW b \in Bonus, CreateBonus(b)
      PROVE  SameBonuses /\ BonusMoves /\ NothingRead
  BY <1>1, <1>3, <1>9 DEF CreateBonus, BonusMoves, TypeInv, TypeOK
<1>10. ASSUME NEW c \in Cycle, CreateCycle(c)
       PROVE  SameBonuses /\ BonusMoves /\ NothingRead
  BY <1>1, <1>2, <1>3, <1>10 DEF CreateCycle
<1>11. CASE UNCHANGED vars
  BY <1>1, <1>2, <1>3, <1>11 DEF vars
<1> QED BY <1>4, <1>5, <1>6, <1>7, <1>8, <1>9, <1>10, <1>11 DEF Next, Pay

(* A listed bonus is not pending, and what is read of an employee but not written *)
(* is not listed.                                                                *)
BonusInv ==
  /\ \A i \in DOMAIN slips : \A b \in slips[i].bonuses : bonus[b] \in {"paid", "deleted"}
  /\ \A q \in Req : req[q].pc = "process" =>
       \A e \in req[q].open : \A b \in req[q].seen[e] :
         OwnerOf[b] = e /\ \A i \in DOMAIN slips : b \notin slips[i].bonuses
  /\ BonusPaidOnce

LEMMA BonusInvRead ==
  ASSUME TypeInv, BonusInv, NEW q \in Req, NEW e \in Employee, ReadEmployee(q, e)
  PROVE  BonusInv'
<1> DEFINE S == {b \in Bonus : OwnerOf[b] = e /\ bonus[b] = "pending"}
           r == [req[q] EXCEPT !.left = @ \ {e}, !.open = @ \cup {e}, !.seen[e] = S]
<1>1. req' = [req EXCEPT ![q] = r] /\ UNCHANGED <<slips, bonus>> /\ req[q].pc = "process"
  BY DEF ReadEmployee
<1>2. req[q] \in ReqRow
  BY DEF TypeInv
<1>3. /\ r.open = req[q].open \cup {e} /\ r.seen[e] = S
      /\ \A d \in Employee \ {e} : r.seen[d] = req[q].seen[d]
      /\ req[q].open \subseteq Employee
  BY <1>2 DEF ReqRow
<1>4. \A p \in Req : req'[p] = IF p = q THEN r ELSE req[p]
  BY <1>1 DEF TypeInv
<1> HIDE DEF r
<1>5. \A b \in S : OwnerOf[b] = e /\ \A i \in DOMAIN slips : b \notin slips[i].bonuses
  BY DEF BonusInv
<1> HIDE DEF S
<1>6. ASSUME NEW p \in Req, req'[p].pc = "process", NEW d \in req'[p].open,
             NEW b \in req'[p].seen[d]
      PROVE  OwnerOf[b] = d /\ \A i \in DOMAIN slips : b \notin slips[i].bonuses
  <2>1. CASE p = q /\ d = e
    BY <1>3, <1>4, <1>5, <1>6, <2>1
  <2>2. CASE p = q /\ d # e
    BY <1>1, <1>3, <1>4, <1>6, <2>2 DEF BonusInv
  <2>3. CASE p # q
    BY <1>4, <1>6, <2>3 DEF BonusInv
  <2> QED BY <2>1, <2>2, <2>3
<1> QED BY <1>1, <1>6 DEF BonusInv, BonusPaidOnce

(* The effects of a commit, for the two invariants about bonuses.                *)
LEMMA CommitEffects ==
  ASSUME TypeInv, NEW q \in Req, NEW e \in Employee, CommitEmployee(q, e)
  PROVE  /\ req[q].pc = "process" /\ e \in req[q].open /\ req[q].seen[e] \subseteq Bonus
         /\ Len(slips) \in Nat /\ DOMAIN slips = 1 .. Len(slips)
         /\ DOMAIN slips' = 1 .. Len(slips) + 1
         /\ \A i \in DOMAIN slips : slips'[i] = slips[i]
         /\ slips'[Len(slips) + 1].bonuses = req[q].seen[e]
         /\ bonus' = [b \in Bonus |-> IF b \in req[q].seen[e] THEN "paid" ELSE bonus[b]]
         /\ \A p \in Req \ {q} : req'[p] = req[p]
         /\ req'[q].pc = "process" /\ req'[q].open = req[q].open \ {e}
         /\ req'[q].seen = req[q].seen
<1> DEFINE S == req[q].seen[e]
           x == SlipOf(req[q].cycle, e, Gross(S), Gross(S) - Tax, S)
<1>1. req[q] \in ReqRow /\ req \in [Req -> ReqRow] /\ req[q].pc = "process"
      /\ e \in req[q].open /\ S \subseteq Bonus
  BY DEF TypeInv, CommitEmployee, ReqRow
<1>2. slips \in Seq(Slip) /\ Len(slips) \in Nat /\ DOMAIN slips = 1 .. Len(slips)
  BY Unchanged
<1>3. slips' = Append(slips, x) /\ x.bonuses = S
  BY DEF CommitEmployee, SlipOf
<1> HIDE DEF x
<1>4. /\ DOMAIN slips' = 1 .. Len(slips) + 1
      /\ \A i \in DOMAIN slips : slips'[i] = slips[i]
      /\ slips'[Len(slips) + 1] = x
  BY <1>2, <1>3
<1>5. /\ \A p \in Req \ {q} : req'[p] = req[p]
      /\ req'[q].pc = "process" /\ req'[q].open = req[q].open \ {e}
      /\ req'[q].seen = req[q].seen
  BY <1>1 DEF CommitEmployee, ReqRow
<1>6. bonus' = [b \in Bonus |-> IF b \in S THEN "paid" ELSE bonus[b]]
  BY DEF CommitEmployee
<1> QED BY <1>1, <1>2, <1>3, <1>4, <1>5, <1>6

LEMMA BonusInvCommit ==
  ASSUME OneProcessor, TypeInv, BonusInv, NEW q \in Req, NEW e \in Employee,
         CommitEmployee(q, e)
  PROVE  BonusInv'
<1> DEFINE S == req[q].seen[e]
<1> USE CommitEffects
<1>1. \A b \in S : OwnerOf[b] = e /\ \A i \in DOMAIN slips : b \notin slips[i].bonuses
  BY DEF BonusInv
<1>2. \A i \in DOMAIN slips' :
        \/ i \in DOMAIN slips /\ slips'[i].bonuses = slips[i].bonuses
        \/ i = Len(slips) + 1 /\ slips'[i].bonuses = S
  OBVIOUS
<1>3. ASSUME NEW i \in DOMAIN slips', NEW b \in slips'[i].bonuses
      PROVE  bonus'[b] \in {"paid", "deleted"}
  <2>1. b \in Bonus
    <3>1. \A k \in DOMAIN slips : slips[k].bonuses \subseteq Bonus
      <4>1. slips \in [1 .. Len(slips) -> Slip]
        BY Unchanged
      <4> QED BY <4>1 DEF Slip
    <3> QED BY <1>2, <1>3, <3>1
  <2> QED BY <1>2, <1>3, <2>1 DEF BonusInv
<1>4. ASSUME NEW i \in DOMAIN slips', NEW j \in DOMAIN slips',
             slips'[i].bonuses \cap slips'[j].bonuses # {}
      PROVE  i = j
  <2>1. CASE i \in DOMAIN slips /\ j \in DOMAIN slips
    BY <1>4, <2>1 DEF BonusInv, BonusPaidOnce
  <2>2. CASE i \notin DOMAIN slips /\ j \in DOMAIN slips
    BY <1>1, <1>2, <1>4, <2>2
  <2>3. CASE i \in DOMAIN slips /\ j \notin DOMAIN slips
    BY <1>1, <1>2, <1>4, <2>3
  <2>4. CASE i \notin DOMAIN slips /\ j \notin DOMAIN slips
    BY <1>2, <2>4
  <2> QED BY <2>1, <2>2, <2>3, <2>4
<1>5. ASSUME NEW p \in Req, req'[p].pc = "process", NEW d \in req'[p].open,
             NEW b \in req'[p].seen[d]
      PROVE  OwnerOf[b] = d /\ \A i \in DOMAIN slips' : b \notin slips'[i].bonuses
  <2>1. p = q
    <3>1. p \in Processor /\ q \in Processor
      BY <1>5 DEF TypeInv, TypeOK
    <3> QED BY <3>1 DEF OneProcessor
  <2>2. d \in req[q].open /\ d # e /\ b \in req[q].seen[d]
    BY <1>5, <2>1
  <2>3. OwnerOf[b] = d /\ \A i \in DOMAIN slips : b \notin slips[i].bonuses
    BY <2>2 DEF BonusInv
  <2> QED BY <1>1, <1>2, <2>2, <2>3
<1> QED BY <1>3, <1>4, <1>5 DEF BonusInv, BonusPaidOnce

LEMMA BonusInvKept ==
  ASSUME OneProcessor
  PROVE  TypeInv /\ BonusInv /\ [Next]_vars => BonusInv'
<1> SUFFICES ASSUME TypeInv, BonusInv, [Next]_vars PROVE BonusInv'
  OBVIOUS
<1>1. CASE SameBonuses /\ BonusMoves /\ NothingRead
  <2>1. \A i \in DOMAIN slips' : \A b \in slips'[i].bonuses :
          i \in DOMAIN slips /\ b \in slips[i].bonuses
    BY <1>1 DEF SameBonuses
  <2>2. \A i \in DOMAIN slips : slips[i].bonuses \subseteq Bonus
    <3>1. slips \in [1 .. Len(slips) -> Slip]
      BY Unchanged
    <3> QED BY <3>1 DEF Slip
  <2>3. \A i \in DOMAIN slips' : \A b \in slips'[i].bonuses : bonus'[b] \in {"paid", "deleted"}
    BY <1>1, <2>1, <2>2 DEF BonusMoves, BonusInv
  <2>4. BonusPaidOnce'
    BY <2>1 DEF BonusInv, BonusPaidOnce
  <2>5. ASSUME NEW q \in Req, req'[q].pc = "process", NEW e \in req'[q].open,
               NEW b \in req'[q].seen[e]
        PROVE  OwnerOf[b] = e /\ \A i \in DOMAIN slips' : b \notin slips'[i].bonuses
    <3>1. req[q].pc = "process" /\ e \in req[q].open /\ b \in req[q].seen[e]
      BY <1>1, <2>5 DEF NothingRead
    <3> QED BY <2>1, <3>1 DEF BonusInv
  <2> QED BY <2>3, <2>4, <2>5 DEF BonusInv
<1> QED BY <1>1, BonusEffects, BonusInvRead, BonusInvCommit

(* While one request at a time processes payrolls, no bonus is paid twice, whatever *)
(* dies half-way and is started again, and whatever the clerks delete meanwhile.   *)
THEOREM BonusAlwaysPaidOnce ==
  ASSUME OneProcessor
  PROVE  Spec => []BonusPaidOnce
<1>1. Init => BonusInv
  BY IdleType DEF Init, BonusInv, BonusPaidOnce
<1>2. BonusInv => BonusPaidOnce
  BY DEF BonusInv
<1> QED BY <1>1, <1>2, TypeStarts, TypeKept, BonusInvKept, PTL DEF Spec

(* Where no client calls delete_bonus, no request is deleting one.               *)
NoDeletes == \A q \in Req : req[q].pc # "delete"

LEMMA StillNoDelete ==
  ASSUME TypeInv, NoDeletes, NEW q \in Req, NEW r, req' = [req EXCEPT ![q] = r],
         r.pc # "delete"
  PROVE  NoDeletes'
<1>1. \A p \in Req : req'[p] = IF p = q THEN r ELSE req[p]
  BY DEF TypeInv
<1> QED BY <1>1 DEF NoDeletes

LEMMA NoDeletesKept ==
  ASSUME "delete" \notin Kinds
  PROVE  TypeInv /\ NoDeletes /\ [Next]_vars => NoDeletes'
<1> SUFFICES ASSUME TypeInv, NoDeletes, [Next]_vars PROVE NoDeletes'
  OBVIOUS
<1>1. ASSUME NEW q \in Req, Close(q) PROVE NoDeletes'
  BY <1>1, IdleType, StillNoDelete DEF Close
<1>2. ASSUME NEW q \in Req, Pay(q) PROVE NoDeletes'
  <2>0. req[q] \in ReqRow /\ req[q].pc # "delete"
    BY DEF TypeInv, NoDeletes
  <2>1. ASSUME NEW c \in Cycle, ProcessBegin(q, c) \/ ToolBegin(q, c) \/ BulkBegin(q, c)
        PROVE  NoDeletes'
    <3>1. PICK kind \in {"process", "tool", "bulk"}, E \in SUBSET Employee :
            /\ req' = [req EXCEPT ![q] = [Idle EXCEPT !.pc = kind, !.cycle = c, !.left = E]]
            /\ kind # "bulk" => cycle[c].status = "draft"
            /\ UNCHANGED <<cycle, journal>>
      BY <2>1, Begins
    <3>2. [Idle EXCEPT !.pc = kind, !.cycle = c, !.left = E].pc # "delete"
      BY DEF Idle
    <3> QED BY <3>1, <3>2, StillNoDelete
  <2>2. ASSUME NEW e \in Employee, ReadEmployee(q, e) PROVE NoDeletes'
    <3> DEFINE r == [req[q] EXCEPT !.left = @ \ {e}, !.open = @ \cup {e},
                       !.seen[e] = {b \in Bonus : OwnerOf[b] = e /\ bonus[b] = "pending"}]
    <3>1. req' = [req EXCEPT ![q] = r] /\ r.pc # "delete"
      BY <2>0, <2>2 DEF ReadEmployee, ReqRow
    <3> QED BY <3>1, StillNoDelete
  <2>3. ASSUME NEW e \in Employee, CommitEmployee(q, e) PROVE NoDeletes'
    BY <2>3, CommitEffects DEF NoDeletes
  <2>4. ASSUME NEW e \in Employee, FailEmployee(q, e) PROVE NoDeletes'
    <3> DEFINE r == [req[q] EXCEPT !.open = @ \ {e}]
    <3>1. req' = [req EXCEPT ![q] = r] /\ r.pc # "delete"
      BY <2>0, <2>4 DEF FailEmployee, ReqRow
    <3> QED BY <3>1, StillNoDelete
  <2>5. ASSUME ProcessEnd(q) \/ ToolCommit(q) \/ BulkCommit(q) PROVE NoDeletes'
    BY <1>1, <2>5 DEF ProcessEnd, ToolCommit, BulkCommit
  <2> QED BY <1>2, <2>1, <2>2, <2>3, <2>4, <2>5 DEF Pay
<1>3. ASSUME NEW q \in Req, Clerk(q) PROVE NoDeletes'
  <2>1. ASSUME NEW c \in Cycle, NEW t \in PatchStatus, PatchBegin(q, c, t) PROVE NoDeletes'
    <3> DEFINE r == [Idle EXCEPT !.pc = "patch", !.cycle = c, !.was = cycle[c].status,
                       !.status = t, !.gross = cycle[c].gross, !.net = cycle[c].net]
    <3>1. req' = [req EXCEPT ![q] = r]
      BY <2>1 DEF PatchBegin, Open
    <3>2. r.pc # "delete"
      BY DEF Idle
    <3> QED BY <3>1, <3>2, StillNoDelete
  <2>2. ASSUME PatchRead(q) PROVE NoDeletes'
    <3> DEFINE r == [req[q] EXCEPT !.pc = "patched", !.count = Len(slips),
                                   !.booked = Booked(req[q].cycle)]
    <3>1. req[q] \in ReqRow
      BY DEF TypeInv
    <3>2. req' = [req EXCEPT ![q] = r] /\ r.pc # "delete"
      BY <2>2, <3>1 DEF PatchRead, ReqRow
    <3> QED BY <3>2, StillNoDelete
  <2>3. ASSUME PatchCommit(q) \/ DeleteCommit(q) PROVE NoDeletes'
    BY <1>1, <2>3 DEF PatchCommit, DeleteCommit
  <2>4. ASSUME NEW b \in Bonus, DeleteBegin(q, b) PROVE FALSE
    BY <2>4 DEF DeleteBegin, Open
  <2> QED BY <1>3, <2>1, <2>2, <2>3, <2>4 DEF Clerk
<1>4. ASSUME NEW q \in Req, Abort(q) PROVE NoDeletes'
  BY <1>1, <1>4 DEF Abort
<1>5. ASSUME UNCHANGED req PROVE NoDeletes'
  BY <1>5 DEF NoDeletes
<1> QED BY <1>2, <1>3, <1>4, <1>5 DEF Next, CreateCycle, CreateBonus, vars

LEMMA BackedKept ==
  TypeInv /\ NoDeletes /\ BonusBacked /\ [Next]_vars => BonusBacked'
<1> SUFFICES ASSUME TypeInv, NoDeletes, BonusBacked, [Next]_vars PROVE BonusBacked'
  OBVIOUS
<1>1. CASE SameBonuses /\ BonusMoves
  <2>1. ASSUME NEW b \in Bonus
        PROVE  (\E i \in DOMAIN slips' : b \in slips'[i].bonuses)
                 <=> \E i \in DOMAIN slips : b \in slips[i].bonuses
    BY <1>1 DEF SameBonuses
  <2>2. \A b \in Bonus : bonus'[b] = "paid" <=> bonus[b] = "paid"
    BY <1>1 DEF BonusMoves, NoDeletes
  <2> QED BY <2>1, <2>2 DEF BonusBacked
<1>2. ASSUME NEW q \in Req, NEW e \in Employee, ReadEmployee(q, e) PROVE BonusBacked'
  BY <1>2 DEF ReadEmployee, BonusBacked
<1>3. ASSUME NEW q \in Req, NEW e \in Employee, CommitEmployee(q, e) PROVE BonusBacked'
  <2>1. ASSUME NEW b \in Bonus
        PROVE  (\E i \in DOMAIN slips' : b \in slips'[i].bonuses)
                 <=> \/ \E i \in DOMAIN slips : b \in slips[i].bonuses
                     \/ b \in req[q].seen[e]
    BY <1>3, CommitEffects
  <2>2. \A b \in Bonus : bonus'[b] = "paid" <=> bonus[b] = "paid" \/ b \in req[q].seen[e]
    BY <1>3, CommitEffects
  <2> QED BY <2>1, <2>2 DEF BonusBacked
<1> QED BY <1>1, <1>2, <1>3, BonusEffects

(* Without deletions a bonus is marked paid exactly when a payslip lists it, with  *)
(* any number of requests at work, and whatever fails half-way.                    *)
THEOREM BonusAlwaysBacked ==
  ASSUME "delete" \notin Kinds
  PROVE  Spec => []BonusBacked
<1>1. Init => NoDeletes /\ BonusBacked
  BY IdleType DEF Init, NoDeletes, BonusBacked
<1> QED BY <1>1, TypeStarts, TypeKept, NoDeletesKept, BackedKept, PTL DEF Spec

-------------------------------------------------------------------------------
(* The ledger. *)

(* What an open request knows of the totals: a processor works on a cycle that    *)
(* has none, and what a clerk read to be booked is what the cycle still says.     *)
KnowsTotals(r) ==
  /\ r.net <= r.gross
  /\ r.pc \in {"process", "tool"} => cycle[r.cycle].gross = 0
  /\ r.pc \in {"patch", "patched"} /\ r.gross > 0 =>
       cycle[r.cycle].gross = r.gross /\ cycle[r.cycle].net = r.net

(* A cycle that has totals is no draft, and what is booked has totals.            *)
LedgerInv ==
  /\ \A q \in Req : KnowsTotals(req[q])
  /\ \A c \in Cycle :
       /\ cycle[c].net <= cycle[c].gross
       /\ cycle[c].gross > 0 => cycle[c].status \notin {"draft", "absent"}
  /\ \A x \in journal : cycle[x.cycle].gross > 0
  /\ JournalFaithful

SameTotals ==
  \A c \in Cycle :
    /\ cycle'[c].gross = cycle[c].gross /\ cycle'[c].net = cycle[c].net
    /\ cycle'[c].status \in {"draft", "absent"} => cycle[c].status \in {"draft", "absent"}

LEMMA IdleKnows == KnowsTotals(Idle)
BY DEF KnowsTotals, Idle

(* A step that leaves totals and ledger alone.                                   *)
LEMMA LedgerUntouched ==
  ASSUME TypeInv, TypeInv', LedgerInv, SameTotals, journal' = journal,
         NEW q \in Req, NEW r, req' = [req EXCEPT ![q] = r], KnowsTotals(r)
  PROVE  LedgerInv'
<1>1. \A p \in Req : req'[p] = IF p = q THEN r ELSE req[p]
  BY DEF TypeInv
<1>2. \A p \in Req : KnowsTotals(req'[p])
  BY <1>1 DEF LedgerInv
<1>3. ASSUME NEW p \in Req PROVE KnowsTotals(req[p])'
  <2>1. req'[p].pc \in {"process", "tool", "patch", "patched"} => req'[p].cycle \in Cycle
    BY DEF TypeInv, TypeOK
  <2> QED BY <1>2, <2>1 DEF KnowsTotals, SameTotals
<1>4. \A x \in journal : x.cycle \in Cycle
  BY DEF TypeInv, TypeOK
<1>5. JournalFaithful'
  BY <1>4 DEF LedgerInv, JournalFaithful, SameTotals
<1>6. \A x \in journal' : cycle'[x.cycle].gross > 0
  BY <1>4 DEF LedgerInv, SameTotals
<1> QED BY <1>3, <1>5, <1>6 DEF LedgerInv, SameTotals

(* A processor gives totals to a cycle that had none, and no other is at work.    *)
LEMMA LedgerTotals ==
  ASSUME OneProcessor, TypeInv, TypeInv', LedgerInv, journal' = journal,
         NEW q \in Req, req[q].pc \in {"process", "tool"}, Close(q),
         NEW g \in Nat, NEW n \in Nat, n <= g,
         cycle' = [cycle EXCEPT ![req[q].cycle] =
                     [status |-> "processing", gross |-> g, net |-> n]]
  PROVE  LedgerInv'
<1> DEFINE c == req[q].cycle
<1>1. c \in Cycle /\ cycle[c].gross = 0 /\ q \in Processor
  BY DEF LedgerInv, KnowsTotals, TypeInv, TypeOK
<1>2. /\ cycle'[c].gross = g /\ cycle'[c].net = n /\ cycle'[c].status = "processing"
      /\ \A d \in Cycle : d # c => cycle'[d] = cycle[d]
  BY <1>1 DEF TypeInv, TypeOK
<1>3. \A p \in Req : req'[p] = IF p = q THEN Idle ELSE req[p]
  BY DEF Close, TypeInv
<1> HIDE DEF c
<1>4. ASSUME NEW p \in Req PROVE KnowsTotals(req[p])'
  <2>1. CASE p = q
    BY <1>3, <2>1 DEF KnowsTotals, Idle
  <2>2. CASE p # q
    <3>1. req[p].pc \notin {"process", "tool"}
      BY <1>1, <2>2 DEF OneProcessor, TypeInv, TypeOK
    <3>2. KnowsTotals(req[p]) /\ req'[p] = req[p]
      BY <1>3, <2>2 DEF LedgerInv
    <3>3. req[p].pc \in {"patch", "patched"} /\ req[p].gross > 0 =>
            req[p].cycle \in Cycle /\ req[p].cycle # c
      <4>1. SUFFICES ASSUME req[p].pc \in {"patch", "patched"}, req[p].gross > 0
                     PROVE  req[p].cycle \in Cycle /\ req[p].cycle # c
        OBVIOUS
      <4>2. req[p].cycle \in Cycle
        BY <4>1 DEF TypeInv, TypeOK
      <4>3. cycle[req[p].cycle].gross > 0
        BY <3>2, <4>1 DEF KnowsTotals
      <4>4. cycle[c].gross = 0
        BY <1>1 DEF c
      <4> QED BY <4>2, <4>3, <4>4
    <3> QED BY <1>2, <3>1, <3>2, <3>3 DEF KnowsTotals
  <2> QED BY <2>1, <2>2
<1>5. \A x \in journal : x.cycle \in Cycle /\ x.cycle # c
  BY <1>1 DEF LedgerInv, JournalFaithful, TypeInv, TypeOK
<1>6. JournalFaithful'
  BY <1>2, <1>5 DEF LedgerInv, JournalFaithful
<1>7. \A d \in Cycle :
        /\ cycle'[d].net <= cycle'[d].gross
        /\ cycle'[d].gross > 0 => cycle'[d].status \notin {"draft", "absent"}
  BY <1>2 DEF LedgerInv
<1>8. \A x \in journal' : cycle'[x.cycle].gross > 0
  BY <1>2, <1>5 DEF LedgerInv
<1> QED BY <1>4, <1>6, <1>7, <1>8 DEF LedgerInv

(* The entry of a clerk's request shows the totals to the cent.                   *)
LEMMA LedgerBooked ==
  ASSUME TypeInv, TypeInv', LedgerInv, SameTotals,
         NEW q \in Req, req[q].pc = "patched", Books(req[q]), ~Booked(req[q].cycle),
         Close(q), journal' = journal \cup {Entry(req[q])}
  PROVE  LedgerInv'
<1> DEFINE r == req[q]
<1>1. /\ r.cycle \in Cycle /\ r.gross \in Nat /\ r.net \in Nat /\ r.gross > 0
      /\ r.net <= r.gross /\ cycle[r.cycle].gross = r.gross /\ cycle[r.cycle].net = r.net
  BY DEF LedgerInv, KnowsTotals, TypeInv, TypeOK, ReqRow, Books
<1> DEFINE y == Entry(r)
<1>2. /\ y.cycle = r.cycle /\ y.debit = Cents(r.gross) /\ y.payable = Cents(r.net)
      /\ y.tax = Cents(r.gross - r.net) /\ y.debit - (y.tax + y.payable) \in -1 .. 1
  <2>1. CASE r.gross > r.net
    BY <1>1, <2>1, CentsFacts DEF Entry
  <2>2. CASE ~(r.gross > r.net)
    <3>1. r.gross = r.net /\ r.gross - r.net = 0 /\ Cents(0) = 0
      <4>1. r.gross = r.net
        BY <1>1, <2>2
      <4> QED BY <1>1, <4>1, CentsFacts
    <3>2. y.debit = Cents(r.gross) /\ y.payable = Cents(r.net) /\ y.tax = 0 /\ y.cycle = r.cycle
      BY <2>2 DEF Entry
    <3> QED BY <1>1, <3>1, <3>2, CentsFacts
  <2> QED BY <2>1, <2>2
<1>3. \A x \in journal : x.cycle \in Cycle /\ x.cycle # r.cycle
  BY DEF Booked, TypeInv, TypeOK
<1>4. \A p \in Req : req'[p] = IF p = q THEN Idle ELSE req[p]
  BY DEF Close, TypeInv
<1> HIDE DEF r, y
<1>5. ASSUME NEW p \in Req PROVE KnowsTotals(req[p])'
  <2>1. KnowsTotals(req'[p])
    BY <1>4, IdleKnows DEF LedgerInv
  <2>2. req'[p].pc \in {"process", "tool", "patch", "patched"} => req'[p].cycle \in Cycle
    BY DEF TypeInv, TypeOK
  <2> QED BY <2>1, <2>2 DEF KnowsTotals, SameTotals
<1>6. \A x \in journal' : x \in journal \/ x = y
  BY DEF r, y
<1>7. JournalFaithful'
  BY <1>1, <1>2, <1>3, <1>6 DEF LedgerInv, JournalFaithful, SameTotals
<1>8. \A x \in journal' : cycle'[x.cycle].gross > 0
  BY <1>1, <1>2, <1>3, <1>6 DEF LedgerInv, SameTotals
<1> QED BY <1>5, <1>7, <1>8 DEF LedgerInv, SameTotals

(* What the steps of a processor and of a clerk come to.                         *)
LEMMA LedgerPay ==
  ASSUME OneProcessor, TypeInv, TypeInv', LedgerInv, NEW q \in Req, Pay(q)
  PROVE  LedgerInv'
<1>0. req[q] \in ReqRow /\ KnowsTotals(req[q])
  BY DEF TypeInv, LedgerInv
<1>1. ASSUME UNCHANGED cycle PROVE SameTotals
  BY <1>1 DEF SameTotals
<1>2. ASSUME NEW c \in Cycle, ProcessBegin(q, c) \/ ToolBegin(q, c) \/ BulkBegin(q, c)
      PROVE  LedgerInv'
  <2>1. PICK kind \in {"process", "tool", "bulk"}, E \in SUBSET Employee :
          /\ req' = [req EXCEPT ![q] = [Idle EXCEPT !.pc = kind, !.cycle = c, !.left = E]]
          /\ kind # "bulk" => cycle[c].status = "draft"
          /\ UNCHANGED <<cycle, journal>>
    BY <1>2, Begins
  <2>2. kind # "bulk" => cycle[c].gross = 0
    <3>1. cycle[c].gross \in Nat
      BY DEF TypeInv, TypeOK
    <3> QED BY <2>1, <3>1 DEF LedgerInv
  <2>3. KnowsTotals([Idle EXCEPT !.pc = kind, !.cycle = c, !.left = E])
    BY <2>2 DEF KnowsTotals, Idle
  <2> QED BY <1>1, <2>1, <2>3, LedgerUntouched
<1>3. ASSUME NEW e \in Employee, ReadEmployee(q, e) PROVE LedgerInv'
  <2> DEFINE r == [req[q] EXCEPT !.left = @ \ {e}, !.open = @ \cup {e},
                     !.seen[e] = {b \in Bonus : OwnerOf[b] = e /\ bonus[b] = "pending"}]
  <2>1. req' = [req EXCEPT ![q] = r] /\ UNCHANGED <<cycle, journal>>
    BY <1>3 DEF ReadEmployee
  <2>2. r.pc = req[q].pc /\ r.cycle = req[q].cycle /\ r.gross = req[q].gross /\ r.net = req[q].net
    BY <1>0 DEF ReqRow
  <2> HIDE DEF r
  <2>3. KnowsTotals(r)
    BY <1>0, <2>2 DEF KnowsTotals
  <2> QED BY <1>1, <2>1, <2>3, LedgerUntouched
<1>4. ASSUME NEW e \in Employee, CommitEmployee(q, e) PROVE LedgerInv'
  <2> DEFINE S == req[q].seen[e]
             r == [req[q] EXCEPT !.open = @ \ {e},
                     !.gross = @ + Gross(S), !.net = @ + Gross(S) - Tax]
  <2>1. req' = [req EXCEPT ![q] = r] /\ UNCHANGED <<cycle, journal>> /\ req[q].pc = "process"
    BY <1>4 DEF CommitEmployee
  <2>2. S \in SUBSET Bonus /\ req[q].gross \in Nat /\ req[q].net \in Nat
    BY <1>0 DEF ReqRow
  <2>3. /\ r.pc = req[q].pc /\ r.cycle = req[q].cycle
        /\ r.gross = req[q].gross + Gross(S) /\ r.net = req[q].net + Gross(S) - Tax
    BY <1>0 DEF ReqRow
  <2> HIDE DEF r, S
  <2>4. r.net <= r.gross
    <3>1. Gross(S) \in Nat /\ Tax \in Nat /\ req[q].net <= req[q].gross
      BY <1>0, <2>2, GrossCoversTax, PayrollAssumption DEF KnowsTotals
    <3> QED BY <2>2, <2>3, <3>1
  <2>5. KnowsTotals(r)
    BY <1>0, <2>1, <2>3, <2>4 DEF KnowsTotals
  <2> QED BY <1>1, <2>1, <2>5, LedgerUntouched
<1>5. ASSUME NEW e \in Employee, FailEmployee(q, e) PROVE LedgerInv'
  <2> DEFINE r == [req[q] EXCEPT !.open = @ \ {e}]
  <2>1. req' = [req EXCEPT ![q] = r] /\ UNCHANGED <<cycle, journal>>
    BY <1>5 DEF FailEmployee
  <2>2. r.pc = req[q].pc /\ r.cycle = req[q].cycle /\ r.gross = req[q].gross /\ r.net = req[q].net
    BY <1>0 DEF ReqRow
  <2> HIDE DEF r
  <2>3. KnowsTotals(r)
    BY <1>0, <2>2 DEF KnowsTotals
  <2> QED BY <1>1, <2>1, <2>3, LedgerUntouched
<1>6. ASSUME ProcessEnd(q) PROVE LedgerInv'
  <2>1. req[q].gross \in Nat /\ req[q].net \in Nat /\ req[q].net <= req[q].gross
    BY <1>0 DEF KnowsTotals, ReqRow
  <2> QED BY <1>6, <2>1, LedgerTotals DEF ProcessEnd
<1>7. ASSUME ToolCommit(q) PROVE LedgerInv'
  <2> DEFINE g == Cardinality(Employee) * (12 * Base)
             n == Cardinality(Employee) * (12 * Base - Tax)
  <2>1. g \in Nat /\ n \in Nat /\ n <= g
    BY ToolTotals
  <2>2. /\ cycle' = [cycle EXCEPT ![req[q].cycle] =
                       [status |-> "processing", gross |-> g, net |-> n]]
        /\ req[q].pc = "tool" /\ Close(q) /\ journal' = journal
    BY <1>7 DEF ToolCommit
  <2> HIDE DEF g, n
  <2> QED BY <2>1, <2>2, LedgerTotals
<1>8. ASSUME BulkCommit(q) PROVE LedgerInv'
  BY <1>1, <1>8, IdleKnows, LedgerUntouched DEF BulkCommit, Close
<1> QED BY <1>2, <1>3, <1>4, <1>5, <1>6, <1>7, <1>8 DEF Pay

LEMMA LedgerClerk ==
  ASSUME PatchStatus \cap {"draft", "absent"} = {},
         TypeInv, TypeInv', LedgerInv, NEW q \in Req, Clerk(q)
  PROVE  LedgerInv'
<1>0. req[q] \in ReqRow /\ KnowsTotals(req[q])
  BY DEF TypeInv, LedgerInv
<1>1. ASSUME UNCHANGED cycle PROVE SameTotals
  BY <1>1 DEF SameTotals
<1>2. ASSUME NEW c \in Cycle, NEW t \in PatchStatus, PatchBegin(q, c, t) PROVE LedgerInv'
  <2> DEFINE r == [Idle EXCEPT !.pc = "patch", !.cycle = c, !.was = cycle[c].status,
                     !.status = t, !.gross = cycle[c].gross, !.net = cycle[c].net]
  <2>1. req' = [req EXCEPT ![q] = r] /\ UNCHANGED <<cycle, journal>>
    BY <1>2 DEF PatchBegin, Open
  <2>2. r.pc = "patch" /\ r.cycle = c /\ r.gross = cycle[c].gross /\ r.net = cycle[c].net
    BY DEF Idle
  <2> HIDE DEF r
  <2>3. KnowsTotals(r)
    BY <2>2 DEF KnowsTotals, LedgerInv
  <2> QED BY <1>1, <2>1, <2>3, LedgerUntouched
<1>3. ASSUME PatchRead(q) PROVE LedgerInv'
  <2> DEFINE r == [req[q] EXCEPT !.pc = "patched", !.count = Len(slips),
                                 !.booked = Booked(req[q].cycle)]
  <2>1. req' = [req EXCEPT ![q] = r] /\ UNCHANGED <<cycle, journal>> /\ req[q].pc = "patch"
    BY <1>3 DEF PatchRead
  <2>2. /\ r.pc = "patched" /\ r.cycle = req[q].cycle
        /\ r.gross = req[q].gross /\ r.net = req[q].net
    BY <1>0 DEF ReqRow
  <2> HIDE DEF r
  <2>3. KnowsTotals(r)
    BY <1>0, <2>1, <2>2 DEF KnowsTotals
  <2> QED BY <1>1, <2>1, <2>3, LedgerUntouched
<1>4. ASSUME PatchCommit(q) PROVE LedgerInv'
  <2>1. req[q].pc = "patched" /\ req[q].cycle \in Cycle /\ req[q].status \in PatchStatus
    BY <1>4 DEF PatchCommit, TypeInv, TypeOK
  <2>2. \/ cycle' = cycle
        \/ cycle' = [cycle EXCEPT ![req[q].cycle].status = req[q].status]
    BY <1>4 DEF PatchCommit
  <2>3. SameTotals
    <3>1. CASE cycle' = cycle
      BY <1>1, <3>1
    <3>2. CASE cycle' = [cycle EXCEPT ![req[q].cycle].status = req[q].status]
      <4>1. cycle \in [Cycle -> CycleRow] /\ req[q].status \notin {"draft", "absent"}
        BY <2>1, Unchanged
      <4> QED BY <2>1, <3>2, <4>1 DEF SameTotals, CycleRow
    <3> QED BY <2>2, <3>1, <3>2
  <2>4. CASE journal' = journal
    BY <1>4, <2>3, <2>4, IdleKnows, LedgerUntouched DEF PatchCommit, Close
  <2>5. CASE journal' # journal
    <3>1. Books(req[q]) /\ ~Booked(req[q].cycle) /\ journal' = journal \cup {Entry(req[q])}
      BY <1>4, <2>5 DEF PatchCommit
    <3>2. Close(q)
      BY <1>4 DEF PatchCommit
    <3> QED BY <2>1, <2>3, <3>1, <3>2, LedgerBooked
  <2> QED BY <2>4, <2>5
<1>5. ASSUME NEW b \in Bonus, DeleteBegin(q, b) PROVE LedgerInv'
  <2> DEFINE r == [Idle EXCEPT !.pc = "delete", !.bonus = b]
  <2>1. req' = [req EXCEPT ![q] = r] /\ UNCHANGED <<cycle, journal>>
    BY <1>5 DEF DeleteBegin, Open
  <2>2. KnowsTotals(r)
    BY DEF KnowsTotals, Idle
  <2> QED BY <1>1, <2>1, <2>2, LedgerUntouched
<1>6. ASSUME DeleteCommit(q) PROVE LedgerInv'
  BY <1>1, <1>6, IdleKnows, LedgerUntouched DEF DeleteCommit, Close
<1> QED BY <1>2, <1>3, <1>4, <1>5, <1>6 DEF Clerk

LEMMA LedgerKept ==
  ASSUME OneProcessor, PatchStatus \cap {"draft", "absent"} = {}
  PROVE  TypeInv /\ TypeInv' /\ LedgerInv /\ [Next]_vars => LedgerInv'
<1> SUFFICES ASSUME TypeInv, TypeInv', LedgerInv, [Next]_vars PROVE LedgerInv'
  OBVIOUS
<1>1. ASSUME NEW q \in Req, req' = req, SameTotals, journal' = journal PROVE LedgerInv'
  <2>1. req' = [req EXCEPT ![q] = req[q]] /\ KnowsTotals(req[q])
    BY <1>1 DEF TypeInv, LedgerInv
  <2> QED BY <1>1, <2>1, LedgerUntouched
<1>2. ASSUME Req = {}, SameTotals, journal' = journal PROVE LedgerInv'
  BY <1>2 DEF LedgerInv, JournalFaithful, SameTotals, TypeInv, TypeOK
<1>3. ASSUME NEW c \in Cycle, CreateCycle(c) PROVE LedgerInv'
  <2>1. SameTotals /\ req' = req /\ journal' = journal
    BY <1>3 DEF CreateCycle, SameTotals, TypeInv, TypeOK
  <2> QED BY <1>1, <1>2, <2>1
<1>4. CASE UNCHANGED <<cycle, journal, req>>
  <2>1. SameTotals
    BY <1>4 DEF SameTotals
  <2> QED BY <1>1, <1>2, <1>4, <2>1
<1>5. ASSUME NEW q \in Req, Abort(q) PROVE LedgerInv'
  <2>1. SameTotals
    BY <1>5 DEF Abort, SameTotals
  <2> QED BY <1>5, <2>1, IdleKnows, LedgerUntouched DEF Abort, Close
<1> QED BY <1>3, <1>4, <1>5, LedgerPay, LedgerClerk DEF Next, CreateBonus, vars

(* While one request at a time processes payrolls and clerks set no cycle back to   *)
(* draft, the ledger has one entry per cycle at most, whose lines are the cycle's  *)
(* totals to the cent for good, however the clerks' requests overlap.              *)
THEOREM JournalAlwaysFaithful ==
  ASSUME OneProcessor, PatchStatus \cap {"draft", "absent"} = {}
  PROVE  Spec => []JournalFaithful
<1>1. Init => LedgerInv
  BY IdleKnows DEF Init, LedgerInv, KnowsTotals, JournalFaithful, Idle
<1>2. LedgerInv => JournalFaithful
  BY DEF LedgerInv
<1> QED BY <1>1, <1>2, TypeStarts, TypeKept, LedgerKept, PTL DEF Spec

-------------------------------------------------------------------------------
(* One payslip per employee. *)

(* What a processor has before it has no payslip yet.                            *)
KnowsSlips(r) ==
  /\ r.pc = "process" =>
       /\ r.left \cap r.open = {}
       /\ \A i \in DOMAIN slips :
            slips[i].cycle = r.cycle => slips[i].employee \notin r.left \cup r.open
  /\ r.pc = "tool" => \A i \in DOMAIN slips : slips[i].cycle # r.cycle

AtWorkOn(c) == \E q \in Req : req[q].pc = "process" /\ req[q].cycle = c

(* While nobody died a draft with payslips has its processor at work.             *)
SlipInv ==
  /\ \A q \in Req : req[q].pc # "bulk"
  /\ deaths = 0 =>
       /\ \A i, j \in DOMAIN slips :
            slips[i].cycle = slips[j].cycle /\ slips[i].employee = slips[j].employee => i = j
       /\ \A i \in DOMAIN slips :
            cycle[slips[i].cycle].status \in {"draft", "absent"} => AtWorkOn(slips[i].cycle)
       /\ \A q \in Req : KnowsSlips(req[q])

SameOwners ==
  /\ DOMAIN slips' = DOMAIN slips
  /\ \A i \in DOMAIN slips :
       slips'[i].cycle = slips[i].cycle /\ slips'[i].employee = slips[i].employee

NoNewDraft ==
  \A c \in Cycle :
    cycle'[c].status \in {"draft", "absent"} => cycle[c].status \in {"draft", "absent"}

LEMMA SlipCycle ==
  ASSUME TypeInv, NEW i \in DOMAIN slips
  PROVE  slips[i] \in Slip /\ slips[i].cycle \in Cycle /\ slips[i].employee \in Employee
<1>1. slips \in [1 .. Len(slips) -> Slip] /\ DOMAIN slips = 1 .. Len(slips)
  BY Unchanged
<1> QED BY <1>1 DEF Slip

(* A step that writes no payslip and ends no processor.                          *)
LEMMA SlipsUntouched ==
  ASSUME TypeInv, SlipInv, SameOwners, NoNewDraft, deaths' = 0 => deaths = 0,
         NEW q \in Req, NEW r, req' = [req EXCEPT ![q] = r], r.pc # "bulk",
         deaths' = 0 => KnowsSlips(r),
         deaths' = 0 /\ req[q].pc = "process" =>
           r.pc = "process" /\ r.cycle = req[q].cycle
  PROVE  SlipInv'
<1>1. \A p \in Req : req'[p] = IF p = q THEN r ELSE req[p]
  BY DEF TypeInv
<1>2. \A p \in Req : req'[p].pc # "bulk"
  BY <1>1 DEF SlipInv
<1>3. ASSUME deaths' = 0
      PROVE  /\ \A i, j \in DOMAIN slips' :
                  slips'[i].cycle = slips'[j].cycle /\ slips'[i].employee = slips'[j].employee
                    => i = j
             /\ \A i \in DOMAIN slips' :
                  cycle'[slips'[i].cycle].status \in {"draft", "absent"} =>
                    \E p \in Req : req'[p].pc = "process" /\ req'[p].cycle = slips'[i].cycle
             /\ \A p \in Req : KnowsSlips(req[p])'
  <2>1. ASSUME NEW d, AtWorkOn(d)
        PROVE  \E p \in Req : req'[p].pc = "process" /\ req'[p].cycle = d
    BY <1>1, <1>3, <2>1 DEF AtWorkOn
  <2>2. \A p \in Req : KnowsSlips(req'[p])
    BY <1>1, <1>3 DEF SlipInv
  <2>3. \A p \in Req : KnowsSlips(req[p])'
    BY <2>2 DEF KnowsSlips, SameOwners
  <2>4. ASSUME NEW i \in DOMAIN slips, cycle'[slips[i].cycle].status \in {"draft", "absent"}
        PROVE  \E p \in Req : req'[p].pc = "process" /\ req'[p].cycle = slips[i].cycle
    <3>1. slips[i].cycle \in Cycle
      BY SlipCycle
    <3>2. AtWorkOn(slips[i].cycle)
      BY <1>3, <2>4, <3>1 DEF SlipInv, NoNewDraft
    <3> QED BY <2>1, <3>2
  <2> QED BY <1>3, <2>3, <2>4 DEF SlipInv, SameOwners
<1> QED BY <1>2, <1>3 DEF SlipInv, AtWorkOn

LEMMA IdleKnowsSlips == KnowsSlips(Idle) /\ Idle.pc # "bulk"
BY DEF KnowsSlips, Idle

(* No processor but this one.                                                    *)
LEMMA Alone ==
  ASSUME OneProcessor, TypeInv, SlipInv, NEW q \in Processor, NEW p \in Req, p # q
  PROVE  req[p].pc \notin {"process", "tool", "bulk"}
BY DEF OneProcessor, TypeInv, TypeOK, SlipInv

(* A draft nobody is processing has no payslips.                                 *)
LEMMA DraftIsEmpty ==
  ASSUME OneProcessor, TypeInv, SlipInv, deaths = 0, NEW q \in Req, q \in Processor,
         req[q] = Idle, NEW c \in Cycle, cycle[c].status = "draft"
  PROVE  \A i \in DOMAIN slips : slips[i].cycle # c
<1>1. \A p \in Req : req[p].pc # "process"
  BY Alone DEF Idle
<1> QED BY <1>1 DEF SlipInv, AtWorkOn

LEMMA SlipsBegin ==
  ASSUME OneProcessor, TypeInv, SlipInv, NEW q \in Req, NEW c \in Cycle,
         ProcessBegin(q, c) \/ ToolBegin(q, c)
  PROVE  SlipInv'
<1>1. PICK kind \in {"process", "tool"} :
        /\ req' = [req EXCEPT ![q] = [Idle EXCEPT !.pc = kind, !.cycle = c, !.left = Employee]]
        /\ cycle[c].status = "draft" /\ q \in Processor /\ req[q] = Idle
        /\ UNCHANGED <<cycle, slips, deaths>>
  BY DEF ProcessBegin, ToolBegin, Open
<1> DEFINE r == [Idle EXCEPT !.pc = kind, !.cycle = c, !.left = Employee]
<1>2. r.pc = kind /\ r.cycle = c /\ r.open = {}
  BY DEF Idle
<1>3. req' = [req EXCEPT ![q] = r]
  BY <1>1
<1> HIDE DEF r
<1>4. deaths' = 0 => KnowsSlips(r)
  BY <1>1, <1>2, DraftIsEmpty DEF KnowsSlips
<1>5. req[q].pc = "idle"
  BY <1>1, IdleType
<1> QED BY <1>1, <1>2, <1>3, <1>4, <1>5, SlipsUntouched DEF SameOwners, NoNewDraft

(* The payslip of an employee that was read.                                     *)
LEMMA SlipsCommit ==
  ASSUME OneProcessor, TypeInv, SlipInv, NEW q \in Req, NEW e \in Employee,
         CommitEmployee(q, e)
  PROVE  SlipInv'
<1> DEFINE c == req[q].cycle
           n == Len(slips) + 1
<1>1. /\ q \in Processor /\ UNCHANGED <<cycle, deaths>>
      /\ c \in Cycle /\ e \in req[q].open /\ req[q].pc = "process"
      /\ Len(slips) \in Nat /\ DOMAIN slips = 1 .. Len(slips)
  BY CommitEffects DEF CommitEmployee, TypeInv, TypeOK
<1>2. /\ DOMAIN slips' = 1 .. n /\ \A i \in DOMAIN slips : slips'[i] = slips[i]
      /\ slips'[n].cycle = c /\ slips'[n].employee = e
  <2>1. \A g, m, S : SlipOf(c, e, g, m, S).cycle = c /\ SlipOf(c, e, g, m, S).employee = e
    BY DEF SlipOf
  <2>2. PICK x : slips' = Append(slips, x) /\ x.cycle = c /\ x.employee = e
    BY <2>1 DEF CommitEmployee
  <2>3. slips \in Seq(Slip)
    BY Unchanged
  <2> QED BY <1>1, <2>2, <2>3
<1>3. /\ \A p \in Req \ {q} : req'[p] = req[p]
      /\ req'[q].pc = "process" /\ req'[q].cycle = c
      /\ req'[q].open = req[q].open \ {e} /\ req'[q].left = req[q].left
  <2>1. req[q] \in ReqRow /\ req \in [Req -> ReqRow]
    BY DEF TypeInv
  <2> QED BY <2>1 DEF CommitEmployee, ReqRow
<1> HIDE DEF c, n
<1>4. \A i \in DOMAIN slips' : i \in DOMAIN slips \/ i = n
  BY <1>1, <1>2 DEF n
<1>5. \A p \in Req : req'[p].pc # "bulk"
  BY <1>3 DEF SlipInv
<1>6. ASSUME deaths' = 0
      PROVE  /\ \A i, j \in DOMAIN slips' :
                  slips'[i].cycle = slips'[j].cycle /\ slips'[i].employee = slips'[j].employee
                    => i = j
             /\ \A i \in DOMAIN slips' :
                  cycle'[slips'[i].cycle].status \in {"draft", "absent"} =>
                    \E p \in Req : req'[p].pc = "process" /\ req'[p].cycle = slips'[i].cycle
             /\ \A p \in Req : KnowsSlips(req[p])'
  <2>1. /\ req[q].left \cap req[q].open = {}
        /\ \A i \in DOMAIN slips :
             slips[i].cycle = c => slips[i].employee \notin req[q].left \cup req[q].open
    BY <1>1, <1>6 DEF SlipInv, KnowsSlips, c
  <2>2. \A i \in DOMAIN slips : slips[i].cycle # c \/ slips[i].employee # e
    BY <1>1, <2>1
  <2>3. \A i, j \in DOMAIN slips :
          slips[i].cycle = slips[j].cycle /\ slips[i].employee = slips[j].employee => i = j
    BY <1>1, <1>6 DEF SlipInv
  <2>4. \A i, j \in DOMAIN slips' :
          slips'[i].cycle = slips'[j].cycle /\ slips'[i].employee = slips'[j].employee => i = j
    BY <1>2, <1>4, <2>2, <2>3
  <2>5. \E p \in Req : req'[p].pc = "process" /\ req'[p].cycle = c
    BY <1>3
  <2>6. \A i \in DOMAIN slips :
          cycle[slips[i].cycle].status \in {"draft", "absent"} => slips[i].cycle = c
    <3>1. \A p \in Req : req[p].pc = "process" => p = q
      BY <1>1, Alone
    <3> QED BY <1>1, <1>6, <3>1 DEF SlipInv, AtWorkOn, c
  <2>7. \A i \in DOMAIN slips' :
          cycle'[slips'[i].cycle].status \in {"draft", "absent"} => slips'[i].cycle = c
    BY <1>1, <1>2, <1>4, <2>6
  <2>8. ASSUME NEW p \in Req PROVE KnowsSlips(req[p])'
    <3>1. CASE p = q
      <4>1. \A i \in DOMAIN slips' :
              slips'[i].cycle = c => slips'[i].employee \notin req'[q].left \cup req'[q].open
        BY <1>1, <1>2, <1>3, <1>4, <2>1
      <4> QED BY <1>3, <2>1, <3>1, <4>1 DEF KnowsSlips
    <3>2. CASE p # q
      <4>1. req'[p].pc \notin {"process", "tool"}
        BY <1>1, <1>3, <3>2, Alone
      <4> QED BY <4>1 DEF KnowsSlips
    <3> QED BY <3>1, <3>2
  <2> QED BY <2>4, <2>5, <2>7, <2>8
<1> QED BY <1>5, <1>6 DEF SlipInv, AtWorkOn

(* Employees that are read, and employees that fail.                             *)
LEMMA SlipsRead ==
  ASSUME TypeInv, SlipInv, NEW q \in Req, NEW e \in Employee,
         ReadEmployee(q, e) \/ FailEmployee(q, e)
  PROVE  SlipInv'
<1>1. req[q] \in ReqRow /\ deaths \in Nat
  BY Unchanged DEF TypeInv
<1>2. PICK r :
        /\ req' = [req EXCEPT ![q] = r] /\ req[q].pc = "process"
        /\ r.pc = "process" /\ r.cycle = req[q].cycle
        /\ r.left \cup r.open \subseteq req[q].left \cup req[q].open
        /\ req[q].left \cap req[q].open = {} => r.left \cap r.open = {}
  <2>1. CASE ReadEmployee(q, e)
    <3> DEFINE r == [req[q] EXCEPT !.left = @ \ {e}, !.open = @ \cup {e},
                       !.seen[e] = {b \in Bonus : OwnerOf[b] = e /\ bonus[b] = "pending"}]
    <3>1. req' = [req EXCEPT ![q] = r] /\ req[q].pc = "process" /\ e \in req[q].left
      BY <2>1 DEF ReadEmployee
    <3>2. /\ r.pc = req[q].pc /\ r.cycle = req[q].cycle
          /\ r.left = req[q].left \ {e} /\ r.open = req[q].open \cup {e}
      BY <1>1 DEF ReqRow
    <3> HIDE DEF r
    <3> QED BY <3>1, <3>2
  <2>2. CASE FailEmployee(q, e)
    <3> DEFINE r == [req[q] EXCEPT !.open = @ \ {e}]
    <3>1. req' = [req EXCEPT ![q] = r] /\ req[q].pc = "process"
      BY <2>2 DEF FailEmployee
    <3>2. /\ r.pc = req[q].pc /\ r.cycle = req[q].cycle
          /\ r.left = req[q].left /\ r.open = req[q].open \ {e}
      BY <1>1 DEF ReqRow
    <3> HIDE DEF r
    <3> QED BY <3>1, <3>2
  <2> QED BY <2>1, <2>2
<1>3. UNCHANGED <<cycle, slips>> /\ (deaths' = 0 => deaths = 0)
  BY <1>1 DEF ReadEmployee, FailEmployee
<1>4. deaths' = 0 => KnowsSlips(r)
  BY <1>2, <1>3 DEF SlipInv, KnowsSlips
<1>5. SameOwners /\ NoNewDraft
  BY <1>3 DEF SameOwners, NoNewDraft
<1> QED BY <1>2, <1>3, <1>4, <1>5, SlipsUntouched

(* The processor's last commit: its cycle is no draft any more.                  *)
LEMMA SlipsEnd ==
  ASSUME OneProcessor, TypeInv, SlipInv, NEW q \in Req, ProcessEnd(q)
  PROVE  SlipInv'
<1> DEFINE c == req[q].cycle
<1>1. /\ q \in Processor /\ c \in Cycle /\ req[q].pc = "process"
      /\ UNCHANGED <<slips, deaths>> /\ cycle'[c].status = "processing"
      /\ \A d \in Cycle : d # c => cycle'[d] = cycle[d]
  BY DEF ProcessEnd, TypeInv, TypeOK
<1>2. \A p \in Req : req'[p] = IF p = q THEN Idle ELSE req[p]
  BY DEF ProcessEnd, Close, TypeInv
<1> HIDE DEF c
<1>3. \A p \in Req : req'[p].pc \notin {"process", "tool", "bulk"}
  BY <1>1, <1>2, Alone, IdleKnowsSlips DEF Idle
<1>4. ASSUME deaths' = 0, NEW i \in DOMAIN slips
      PROVE  cycle'[slips[i].cycle].status \notin {"draft", "absent"}
  <2>1. slips[i].cycle \in Cycle
    BY SlipCycle
  <2>2. CASE slips[i].cycle = c
    BY <1>1, <2>2
  <2>3. CASE slips[i].cycle # c
    <3>1. \A p \in Req : req[p].pc = "process" => p = q
      BY <1>1, Alone
    <3>2. ~AtWorkOn(slips[i].cycle)
      BY <2>3, <3>1 DEF AtWorkOn, c
    <3>3. deaths = 0 /\ cycle'[slips[i].cycle] = cycle[slips[i].cycle]
      BY <1>1, <1>4, <2>1, <2>3
    <3> QED BY <3>2, <3>3 DEF SlipInv
  <2> QED BY <2>2, <2>3
<1>5. \A p \in Req : KnowsSlips(req[p])'
  BY <1>3 DEF KnowsSlips
<1> QED BY <1>1, <1>3, <1>4, <1>5 DEF SlipInv

LEMMA SetToSeqOnce ==
  ASSUME NEW S, IsFiniteSet(S),
         NEW i \in DOMAIN SetToSeq(S), NEW j \in DOMAIN SetToSeq(S),
         SetToSeq(S)[i] = SetToSeq(S)[j]
  PROVE  i = j
<1> DEFINE n == Cardinality(S)
<1>1. n \in Nat /\ ExistsBijection(1 .. n, S)
  BY FS_CardinalityType
<1>2. PICK f \in Bijection(1 .. n, S) : TRUE
  BY <1>1 DEF ExistsBijection
<1>3. f \in [1 .. n -> S] /\ IsInjective(f)
  BY <1>2 DEF Bijection, Injection, IsInjective
<1>4. IsInjective(SetToSeq(S))
  BY <1>3 DEF SetToSeq
<1> QED BY <1>4 DEF IsInjective

(* The payslips of the tool, all at once and one for each employee.               *)
LEMMA SlipsTool ==
  ASSUME OneProcessor, TypeInv, SlipInv, NEW q \in Req, ToolCommit(q)
  PROVE  SlipInv'
<1> DEFINE c == req[q].cycle
           B == Blanks(c, req[q].left, 12 * Base, 12 * Base - Tax)
           u == SetToSeq(B)
<1>1. /\ q \in Processor /\ c \in Cycle /\ req[q].pc = "tool" /\ UNCHANGED deaths
      /\ cycle'[c].status = "processing" /\ \A d \in Cycle : d # c => cycle'[d] = cycle[d]
      /\ req[q].left \in SUBSET Employee
  BY DEF ToolCommit, TypeInv, TypeOK, ReqRow
<1>2. \A p \in Req : req'[p] = IF p = q THEN Idle ELSE req[p]
  BY DEF ToolCommit, Close, TypeInv
<1>3. 12 * Base \in Nat /\ 12 * Base - Tax \in Nat
  BY PayrollAssumption
<1>4. B \subseteq Slip /\ IsFiniteSet(B)
  BY <1>1, <1>3, BlanksType
<1>5. slips' = slips \o u /\ slips \in Seq(Slip)
  BY Unchanged DEF ToolCommit, Blanks
<1>6. \A x \in B : x.cycle = c
  BY DEF Blanks, SlipOf
<1>7. ASSUME NEW x \in B, NEW y \in B, x.employee = y.employee PROVE x = y
  <2>1. PICK d \in req[q].left : x = SlipOf(c, d, 12 * Base, 12 * Base - Tax, {})
    BY DEF Blanks
  <2>2. PICK d2 \in req[q].left : y = SlipOf(c, d2, 12 * Base, 12 * Base - Tax, {})
    BY DEF Blanks
  <2>3. x.employee = d /\ y.employee = d2
    BY <2>1, <2>2 DEF SlipOf
  <2> QED BY <1>7, <2>1, <2>2, <2>3
<1> HIDE DEF B
<1>8. u \in Seq(B) /\ \A i \in DOMAIN u : u[i] \in B
  BY <1>4, SetToSeqType
<1>9. \A i, j \in DOMAIN u : u[i] = u[j] => i = j
  BY <1>4, SetToSeqOnce
<1> HIDE DEF u, c
<1>10. \A p \in Req : req'[p].pc \notin {"process", "tool", "bulk"}
  BY <1>1, <1>2, Alone, IdleKnowsSlips DEF Idle
<1>11. /\ Len(slips) \in Nat /\ Len(u) \in Nat /\ DOMAIN slips = 1 .. Len(slips)
       /\ DOMAIN u = 1 .. Len(u) /\ DOMAIN slips' = 1 .. Len(slips) + Len(u)
       /\ \A i \in DOMAIN slips : slips'[i] = slips[i]
       /\ \A i \in DOMAIN slips' : i \notin DOMAIN slips =>
            i - Len(slips) \in DOMAIN u /\ slips'[i] = u[i - Len(slips)]
  <2>1. u \in Seq(Slip)
    BY <1>4, <1>8
  <2> QED BY <1>5, <2>1
<1>12. ASSUME NEW i \in DOMAIN slips', i \notin DOMAIN slips
       PROVE  slips'[i] \in B /\ slips'[i].cycle = c
  BY <1>6, <1>8, <1>11, <1>12
<1>13. ASSUME deaths' = 0, NEW i \in DOMAIN slips
       PROVE  /\ slips[i].cycle \in Cycle /\ slips[i].cycle # c
              /\ cycle[slips[i].cycle].status \notin {"draft", "absent"}
  <2>1. \A p \in Req : req[p].pc # "process"
    BY <1>1, Alone
  <2>2. KnowsSlips(req[q])
    BY <1>1, <1>13 DEF SlipInv
  <2> QED BY <1>1, <1>13, <2>1, <2>2, SlipCycle DEF SlipInv, AtWorkOn, KnowsSlips, c
<1>14. ASSUME deaths' = 0, NEW i \in DOMAIN slips', NEW j \in DOMAIN slips',
              slips'[i].cycle = slips'[j].cycle, slips'[i].employee = slips'[j].employee
       PROVE  i = j
  <2>1. CASE i \in DOMAIN slips /\ j \in DOMAIN slips
    BY <1>1, <1>11, <1>14, <2>1 DEF SlipInv
  <2>2. CASE i \in DOMAIN slips /\ j \notin DOMAIN slips
    BY <1>11, <1>12, <1>13, <1>14, <2>2
  <2>3. CASE i \notin DOMAIN slips /\ j \in DOMAIN slips
    BY <1>11, <1>12, <1>13, <1>14, <2>3
  <2>4. CASE i \notin DOMAIN slips /\ j \notin DOMAIN slips
    <3>1. slips'[i] = slips'[j]
      BY <1>7, <1>12, <1>14, <2>4
    <3>2. i - Len(slips) = j - Len(slips)
      BY <1>9, <1>11, <2>4, <3>1
    <3> QED BY <1>11, <3>2
  <2> QED BY <2>1, <2>2, <2>3, <2>4
<1>15. ASSUME deaths' = 0, NEW i \in DOMAIN slips'
       PROVE  cycle'[slips'[i].cycle].status \notin {"draft", "absent"}
  BY <1>1, <1>11, <1>12, <1>13, <1>15
<1>16. \A p \in Req : KnowsSlips(req[p])'
  BY <1>10 DEF KnowsSlips
<1> QED BY <1>10, <1>14, <1>15, <1>16 DEF SlipInv

(* Clerks write no payslip and make no draft.                                    *)
LEMMA SlipsClerk ==
  ASSUME PatchStatus \cap {"draft", "absent"} = {},
         TypeInv, SlipInv, NEW q \in Req, Clerk(q)
  PROVE  SlipInv'
<1>0. req[q] \in ReqRow
  BY DEF TypeInv
<1>1. ASSUME UNCHANGED <<cycle, slips>> PROVE SameOwners /\ NoNewDraft
  BY <1>1 DEF SameOwners, NoNewDraft
<1>2. ASSUME NEW c \in Cycle, NEW t \in PatchStatus, PatchBegin(q, c, t) PROVE SlipInv'
  <2> DEFINE r == [Idle EXCEPT !.pc = "patch", !.cycle = c, !.was = cycle[c].status,
                     !.status = t, !.gross = cycle[c].gross, !.net = cycle[c].net]
  <2>1. req' = [req EXCEPT ![q] = r] /\ UNCHANGED <<cycle, slips, deaths>> /\ req[q] = Idle
    BY <1>2 DEF PatchBegin, Open
  <2>2. r.pc = "patch" /\ req[q].pc = "idle"
    BY <2>1 DEF Idle
  <2> HIDE DEF r
  <2>3. KnowsSlips(r)
    BY <2>2 DEF KnowsSlips
  <2> QED BY <1>1, <2>1, <2>2, <2>3, SlipsUntouched
<1>3. ASSUME PatchRead(q) PROVE SlipInv'
  <2> DEFINE r == [req[q] EXCEPT !.pc = "patched", !.count = Len(slips),
                                 !.booked = Booked(req[q].cycle)]
  <2>1. req' = [req EXCEPT ![q] = r] /\ UNCHANGED <<cycle, slips, deaths>> /\ req[q].pc = "patch"
    BY <1>3 DEF PatchRead
  <2>2. r.pc = "patched"
    BY <1>0 DEF ReqRow
  <2> HIDE DEF r
  <2>3. KnowsSlips(r)
    BY <2>2 DEF KnowsSlips
  <2> QED BY <1>1, <2>1, <2>2, <2>3, SlipsUntouched
<1>4. ASSUME PatchCommit(q) PROVE SlipInv'
  <2>1. /\ req[q].pc = "patched" /\ req[q].cycle \in Cycle /\ req[q].status \in PatchStatus
        /\ req' = [req EXCEPT ![q] = Idle] /\ deaths' = deaths
    BY <1>4 DEF PatchCommit, TypeInv, TypeOK, Close
  <2>2. SameOwners
    <3>1. CASE slips' = slips
      BY <3>1 DEF SameOwners
    <3>2. CASE slips' = Finalized(req[q])
      BY <3>2, FinalizedType DEF SameOwners, SameSlip
    <3> QED BY <1>4, <3>1, <3>2 DEF PatchCommit
  <2>3. NoNewDraft
    <3>1. CASE cycle' = cycle
      BY <3>1 DEF NoNewDraft
    <3>2. CASE cycle' = [cycle EXCEPT ![req[q].cycle].status = req[q].status]
      <4>1. cycle \in [Cycle -> CycleRow] /\ req[q].status \notin {"draft", "absent"}
        BY <2>1, Unchanged
      <4> QED BY <2>1, <3>2, <4>1 DEF NoNewDraft, CycleRow
    <3> QED BY <1>4, <3>1, <3>2 DEF PatchCommit
  <2> QED BY <2>1, <2>2, <2>3, IdleKnowsSlips, SlipsUntouched
<1>5. ASSUME NEW b \in Bonus, DeleteBegin(q, b) PROVE SlipInv'
  <2> DEFINE r == [Idle EXCEPT !.pc = "delete", !.bonus = b]
  <2>1. req' = [req EXCEPT ![q] = r] /\ UNCHANGED <<cycle, slips, deaths>> /\ req[q] = Idle
    BY <1>5 DEF DeleteBegin, Open
  <2>2. r.pc = "delete" /\ req[q].pc = "idle" /\ KnowsSlips(r)
    BY <2>1 DEF Idle, KnowsSlips
  <2> QED BY <1>1, <2>1, <2>2, SlipsUntouched
<1>6. ASSUME DeleteCommit(q) PROVE SlipInv'
  <2>1. /\ req' = [req EXCEPT ![q] = Idle] /\ UNCHANGED <<cycle, slips, deaths>>
        /\ req[q].pc = "delete"
    BY <1>6 DEF DeleteCommit, Close
  <2> QED BY <1>1, <2>1, IdleKnowsSlips, SlipsUntouched
<1> QED BY <1>2, <1>3, <1>4, <1>5, <1>6 DEF Clerk

LEMMA SlipsKept ==
  ASSUME OneProcessor, PatchStatus \cap {"draft", "absent"} = {}, "bulk" \notin Kinds
  PROVE  TypeInv /\ SlipInv /\ [Next]_vars => SlipInv'
<1> SUFFICES ASSUME TypeInv, SlipInv, [Next]_vars PROVE SlipInv'
  OBVIOUS
<1>1. ASSUME NEW c \in Cycle, CreateCycle(c) PROVE SlipInv'
  <2>1. UNCHANGED <<slips, req, deaths>> /\ NoNewDraft
    BY <1>1 DEF CreateCycle, NoNewDraft, TypeInv, TypeOK
  <2>2. \A i \in DOMAIN slips : slips[i].cycle \in Cycle
    BY SlipCycle
  <2> QED BY <2>1, <2>2 DEF SlipInv, NoNewDraft, AtWorkOn, KnowsSlips
<1>2. CASE UNCHANGED <<cycle, slips, req, deaths>>
  BY <1>2 DEF SlipInv, AtWorkOn, KnowsSlips
<1>3. ASSUME NEW q \in Req, Pay(q) PROVE SlipInv'
  <2>1. ~BulkCommit(q) /\ \A c \in Cycle : ~BulkBegin(q, c)
    BY DEF BulkCommit, BulkBegin, Open, SlipInv
  <2> QED BY <1>3, <2>1, SlipsBegin, SlipsRead, SlipsCommit, SlipsEnd, SlipsTool DEF Pay
<1>4. ASSUME NEW q \in Req, Abort(q) PROVE SlipInv'
  <2>1. /\ req' = [req EXCEPT ![q] = Idle] /\ deaths' # 0 /\ SameOwners /\ NoNewDraft
    BY <1>4, Unchanged DEF Abort, Close, SameOwners, NoNewDraft
  <2> QED BY <2>1, IdleKnowsSlips, SlipsUntouched
<1>5. ASSUME NEW b \in Bonus, CreateBonus(b) PROVE SlipInv'
  BY <1>2, <1>5 DEF CreateBonus
<1> QED BY <1>1, <1>2, <1>3, <1>4, <1>5, SlipsClerk DEF Next, vars

LEMMA AtMostOne ==
  ASSUME NEW S, \A x, y \in S : x = y
  PROVE  Cardinality(S) <= 1
<1>1. CASE S = {}
  BY <1>1, FS_EmptySet
<1>2. CASE S # {}
  <2>1. PICK x \in S : TRUE
    BY <1>2
  <2>2. S = {x}
    BY <2>1
  <2> QED BY <2>2, FS_Singleton
<1> QED BY <1>1, <1>2

(* While one request at a time processes payrolls, none dies half-way, clerks set   *)
(* no cycle back to draft and blank payslips are not issued in bulk, an employee   *)
(* has at most one payslip of a cycle.                                             *)
THEOREM AlwaysOnePayslip ==
  ASSUME OneProcessor, PatchStatus \cap {"draft", "absent"} = {}, "bulk" \notin Kinds
  PROVE  Spec => []OnePayslipUnlessAborted
<1>1. Init => SlipInv
  BY IdleKnowsSlips DEF Init, SlipInv, KnowsSlips, Idle
<1>2. SlipInv => OnePayslipUnlessAborted
  <2>1. ASSUME SlipInv, deaths = 0, NEW c \in Cycle, NEW e \in Employee
        PROVE  Cardinality(SlipsOf(c, e)) <= 1
    <3>1. \A i, j \in SlipsOf(c, e) : i = j
      BY <2>1 DEF SlipInv, SlipsOf
    <3> QED BY <3>1, AtMostOne
  <2> QED BY <2>1 DEF OnePayslipUnlessAborted
<1> QED BY <1>1, <1>2, TypeStarts, TypeKept, SlipsKept, PTL DEF Spec

-------------------------------------------------------------------------------
(* Cycles that are paid. *)

(* A clerk's request that saw its cycle processed, and a request that processes.  *)
Paying(r) == r.pc \in {"patch", "patched"} /\ r.was = "processing"

Writing(r) == r.pc \in {"process", "tool"}

(* What has been seen as processed stays so: nobody is adding payslips to it, and  *)
(* the payslips and the entry that the request read are all there is.             *)
Settles(r, cy, sl, jo) ==
  /\ r.pc # "bulk"
  /\ Writing(r) => cy[r.cycle].status # "processing"
  /\ Paying(r) =>
       /\ cy[r.cycle].status \notin {"draft", "absent"}
       /\ cy[r.cycle].gross = r.gross
       /\ r.pc = "patched" =>
            /\ \A i \in DOMAIN sl : sl[i].cycle = r.cycle => i <= r.count
            /\ r.booked => \E x \in jo : x.cycle = r.cycle

Apart(r, s) == Paying(r) /\ Writing(s) => s.cycle # r.cycle

SettleInv ==
  /\ \A q \in Req : Settles(req[q], cycle, slips, journal)
  /\ \A p, q \in Req : Apart(req[p], req[q])

(* The totals of a cycle stay and no payslip is added to it.                      *)
Kept(c) ==
  /\ cycle'[c].gross = cycle[c].gross
  /\ \A i \in DOMAIN slips' :
       slips'[i].cycle = c => i \in DOMAIN slips /\ slips[i].cycle = c

(* What a step of one request owes to the others.                                 *)
LEMMA SettleStep ==
  ASSUME TypeInv, SettleInv, NoNewDraft, journal \subseteq journal',
         NEW q \in Req, NEW r, req' = [req EXCEPT ![q] = r],
         Settles(r, cycle', slips', journal'),
         \A p \in Req \ {q} :
           /\ Apart(r, req[p]) /\ Apart(req[p], r)
           /\ Paying(req[p]) => Kept(req[p].cycle)
           /\ Writing(req[p]) /\ cycle'[req[p].cycle].status = "processing" =>
                cycle[req[p].cycle].status = "processing"
  PROVE  SettleInv'
<1>1. \A p \in Req : req'[p] = IF p = q THEN r ELSE req[p]
  BY DEF TypeInv
<1>2. ASSUME NEW p \in Req PROVE Settles(req'[p], cycle', slips', journal')
  <2>1. CASE p = q
    BY <1>1, <2>1
  <2>2. CASE p # q
    <3>1. req'[p] = req[p] /\ Settles(req[p], cycle, slips, journal)
      BY <1>1, <2>2 DEF SettleInv
    <3>2. ASSUME Paying(req[p])
          PROVE  /\ cycle'[req[p].cycle].status \notin {"draft", "absent"}
                 /\ cycle'[req[p].cycle].gross = req[p].gross
                 /\ req[p].pc = "patched" =>
                      /\ \A i \in DOMAIN slips' :
                           slips'[i].cycle = req[p].cycle => i <= req[p].count
                      /\ req[p].booked => \E x \in journal' : x.cycle = req[p].cycle
      <4>1. req[p].cycle \in Cycle
        BY <3>2 DEF Paying, TypeInv, TypeOK
      <4>2. Kept(req[p].cycle)
        BY <2>2, <3>2
      <4> QED BY <3>1, <3>2, <4>1, <4>2 DEF Settles, Kept, NoNewDraft
    <3>3. Writing(req[p]) => cycle'[req[p].cycle].status # "processing"
      BY <2>2, <3>1 DEF Settles
    <3> QED BY <3>1, <3>2, <3>3 DEF Settles
  <2> QED BY <2>1, <2>2
<1>3. ASSUME NEW p \in Req, NEW s \in Req PROVE Apart(req'[p], req'[s])
  <2>1. CASE p = q /\ s = q
    BY <1>1, <2>1 DEF Apart, Paying, Writing
  <2>2. CASE p = q /\ s # q
    BY <1>1, <2>2
  <2>3. CASE p # q /\ s = q
    BY <1>1, <2>3
  <2>4. CASE p # q /\ s # q
    BY <1>1, <2>4 DEF SettleInv
  <2> QED BY <2>1, <2>2, <2>3, <2>4
<1>4. \A p \in Req : Settles(req[p], cycle, slips, journal)'
  BY <1>2
<1>5. \A p, s \in Req : Apart(req[p], req[s])'
  BY <1>3
<1> QED BY <1>4, <1>5 DEF SettleInv

(* A request that neither pays nor writes, or goes on as it did.                  *)
LEMMA SettleSame ==
  ASSUME TypeInv, SettleInv, NoNewDraft, journal \subseteq journal',
         \A c \in Cycle :
           /\ Kept(c)
           /\ cycle'[c].status = "processing" => cycle[c].status = "processing",
         NEW q \in Req, NEW r, req' = [req EXCEPT ![q] = r], r.pc # "bulk", ~Paying(r),
         Writing(r) => Writing(req[q]) /\ r.cycle = req[q].cycle
  PROVE  SettleInv'
<1>1. \A p \in Req : Writing(req[p]) \/ Paying(req[p]) => req[p].cycle \in Cycle
  BY DEF Writing, Paying, TypeInv, TypeOK
<1>2. Settles(r, cycle', slips', journal')
  BY <1>1 DEF Settles, SettleInv
<1>3. \A p \in Req \ {q} : Apart(r, req[p]) /\ Apart(req[p], r)
  BY DEF Apart, SettleInv
<1> QED BY <1>1, <1>2, <1>3, SettleStep

LEMMA IdleSettles == Idle.pc # "bulk" /\ ~Paying(Idle) /\ ~Writing(Idle)
BY DEF Idle, Paying, Writing

LEMMA TablesKept ==
  ASSUME UNCHANGED <<cycle, slips, journal>>
  PROVE  /\ NoNewDraft /\ journal \subseteq journal'
         /\ \A c \in Cycle :
              /\ Kept(c)
              /\ cycle'[c].status = "processing" => cycle[c].status = "processing"
BY DEF NoNewDraft, Kept

LEMMA OnlyWriter ==
  ASSUME OneProcessor, TypeInv, NEW q \in Req, Writing(req[q]), NEW p \in Req, p # q
  PROVE  ~Writing(req[p])
BY DEF OneProcessor, Writing, TypeInv, TypeOK

LEMMA SettlePay ==
  ASSUME OneProcessor, "bulk" \notin Kinds, TypeInv, SettleInv, NEW q \in Req, Pay(q)
  PROVE  SettleInv'
<1>0. req[q] \in ReqRow /\ req \in [Req -> ReqRow] /\ req[q].pc # "bulk"
  BY DEF TypeInv, SettleInv, Settles
<1>1. ASSUME NEW c \in Cycle, ProcessBegin(q, c) \/ ToolBegin(q, c) PROVE SettleInv'
  <2>1. PICK r :
          /\ req' = [req EXCEPT ![q] = r] /\ r.cycle = c /\ r.pc \in {"process", "tool"}
          /\ cycle[c].status = "draft" /\ UNCHANGED <<cycle, slips, journal>>
    <3>1. PICK kind \in {"process", "tool"} :
            /\ req' = [req EXCEPT ![q] =
                 [Idle EXCEPT !.pc = kind, !.cycle = c, !.left = Employee]]
            /\ cycle[c].status = "draft" /\ UNCHANGED <<cycle, slips, journal>>
      BY <1>1 DEF ProcessBegin, ToolBegin, Open
    <3> DEFINE r == [Idle EXCEPT !.pc = kind, !.cycle = c, !.left = Employee]
    <3>2. r.cycle = c /\ r.pc = kind
      BY DEF Idle
    <3> HIDE DEF r
    <3> QED BY <3>1, <3>2 DEF r
  <2>2. ~Paying(r) /\ Writing(r)
    BY <2>1 DEF Paying, Writing
  <2>3. Settles(r, cycle', slips', journal')
    BY <2>1, <2>2 DEF Settles
  <2>4. \A p \in Req : Apart(r, req[p]) /\ Apart(req[p], r)
    <3>1. ASSUME NEW p \in Req, Paying(req[p]) PROVE req[p].cycle # c
      BY <2>1, <3>1 DEF SettleInv, Settles
    <3> QED BY <2>1, <2>2, <3>1 DEF Apart
  <2>5. \A p \in Req : Paying(req[p]) \/ Writing(req[p]) => req[p].cycle \in Cycle
    BY DEF Writing, Paying, TypeInv, TypeOK
  <2> QED BY <2>1, <2>3, <2>4, <2>5, TablesKept, SettleStep
<1>2. ASSUME NEW e \in Employee, ReadEmployee(q, e) \/ FailEmployee(q, e) PROVE SettleInv'
  <2>1. PICK r :
          /\ req' = [req EXCEPT ![q] = r] /\ req[q].pc = "process"
          /\ r.pc = "process" /\ r.cycle = req[q].cycle
    <3>1. CASE ReadEmployee(q, e)
      <4> DEFINE r == [req[q] EXCEPT !.left = @ \ {e}, !.open = @ \cup {e},
                         !.seen[e] = {b \in Bonus : OwnerOf[b] = e /\ bonus[b] = "pending"}]
      <4>1. req' = [req EXCEPT ![q] = r] /\ req[q].pc = "process"
        BY <3>1 DEF ReadEmployee
      <4>2. r.pc = req[q].pc /\ r.cycle = req[q].cycle
        BY <1>0 DEF ReqRow
      <4> HIDE DEF r
      <4> QED BY <4>1, <4>2
    <3>2. CASE FailEmployee(q, e)
      <4> DEFINE r == [req[q] EXCEPT !.open = @ \ {e}]
      <4>1. req' = [req EXCEPT ![q] = r] /\ req[q].pc = "process"
        BY <3>2 DEF FailEmployee
      <4>2. r.pc = req[q].pc /\ r.cycle = req[q].cycle
        BY <1>0 DEF ReqRow
      <4> HIDE DEF r
      <4> QED BY <4>1, <4>2
    <3> QED BY <1>2, <3>1, <3>2
  <2>2. UNCHANGED <<cycle, slips, journal>>
    BY <1>2 DEF ReadEmployee, FailEmployee
  <2>3. r.pc # "bulk" /\ ~Paying(r) /\ Writing(req[q])
    BY <2>1 DEF Paying, Writing
  <2> QED BY <2>1, <2>2, <2>3, TablesKept, SettleSame
<1>3. ASSUME NEW e \in Employee, CommitEmployee(q, e) PROVE SettleInv'
  <2> DEFINE r == [req[q] EXCEPT !.open = @ \ {e},
                     !.gross = @ + Gross(req[q].seen[e]),
                     !.net = @ + Gross(req[q].seen[e]) - Tax]
             n == Len(slips) + 1
  <2>1. /\ req' = [req EXCEPT ![q] = r] /\ req[q].pc = "process"
        /\ UNCHANGED <<cycle, journal>>
    BY <1>3 DEF CommitEmployee
  <2>2. r.pc = "process" /\ r.cycle = req[q].cycle
    BY <1>0, <2>1 DEF ReqRow
  <2>3. /\ DOMAIN slips' = 1 .. n /\ DOMAIN slips = 1 .. Len(slips) /\ Len(slips) \in Nat
        /\ \A i \in DOMAIN slips : slips'[i] = slips[i]
        /\ slips'[n].cycle = req[q].cycle
    <3>1. \A g, m, S : SlipOf(req[q].cycle, e, g, m, S).cycle = req[q].cycle
      BY DEF SlipOf
    <3>2. PICK x : slips' = Append(slips, x) /\ x.cycle = req[q].cycle
      BY <1>3, <3>1 DEF CommitEmployee
    <3> QED BY <3>2, Unchanged
  <2> HIDE DEF r, n
  <2>4. \A i \in DOMAIN slips' : i \in DOMAIN slips \/ i = n
    BY <2>3 DEF n
  <2>5. Writing(req[q]) /\ Writing(r) /\ ~Paying(r)
    BY <2>1, <2>2 DEF Writing, Paying
  <2>6. Settles(r, cycle', slips', journal')
    BY <2>1, <2>2, <2>5 DEF Settles, SettleInv
  <2>7. ASSUME NEW p \in Req \ {q}
        PROVE  /\ Apart(r, req[p]) /\ Apart(req[p], r)
               /\ Paying(req[p]) => Kept(req[p].cycle)
    <3>1. Apart(req[p], req[q])
      BY DEF SettleInv
    <3>2. Apart(r, req[p]) /\ Apart(req[p], r)
      BY <2>2, <2>5, <3>1 DEF Apart
    <3>3. Paying(req[p]) => req[p].cycle # req[q].cycle
      BY <2>5, <3>1 DEF Apart
    <3> QED BY <2>1, <2>3, <2>4, <3>2, <3>3 DEF Kept
  <2>8. NoNewDraft /\ journal \subseteq journal'
    BY <2>1 DEF NoNewDraft
  <2> QED BY <2>1, <2>6, <2>7, <2>8, SettleStep
<1>4. ASSUME Writing(req[q]), req' = [req EXCEPT ![q] = Idle], journal' = journal,
             \A d \in Cycle : d # req[q].cycle => cycle'[d] = cycle[d],
             cycle'[req[q].cycle].status = "processing",
             \A i \in DOMAIN slips' :
               (i \in DOMAIN slips /\ slips'[i] = slips[i]) \/ slips'[i].cycle = req[q].cycle
      PROVE  SettleInv'
  <2>1. Settles(Idle, cycle', slips', journal')
    BY IdleSettles DEF Settles
  <2>2. ASSUME NEW p \in Req \ {q}
        PROVE  /\ Apart(Idle, req[p]) /\ Apart(req[p], Idle)
               /\ Paying(req[p]) => Kept(req[p].cycle)
               /\ ~Writing(req[p])
    <3>1. Apart(req[p], req[q]) /\ ~Writing(req[p])
      BY <1>4, OnlyWriter DEF SettleInv
    <3>2. Paying(req[p]) => req[p].cycle \in Cycle /\ req[p].cycle # req[q].cycle
      BY <1>4, <3>1 DEF Apart, Paying, TypeInv, TypeOK
    <3>3. Paying(req[p]) => Kept(req[p].cycle)
      BY <1>4, <3>2 DEF Kept
    <3> QED BY <3>1, <3>3, IdleSettles DEF Apart
  <2>3. NoNewDraft
    <3>1. \A d \in Cycle : cycle'[d].status = "processing" \/ cycle'[d] = cycle[d]
      BY <1>4
    <3> QED BY <3>1 DEF NoNewDraft
  <2> QED BY <1>4, <2>1, <2>2, <2>3, SettleStep
<1>5. ASSUME ProcessEnd(q) PROVE SettleInv'
  <2>1. /\ Writing(req[q]) /\ req' = [req EXCEPT ![q] = Idle]
        /\ req[q].cycle \in Cycle /\ UNCHANGED <<slips, journal>>
        /\ cycle' = [cycle EXCEPT ![req[q].cycle] =
             [status |-> "processing", gross |-> req[q].gross, net |-> req[q].net]]
    BY <1>5 DEF ProcessEnd, Close, Writing, TypeInv, TypeOK
  <2>2. /\ cycle'[req[q].cycle].status = "processing"
        /\ \A d \in Cycle : d # req[q].cycle => cycle'[d] = cycle[d]
    BY <2>1, Unchanged
  <2> QED BY <1>4, <2>1, <2>2
<1>6. ASSUME ToolCommit(q) PROVE SettleInv'
  <2> DEFINE c == req[q].cycle
             B == Blanks(c, req[q].left, 12 * Base, 12 * Base - Tax)
  <2>1. /\ Writing(req[q]) /\ req' = [req EXCEPT ![q] = Idle]
        /\ c \in Cycle /\ journal' = journal /\ req[q].left \in SUBSET Employee
        /\ slips' = slips \o SetToSeq(B)
        /\ cycle'[c].status = "processing" /\ \A d \in Cycle : d # c => cycle'[d] = cycle[d]
    BY <1>0, <1>6 DEF ToolCommit, Close, Writing, TypeInv, TypeOK, Blanks, ReqRow
  <2>2. 12 * Base \in Nat /\ 12 * Base - Tax \in Nat
    BY PayrollAssumption
  <2>3. /\ \A i \in DOMAIN slips : i \in DOMAIN slips' /\ slips'[i] = slips[i]
        /\ \A i \in DOMAIN slips' : i \in DOMAIN slips \/ slips'[i] \in B
    BY <2>1, <2>2, AddedType
  <2>4. \A x \in B : x.cycle = c
    BY DEF Blanks, SlipOf
  <2> HIDE DEF B
  <2>5. \A i \in DOMAIN slips' :
          (i \in DOMAIN slips /\ slips'[i] = slips[i]) \/ slips'[i].cycle = c
    BY <2>3, <2>4
  <2> QED BY <1>4, <2>1, <2>5
<1>7. ~BulkCommit(q) /\ \A c \in Cycle : ~BulkBegin(q, c)
  BY <1>0 DEF BulkCommit, BulkBegin, Open
<1> QED BY <1>1, <1>2, <1>3, <1>5, <1>6, <1>7 DEF Pay

(* Clerks add no payslip, take no entry away and make no cycle look processed.     *)
LEMMA SettleClerk ==
  ASSUME PatchStatus \cap {"draft", "absent", "processing"} = {},
         TypeInv, SettleInv, NEW q \in Req, Clerk(q)
  PROVE  SettleInv'
<1>0. req[q] \in ReqRow /\ Settles(req[q], cycle, slips, journal)
  BY DEF TypeInv, SettleInv
<1>1. \A p \in Req : Paying(req[p]) => req[p].cycle \in Cycle
  BY DEF Paying, TypeInv, TypeOK
<1>2. ASSUME NEW c \in Cycle, NEW t \in PatchStatus, PatchBegin(q, c, t) PROVE SettleInv'
  <2> DEFINE r == [Idle EXCEPT !.pc = "patch", !.cycle = c, !.was = cycle[c].status,
                     !.status = t, !.gross = cycle[c].gross, !.net = cycle[c].net]
  <2>1. req' = [req EXCEPT ![q] = r] /\ UNCHANGED <<cycle, slips, journal>>
    BY <1>2 DEF PatchBegin, Open
  <2>2. r.pc = "patch" /\ r.cycle = c /\ r.was = cycle[c].status /\ r.gross = cycle[c].gross
    BY DEF Idle
  <2> HIDE DEF r
  <2>3. ~Writing(r) /\ Settles(r, cycle', slips', journal')
    BY <2>1, <2>2 DEF Settles, Writing, Paying
  <2>4. \A p \in Req : Apart(r, req[p]) /\ Apart(req[p], r)
    BY <2>2, <2>3 DEF Apart, Paying, SettleInv, Settles
  <2> QED BY <1>1, <2>1, <2>3, <2>4, TablesKept, SettleStep
<1>3. ASSUME PatchRead(q) PROVE SettleInv'
  <2> DEFINE r == [req[q] EXCEPT !.pc = "patched", !.count = Len(slips),
                                 !.booked = Booked(req[q].cycle)]
  <2>1. /\ req' = [req EXCEPT ![q] = r] /\ UNCHANGED <<cycle, slips, journal>>
        /\ req[q].pc = "patch"
    BY <1>3 DEF PatchRead
  <2>2. /\ r.pc = "patched" /\ r.cycle = req[q].cycle /\ r.was = req[q].was
        /\ r.gross = req[q].gross /\ r.count = Len(slips)
        /\ r.booked = Booked(req[q].cycle)
    BY <1>0 DEF ReqRow
  <2> HIDE DEF r
  <2>3. ~Writing(r) /\ (Paying(r) <=> Paying(req[q]))
    BY <2>1, <2>2 DEF Writing, Paying
  <2>4. \A i \in DOMAIN slips : i <= Len(slips)
    BY Unchanged
  <2>5. r.booked => \E x \in journal : x.cycle = r.cycle
    BY <2>2 DEF Booked
  <2>6. Settles(r, cycle, slips, journal)
    BY <1>0, <2>2, <2>3, <2>4, <2>5 DEF Settles
  <2>7. \A p \in Req : Apart(r, req[p]) /\ Apart(req[p], r)
    BY <2>2, <2>3 DEF Apart, SettleInv
  <2> QED BY <1>1, <2>1, <2>6, <2>7, TablesKept, SettleStep
<1>4. ASSUME PatchCommit(q) PROVE SettleInv'
  <2>1. /\ req[q].cycle \in Cycle /\ req[q].status \in PatchStatus
        /\ req' = [req EXCEPT ![q] = Idle] /\ journal \subseteq journal'
    BY <1>4 DEF PatchCommit, TypeInv, TypeOK, Close
  <2>2. SameOwners
    <3>1. CASE slips' = slips
      BY <3>1 DEF SameOwners
    <3>2. CASE slips' = Finalized(req[q])
      BY <3>2, FinalizedType DEF SameOwners, SameSlip
    <3> QED BY <1>4, <3>1, <3>2 DEF PatchCommit
  <2>3. \A c \in Cycle :
          /\ cycle'[c].gross = cycle[c].gross
          /\ \/ cycle'[c] = cycle[c]
             \/ cycle'[c].status \notin {"draft", "absent", "processing"}
    <3>1. CASE cycle' = cycle
      BY <3>1
    <3>2. CASE cycle' = [cycle EXCEPT ![req[q].cycle].status = req[q].status]
      <4>1. /\ cycle \in [Cycle -> CycleRow]
            /\ req[q].status \notin {"draft", "absent", "processing"}
        BY <2>1, Unchanged
      <4> QED BY <2>1, <3>2, <4>1 DEF CycleRow
    <3> QED BY <1>4, <3>1, <3>2 DEF PatchCommit
  <2>4. NoNewDraft
    BY <2>3 DEF NoNewDraft
  <2>5. \A c \in Cycle : Kept(c) /\ (cycle'[c].status = "processing" =>
                                       cycle[c].status = "processing")
    BY <2>2, <2>3 DEF Kept, SameOwners
  <2> QED BY <2>1, <2>4, <2>5, IdleSettles, SettleSame
<1>5. ASSUME NEW b \in Bonus, DeleteBegin(q, b) PROVE SettleInv'
  <2> DEFINE r == [Idle EXCEPT !.pc = "delete", !.bonus = b]
  <2>1. req' = [req EXCEPT ![q] = r] /\ UNCHANGED <<cycle, slips, journal>>
    BY <1>5 DEF DeleteBegin, Open
  <2>2. r.pc = "delete"
    BY DEF Idle
  <2> HIDE DEF r
  <2>3. ~Paying(r) /\ ~Writing(r) /\ r.pc # "bulk"
    BY <2>2 DEF Paying, Writing
  <2> QED BY <2>1, <2>3, TablesKept, SettleSame
<1>6. ASSUME DeleteCommit(q) PROVE SettleInv'
  <2>1. req' = [req EXCEPT ![q] = Idle] /\ UNCHANGED <<cycle, slips, journal>>
    BY <1>6 DEF DeleteCommit, Close
  <2> QED BY <2>1, IdleSettles, TablesKept, SettleSame
<1> QED BY <1>2, <1>3, <1>4, <1>5, <1>6 DEF Clerk

LEMMA SettleKept ==
  ASSUME OneProcessor, PatchStatus \cap {"draft", "absent", "processing"} = {},
         "bulk" \notin Kinds
  PROVE  TypeInv /\ SettleInv /\ [Next]_vars => SettleInv'
<1> SUFFICES ASSUME TypeInv, SettleInv, [Next]_vars PROVE SettleInv'
  OBVIOUS
<1>1. ASSUME NEW c \in Cycle, CreateCycle(c) PROVE SettleInv'
  <2>1. UNCHANGED <<slips, journal, req>> /\ cycle[c].status = "absent"
    BY <1>1 DEF CreateCycle
  <2>2. \A d \in Cycle : d # c => cycle'[d] = cycle[d]
    BY <1>1, Unchanged DEF CreateCycle
  <2>3. cycle'[c].status = "draft"
    BY <1>1, Unchanged DEF CreateCycle, CycleRow
  <2>4. ASSUME NEW p \in Req PROVE Settles(req[p], cycle', slips', journal')
    <3>1. Settles(req[p], cycle, slips, journal)
      BY DEF SettleInv
    <3>2. Paying(req[p]) \/ Writing(req[p]) => req[p].cycle \in Cycle
      BY DEF Paying, Writing, TypeInv, TypeOK
    <3>3. Paying(req[p]) => cycle'[req[p].cycle] = cycle[req[p].cycle]
      BY <2>1, <2>2, <3>1, <3>2 DEF Settles
    <3>4. Writing(req[p]) => cycle'[req[p].cycle].status # "processing"
      BY <2>2, <2>3, <3>1, <3>2 DEF Settles
    <3> QED BY <2>1, <3>1, <3>3, <3>4 DEF Settles
  <2> QED BY <2>1, <2>4 DEF SettleInv
<1>2. CASE UNCHANGED <<cycle, slips, journal, req>>
  BY <1>2 DEF SettleInv
<1>3. ASSUME NEW q \in Req, Abort(q) PROVE SettleInv'
  <2>1. req' = [req EXCEPT ![q] = Idle] /\ UNCHANGED <<cycle, slips, journal>>
    BY <1>3 DEF Abort, Close
  <2> QED BY <2>1, IdleSettles, TablesKept, SettleSame
<1>4. ASSUME NEW b \in Bonus, CreateBonus(b) PROVE SettleInv'
  BY <1>2, <1>4 DEF CreateBonus
<1> QED BY <1>1, <1>2, <1>3, <1>4, SettlePay, SettleClerk DEF Next, vars

(* Only its own commit takes a request from "patched" to idle and writes a cycle.  *)
LEMMA OnlyTheClerkPays ==
  ASSUME TypeInv, [Next]_vars, NEW q \in Req, Pays(q)
  PROVE  PatchCommit(q)
<1>1. req[q].pc = "patched" /\ req'[q].pc = "idle" /\ cycle' # cycle
  BY IdleType DEF Pays
<1>2. ASSUME NEW p \in Req, NEW k, NEW r, req' = [req EXCEPT ![p] = r], req[p].pc = k,
             k # "patched"
      PROVE  req'[q] = req[q]
  BY <1>1, <1>2 DEF TypeInv
<1>3. ASSUME NEW p \in Req, Pay(p) PROVE req'[q] = req[q]
  <2>1. ASSUME NEW c \in Cycle, ProcessBegin(p, c) \/ ToolBegin(p, c) \/ BulkBegin(p, c)
        PROVE  req'[q] = req[q]
    <3>1. PICK k : Open(p, k, req'[p]) /\ req[p].pc = "idle"
      BY <2>1, IdleType DEF ProcessBegin, ToolBegin, BulkBegin, Open, TypeInv
    <3> QED BY <1>2, <3>1 DEF Open
  <2>2. ASSUME NEW e \in Employee,
               ReadEmployee(p, e) \/ CommitEmployee(p, e) \/ FailEmployee(p, e)
        PROVE  req'[q] = req[q]
    <3>1. PICK r : req' = [req EXCEPT ![p] = r] /\ req[p].pc = "process"
      BY <2>2 DEF ReadEmployee, CommitEmployee, FailEmployee
    <3> QED BY <1>2, <3>1
  <2>3. CASE ProcessEnd(p) \/ ToolCommit(p) \/ BulkCommit(p)
    BY <1>2, <2>3 DEF ProcessEnd, ToolCommit, BulkCommit, Close
  <2> QED BY <1>3, <2>1, <2>2, <2>3 DEF Pay
<1>4. ASSUME NEW p \in Req, Clerk(p), p # q PROVE req'[q] = req[q]
  BY <1>4 DEF Clerk, PatchBegin, PatchRead, PatchCommit, DeleteBegin, DeleteCommit, Open,
              Close, TypeInv
<1>5. Clerk(q) => PatchCommit(q)
  BY <1>1 DEF Clerk, PatchBegin, PatchRead, DeleteBegin, DeleteCommit
<1>6. (\E c \in Cycle : CreateCycle(c)) => req' = req
  BY DEF CreateCycle
<1>7. (\E b \in Bonus : CreateBonus(b)) \/ (\E p \in Req : Abort(p)) => cycle' = cycle
  BY DEF CreateBonus, Abort
<1>8. UNCHANGED vars => cycle' = cycle
  BY DEF vars
<1> QED BY <1>1, <1>3, <1>4, <1>5, <1>6, <1>7, <1>8 DEF Next

(* ... and it had read all payslips of the cycle, so that they are final, and books  *)
(* the cycle unless it found it booked.                                            *)
LEMMA PaidIsSettled ==
  ASSUME TypeInv, SettleInv, [Next]_vars, NEW q \in Req, Pays(q)
  PROVE  /\ \A i \in DOMAIN slips' : slips'[i].cycle = req[q].cycle => slips'[i].final
         /\ cycle'[req[q].cycle].gross > 0 => \E x \in journal' : x.cycle = req[q].cycle
<1> DEFINE r == req[q]
           c == req[q].cycle
<1>1. /\ r.pc = "patched" /\ r.was = "processing" /\ r.status = "paid" /\ cycle' # cycle
      /\ r \in ReqRow /\ c \in Cycle
  BY DEF Pays, TypeInv, TypeOK
<1>2. /\ cycle' = [cycle EXCEPT ![c].status = "paid"]
      /\ slips' = Finalized(r)
      /\ journal' = IF Books(r) THEN journal \cup {Entry(r)} ELSE journal
  BY <1>1, OnlyTheClerkPays DEF PatchCommit
<1>3. /\ \A i \in DOMAIN slips : slips[i].cycle = c => i <= r.count
      /\ r.booked => \E x \in journal : x.cycle = c
      /\ cycle[c].gross = r.gross
  BY <1>1 DEF SettleInv, Settles, Paying
<1>4. ASSUME NEW i \in DOMAIN slips', slips'[i].cycle = c PROVE slips'[i].final
  <2>1. i \in DOMAIN slips /\ slips[i].cycle = c /\ slips[i] \in Slip
    BY <1>2, <1>4, FinalizedType, SlipCycle DEF SameSlip
  <2>2. i <= r.count
    BY <1>3, <2>1
  <2>3. slips'[i] = [slips[i] EXCEPT !.final = TRUE]
    BY <1>1, <1>2, <2>1, <2>2 DEF Finalized
  <2> QED BY <2>1, <2>3 DEF Slip
<1>5. cycle'[c].gross = r.gross
  BY <1>1, <1>2, <1>3, Unchanged DEF CycleRow
<1>6. ASSUME r.gross > 0 PROVE \E x \in journal' : x.cycle = c
  <2>1. CASE r.booked
    BY <1>2, <1>3, <2>1
  <2>2. CASE ~r.booked
    <3>1. Entry(r) \in journal' /\ Entry(r).cycle = c
      BY <1>1, <1>2, <1>6, <2>2 DEF Books, Entry
    <3> QED BY <3>1
  <2> QED BY <2>1, <2>2
<1> QED BY <1>4, <1>5, <1>6

(* While one request at a time processes payrolls and clerks only move cycles on,    *)
(* paying a cycle that was seen as processed leaves all its payslips final and the   *)
(* payroll booked, however many clerks' requests overlap.                            *)
THEOREM PaidCyclesAreSettled ==
  ASSUME OneProcessor, PatchStatus \cap {"draft", "absent", "processing"} = {},
         "bulk" \notin Kinds
  PROVE  Spec => SettledOnPay
<1>1. Init => SettleInv
  BY IdleSettles DEF Init, SettleInv, Settles, Apart
<1>2. TypeInv /\ SettleInv /\ [Next]_vars =>
        [\A q \in Req : Pays(q) =>
           LET c == req[q].cycle IN
           /\ \A i \in DOMAIN slips' : slips'[i].cycle = c => slips'[i].final
           /\ cycle'[c].gross > 0 => \E x \in journal' : x.cycle = c]_vars
  BY PaidIsSettled
<1> QED BY <1>1, <1>2, TypeStarts, TypeKept, SettleKept, PTL DEF Spec, SettledOnPay

-------------------------------------------------------------------------------
(* Totals.  A sum over payslips is a number of units, so that the order in which  *)
(* FoldSet takes them does not matter.                                            *)

(* The amounts as sets of units, which are counted instead of added.             *)
UnitsOf(f, x) == {x} \X (0 .. f[x] - 1)

Units(f, S) == UNION {UnitsOf(f, x) : x \in S}

LEMMA UnitsOfOne ==
  ASSUME NEW f, NEW x, f[x] \in Nat
  PROVE  IsFiniteSet(UnitsOf(f, x)) /\ Cardinality(UnitsOf(f, x)) = f[x]
<1>1. IsFiniteSet({x}) /\ Cardinality({x}) = 1
  BY FS_Singleton
<1>2. PICK b \in Int : b = f[x] - 1
  OBVIOUS
<1>3. IsFiniteSet(0 .. b) /\ Cardinality(0 .. b) = IF 0 > b THEN 0 ELSE b - 0 + 1
  BY FS_Interval
<1>4. Cardinality(UnitsOf(f, x)) = 1 * f[x] /\ IsFiniteSet(UnitsOf(f, x))
  <2>1. (IF 0 > b THEN 0 ELSE b - 0 + 1) = f[x]
    BY <1>2
  <2>2. Cardinality(0 .. b) = f[x]
    BY <1>3, <2>1
  <2>3. UnitsOf(f, x) = {x} \X (0 .. b)
    BY <1>2 DEF UnitsOf
  <2>4. IsFiniteSet(0 .. b)
    BY <1>3
  <2> HIDE <1>3
  <2>5. Cardinality({x} \X (0 .. b)) = Cardinality({x}) * Cardinality(0 .. b)
        /\ IsFiniteSet({x} \X (0 .. b))
    BY <1>1, <2>4, FS_Product
  <2> QED BY <1>1, <2>2, <2>3, <2>5
<1> QED BY <1>4

LEMMA UnitsFinite ==
  ASSUME NEW S, IsFiniteSet(S), NEW f, \A x \in S : f[x] \in Nat
  PROVE  IsFiniteSet(Units(f, S)) /\ Cardinality(Units(f, S)) \in Nat
<1>1. IsFiniteSet({UnitsOf(f, x) : x \in S})
  <2> DEFINE T == {UnitsOf(f, x) : x \in S}
             m == [x \in S |-> UnitsOf(f, x)]
  <2>1. m \in Surjection(S, T)
    BY DEF Surjection
  <2> QED BY <2>1, FS_Surjection
<1>2. \A T \in {UnitsOf(f, x) : x \in S} : IsFiniteSet(T)
  BY UnitsOfOne
<1> HIDE DEF UnitsOf
<1>3. IsFiniteSet(Units(f, S))
  BY <1>1, <1>2, FS_UNION DEF Units
<1> QED BY <1>3, FS_CardinalityType

Sum(f, S) == Cardinality(Units(f, S))

(* Sums over sets that share nothing add up, ...                                   *)
LEMMA SumOfBoth ==
  ASSUME NEW S, NEW T, IsFiniteSet(S), IsFiniteSet(T), S \cap T = {},
         NEW f, \A x \in S \cup T : f[x] \in Nat
  PROVE  Sum(f, S \cup T) = Sum(f, S) + Sum(f, T)
<1>1. /\ IsFiniteSet(Units(f, S)) /\ Cardinality(Units(f, S)) \in Nat
      /\ IsFiniteSet(Units(f, T)) /\ Cardinality(Units(f, T)) \in Nat
  BY UnitsFinite
<1>2. Units(f, S \cup T) = Units(f, S) \cup Units(f, T)
  BY DEF Units
<1>3. Units(f, S) \cap Units(f, T) = {}
  BY DEF Units, UnitsOf
<1>4. Cardinality(Units(f, S) \cap Units(f, T)) = 0
  BY <1>3, FS_EmptySet
<1>5. Cardinality(Units(f, S \cup T)) =
        Cardinality(Units(f, S)) + Cardinality(Units(f, T))
          - Cardinality(Units(f, S) \cap Units(f, T))
  BY <1>1, <1>2, FS_Union
<1> QED BY <1>1, <1>4, <1>5 DEF Sum

(* ... and equal amounts are multiplied.                                           *)
LEMMA SumOfEqual ==
  ASSUME NEW S, IsFiniteSet(S), NEW f, NEW g \in Nat, \A x \in S : f[x] = g
  PROVE  Sum(f, S) = Cardinality(S) * g
<1>1. Units(f, S) = S \X (0 .. g - 1)
  BY DEF Units, UnitsOf
<1>2. PICK b \in Int : b = g - 1
  OBVIOUS
<1>3. IsFiniteSet(0 .. b) /\ Cardinality(0 .. b) = IF 0 > b THEN 0 ELSE b - 0 + 1
  BY FS_Interval
<1>4. (IF 0 > b THEN 0 ELSE b - 0 + 1) = g
  BY <1>2
<1>5. IsFiniteSet(0 .. b) /\ Cardinality(0 .. b) = g
  BY <1>3, <1>4
<1> HIDE <1>3
<1>6. Cardinality(S \X (0 .. b)) = Cardinality(S) * Cardinality(0 .. b)
  BY <1>5, FS_Product
<1> QED BY <1>1, <1>2, <1>5, <1>6 DEF Sum

LEMMA SumSame ==
  ASSUME NEW S, NEW f, NEW g, \A x \in S : g[x] = f[x]
  PROVE  Sum(g, S) = Sum(f, S)
<1>1. Units(g, S) = Units(f, S)
  BY DEF Units, UnitsOf
<1> QED BY <1>1 DEF Sum

LEMMA SumSplit ==
  ASSUME NEW S, IsFiniteSet(S), NEW f, \A y \in S : f[y] \in Nat, NEW x \in S
  PROVE  Sum(f, S) = f[x] + Sum(f, S \ {x})
<1>1. IsFiniteSet(S \ {x}) /\ IsFiniteSet({x}) /\ S = {x} \cup (S \ {x})
  BY FS_Subset, FS_Singleton
<1>2. Sum(f, {x} \cup (S \ {x})) = Sum(f, {x}) + Sum(f, S \ {x})
  <2>1. {x} \cap (S \ {x}) = {} /\ \A y \in {x} \cup (S \ {x}) : f[y] \in Nat
    OBVIOUS
  <2> QED BY <1>1, <2>1, SumOfBoth
<1>3. Sum(f, {x}) = f[x]
  <2>1. Units(f, {x}) = UnitsOf(f, x)
    BY DEF Units
  <2> QED BY <2>1, UnitsOfOne DEF Sum
<1> QED BY <1>1, <1>2, <1>3

(* What the fold's recursive function satisfies.                                   *)
Adds(f, S, h) ==
  h = [s \in SUBSET S |->
         IF s = {} THEN 0 ELSE LET x == CHOOSE x \in s : TRUE IN f[x] + h[s \ {x}]]

LEMMA UnitsAdd ==
  ASSUME NEW S, IsFiniteSet(S), NEW f, \A y \in S : f[y] \in Nat
  PROVE  Adds(f, S, [s \in SUBSET S |-> Sum(f, s)])
<1> DEFINE h == [s \in SUBSET S |-> Sum(f, s)]
<1>1. ASSUME NEW s \in SUBSET S
      PROVE  h[s] = IF s = {} THEN 0
                    ELSE LET x == CHOOSE x \in s : TRUE IN f[x] + h[s \ {x}]
  <2>1. CASE s = {}
    BY <2>1, FS_EmptySet DEF Sum, Units
  <2>2. CASE s # {}
    <3> DEFINE x == CHOOSE x \in s : TRUE
    <3>1. x \in s
      BY <2>2
    <3>2. IsFiniteSet(s) /\ \A y \in s : f[y] \in Nat
      BY FS_Subset
    <3> HIDE DEF x
    <3>3. Sum(f, s) = f[x] + Sum(f, s \ {x})
      BY <3>1, <3>2, SumSplit
    <3>4. h[s] = f[x] + h[s \ {x}]
      BY <3>3
    <3> QED BY <2>2, <3>4 DEF x
  <2> QED BY <2>1, <2>2
<1> HIDE DEF h
<1>2. h = [s \in SUBSET S |->
         IF s = {} THEN 0 ELSE LET x == CHOOSE x \in s : TRUE IN f[x] + h[s \ {x}]]
  <2>1. h = [s \in SUBSET S |-> h[s]]
    BY DEF h
  <2> QED BY <1>1, <2>1
<1> QED BY <1>2 DEF Adds, h

(* Two functions that do, agree: a smallest subset on which they differ has a     *)
(* smaller one.                                                                   *)
LEMMA OneSum ==
  ASSUME NEW S, IsFiniteSet(S), NEW f, NEW g, NEW h, Adds(f, S, g), Adds(f, S, h)
  PROVE  g[S] = h[S]
<1> DEFINE Wrong == {s \in SUBSET S : g[s] # h[s]}
<1>1. SUFFICES ASSUME Wrong # {} PROVE FALSE
  OBVIOUS
<1>2. Wrong \subseteq FiniteSubsetsOf(S)
  BY FS_Subset DEF FiniteSubsetsOf
<1>3. PICK s \in Wrong : \A t \in Wrong : ~ (<<t, s>> \in StrictSubsetOrdering(S))
  BY <1>1, <1>2, FS_StrictSubsetOrderingWellFounded, WFMin
<1>4. s # {}
  BY DEF Adds
<1> DEFINE x == CHOOSE x \in s : TRUE
<1>5. x \in s
  BY <1>4
<1>6. g[s] = f[x] + g[s \ {x}] /\ h[s] = f[x] + h[s \ {x}]
  BY <1>4 DEF Adds
<1> HIDE DEF x
<1>7. s \ {x} \in Wrong
  BY <1>6
<1>8. <<s \ {x}, s>> \in StrictSubsetOrdering(S)
  BY <1>5 DEF StrictSubsetOrdering
<1> QED BY <1>3, <1>7, <1>8

(* The columns of payslips, those of a cycle, and what they come to.                *)
Grosses(sl) == [i \in DOMAIN sl |-> sl[i].gross]

Nets(sl) == [i \in DOMAIN sl |-> sl[i].net]

Of(sl, c) == {i \in DOMAIN sl : sl[i].cycle = c}

Sums(sl, c, g, n) == Sum(Grosses(sl), Of(sl, c)) = g /\ Sum(Nets(sl), Of(sl, c)) = n

LEMMA SumsOver ==
  ASSUME TypeInv, NEW c \in Cycle
  PROVE  /\ SumOver(c, LAMBDA s : s.gross) = Sum(Grosses(slips), Of(slips, c))
         /\ SumOver(c, LAMBDA s : s.net) = Sum(Nets(slips), Of(slips, c))
<1> DEFINE S == Of(slips, c)
<1>1. S = {i \in DOMAIN slips : slips[i].cycle = c} /\ S \subseteq DOMAIN slips
  BY DEF Of
<1>2. IsFiniteSet(S)
  <2>1. IsFiniteSet(1 .. Len(slips)) /\ DOMAIN slips = 1 .. Len(slips)
    BY Unchanged, FS_Interval
  <2> QED BY <1>1, <2>1, FS_Subset
<1>3. \A i \in S : Grosses(slips)[i] \in Nat /\ Nets(slips)[i] \in Nat
  BY <1>1, SlipCycle DEF Grosses, Nets, Slip
<1>4. SumOver(c, LAMBDA s : s.gross) = Sum(Grosses(slips), S)
  <2> DEFINE Raw(h) == h = [s \in SUBSET S |-> IF s = {} THEN 0
                              ELSE LET x == CHOOSE x \in s : TRUE
                                   IN slips[x].gross + h[s \ {x}]]
             f == Grosses(slips)
             g == [s \in SUBSET S |-> Sum(f, s)]
             h == CHOOSE h : Raw(h)
  <2>1. SumOver(c, LAMBDA s : s.gross) = h[S]
    BY <1>1 DEF SumOver, FoldSet, MapThenFoldSet
  <2>2. ASSUME NEW k PROVE Raw(k) <=> Adds(f, S, k)
    <3>1. \A s \in SUBSET S : s # {} => f[CHOOSE x \in s : TRUE] = slips[CHOOSE x \in s : TRUE].gross
      BY <1>1 DEF Grosses
    <3> HIDE DEF f
    <3> QED BY <3>1 DEF Adds
  <2>3. Adds(f, S, g)
    BY <1>2, <1>3, UnitsAdd
  <2> HIDE DEF Raw, g
  <2>4. Raw(g)
    BY <2>2, <2>3
  <2>5. Raw(h)
    BY <2>4
  <2>6. Adds(f, S, h)
    BY <2>2, <2>5
  <2> HIDE DEF h
  <2>7. g[S] = h[S]
    BY <1>2, <2>3, <2>6, OneSum
  <2> QED BY <2>1, <2>7 DEF g
<1>5. SumOver(c, LAMBDA s : s.net) = Sum(Nets(slips), S)
  <2> DEFINE Raw(h) == h = [s \in SUBSET S |-> IF s = {} THEN 0
                              ELSE LET x == CHOOSE x \in s : TRUE
                                   IN slips[x].net + h[s \ {x}]]
             f == Nets(slips)
             g == [s \in SUBSET S |-> Sum(f, s)]
             h == CHOOSE h : Raw(h)
  <2>1. SumOver(c, LAMBDA s : s.net) = h[S]
    BY <1>1 DEF SumOver, FoldSet, MapThenFoldSet
  <2>2. ASSUME NEW k PROVE Raw(k) <=> Adds(f, S, k)
    <3>1. \A s \in SUBSET S : s # {} => f[CHOOSE x \in s : TRUE] = slips[CHOOSE x \in s : TRUE].net
      BY <1>1 DEF Nets
    <3> HIDE DEF f
    <3> QED BY <3>1 DEF Adds
  <2>3. Adds(f, S, g)
    BY <1>2, <1>3, UnitsAdd
  <2> HIDE DEF Raw, g
  <2>4. Raw(g)
    BY <2>2, <2>3
  <2>5. Raw(h)
    BY <2>4
  <2>6. Adds(f, S, h)
    BY <2>2, <2>5
  <2> HIDE DEF h
  <2>7. g[S] = h[S]
    BY <1>2, <2>3, <2>6, OneSum
  <2> QED BY <2>1, <2>7 DEF g
<1> QED BY <1>4, <1>5

(* The sums of a cycle stay the same.                                              *)
SumsStay(c) ==
  /\ Sum(Grosses(slips'), Of(slips', c)) = Sum(Grosses(slips), Of(slips, c))
  /\ Sum(Nets(slips'), Of(slips', c)) = Sum(Nets(slips), Of(slips, c))

LEMMA NoneAdded ==
  ASSUME NEW c,
         \A i \in DOMAIN slips :
           /\ i \in DOMAIN slips'
           /\ slips'[i].cycle = slips[i].cycle
           /\ slips'[i].gross = slips[i].gross /\ slips'[i].net = slips[i].net,
         \A i \in DOMAIN slips' : slips'[i].cycle = c => i \in DOMAIN slips
  PROVE  SumsStay(c)
<1>1. Of(slips', c) = Of(slips, c) /\ \A i \in Of(slips, c) : i \in DOMAIN slips
  BY DEF Of
<1>2. \A i \in Of(slips, c) : /\ Grosses(slips')[i] = Grosses(slips)[i]
                              /\ Nets(slips')[i] = Nets(slips)[i]
  BY <1>1 DEF Grosses, Nets
<1>3. Sum(Grosses(slips'), Of(slips, c)) = Sum(Grosses(slips), Of(slips, c))
  BY <1>2, SumSame
<1>4. Sum(Nets(slips'), Of(slips, c)) = Sum(Nets(slips), Of(slips, c))
  BY <1>2, SumSame
<1> QED BY <1>1, <1>3, <1>4 DEF SumsStay

(* New payslips N of cycle c, each of gross g and net n, are added after those there. *)
Added(c, N, g, n, old, new) ==
  /\ N = DOMAIN new \ DOMAIN old
  /\ \A i \in DOMAIN old : i \in DOMAIN new /\ new[i] = old[i]
  /\ \A i \in N : new[i].cycle = c /\ new[i].gross = g /\ new[i].net = n

(* The sums of cycle c grow by as many times g and n as N has payslips.              *)
GrowBy(c, N, g, n, old, new) ==
  /\ IsFiniteSet(N) /\ Cardinality(N) \in Nat
  /\ Sum(Grosses(new), Of(new, c)) = Sum(Grosses(old), Of(old, c)) + Cardinality(N) * g
  /\ Sum(Nets(new), Of(new, c)) = Sum(Nets(old), Of(old, c)) + Cardinality(N) * n

(* Payslips of equal amounts that are added to a cycle count as often as they are.  *)
LEMMA EqualAdded ==
  ASSUME TypeInv, slips' \in Seq(Slip), NEW c, NEW g \in Nat, NEW n \in Nat, NEW N,
         Added(c, N, g, n, slips, slips')
  PROVE  GrowBy(c, N, g, n, slips, slips')
<1>0. /\ N = DOMAIN slips' \ DOMAIN slips
      /\ \A i \in DOMAIN slips : i \in DOMAIN slips' /\ slips'[i] = slips[i]
      /\ \A i \in N : slips'[i].cycle = c /\ slips'[i].gross = g /\ slips'[i].net = n
  BY DEF Added
<1> DEFINE S == Of(slips, c)
<1>1. IsFiniteSet(DOMAIN slips')
  <2>1. DOMAIN slips' = 1 .. Len(slips') /\ Len(slips') \in Nat
    OBVIOUS
  <2> QED BY <2>1, FS_Interval
<1>2. /\ Of(slips', c) = S \cup N /\ S \cap N = {}
      /\ S \subseteq DOMAIN slips' /\ N \subseteq DOMAIN slips' /\ S \subseteq DOMAIN slips
  BY <1>0 DEF Of
<1>3. IsFiniteSet(S) /\ IsFiniteSet(N) /\ Cardinality(N) \in Nat
  BY <1>1, <1>2, FS_Subset, FS_CardinalityType
<1>4. \A i \in DOMAIN slips' : slips'[i].gross \in Nat /\ slips'[i].net \in Nat
  <2>1. \A i \in DOMAIN slips' : slips'[i] \in Slip
    OBVIOUS
  <2> QED BY <2>1 DEF Slip
<1>5. \A i \in S \cup N : Grosses(slips')[i] \in Nat /\ Nets(slips')[i] \in Nat
  BY <1>2, <1>4 DEF Grosses, Nets
<1>6. \A i \in S : /\ Grosses(slips')[i] = Grosses(slips)[i]
                   /\ Nets(slips')[i] = Nets(slips)[i]
  BY <1>0, <1>2 DEF Grosses, Nets
<1>7. \A i \in N : Grosses(slips')[i] = g /\ Nets(slips')[i] = n
  BY <1>0, <1>2 DEF Grosses, Nets
<1> HIDE DEF S
<1>8. Sum(Grosses(slips'), S \cup N) = Sum(Grosses(slips), S) + Cardinality(N) * g
  <2>1. Sum(Grosses(slips'), S \cup N) = Sum(Grosses(slips'), S) + Sum(Grosses(slips'), N)
    BY <1>2, <1>3, <1>5, SumOfBoth
  <2>2. Sum(Grosses(slips'), S) = Sum(Grosses(slips), S)
    BY <1>6, SumSame
  <2>3. Sum(Grosses(slips'), N) = Cardinality(N) * g
    BY <1>3, <1>7, SumOfEqual
  <2> QED BY <2>1, <2>2, <2>3
<1>9. Sum(Nets(slips'), S \cup N) = Sum(Nets(slips), S) + Cardinality(N) * n
  <2>1. Sum(Nets(slips'), S \cup N) = Sum(Nets(slips'), S) + Sum(Nets(slips'), N)
    BY <1>2, <1>3, <1>5, SumOfBoth
  <2>2. Sum(Nets(slips'), S) = Sum(Nets(slips), S)
    BY <1>6, SumSame
  <2>3. Sum(Nets(slips'), N) = Cardinality(N) * n
    BY <1>3, <1>7, SumOfEqual
  <2> QED BY <2>1, <2>2, <2>3
<1> QED BY <1>2, <1>3, <1>8, <1>9 DEF S, GrowBy

(* There are as many blanks as employees left.                                     *)
LEMMA BlanksCount ==
  ASSUME TypeInv, NEW c \in Cycle, NEW E \in SUBSET Employee, NEW g \in Nat, NEW n \in Nat,
         slips' = slips \o SetToSeq(Blanks(c, E, g, n))
  PROVE  Cardinality(DOMAIN slips' \ DOMAIN slips) = Cardinality(E)
<1> DEFINE B == Blanks(c, E, g, n)
           u == SetToSeq(B)
           k == Cardinality(E)
<1>1. IsFiniteSet(E) /\ k \in Nat
  BY PayrollAssumption, FS_Subset, FS_CardinalityType
<1>2. IsFiniteSet(B) /\ Cardinality(B) = k
  <2> DEFINE f == [e \in E |-> SlipOf(c, e, g, n, {})]
  <2>1. \A e, d \in E : f[e] = f[d] => e = d
    <3>1. \A e \in E : f[e].employee = e
      BY DEF SlipOf
    <3> QED BY <3>1
  <2>2. f \in Bijection(E, B)
    BY <2>1 DEF Bijection, Injection, Surjection, IsInjective, Blanks
  <2>3. ExistsBijection(E, B)
    BY <2>2 DEF ExistsBijection
  <2> QED BY <1>1, <2>3, FS_Bijection
<1> HIDE DEF B
<1>3. u \in [1 .. k -> B]
  <2>1. ExistsBijection(1 .. k, B)
    BY <1>2, FS_CardinalityType
  <2>2. PICK f \in Bijection(1 .. k, B) : TRUE
    BY <2>1 DEF ExistsBijection
  <2>3. f \in [1 .. k -> B] /\ IsInjective(f)
    BY <2>2 DEF Bijection, Injection, IsInjective
  <2> QED BY <1>2, <2>3 DEF SetToSeq
<1>4. Len(u) = k /\ u \in Seq(B)
  BY <1>1, <1>3
<1>5. slips' = slips \o u /\ slips \in Seq(Slip) /\ Len(slips) \in Nat
  BY Unchanged DEF B
<1> HIDE DEF u, k
<1>6. DOMAIN slips' = 1 .. Len(slips) + k /\ DOMAIN slips = 1 .. Len(slips)
  BY <1>4, <1>5
<1>7. DOMAIN slips' \ DOMAIN slips = Len(slips) + 1 .. Len(slips) + k
  BY <1>1, <1>5, <1>6
<1>8. PICK a \in Int, b \in Int : a = Len(slips) + 1 /\ b = Len(slips) + k
  BY <1>1, <1>5
<1>9. Cardinality(a .. b) = IF a > b THEN 0 ELSE b - a + 1
  BY FS_Interval
<1>10. (IF a > b THEN 0 ELSE b - a + 1) = k
  BY <1>1, <1>5, <1>8
<1> QED BY <1>7, <1>8, <1>9, <1>10 DEF k

(* A processor has added up what it has committed; a cycle it has begun with had    *)
(* nothing, and is not processed before it ends.                                    *)
Owes(r, cy, sl) ==
  /\ r.pc = "process" => Sums(sl, r.cycle, r.gross, r.net)
  /\ r.pc = "tool" => Sums(sl, r.cycle, 0, 0) /\ r.left = Employee
  /\ Writing(r) => cy[r.cycle].status # "processing"

Working(c, rq) == \E q \in Req : rq[q].pc = "process" /\ rq[q].cycle = c

Agrees(c, cy, sl, rq) ==
  /\ cy[c].status \in {"draft", "absent"} => Working(c, rq) \/ Sums(sl, c, 0, 0)
  /\ cy[c].status = "processing" => Sums(sl, c, cy[c].gross, cy[c].net)

(* While no request died.                                                          *)
TotalInv ==
  deaths = 0 =>
    /\ \A q \in Req : Owes(req[q], cycle, slips)
    /\ \A c \in Cycle : Agrees(c, cycle, slips, req)

SameRow(c) ==
  /\ cycle'[c].status = "processing" => cycle'[c] = cycle[c]
  /\ cycle'[c].status \in {"draft", "absent"} => cycle[c].status \in {"draft", "absent"}

(* A step of one request that leaves the sums of all cycles alone.                  *)
LEMMA TotalsSame ==
  ASSUME TypeInv, TotalInv, deaths' = 0 => deaths = 0,
         \A c \in Cycle : SumsStay(c) /\ SameRow(c),
         NEW q \in Req, NEW r, req' = [req EXCEPT ![q] = r],
         deaths = 0 => Owes(r, cycle', slips'),
         req[q].pc = "process" => r.pc = "process" /\ r.cycle = req[q].cycle
  PROVE  TotalInv'
<1> SUFFICES ASSUME deaths' = 0
             PROVE  /\ \A p \in Req : Owes(req'[p], cycle', slips')
                    /\ \A c \in Cycle : Agrees(c, cycle', slips', req')
  BY DEF TotalInv
<1>0. /\ \A p \in Req : Owes(req[p], cycle, slips)
      /\ \A c \in Cycle : Agrees(c, cycle, slips, req)
  BY DEF TotalInv
<1>1. \A p \in Req : req'[p] = IF p = q THEN r ELSE req[p]
  BY DEF TypeInv
<1>2. \A c \in Cycle : \A g, n : Sums(slips', c, g, n) <=> Sums(slips, c, g, n)
  BY DEF SumsStay, Sums
<1>3. ASSUME NEW p \in Req, p # q PROVE Owes(req[p], cycle', slips')
  <2>1. Owes(req[p], cycle, slips) /\ (Writing(req[p]) => req[p].cycle \in Cycle)
    BY <1>0 DEF TypeInv, TypeOK, Writing
  <2>2. Writing(req[p]) => cycle'[req[p].cycle].status # "processing"
    BY <2>1 DEF Owes, SameRow
  <2> QED BY <1>2, <2>1, <2>2 DEF Owes, Writing
<1>4. ASSUME NEW c \in Cycle PROVE Agrees(c, cycle', slips', req')
  <2>1. Agrees(c, cycle, slips, req) /\ SameRow(c)
    BY <1>0
  <2>2. Working(c, req) => Working(c, req')
    BY <1>1 DEF Working
  <2> QED BY <1>2, <2>1, <2>2 DEF Agrees, SameRow
<1> QED BY <1>1, <1>3, <1>4

LEMMA IdleOwes == \A cy, sl : Owes(Idle, cy, sl)
BY DEF Owes, Idle, Writing

LEMMA TablesStay ==
  ASSUME UNCHANGED <<cycle, slips>>
  PROVE  \A c \in Cycle : SumsStay(c) /\ SameRow(c)
BY DEF SumsStay, SameRow

(* The only request that writes ends or goes on, and the sums of its cycle change.  *)
LEMMA TotalsMoved ==
  ASSUME OneProcessor, TypeInv, TotalInv, deaths' = 0 => deaths = 0,
         NEW q \in Req, NEW r, Writing(req[q]), req' = [req EXCEPT ![q] = r],
         \A d \in Cycle : d # req[q].cycle => SumsStay(d) /\ cycle'[d] = cycle[d],
         deaths = 0 => /\ Owes(r, cycle', slips')
                       /\ Agrees(req[q].cycle, cycle', slips', req')
  PROVE  TotalInv'
<1> SUFFICES ASSUME deaths' = 0
             PROVE  /\ \A p \in Req : Owes(req'[p], cycle', slips')
                    /\ \A c \in Cycle : Agrees(c, cycle', slips', req')
  BY DEF TotalInv
<1>0. \A c \in Cycle : Agrees(c, cycle, slips, req)
  BY DEF TotalInv
<1>1. \A p \in Req : req'[p] = IF p = q THEN r ELSE req[p]
  BY DEF TypeInv
<1>2. ASSUME NEW p \in Req, p # q PROVE Owes(req[p], cycle', slips')
  BY <1>2, OnlyWriter DEF Owes, Writing
<1>3. ASSUME NEW c \in Cycle, c # req[q].cycle PROVE Agrees(c, cycle', slips', req')
  <2>1. Agrees(c, cycle, slips, req) /\ SumsStay(c) /\ cycle'[c] = cycle[c]
    BY <1>0, <1>3
  <2>2. Working(c, req) => Working(c, req')
    BY <1>1, <1>3 DEF Working
  <2>3. \A g, n : Sums(slips', c, g, n) <=> Sums(slips, c, g, n)
    BY <2>1 DEF SumsStay, Sums
  <2> QED BY <2>1, <2>2, <2>3 DEF Agrees
<1> QED BY <1>1, <1>2, <1>3

LEMMA TotalsCommit ==
  ASSUME OneProcessor, TypeInv, TotalInv, NEW q \in Req, NEW e \in Employee,
         CommitEmployee(q, e)
  PROVE  TotalInv'
<1> DEFINE S == req[q].seen[e]
           g == Gross(S)
           r == [req[q] EXCEPT !.open = @ \ {e}, !.gross = @ + g, !.net = @ + g - Tax]
           c == req[q].cycle
<1>1. /\ req[q] \in ReqRow /\ req[q].pc = "process" /\ c \in Cycle
      /\ S \in SUBSET Bonus /\ req[q].gross \in Nat /\ req[q].net \in Nat
      /\ UNCHANGED <<cycle, deaths>> /\ req' = [req EXCEPT ![q] = r]
      /\ slips' = Append(slips, SlipOf(c, e, g, g - Tax, S))
  <2>1. req[q] \in ReqRow
    BY DEF TypeInv, TypeOK
  <2>2. /\ c \in Cycle /\ S \in SUBSET Bonus
        /\ req[q].gross \in Nat /\ req[q].net \in Nat
    <3>1. req[q].gross \in Nat /\ req[q].net \in Nat
      BY <2>1 DEF ReqRow
    <3>2. req[q].seen \in [Employee -> SUBSET Bonus]
      BY <2>1 DEF ReqRow
    <3>3. c \in Cycle
      BY <2>1 DEF TypeInv, TypeOK, CommitEmployee, ReqRow
    <3> QED BY <3>1, <3>2, <3>3
  <2>3. req[q].pc = "process" /\ UNCHANGED <<cycle, deaths>> /\ req' = [req EXCEPT ![q] = r]
    BY DEF CommitEmployee
  <2>4. slips' = Append(slips, SlipOf(c, e, g, g - Tax, S))
    BY DEF CommitEmployee
  <2> QED BY <2>1, <2>2, <2>3, <2>4
<1>2. g \in Nat /\ g - Tax \in Nat
  BY <1>1, GrossCoversTax
<1>3. /\ r.pc = "process" /\ r.cycle = c
      /\ r.gross = req[q].gross + g /\ r.net = req[q].net + (g - Tax)
  BY <1>1, <1>2, PayrollAssumption DEF ReqRow
<1>4. PICK x \in Slip : slips' = Append(slips, x) /\ x.cycle = c /\ x.gross = g /\ x.net = g - Tax
  <2>1. SlipOf(c, e, g, g - Tax, S) \in Slip
    BY <1>1, <1>2, SlipType
  <2> QED BY <1>1, <2>1 DEF SlipOf
<1> HIDE DEF r, g, S
<1>5. /\ slips' \in Seq(Slip) /\ DOMAIN slips' = 1 .. Len(slips) + 1
      /\ DOMAIN slips = 1 .. Len(slips) /\ Len(slips) \in Nat
      /\ \A i \in DOMAIN slips : slips'[i] = slips[i]
      /\ slips'[Len(slips) + 1] = x
  BY <1>4, Unchanged
<1>6. /\ DOMAIN slips' \ DOMAIN slips = {Len(slips) + 1}
      /\ \A i \in DOMAIN slips : i \in DOMAIN slips' /\ slips'[i] = slips[i]
  BY <1>5
<1>7. /\ Sum(Grosses(slips'), Of(slips', c)) = Sum(Grosses(slips), Of(slips, c)) + 1 * g
      /\ Sum(Nets(slips'), Of(slips', c)) = Sum(Nets(slips), Of(slips, c)) + 1 * (g - Tax)
  <2>1. Cardinality({Len(slips) + 1}) = 1
    BY FS_Singleton
  <2>2. \A i \in {Len(slips) + 1} :
          slips'[i].cycle = c /\ slips'[i].gross = g /\ slips'[i].net = g - Tax
    BY <1>4, <1>5
  <2>3. Added(c, {Len(slips) + 1}, g, g - Tax, slips, slips')
    BY <1>6, <2>2 DEF Added
  <2>4. GrowBy(c, {Len(slips) + 1}, g, g - Tax, slips, slips')
    BY <1>2, <1>5, <2>3, EqualAdded
  <2> QED BY <2>1, <2>4 DEF GrowBy
<1>8. ASSUME NEW d \in Cycle, d # c PROVE SumsStay(d)
  <2>1. \A i \in DOMAIN slips' : slips'[i].cycle = d => i \in DOMAIN slips
    BY <1>4, <1>5, <1>6, <1>8
  <2> QED BY <1>6, <2>1, NoneAdded
<1>9. Writing(req[q]) /\ Writing(r)
  BY <1>1, <1>3 DEF Writing
<1>10. ASSUME deaths = 0
       PROVE  Owes(r, cycle', slips') /\ Agrees(c, cycle', slips', req')
  <2>1. /\ Sums(slips, c, req[q].gross, req[q].net)
        /\ cycle[c].status # "processing"
    BY <1>1, <1>9, <1>10 DEF TotalInv, Owes
  <2>2. Sums(slips', c, r.gross, r.net)
    BY <1>1, <1>2, <1>3, <1>7, <2>1 DEF Sums
  <2>3. Owes(r, cycle', slips')
    BY <1>1, <1>3, <2>1, <2>2 DEF Owes
  <2>4. Working(c, req')
    BY <1>1, <1>3 DEF Working, TypeInv
  <2> QED BY <1>1, <2>1, <2>3, <2>4 DEF Agrees
<1> HIDE DEF c
<1> QED BY <1>1, <1>8, <1>9, <1>10, TotalsMoved DEF c

LEMMA TotalsTool ==
  ASSUME OneProcessor, TypeInv, TotalInv, NEW q \in Req, ToolCommit(q)
  PROVE  TotalInv'
<1> DEFINE c == req[q].cycle
           g == 12 * Base
           k == Cardinality(Employee)
           E == req[q].left
           N == DOMAIN slips' \ DOMAIN slips
<1>1. /\ req[q] \in ReqRow /\ req[q].pc = "tool" /\ c \in Cycle /\ E \in SUBSET Employee
      /\ req' = [req EXCEPT ![q] = Idle] /\ deaths' = deaths
      /\ cycle' = [cycle EXCEPT ![c] =
           [status |-> "processing", gross |-> k * g, net |-> k * (g - Tax)]]
      /\ slips' = slips \o SetToSeq(Blanks(c, E, g, g - Tax))
  BY DEF TypeInv, TypeOK, ToolCommit, ReqRow, Close, Blanks
<1>2. g \in Nat /\ g - Tax \in Nat /\ k * g \in Nat /\ k * (g - Tax) \in Nat
  BY ToolTotals
<1> HIDE DEF g, k
<1>3. Writing(req[q])
  BY <1>1 DEF Writing
<1>4. /\ slips' \in Seq(Slip)
      /\ \A i \in DOMAIN slips : i \in DOMAIN slips' /\ slips'[i] = slips[i]
      /\ \A i \in DOMAIN slips' : i \in DOMAIN slips \/ slips'[i] \in Blanks(c, E, g, g - Tax)
  BY <1>1, <1>2, AddedType
<1>5. \A x \in Blanks(c, E, g, g - Tax) : x.cycle = c /\ x.gross = g /\ x.net = g - Tax
  BY DEF Blanks, SlipOf
<1>6. \A i \in N : slips'[i].cycle = c /\ slips'[i].gross = g /\ slips'[i].net = g - Tax
  BY <1>4, <1>5
<1>7. Cardinality(N) = Cardinality(E)
  BY <1>1, <1>2, BlanksCount
<1> HIDE DEF N
<1>8. /\ Sum(Grosses(slips'), Of(slips', c)) =
           Sum(Grosses(slips), Of(slips, c)) + Cardinality(N) * g
      /\ Sum(Nets(slips'), Of(slips', c)) =
           Sum(Nets(slips), Of(slips, c)) + Cardinality(N) * (g - Tax)
  <2>1. Added(c, N, g, g - Tax, slips, slips')
    BY <1>4, <1>6 DEF N, Added
  <2>2. GrowBy(c, N, g, g - Tax, slips, slips')
    BY <1>2, <1>4, <2>1, EqualAdded
  <2> QED BY <2>2 DEF GrowBy
<1>9. ASSUME NEW d \in Cycle, d # c PROVE SumsStay(d) /\ cycle'[d] = cycle[d]
  <2>1. \A i \in DOMAIN slips' : slips'[i].cycle = d => i \in DOMAIN slips
    BY <1>6, <1>9 DEF N
  <2>2. SumsStay(d)
    BY <1>4, <2>1, NoneAdded
  <2> QED BY <1>1, <1>9, <2>2
<1>10. ASSUME deaths = 0 PROVE Agrees(c, cycle', slips', req')
  <2>1. Sums(slips, c, 0, 0) /\ E = Employee
    BY <1>1, <1>10 DEF TotalInv, Owes
  <2>2. Cardinality(N) = k
    BY <1>7, <2>1 DEF k
  <2>3. Sums(slips', c, k * g, k * (g - Tax))
    BY <1>2, <1>8, <2>1, <2>2 DEF Sums
  <2>4. /\ cycle'[c].status = "processing"
        /\ cycle'[c].gross = k * g /\ cycle'[c].net = k * (g - Tax)
    BY <1>1, Unchanged
  <2> QED BY <2>3, <2>4 DEF Agrees
<1> HIDE DEF c
<1> QED BY <1>1, <1>3, <1>9, <1>10, IdleOwes, TotalsMoved DEF c

LEMMA TotalsPay ==
  ASSUME OneProcessor, TypeInv, TotalInv, NEW q \in Req, Pay(q)
  PROVE  TotalInv'
<1>0. req[q] \in ReqRow /\ req \in [Req -> ReqRow]
  BY DEF TypeInv
<1>1. ASSUME NEW c \in Cycle, ProcessBegin(q, c) \/ ToolBegin(q, c) PROVE TotalInv'
  <2>1. PICK r :
          /\ req' = [req EXCEPT ![q] = r] /\ r.cycle = c /\ r.pc \in {"process", "tool"}
          /\ r.left = Employee /\ r.gross = 0 /\ r.net = 0 /\ req[q] = Idle
          /\ q \in Processor /\ cycle[c].status = "draft" /\ UNCHANGED <<cycle, slips, deaths>>
    <3>1. PICK kind \in {"process", "tool"} :
            /\ req' = [req EXCEPT ![q] =
                 [Idle EXCEPT !.pc = kind, !.cycle = c, !.left = Employee]]
            /\ req[q] = Idle /\ q \in Processor
            /\ cycle[c].status = "draft" /\ UNCHANGED <<cycle, slips, deaths>>
      BY <1>1 DEF ProcessBegin, ToolBegin, Open
    <3> DEFINE r == [Idle EXCEPT !.pc = kind, !.cycle = c, !.left = Employee]
    <3>2. /\ r.cycle = c /\ r.pc = kind /\ r.left = Employee /\ r.gross = 0 /\ r.net = 0
      BY DEF Idle
    <3> HIDE DEF r
    <3> QED BY <3>1, <3>2 DEF r
  <2>2. ~Working(c, req)
    <3>1. \A p \in Req : req[p].pc = "process" => p = q
      BY <2>1 DEF OneProcessor, TypeInv, TypeOK
    <3> QED BY <2>1, <3>1, IdleType DEF Working
  <2>3. deaths = 0 => Sums(slips, c, 0, 0)
    BY <2>1, <2>2 DEF TotalInv, Agrees
  <2>4. deaths = 0 => Owes(r, cycle', slips')
    BY <2>1, <2>3 DEF Owes
  <2> QED BY <2>1, <2>4, IdleType, TablesStay, TotalsSame
<1>2. ASSUME NEW c \in Cycle, BulkBegin(q, c) PROVE TotalInv'
  <2> DEFINE r == [Idle EXCEPT !.pc = "bulk", !.cycle = c,
                               !.left = {e \in Employee : SlipsOf(c, e) = {}}]
  <2>1. req' = [req EXCEPT ![q] = r] /\ req[q] = Idle /\ UNCHANGED <<cycle, slips, deaths>>
    BY <1>2 DEF BulkBegin, Open
  <2>2. r.pc = "bulk"
    BY DEF Idle
  <2> HIDE DEF r
  <2>3. Owes(r, cycle', slips')
    BY <2>2 DEF Owes, Writing
  <2> QED BY <2>1, <2>3, IdleType, TablesStay, TotalsSame
<1>3. ASSUME NEW e \in Employee, ReadEmployee(q, e) \/ FailEmployee(q, e) PROVE TotalInv'
  <2>1. PICK r :
          /\ req' = [req EXCEPT ![q] = r] /\ req[q].pc = "process" /\ r.pc = "process"
          /\ r.cycle = req[q].cycle /\ r.gross = req[q].gross /\ r.net = req[q].net
    <3>1. CASE ReadEmployee(q, e)
      <4> DEFINE r == [req[q] EXCEPT !.left = @ \ {e}, !.open = @ \cup {e},
                         !.seen[e] = {b \in Bonus : OwnerOf[b] = e /\ bonus[b] = "pending"}]
      <4>1. req' = [req EXCEPT ![q] = r] /\ req[q].pc = "process"
        BY <3>1 DEF ReadEmployee
      <4>2. /\ r.pc = req[q].pc /\ r.cycle = req[q].cycle
            /\ r.gross = req[q].gross /\ r.net = req[q].net
        BY <1>0 DEF ReqRow
      <4> HIDE DEF r
      <4> QED BY <4>1, <4>2
    <3>2. CASE FailEmployee(q, e)
      <4> DEFINE r == [req[q] EXCEPT !.open = @ \ {e}]
      <4>1. req' = [req EXCEPT ![q] = r] /\ req[q].pc = "process"
        BY <3>2 DEF FailEmployee
      <4>2. /\ r.pc = req[q].pc /\ r.cycle = req[q].cycle
            /\ r.gross = req[q].gross /\ r.net = req[q].net
        BY <1>0 DEF ReqRow
      <4> HIDE DEF r
      <4> QED BY <4>1, <4>2
    <3> QED BY <1>3, <3>1, <3>2
  <2>2. UNCHANGED <<cycle, slips>> /\ (deaths' = 0 => deaths = 0)
    BY <1>3, Unchanged DEF ReadEmployee, FailEmployee
  <2>3. deaths = 0 => Owes(r, cycle', slips')
    BY <2>1, <2>2 DEF TotalInv, Owes, Writing
  <2> QED BY <2>1, <2>2, <2>3, TablesStay, TotalsSame
<1>4. ASSUME ProcessEnd(q) PROVE TotalInv'
  <2> DEFINE c == req[q].cycle
  <2>1. /\ req[q].pc = "process" /\ c \in Cycle /\ req' = [req EXCEPT ![q] = Idle]
        /\ UNCHANGED <<slips, deaths>>
        /\ cycle' = [cycle EXCEPT ![c] =
             [status |-> "processing", gross |-> req[q].gross, net |-> req[q].net]]
    BY <1>4 DEF ProcessEnd, Close, TypeInv, TypeOK
  <2>2. Writing(req[q])
    BY <2>1 DEF Writing
  <2>3. \A d \in Cycle : d # c => SumsStay(d) /\ cycle'[d] = cycle[d]
    BY <2>1 DEF SumsStay
  <2>4. /\ cycle'[c].status = "processing"
        /\ cycle'[c].gross = req[q].gross /\ cycle'[c].net = req[q].net
    BY <2>1, Unchanged
  <2>5. deaths = 0 => Agrees(c, cycle', slips', req')
    BY <2>1, <2>4 DEF TotalInv, Owes, Agrees
  <2> HIDE DEF c
  <2> QED BY <2>1, <2>2, <2>3, <2>5, IdleOwes, TotalsMoved DEF c
<1>5. ASSUME BulkCommit(q) PROVE TotalInv'
  <2> DEFINE c == req[q].cycle
             E == req[q].left
  <2>1. /\ req[q].pc = "bulk" /\ c \in Cycle /\ E \in SUBSET Employee
        /\ req' = [req EXCEPT ![q] = Idle] /\ UNCHANGED <<cycle, deaths>>
        /\ slips' = slips \o SetToSeq(Blanks(c, E, 0, 0))
    BY <1>0, <1>5 DEF BulkCommit, Close, TypeInv, TypeOK, ReqRow, Blanks
  <2>2. /\ slips' \in Seq(Slip)
        /\ \A i \in DOMAIN slips : i \in DOMAIN slips' /\ slips'[i] = slips[i]
        /\ \A i \in DOMAIN slips' : i \in DOMAIN slips \/ slips'[i] \in Blanks(c, E, 0, 0)
    BY <2>1, AddedType
  <2>3. \A x \in Blanks(c, E, 0, 0) : x.cycle = c /\ x.gross = 0 /\ x.net = 0
    BY DEF Blanks, SlipOf
  <2>4. \A i \in DOMAIN slips' \ DOMAIN slips :
          slips'[i].cycle = c /\ slips'[i].gross = 0 /\ slips'[i].net = 0
    BY <2>2, <2>3
  <2>5. SumsStay(c)
    <3>1. PICK N : N = DOMAIN slips' \ DOMAIN slips
      OBVIOUS
    <3>2. /\ Cardinality(N) \in Nat
          /\ Sum(Grosses(slips'), Of(slips', c)) =
               Sum(Grosses(slips), Of(slips, c)) + Cardinality(N) * 0
          /\ Sum(Nets(slips'), Of(slips', c)) =
               Sum(Nets(slips), Of(slips, c)) + Cardinality(N) * 0
      <4>1. Added(c, N, 0, 0, slips, slips')
        BY <2>2, <2>4, <3>1 DEF Added
      <4>2. GrowBy(c, N, 0, 0, slips, slips')
        BY <2>2, <4>1, EqualAdded
      <4> QED BY <4>2 DEF GrowBy
    <3>3. Sum(Grosses(slips), Of(slips, c)) \in Nat /\ Sum(Nets(slips), Of(slips, c)) \in Nat
      <4>1. IsFiniteSet(Of(slips, c))
        <5>1. IsFiniteSet(1 .. Len(slips)) /\ DOMAIN slips = 1 .. Len(slips)
          BY Unchanged, FS_Interval
        <5> QED BY <5>1, FS_Subset DEF Of
      <4>2. \A i \in Of(slips, c) : Grosses(slips)[i] \in Nat /\ Nets(slips)[i] \in Nat
        BY SlipCycle DEF Of, Grosses, Nets, Slip
      <4> QED BY <4>1, <4>2, UnitsFinite DEF Sum
    <3> QED BY <3>2, <3>3 DEF SumsStay
  <2>6. \A d \in Cycle : d # c => SumsStay(d)
    BY <2>2, <2>4, NoneAdded
  <2>7. \A d \in Cycle : SumsStay(d) /\ SameRow(d)
    BY <2>1, <2>5, <2>6 DEF SameRow
  <2> QED BY <2>1, <2>7, IdleOwes, TotalsSame
<1> QED BY <1>1, <1>2, <1>3, <1>4, <1>5, TotalsCommit, TotalsTool DEF Pay

LEMMA TotalsClerk ==
  ASSUME PatchStatus \cap {"draft", "absent", "processing"} = {},
         TypeInv, TotalInv, NEW q \in Req, Clerk(q)
  PROVE  TotalInv'
<1>0. req[q] \in ReqRow
  BY DEF TypeInv
<1>1. ASSUME NEW r, req' = [req EXCEPT ![q] = r], r.pc \notin {"process", "tool"},
             req[q].pc # "process", deaths' = deaths,
             \A c \in Cycle : SumsStay(c) /\ SameRow(c)
      PROVE  TotalInv'
  <2>1. Owes(r, cycle', slips')
    BY <1>1 DEF Owes, Writing
  <2> QED BY <1>1, <2>1, TotalsSame
<1>2. ASSUME NEW c \in Cycle, NEW t \in PatchStatus, PatchBegin(q, c, t) PROVE TotalInv'
  <2> DEFINE r == [Idle EXCEPT !.pc = "patch", !.cycle = c, !.was = cycle[c].status,
                     !.status = t, !.gross = cycle[c].gross, !.net = cycle[c].net]
  <2>1. /\ req' = [req EXCEPT ![q] = r] /\ UNCHANGED <<cycle, slips, deaths>>
        /\ req[q].pc = "idle"
    BY <1>2, IdleType DEF PatchBegin, Open
  <2>2. r.pc = "patch"
    BY DEF Idle
  <2> HIDE DEF r
  <2> QED BY <1>1, <2>1, <2>2, TablesStay
<1>3. ASSUME PatchRead(q) PROVE TotalInv'
  <2> DEFINE r == [req[q] EXCEPT !.pc = "patched", !.count = Len(slips),
                                 !.booked = Booked(req[q].cycle)]
  <2>1. /\ req' = [req EXCEPT ![q] = r] /\ UNCHANGED <<cycle, slips, deaths>>
        /\ req[q].pc = "patch"
    BY <1>3 DEF PatchRead
  <2>2. r.pc = "patched"
    BY <1>0 DEF ReqRow
  <2> HIDE DEF r
  <2> QED BY <1>1, <2>1, <2>2, TablesStay
<1>4. ASSUME PatchCommit(q) PROVE TotalInv'
  <2>1. /\ req[q].cycle \in Cycle /\ req[q].status \in PatchStatus /\ req[q].pc = "patched"
        /\ req' = [req EXCEPT ![q] = Idle] /\ deaths' = deaths
    BY <1>4 DEF PatchCommit, TypeInv, TypeOK, Close
  <2>2. \A c \in Cycle : SumsStay(c)
    <3>1. CASE slips' = slips
      BY <3>1 DEF SumsStay
    <3>2. CASE slips' = Finalized(req[q])
      <4>1. /\ DOMAIN slips' = DOMAIN slips
            /\ \A i \in DOMAIN slips : SameSlip(slips'[i], slips[i])
        BY <3>2, FinalizedType
      <4> QED BY <4>1, NoneAdded DEF SameSlip
    <3> QED BY <1>4, <3>1, <3>2 DEF PatchCommit
  <2>3. \A c \in Cycle : SameRow(c)
    <3>1. CASE cycle' = cycle
      BY <3>1 DEF SameRow
    <3>2. CASE cycle' = [cycle EXCEPT ![req[q].cycle].status = req[q].status]
      <4>1. /\ cycle \in [Cycle -> CycleRow]
            /\ req[q].status \notin {"draft", "absent", "processing"}
        BY <2>1, Unchanged
      <4> QED BY <2>1, <3>2, <4>1 DEF SameRow, CycleRow
    <3> QED BY <1>4, <3>1, <3>2 DEF PatchCommit
  <2> QED BY <1>1, <2>1, <2>2, <2>3, IdleType
<1>5. ASSUME NEW b \in Bonus, DeleteBegin(q, b) PROVE TotalInv'
  <2> DEFINE r == [Idle EXCEPT !.pc = "delete", !.bonus = b]
  <2>1. /\ req' = [req EXCEPT ![q] = r] /\ UNCHANGED <<cycle, slips, deaths>>
        /\ req[q].pc = "idle"
    BY <1>5, IdleType DEF DeleteBegin, Open
  <2>2. r.pc = "delete"
    BY DEF Idle
  <2> HIDE DEF r
  <2> QED BY <1>1, <2>1, <2>2, TablesStay
<1>6. ASSUME DeleteCommit(q) PROVE TotalInv'
  <2>1. /\ req' = [req EXCEPT ![q] = Idle] /\ UNCHANGED <<cycle, slips, deaths>>
        /\ req[q].pc = "delete"
    BY <1>6 DEF DeleteCommit, Close
  <2> QED BY <1>1, <2>1, IdleType, TablesStay
<1> QED BY <1>2, <1>3, <1>4, <1>5, <1>6 DEF Clerk

LEMMA TotalsKept ==
  ASSUME OneProcessor, PatchStatus \cap {"draft", "absent", "processing"} = {}
  PROVE  TypeInv /\ TotalInv /\ [Next]_vars => TotalInv'
<1> SUFFICES ASSUME TypeInv, TotalInv, [Next]_vars PROVE TotalInv'
  OBVIOUS
<1>1. ASSUME NEW c \in Cycle, CreateCycle(c) PROVE TotalInv'
  <2>1. UNCHANGED <<slips, req, deaths>> /\ cycle[c].status = "absent"
    BY <1>1 DEF CreateCycle
  <2>2. \A d \in Cycle : d # c => cycle'[d] = cycle[d]
    BY <1>1, Unchanged DEF CreateCycle
  <2>3. cycle'[c].status = "draft"
    BY <1>1, Unchanged DEF CreateCycle, CycleRow
  <2>4. \A p \in Req : Writing(req[p]) => req[p].cycle \in Cycle
    BY DEF Writing, TypeInv, TypeOK
  <2>5. \A d \in Cycle : cycle'[d].status = "processing" => cycle[d].status = "processing"
    BY <2>2, <2>3
  <2>6. \A p \in Req : Owes(req[p], cycle, slips) => Owes(req[p], cycle', slips)
    BY <2>4, <2>5 DEF Owes
  <2>7. \A d \in Cycle : Agrees(d, cycle, slips, req) => Agrees(d, cycle', slips, req)
    BY <2>1, <2>2, <2>3 DEF Agrees
  <2> QED BY <2>1, <2>6, <2>7 DEF TotalInv
<1>2. CASE UNCHANGED <<cycle, slips, req, deaths>>
  BY <1>2 DEF TotalInv
<1>3. ASSUME NEW q \in Req, Abort(q) PROVE TotalInv'
  <2>1. deaths' # 0
    BY <1>3, Unchanged DEF Abort
  <2> QED BY <2>1 DEF TotalInv
<1>4. ASSUME NEW b \in Bonus, CreateBonus(b) PROVE TotalInv'
  BY <1>2, <1>4 DEF CreateBonus
<1> QED BY <1>1, <1>2, <1>3, <1>4, TotalsPay, TotalsClerk DEF Next, vars

(* While one request at a time processes payrolls and clerks only move cycles on,   *)
(* and as long as no request has died half-way, the totals of a processed cycle are *)
(* the sums over its payslips, whichever employees failed on the way and whatever   *)
(* empty payslips were generated beside.                                            *)
THEOREM TotalsAlwaysMatch ==
  ASSUME OneProcessor, PatchStatus \cap {"draft", "absent", "processing"} = {}
  PROVE  Spec => [](deaths = 0 => TotalsMatchSlips)
<1>1. Init => TotalInv
  <2> SUFFICES ASSUME Init PROVE TotalInv
    OBVIOUS
  <2>1. \A q \in Req : Owes(req[q], cycle, slips)
    BY IdleOwes DEF Init
  <2>2. ASSUME NEW c \in Cycle PROVE Agrees(c, cycle, slips, req)
    <3>1. cycle[c].status = "absent" /\ Of(slips, c) = {}
      BY DEF Init, Of
    <3>2. Units(Grosses(slips), {}) = {} /\ Units(Nets(slips), {}) = {}
      BY DEF Units
    <3>3. Sums(slips, c, 0, 0)
      BY <3>1, <3>2, FS_EmptySet DEF Sums, Sum
    <3> QED BY <3>1, <3>3 DEF Agrees
  <2> QED BY <2>1, <2>2 DEF TotalInv
<1>2. TypeInv /\ TotalInv => (deaths = 0 => TotalsMatchSlips)
  <2> SUFFICES ASSUME TypeInv, TotalInv, deaths = 0 PROVE TotalsMatchSlips
    OBVIOUS
  <2>1. ASSUME NEW c \in Cycle, cycle[c].status = "processing"
        PROVE  /\ cycle[c].gross = SumOver(c, LAMBDA s : s.gross)
               /\ cycle[c].net = SumOver(c, LAMBDA s : s.net)
    BY <2>1, SumsOver DEF TotalInv, Agrees, Sums
  <2> QED BY <2>1 DEF TotalsMatchSlips
<1> QED BY <1>1, <1>2, TypeStarts, TypeKept, TotalsKept, PTL DEF Spec
===============================================================================
