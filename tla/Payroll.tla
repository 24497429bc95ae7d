-------------------------------- MODULE Payroll --------------------------------
(***************************************************************************)
(* Payroll cycles (backend/app/api/v1/pay.py), with the two other writers  *)
(* of payslips: the agent tool tool_process_payroll                         *)
(* (services/platform_tools_hr.py) and bulk_generate_payslips (api/v1/     *)
(* bulk.py).                                                                *)
(*                                                                          *)
(* Every HTTP request is a process; its awaits on the database interleave   *)
(* with those of other requests.  A request sees what was committed when it *)
(* read and writes at its commit; nothing is locked.  process_payroll        *)
(* commits employee by employee, each in a session of its own (batches of    *)
(* 20 side by side; the model lets all of them overlap), and the cycle at    *)
(* the end.  Amounts are floats in payslips and totals; here they count      *)
(* twelfths of a cent, what a monthly share leaves of a yearly salary, and   *)
(* the ledger's Numeric(10,2) columns count whole cents.                     *)
(***************************************************************************)
EXTENDS Integers, Sequences, FiniteSets, SequencesExt

CONSTANTS
  Cycle,        \* the payroll cycles
  Employee,     \* the active employees
  Bonus,        \* the bonuses
  OwnerOf,      \* whose a bonus is
  Base,         \* a twelfth of the yearly salary
  BonusPay,     \* the amount of a bonus
  Tax,          \* the monthly deductions
  Req,          \* the requests that are open at the same time
  Processor,    \* those of them that write payslips
  Kinds,        \* the endpoints the clients call: process, tool, bulk, patch, delete
  PatchStatus,  \* the statuses they send to update_cycle_status
  NoCycle, NoBonus,
  MaxDeaths     \* bound on requests that die half-way

ASSUME PayrollAssumption ==
  /\ IsFiniteSet(Employee) /\ IsFiniteSet(Bonus)
  /\ OwnerOf \in [Bonus -> Employee]
  /\ Processor \subseteq Req
  /\ NoCycle \notin Cycle /\ NoBonus \notin Bonus
  /\ Base \in Nat \ {0} /\ BonusPay \in Nat /\ Tax \in 0 .. Base
  /\ MaxDeaths \in Nat

VARIABLES
  cycle,    \* pay_cycles: status, total_gross, total_net
  slips,    \* pay_payslips in the order of their commits
  bonus,    \* pay_bonuses.status, or "absent" or "deleted"
  journal,  \* the journal entries PAY-<cycle>
  req,      \* what each open request has read
  deaths

vars == <<cycle, slips, bonus, journal, req, deaths>>

-------------------------------------------------------------------------------
Idle == [pc |-> "idle", cycle |-> NoCycle, was |-> "none", status |-> "none",
         gross |-> 0, net |-> 0, left |-> {}, open |-> {}, seen |-> [e \in Employee |-> {}],
         count |-> 0, booked |-> FALSE, bonus |-> NoBonus]

CycleStatus == {"absent", "draft", "processing"} \cup PatchStatus

Slip == [cycle : Cycle, employee : Employee, gross : Nat, net : Nat,
         bonuses : SUBSET Bonus, final : BOOLEAN]

TypeOK ==
  /\ cycle \in [Cycle -> [status : CycleStatus, gross : Nat, net : Nat]]
  /\ slips \in Seq(Slip)
  /\ bonus \in [Bonus -> {"absent", "pending", "paid", "deleted"}]
  /\ journal \subseteq [cycle : Cycle, debit : Nat, tax : Nat, payable : Nat]
  /\ \A q \in Req :
       /\ req[q].pc \in {"idle", "process", "tool", "bulk", "patch", "patched", "delete"}
       /\ req[q].pc \in {"process", "tool", "bulk"} => q \in Processor
       /\ req[q].pc \notin {"idle", "delete"} <=> req[q].cycle \in Cycle
       /\ req[q].count <= Len(slips)
  /\ deaths \in 0 .. MaxDeaths

Init ==
  /\ cycle = [c \in Cycle |-> [status |-> "absent", gross |-> 0, net |-> 0]]
  /\ slips = <<>>
  /\ bonus = [b \in Bonus |-> "absent"]
  /\ journal = {}
  /\ req = [q \in Req |-> Idle]
  /\ deaths = 0

Open(q, kind, r) ==
  /\ kind \in Kinds
  /\ req[q] = Idle
  /\ req' = [req EXCEPT ![q] = r]

Close(q) == req' = [req EXCEPT ![q] = Idle]

(* Mutant: forgets the salary.                                                 *)
GrossOfBonuses(S) == BonusPay * Cardinality(S)

Gross(S) == Base + BonusPay * Cardinality(S)

SlipOf(c, e, g, n, S) ==
  [cycle |-> c, employee |-> e, gross |-> g, net |-> n, bonuses |-> S, final |-> FALSE]

SlipsOf(c, e) == {i \in DOMAIN slips : slips[i].cycle = c /\ slips[i].employee = e}

-------------------------------------------------------------------------------
CreateCycle(c) ==
  /\ cycle[c].status = "absent"
  /\ cycle' = [cycle EXCEPT ![c].status = "draft"]
  /\ UNCHANGED <<slips, bonus, journal, req, deaths>>

CreateBonus(b) ==
  /\ bonus[b] = "absent"
  /\ bonus' = [bonus EXCEPT ![b] = "pending"]
  /\ UNCHANGED <<cycle, slips, journal, req, deaths>>

(* Mutant: any cycle can be processed.                                        *)
ProcessBeginAny(q, c) ==
  /\ q \in Processor
  /\ cycle[c].status # "absent"
  /\ Open(q, "process", [Idle EXCEPT !.pc = "process", !.cycle = c, !.left = Employee])
  /\ UNCHANGED <<cycle, slips, bonus, journal, deaths>>

(* process_payroll: the cycle must be a draft when it is read.                *)
ProcessBegin(q, c) ==
  /\ q \in Processor
  /\ cycle[c].status = "draft"
  /\ Open(q, "process", [Idle EXCEPT !.pc = "process", !.cycle = c, !.left = Employee])
  /\ UNCHANGED <<cycle, slips, bonus, journal, deaths>>

(* _process_single_employee reads the pending bonuses ...                      *)
ReadEmployee(q, e) ==
  /\ req[q].pc = "process"
  /\ e \in req[q].left
  /\ req' = [req EXCEPT
       ![q].left = @ \ {e},
       ![q].open = @ \cup {e},
       ![q].seen[e] = {b \in Bonus : OwnerOf[b] = e /\ bonus[b] = "pending"}]
  /\ UNCHANGED <<cycle, slips, bonus, journal, deaths>>

(* Mutant: the bonuses stay pending.                                           *)
CommitEmployeeKeeps(q, e) ==
  LET S == req[q].seen[e] IN
  /\ req[q].pc = "process"
  /\ e \in req[q].open
  /\ slips' = Append(slips, SlipOf(req[q].cycle, e, Gross(S), Gross(S) - Tax, S))
  /\ req' = [req EXCEPT ![q].open = @ \ {e},
                        ![q].gross = @ + Gross(S), ![q].net = @ + Gross(S) - Tax]
  /\ UNCHANGED <<cycle, bonus, journal, deaths>>

(* ... and commits the payslip with the bonuses marked paid.  The update of a  *)
(* bonus whose row is gone makes the commit fail.                              *)
CommitEmployee(q, e) ==
  LET S == req[q].seen[e] IN
  /\ req[q].pc = "process"
  /\ e \in req[q].open
  /\ \A b \in S : bonus[b] # "deleted"
  /\ slips' = Append(slips, SlipOf(req[q].cycle, e, Gross(S), Gross(S) - Tax, S))
  /\ bonus' = [b \in Bonus |-> IF b \in S THEN "paid" ELSE bonus[b]]
  /\ req' = [req EXCEPT ![q].open = @ \ {e},
                        ![q].gross = @ + Gross(S), ![q].net = @ + Gross(S) - Tax]
  /\ UNCHANGED <<cycle, journal, deaths>>

(* Mutant: an employee that failed is counted with a salary.                    *)
FailEmployeeCounts(q, e) ==
  /\ req[q].pc = "process"
  /\ e \in req[q].open
  /\ req' = [req EXCEPT ![q].open = @ \ {e},
                        ![q].gross = @ + Base, ![q].net = @ + Base - Tax]
  /\ UNCHANGED <<cycle, slips, bonus, journal, deaths>>

(* Any exception (a tax engine, the database, a bonus whose row is gone): this  *)
(* employee is rolled back and counted with zero pay, the others go on.         *)
FailEmployee(q, e) ==
  /\ req[q].pc = "process"
  /\ e \in req[q].open
  /\ req' = [req EXCEPT ![q].open = @ \ {e}]
  /\ UNCHANGED <<cycle, slips, bonus, journal, deaths>>

(* The cycle's own commit, whatever its status is by now.                       *)
ProcessEnd(q) ==
  LET r == req[q] IN
  /\ r.pc = "process" /\ r.left = {} /\ r.open = {}
  /\ cycle' = [cycle EXCEPT ![r.cycle] =
       [status |-> "processing", gross |-> r.gross, net |-> r.net]]
  /\ Close(q)
  /\ UNCHANGED <<slips, bonus, journal, deaths>>

(* tool_process_payroll: one session, one commit, yearly salaries, no bonuses.  *)
ToolBegin(q, c) ==
  /\ q \in Processor
  /\ cycle[c].status = "draft"
  /\ Open(q, "tool", [Idle EXCEPT !.pc = "tool", !.cycle = c, !.left = Employee])
  /\ UNCHANGED <<cycle, slips, bonus, journal, deaths>>

ToolCommit(q) ==
  LET c == req[q].cycle  g == 12 * Base  n == Cardinality(Employee) IN
  /\ req[q].pc = "tool"
  /\ slips' = slips \o SetToSeq({SlipOf(c, e, g, g - Tax, {}) : e \in req[q].left})
  /\ cycle' = [cycle EXCEPT ![c] =
       [status |-> "processing", gross |-> n * g, net |-> n * (g - Tax)]]
  /\ Close(q)
  /\ UNCHANGED <<bonus, journal, deaths>>

(* bulk_generate_payslips: an empty payslip for whoever has none.  A second      *)
(* payslip of an employee makes scalar_one_or_none raise.                        *)
BulkBegin(q, c) ==
  /\ q \in Processor
  /\ cycle[c].status # "absent"
  /\ \A e \in Employee : Cardinality(SlipsOf(c, e)) <= 1
  /\ Open(q, "bulk", [Idle EXCEPT !.pc = "bulk", !.cycle = c,
                                  !.left = {e \in Employee : SlipsOf(c, e) = {}}])
  /\ UNCHANGED <<cycle, slips, bonus, journal, deaths>>

BulkCommit(q) ==
  /\ req[q].pc = "bulk"
  /\ slips' = slips \o SetToSeq({SlipOf(req[q].cycle, e, 0, 0, {}) : e \in req[q].left})
  /\ Close(q)
  /\ UNCHANGED <<cycle, bonus, journal, deaths>>

(* update_cycle_status reads the cycle, then its payslips and the journal, then  *)
(* commits.                                                                      *)
PatchBegin(q, c, s) ==
  /\ cycle[c].status # "absent"
  /\ Open(q, "patch", [Idle EXCEPT !.pc = "patch", !.cycle = c, !.was = cycle[c].status,
                         !.status = s, !.gross = cycle[c].gross, !.net = cycle[c].net])
  /\ UNCHANGED <<cycle, slips, bonus, journal, deaths>>

Booked(c) == \E x \in journal : x.cycle = c

PatchRead(q) ==
  /\ req[q].pc = "patch"
  /\ req' = [req EXCEPT ![q].pc = "patched", ![q].count = Len(slips),
                        ![q].booked = Booked(req[q].cycle)]
  /\ UNCHANGED <<cycle, slips, bonus, journal, deaths>>

Books(r) == r.status = "paid" /\ r.gross > 0 /\ ~r.booked

(* Numeric(10,2): a column keeps whole cents, halves go up.                      *)
Cents(x) == (x + 6) \div 12

(* Mutant: the lines are taken from the payslips seen so far, not the totals.    *)
EntryOfSlips(r) ==
  LET n == Cardinality({i \in 1 .. r.count : slips[i].cycle = r.cycle}) IN
  [cycle |-> r.cycle, debit |-> Cents(n * Base), tax |-> Cents(r.gross - r.net),
   payable |-> Cents(r.net)]

(* The lines 640000, 475100 and 465000 of the entry, each rounded on its own.    *)
Entry(r) ==
  [cycle |-> r.cycle, debit |-> Cents(r.gross),
   tax |-> IF r.gross > r.net THEN Cents(r.gross - r.net) ELSE 0,
   payable |-> Cents(r.net)]

(* Mutant: payslips keep their status.                                           *)
FinalizedNever(r) == slips

(* The payslips read become final; one committed since is not touched.           *)
Finalized(r) ==
  [i \in DOMAIN slips |->
     IF r.status = "paid" /\ i <= r.count /\ slips[i].cycle = r.cycle
     THEN [slips[i] EXCEPT !.final = TRUE] ELSE slips[i]]

(* JournalEntry.reference is unique: a second PAY-<cycle> fails the commit and   *)
(* nothing of the request is kept.  An unchanged status is not written.          *)
PatchCommit(q) ==
  LET r == req[q] IN
  /\ r.pc = "patched"
  /\ IF Books(r) /\ Booked(r.cycle)
     THEN UNCHANGED <<cycle, slips, journal>>
     ELSE /\ cycle' = IF r.was = r.status THEN cycle
                      ELSE [cycle EXCEPT ![r.cycle].status = r.status]
          /\ slips' = Finalized(r)
          /\ journal' = IF Books(r) THEN journal \cup {Entry(r)} ELSE journal
  /\ Close(q)
  /\ UNCHANGED <<bonus, deaths>>

(* delete_bonus checks the status it read and deletes by primary key.            *)
DeleteBegin(q, b) ==
  /\ bonus[b] = "pending"
  /\ Open(q, "delete", [Idle EXCEPT !.pc = "delete", !.bonus = b])
  /\ UNCHANGED <<cycle, slips, bonus, journal, deaths>>

DeleteCommit(q) ==
  /\ req[q].pc = "delete"
  /\ bonus' = [bonus EXCEPT ![req[q].bonus] = "deleted"]
  /\ Close(q)
  /\ UNCHANGED <<cycle, slips, journal, deaths>>

(* The server dies, or the request fails before its commit.                      *)
Abort(q) ==
  /\ deaths < MaxDeaths
  /\ req[q].pc # "idle"
  /\ deaths' = deaths + 1
  /\ Close(q)
  /\ UNCHANGED <<cycle, slips, bonus, journal>>

Pay(q) ==
  \/ \E c \in Cycle : ProcessBegin(q, c) \/ ToolBegin(q, c) \/ BulkBegin(q, c)
  \/ \E e \in Employee : ReadEmployee(q, e) \/ CommitEmployee(q, e) \/ FailEmployee(q, e)
  \/ ProcessEnd(q) \/ ToolCommit(q) \/ BulkCommit(q)

Clerk(q) ==
  \/ \E c \in Cycle, s \in PatchStatus : PatchBegin(q, c, s)
  \/ PatchRead(q) \/ PatchCommit(q)
  \/ \E b \in Bonus : DeleteBegin(q, b)
  \/ DeleteCommit(q)

Next ==
  \/ \E c \in Cycle : CreateCycle(c)
  \/ \E b \in Bonus : CreateBonus(b)
  \/ \E q \in Req : Pay(q) \/ Clerk(q) \/ Abort(q)

Spec == Init /\ [][Next]_vars

-------------------------------------------------------------------------------
(* Properties *)

(* A bonus is paid once: no two payslips list it, whether the cycle was           *)
(* processed again after a crash or two cycles were processed.                    *)
BonusPaidOnce ==
  \A i, j \in DOMAIN slips : slips[i].bonuses \cap slips[j].bonuses # {} => i = j

(* A bonus is marked paid exactly when a payslip pays it.                         *)
BonusBacked ==
  \A b \in Bonus : bonus[b] = "paid" <=> \E i \in DOMAIN slips : b \in slips[i].bonuses

(* The ledger has at most one entry per cycle.  Each of its lines is the cycle's   *)
(* figure to the cent, for good; as the three are rounded on their own, debit and *)
(* credit may differ, by a cent at most.                                          *)
JournalFaithful ==
  \A x \in journal :
    LET c == cycle[x.cycle] IN
    /\ \A y \in journal : y.cycle = x.cycle => y = x
    /\ x.debit = Cents(c.gross) /\ x.payable = Cents(c.net) /\ x.tax = Cents(c.gross - c.net)
    /\ x.debit - (x.tax + x.payable) \in -1 .. 1

Pays(q) ==
  /\ req[q].pc = "patched" /\ req[q].was = "processing" /\ req[q].status = "paid"
  /\ req'[q] = Idle
  /\ cycle' # cycle

(* Paying a cycle that was seen as processed leaves all its payslips final and    *)
(* the payroll booked.                                                            *)
SettledOnPay ==
  [][\A q \in Req : Pays(q) =>
       LET c == req[q].cycle IN
       /\ \A i \in DOMAIN slips' : slips'[i].cycle = c => slips'[i].final
       /\ cycle'[c].gross > 0 => \E x \in journal' : x.cycle = c]_vars

(* "Payroll cycles can only be processed when in draft status": payslips are       *)
(* added to a cycle only while it is a draft.                                     *)
ProcessesDraftsOnly ==
  [][\A c \in Cycle :
       (\E i \in DOMAIN slips' \ DOMAIN slips : slips'[i].cycle = c) =>
         cycle[c].status = "draft"]_vars

(* "Processing generates one payslip per active employee": at most one, while no   *)
(* request dies half-way.                                                         *)
OnePayslipUnlessAborted ==
  deaths = 0 => \A c \in Cycle, e \in Employee : Cardinality(SlipsOf(c, e)) <= 1

SumOver(c, f(_)) ==
  FoldSet(LAMBDA i, acc : f(slips[i]) + acc, 0, {i \in DOMAIN slips : slips[i].cycle = c})

(* Once a cycle has been processed its totals are the sums over its payslips,     *)
(* whichever employees failed on the way.                                         *)
TotalsMatchSlips ==
  \A c \in Cycle : cycle[c].status = "processing" =>
    /\ cycle[c].gross = SumOver(c, LAMBDA s : s.gross)
    /\ cycle[c].net = SumOver(c, LAMBDA s : s.net)
===============================================================================
