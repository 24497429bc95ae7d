------------------------------- MODULE Expenses -------------------------------
(***************************************************************************)
(* One expense claim and the journal entry of its approval                  *)
(* (backend/app/api/v1/finance.py, api/v1/bulk.py).                         *)
(*                                                                         *)
(* update_expense loads the claim, applies the fields of its body, looks    *)
(* for the entry "EXP-<id>" when the claim is now approved or paid, and     *)
(* commits; other requests run between these steps.  The session writes     *)
(* only the columns whose value differs from what it loaded, and a second   *)
(* entry with the same reference makes its commit fail as a whole.          *)
(* bulk_approve_expenses is one UPDATE of the status.                       *)
(*                                                                         *)
(* Claims do not affect each other, so there is one.  Of its fields the     *)
(* status and the total are kept; the split of the total into base and tax, *)
(* the notification and the published event are left out.                   *)
(***************************************************************************)
EXTENDS Integers

CONSTANTS Request,          \* requests that update the claim
          Amount,           \* possible totals
          Unset             \* a field the body does not name

Status == {"pending", "approved", "rejected", "paid"}

ASSUME ExpenseAssumption == Unset \notin Status \cup Amount

VARIABLES claim,            \* the committed row
          booked,           \* total of the committed entry, or Unset
          pc,               \* where a request is
          seen,             \* the row a request loaded
          wanted,           \* the row after its body was applied
          found,            \* whether the request found an entry
          inBulk            \* history: the bulk endpoint approved the claim unbooked

expenseVars == <<claim, booked, pc, seen, wanted, found, inBulk>>

Row == [status : Status, total : Amount]

NoRow == [status |-> Unset, total |-> Unset]

ExpenseTypeOK ==
  /\ claim \in Row \cup {NoRow}
  /\ booked \in Amount \cup {Unset}
  /\ pc \in [Request -> {"idle", "loaded", "looked", "ended"}]
  /\ seen \in [Request -> Row \cup {NoRow}]
  /\ wanted \in [Request -> Row \cup {NoRow}]
  /\ found \in [Request -> BOOLEAN]
  /\ inBulk \in BOOLEAN

ExpenseInit ==
  /\ claim = NoRow
  /\ booked = Unset
  /\ pc = [q \in Request |-> "idle"]
  /\ seen = [q \in Request |-> NoRow]
  /\ wanted = [q \in Request |-> NoRow]
  /\ found = [q \in Request |-> FALSE]
  /\ inBulk = FALSE

(* Mutant: a claim that is paid without being approved first is forgotten.      *)
BookingApproved(row) == row.status = "approved"

(* The statuses that need an entry.                                             *)
Booking(row) == row.status \in {"approved", "paid"}

(* create_expense: a claim is pending, whatever its body says.                  *)
Create(total) ==
  /\ claim = NoRow
  /\ claim' = [status |-> "pending", total |-> total]
  /\ UNCHANGED <<booked, pc, seen, wanted, found, inBulk>>

(* Mutant: fields the body does not name are written too.                       *)
AppliedAll(row, body) == [f \in DOMAIN row |-> body[f]]

(* setattr for every field the body names.                                      *)
Applied(row, body) ==
  [f \in DOMAIN row |-> IF body[f] = Unset THEN row[f] ELSE body[f]]

Body == [status : Status \cup {Unset}, total : Amount \cup {Unset}]

(* The employee owns a claim only while it is pending, and may not decide it.   *)
MayApply(role, body) ==
  role = "employee" =>
    claim.status = "pending" /\ body.status \in {Unset, claim.status}

(* update_expense up to its second query: load, check the role, apply the body. *)
Load(q, role, body) ==
  /\ pc[q] = "idle" /\ claim # NoRow
  /\ MayApply(role, body)
  /\ pc' = [pc EXCEPT ![q] = "loaded"]
  /\ seen' = [seen EXCEPT ![q] = claim]
  /\ wanted' = [wanted EXCEPT ![q] = Applied(claim, body)]
  /\ UNCHANGED <<claim, booked, found, inBulk>>

(* The query for the entry's reference.                                         *)
FindEntry(q) ==
  /\ pc[q] = "loaded" /\ Booking(wanted[q])
  /\ pc' = [pc EXCEPT ![q] = "looked"]
  /\ found' = [found EXCEPT ![q] = booked # Unset]
  /\ UNCHANGED <<claim, booked, seen, wanted, inBulk>>

(* What an UPDATE of the changed columns makes of the committed row.            *)
Written(q) ==
  [f \in DOMAIN claim |->
     IF wanted[q][f] = seen[q][f] THEN claim[f] ELSE wanted[q][f]]

(* A request that is over, its session with it.                                 *)
End(q) ==
  /\ pc' = [pc EXCEPT ![q] = "ended"]
  /\ seen' = [seen EXCEPT ![q] = NoRow]
  /\ wanted' = [wanted EXCEPT ![q] = NoRow]
  /\ found' = [found EXCEPT ![q] = FALSE]

(* A commit without an entry of its own.                                        *)
Save(q) ==
  /\ \/ pc[q] = "loaded" /\ ~Booking(wanted[q])
     \/ pc[q] = "looked" /\ found[q]
  /\ claim' = Written(q)
  /\ End(q)
  /\ UNCHANGED <<booked, inBulk>>

(* A commit with the entry; the amounts are those of the row it loaded.         *)
Book(q) ==
  /\ pc[q] = "looked" /\ ~found[q] /\ booked = Unset
  /\ claim' = Written(q)
  /\ booked' = wanted[q].total
  /\ End(q)
  /\ UNCHANGED inBulk

(* The reference is taken by now: the commit fails and nothing of it remains.    *)
Conflict(q) ==
  /\ pc[q] = "looked" /\ ~found[q] /\ booked # Unset
  /\ End(q)
  /\ UNCHANGED <<claim, booked, inBulk>>

(* bulk_approve_expenses.                                                       *)
BulkApprove ==
  /\ claim # NoRow
  /\ claim' = [claim EXCEPT !.status = "approved"]
  /\ inBulk' = (inBulk \/ booked = Unset)
  /\ UNCHANGED <<booked, pc, seen, wanted, found>>

ExpenseNext ==
  \/ \E total \in Amount : Create(total)
  \/ \E q \in Request :
       \/ \E role \in {"employee", "admin"}, body \in Body : Load(q, role, body)
       \/ FindEntry(q) \/ Save(q) \/ Book(q) \/ Conflict(q)
  \/ BulkApprove

ExpenseSpec == ExpenseInit /\ [][ExpenseNext]_expenseVars

-------------------------------------------------------------------------------
(* Properties.                                                                  *)

(* Whatever update_expense requests overlap, an approved or paid claim has its   *)
(* journal entry: the one that fails on the unique reference takes its change of *)
(* the status with it (finance.py:130-185).                                      *)
ApprovedIsBooked ==
  claim.status \in {"approved", "paid"} /\ ~inBulk => booked # Unset
===============================================================================
