----------------------------- MODULE BackOfficeProofs -----------------------------
(***************************************************************************)
(* What the six desks of BackOffice promise, for any number of requests,   *)
(* amounts, employees, candidates, emails, steps, checklists, sessions,     *)
(* subscriptions and deliveries.  A desk has an inductive invariant of its  *)
(* own, which the steps of the others leave alone.                          *)
(***************************************************************************)
EXTENDS BackOffice, FiniteSetTheorems, TLAPS

-------------------------------------------------------------------------------
(* Expenses.  A request that has an entry to look for holds a row of its own,    *)
(* and an entry it has found stays.                                              *)
ExpenseInv ==
  /\ ExpenseTypeOK
  /\ \A q \in Request :
       pc[q] \in {"loaded", "looked"} => wanted[q] \in Row /\ claim # NoRow
  /\ \A q \in Request : found[q] => booked # Unset
  /\ ApprovedIsBooked

(* What a body makes of a row is a row.                                          *)
LEMMA AppliedIsRow ==
  ASSUME NEW row \in Row, NEW body \in Body
  PROVE  Applied(row, body) \in Row
BY ExpenseAssumption DEF Applied, Row, Body

(* An UPDATE of columns leaves each as it is or writes the request's value.      *)
LEMMA WrittenIsRow ==
  ASSUME ExpenseInv, NEW q \in Request, pc[q] \in {"loaded", "looked"}
  PROVE  /\ Written(q) \in Row
         /\ Written(q).status \in {claim.status, wanted[q].status}
<1>1. claim \in Row /\ wanted[q] \in Row
  BY DEF ExpenseInv, ExpenseTypeOK
<1>2. DOMAIN claim = {"status", "total"}
  BY <1>1 DEF Row
<1>3. claim.status \in Status /\ claim.total \in Amount
  BY <1>1 DEF Row
<1>4. wanted[q].status \in Status /\ wanted[q].total \in Amount
  BY <1>1 DEF Row
<1> QED BY <1>2, <1>3, <1>4 DEF Written, Row

LEMMA ExpenseInvStarts == ExpenseInit => ExpenseInv
<1> SUFFICES ASSUME ExpenseInit PROVE ExpenseInv
  OBVIOUS
<1>1. ExpenseTypeOK
  BY DEF ExpenseInit, ExpenseTypeOK
<1>2. claim.status \notin {"approved", "paid"}
  BY ExpenseAssumption DEF ExpenseInit, NoRow, Status
<1>3. \A q \in Request : pc[q] = "idle" /\ ~found[q]
  BY DEF ExpenseInit
<1> QED BY <1>1, <1>2, <1>3 DEF ExpenseInv, ApprovedIsBooked

(* A request that ends keeps the claim and its entry in step.                    *)
LEMMA EndKeeps ==
  ASSUME ExpenseInv, NEW q \in Request, End(q),
         claim' \in Row \cup {NoRow}, claim # NoRow => claim' # NoRow,
         booked' \in Amount \cup {Unset}, booked # Unset => booked' # Unset,
         inBulk' \in BOOLEAN, ApprovedIsBooked'
  PROVE  ExpenseInv'
<1>1. ExpenseTypeOK'
  BY DEF ExpenseInv, ExpenseTypeOK, End
<1>2. ASSUME NEW r \in Request, pc'[r] \in {"loaded", "looked"}
      PROVE  wanted'[r] \in Row /\ claim' # NoRow
  BY <1>2 DEF ExpenseInv, ExpenseTypeOK, End
<1>3. ASSUME NEW r \in Request, found'[r] PROVE booked' # Unset
  BY <1>3 DEF ExpenseInv, ExpenseTypeOK, End
<1> QED BY <1>1, <1>2, <1>3 DEF ExpenseInv

LEMMA ExpenseInvKept == ExpenseInv /\ ExpenseNext => ExpenseInv'
<1> SUFFICES ASSUME ExpenseInv, ExpenseNext PROVE ExpenseInv'
  OBVIOUS
<1> USE DEF ExpenseInv
<1>1. ASSUME NEW total \in Amount, Create(total) PROVE ExpenseInv'
  <2>1. claim' \in Row /\ claim'.status = "pending"
    BY <1>1 DEF Create, Row, Status
  <2>2. claim' # NoRow
    BY <2>1, ExpenseAssumption DEF NoRow, Status
  <2> QED BY <1>1, <2>1, <2>2 DEF Create, ExpenseTypeOK, ApprovedIsBooked
<1>2. ASSUME NEW q \in Request, NEW role \in {"employee", "admin"}, NEW body \in Body,
             Load(q, role, body)
      PROVE  ExpenseInv'
  <2>1. Applied(claim, body) \in Row
    BY <1>2, AppliedIsRow DEF Load, ExpenseTypeOK
  <2>2. ExpenseTypeOK'
    BY <1>2, <2>1 DEF Load, ExpenseTypeOK
  <2>3. ASSUME NEW r \in Request, pc'[r] \in {"loaded", "looked"}
        PROVE  wanted'[r] \in Row /\ claim' # NoRow
    BY <1>2, <2>1, <2>3 DEF Load, ExpenseTypeOK
  <2> QED BY <1>2, <2>2, <2>3 DEF Load, ApprovedIsBooked
<1>3. ASSUME NEW q \in Request, FindEntry(q) PROVE ExpenseInv'
  <2>1. ExpenseTypeOK'
    BY <1>3 DEF FindEntry, ExpenseTypeOK
  <2>2. ASSUME NEW r \in Request, pc'[r] \in {"loaded", "looked"}
        PROVE  wanted'[r] \in Row /\ claim' # NoRow
    BY <1>3, <2>2 DEF FindEntry, ExpenseTypeOK
  <2>3. ASSUME NEW r \in Request, found'[r] PROVE booked' # Unset
    BY <1>3, <2>3 DEF FindEntry, ExpenseTypeOK
  <2> QED BY <1>3, <2>1, <2>2, <2>3 DEF FindEntry, ApprovedIsBooked
<1>4. ASSUME NEW q \in Request, Save(q) PROVE ExpenseInv'
  <2>1. claim' = Written(q) /\ UNCHANGED <<booked, inBulk>> /\ End(q)
    BY <1>4 DEF Save
  <2>2. claim' \in Row /\ claim'.status \in {claim.status, wanted[q].status}
    BY <1>4, <2>1, WrittenIsRow DEF Save
  <2>3. claim' # NoRow
    BY <2>2, ExpenseAssumption DEF Row, NoRow
  <2>4. ApprovedIsBooked'
    <3>1. CASE Booking(wanted[q])
      BY <1>4, <2>1, <3>1 DEF Save, ApprovedIsBooked
    <3>2. CASE ~Booking(wanted[q])
      BY <2>1, <2>2, <3>2 DEF Booking, ApprovedIsBooked
    <3> QED BY <3>1, <3>2
  <2> QED BY <2>1, <2>2, <2>3, <2>4, EndKeeps DEF ExpenseTypeOK
<1>5. ASSUME NEW q \in Request, Book(q) PROVE ExpenseInv'
  <2>1. claim' = Written(q) /\ booked' = wanted[q].total /\ UNCHANGED inBulk /\ End(q)
    BY <1>5 DEF Book
  <2>2. claim' \in Row /\ wanted[q] \in Row
    BY <1>5, <2>1, WrittenIsRow DEF Book
  <2>3. claim' # NoRow /\ booked' \in Amount /\ booked' # Unset
    BY <2>1, <2>2, ExpenseAssumption DEF Row, NoRow
  <2>4. ApprovedIsBooked'
    BY <2>3 DEF ApprovedIsBooked
  <2> QED BY <2>1, <2>2, <2>3, <2>4, EndKeeps DEF ExpenseTypeOK
<1>6. ASSUME NEW q \in Request, Conflict(q) PROVE ExpenseInv'
  <2>1. UNCHANGED <<claim, booked, inBulk>> /\ End(q)
    BY <1>6 DEF Conflict
  <2>2. ApprovedIsBooked'
    BY <2>1 DEF ApprovedIsBooked
  <2> QED BY <2>1, <2>2, EndKeeps DEF ExpenseTypeOK
<1>7. ASSUME BulkApprove PROVE ExpenseInv'
  <2>1. claim \in Row /\ claim # NoRow
    BY <1>7 DEF BulkApprove, ExpenseTypeOK
  <2>2. claim' \in Row /\ claim' # NoRow
    BY <1>7, <2>1, ExpenseAssumption DEF BulkApprove, Row, NoRow, Status
  <2>3. inBulk' \in BOOLEAN /\ ApprovedIsBooked'
    BY <1>7 DEF BulkApprove, ExpenseTypeOK, ApprovedIsBooked
  <2> QED BY <1>7, <2>2, <2>3 DEF BulkApprove, ExpenseTypeOK
<1> QED BY <1>1, <1>2, <1>3, <1>4, <1>5, <1>6, <1>7 DEF ExpenseNext

-------------------------------------------------------------------------------
(* The clock.  A request that may insert its log, or has, saw none but closed     *)
(* logs of the employee, and a closed log stays closed.                          *)
ClockInv ==
  /\ step \in [Punch -> {"idle", "free", "ended"}]
  /\ log \in [Punch -> {"none", "open", "closed"}]
  /\ before \in [Punch -> SUBSET Punch]
  /\ \A p \in Punch : log[p] # "none" => step[p] = "ended"
  /\ \A p \in Punch :
       step[p] = "free" \/ log[p] # "none" => \A o \in before[p] : log[o] = "closed"

LEMMA ClockInvStarts == ClockInit => ClockInv
BY DEF ClockInit, ClockInv

LEMMA ClockInvKept == ClockInv /\ ClockNext => ClockInv'
<1> SUFFICES ASSUME ClockInv, ClockNext PROVE ClockInv'
  OBVIOUS
<1> USE DEF ClockInv
<1>1. ASSUME NEW p \in Punch, NEW e \in Employee, CheckOpen(p, e) PROVE ClockInv'
  <2>1. Logs(e) \subseteq Punch /\ log[p] = "none"
    BY <1>1 DEF CheckOpen, Logs
  <2>2. step'[p] = "free" => \A o \in Logs(e) : log[o] = "closed"
    BY <1>1 DEF CheckOpen, MayClockIn, Open, Logs
  <2> QED BY <1>1, <2>1, <2>2 DEF CheckOpen
<1>2. ASSUME NEW p \in Punch, ClockIn(p) PROVE ClockInv'
  <2>1. log[p] = "none"
    BY <1>2 DEF ClockIn
  <2> QED BY <1>2, <2>1 DEF ClockIn
<1>3. ASSUME NEW p \in Punch, ClockOut(p) PROVE ClockInv'
  BY <1>3 DEF ClockOut
<1> QED BY <1>1, <1>2, <1>3 DEF ClockNext

(* A request that clocks in has no log yet, so that the logs never outnumber the  *)
(* requests.                                                                     *)
LEMMA ClockTypeKept == ClockInv /\ ClockTypeOK /\ ClockNext => ClockTypeOK'
<1> SUFFICES ASSUME ClockInv, ClockTypeOK, ClockNext PROVE ClockTypeOK'
  OBVIOUS
<1> USE DEF ClockTypeOK
<1>1. ASSUME NEW p \in Punch, NEW e \in Employee, CheckOpen(p, e) PROVE ClockTypeOK'
  BY <1>1 DEF CheckOpen, Logs
<1>2. ASSUME NEW p \in Punch, ClockIn(p) PROVE ClockTypeOK'
  <2> DEFINE S == {o \in Punch : log[o] # "none"}
             n == Cardinality(S) + 1
  <2>1. /\ step[p] = "free" /\ order' = [order EXCEPT ![p] = n]
        /\ step' = [step EXCEPT ![p] = "ended"] /\ log' = [log EXCEPT ![p] = "open"]
        /\ UNCHANGED <<who, before>>
    BY <1>2 DEF ClockIn
  <2>2. S \subseteq Punch /\ p \notin S
    BY <2>1 DEF ClockInv
  <2> HIDE DEF S
  <2>3. /\ IsFiniteSet(S) /\ Cardinality(S) \in Nat /\ Cardinality(Punch) \in Nat
        /\ Cardinality(S) <= Cardinality(Punch)
        /\ (Cardinality(S) = Cardinality(Punch) => S = Punch)
    BY <2>2, ClockAssumption, FS_Subset, FS_CardinalityType
  <2>4. n \in 0 .. Cardinality(Punch)
    BY <2>2, <2>3
  <2> HIDE DEF n
  <2> QED BY <2>1, <2>4
<1>3. ASSUME NEW p \in Punch, ClockOut(p) PROVE ClockTypeOK'
  BY <1>3 DEF ClockOut
<1> QED BY <1>1, <1>2, <1>3 DEF ClockNext

LEMMA ClockTypeStarts == ClockInit => ClockTypeOK
BY ClockAssumption, FS_CardinalityType DEF ClockInit, ClockTypeOK

LEMMA ClockInvSuffices == ClockInv => OpenLogsOverlapped
BY DEF ClockInv, OpenLogsOverlapped

-------------------------------------------------------------------------------
(* Hiring.  The equation is inductive as it stands.                              *)
Successes(e) == {p \in Promotion : at[p] = "done" /\ EmailOf[whom[p]] = e}

HiringInv ==
  /\ HiringTypeOK
  /\ whom = [p \in Promotion |-> whom[p]]
  /\ SuccessesAreEmployees

LEMMA SuccessesFinite ==
  ASSUME NEW e
  PROVE  IsFiniteSet(Successes(e)) /\ Cardinality(Successes(e)) \in Nat
BY HiringAssumption, FS_Subset, FS_CardinalityType DEF Successes

LEMMA HiringInvStarts == HiringInit => HiringInv
<1> SUFFICES ASSUME HiringInit PROVE HiringInv
  OBVIOUS
<1>1. whom = [p \in Promotion |-> whom[p]]
  BY DEF HiringInit
<1>2. HiringTypeOK
  BY DEF HiringInit, HiringTypeOK
<1>3. \A e \in Email : Successes(e) = {}
  BY DEF HiringInit, Successes
<1>4. SuccessesAreEmployees
  BY <1>3, FS_EmptySet DEF HiringInit, SuccessesAreEmployees, Successes
<1> QED BY <1>1, <1>2, <1>4 DEF HiringInv

(* What counts neither successes nor employees anew keeps the equation.          *)
LEMMA SameSuccesses ==
  ASSUME SuccessesAreEmployees, UNCHANGED <<employed, others>>,
         \A p \in Promotion : at'[p] = "done" <=> at[p] = "done",
         \A p \in Promotion : at[p] = "done" => whom'[p] = whom[p]
  PROVE  SuccessesAreEmployees'
<1>1. ASSUME NEW e \in Email
      PROVE  {p \in Promotion : at'[p] = "done" /\ EmailOf[whom'[p]] = e} =
             {p \in Promotion : at[p] = "done" /\ EmailOf[whom[p]] = e}
  OBVIOUS
<1> QED BY <1>1 DEF SuccessesAreEmployees

LEMMA HiringInvKept == HiringInv /\ HiringNext => HiringInv'
<1> SUFFICES ASSUME HiringInv, HiringNext PROVE HiringInv'
  OBVIOUS
<1> USE DEF HiringInv
<1>1. ASSUME NEW c \in Candidate, Apply(c) PROVE HiringInv'
  BY <1>1, SameSuccesses DEF Apply, HiringTypeOK, Stage
<1>2. ASSUME NEW c \in Candidate, NEW s \in UsedStage, Move(c, s) PROVE HiringInv'
  BY <1>2, SameSuccesses, HiringAssumption DEF Move, HiringTypeOK
<1>3. ASSUME NEW p \in Promotion, NEW c \in Candidate, NEW auto \in BOOLEAN,
             Check(p, c, auto)
      PROVE  HiringInv'
  <2>1. at'[p] \in {"checked", "refused"} /\ at[p] = "idle"
    BY <1>3 DEF Check, HiringTypeOK
  <2>2. HiringTypeOK'
    BY <1>3, <2>1 DEF Check, HiringTypeOK
  <2>3. SuccessesAreEmployees'
    <3>1. \A q \in Promotion : at'[q] = "done" <=> at[q] = "done"
      BY <1>3, <2>1 DEF Check, HiringTypeOK
    <3>2. \A q \in Promotion : at[q] = "done" => whom'[q] = whom[q]
      BY <1>3, <2>1 DEF Check
    <3>3. UNCHANGED <<employed, others>>
      BY <1>3 DEF Check
    <3> QED BY <3>1, <3>2, <3>3, SameSuccesses
  <2> QED BY <1>3, <2>2, <2>3 DEF Check
<1>4. ASSUME NEW p \in Promotion, Promote(p) PROVE HiringInv'
  <2> DEFINE mail == EmailOf[whom[p]]
  <2>1. whom[p] \in Candidate /\ mail \in Email /\ mail \notin employed
    BY <1>4, HiringAssumption DEF Promote, HiringTypeOK
  <2>2. HiringTypeOK'
    BY <1>4, <2>1 DEF Promote, HiringTypeOK, Stage
  <2>3. ASSUME NEW e \in Email
        PROVE  Cardinality(Successes(e)') = others[e] + (IF e \in employed' THEN 1 ELSE 0)
    <3>1. Cardinality(Successes(e)) = others[e] + (IF e \in employed THEN 1 ELSE 0)
      BY DEF SuccessesAreEmployees, Successes
    <3>2. CASE e = mail
      <4>1. p \notin Successes(e) /\ Successes(e)' = Successes(e) \cup {p}
        BY <1>4, <3>2 DEF Promote, Successes, HiringTypeOK
      <4>2. Cardinality(Successes(e)') = Cardinality(Successes(e)) + 1
        BY <4>1, SuccessesFinite, FS_AddElement
      <4>3. e \notin employed /\ e \in employed' /\ others[e] \in Int
        BY <1>4, <2>1, <3>2 DEF Promote, HiringTypeOK
      <4> QED BY <3>1, <4>2, <4>3
    <3>3. CASE e # mail
      <4>1. Successes(e)' = Successes(e)
        BY <1>4, <3>3 DEF Promote, Successes, HiringTypeOK
      <4>2. e \in employed' <=> e \in employed
        BY <1>4, <3>3 DEF Promote
      <4> QED BY <3>1, <4>1, <4>2
    <3> QED BY <3>2, <3>3
  <2>4. SuccessesAreEmployees'
    BY <1>4, <2>3 DEF Promote, SuccessesAreEmployees, Successes
  <2> QED BY <1>4, <2>2, <2>4 DEF Promote
<1>5. ASSUME NEW p \in Promotion, Refuse(p) PROVE HiringInv'
  BY <1>5, SameSuccesses DEF Refuse, HiringTypeOK
<1>6. ASSUME NEW e \in Email, Enroll(e) \/ Delete(e) PROVE HiringInv'
  <2>1. HiringTypeOK'
    BY <1>6 DEF Enroll, Delete, HiringTypeOK
  <2>2. ASSUME NEW f \in Email
        PROVE  Cardinality(Successes(f)) = others'[f] + (IF f \in employed' THEN 1 ELSE 0)
    <3>1. Cardinality(Successes(f)) = others[f] + (IF f \in employed THEN 1 ELSE 0)
      BY DEF SuccessesAreEmployees, Successes
    <3> QED BY <1>6, <3>1 DEF Enroll, Delete, HiringTypeOK
  <2>3. SuccessesAreEmployees'
    BY <1>6, <2>2 DEF Enroll, Delete, SuccessesAreEmployees, Successes
  <2> QED BY <1>6, <2>1, <2>3 DEF Enroll, Delete
<1> QED BY <1>1, <1>2, <1>3, <1>4, <1>5, <1>6 DEF HiringNext

-------------------------------------------------------------------------------
(* Checklists.  A toggle that is not stale has read what the checklist shows, and *)
(* only a tool completes a checklist under its eyes.                             *)
ListInv ==
  /\ ListTypeOK
  /\ \A q \in Visit :
       /\ visit[q].what \in {"toggle", "mark"} => visit[q].list \in DOMAIN lists
       /\ visit[q].what = "toggle" /\ ~visit[q].stale =>
            LET w == visit[q].list IN
            /\ visit[q].saw = lists[w].ticked
            /\ lists[w].status = "in_progress" \/ w \in byAgent
  /\ \A w \in 1 .. MaxLists : w > Len(lists) => asked[w] = {}
  /\ TicksKept

(* What the fields of a visit are.                                               *)
LEMMA VisitFields ==
  ASSUME ListTypeOK, NEW q \in Visit
  PROVE  /\ visit[q].what \in {"toggle", "mark"} =>
              /\ visit[q].list \in 1 .. MaxLists /\ visit[q].step \in Step
              /\ visit[q].saw \in SUBSET Step
         /\ visit[q].what = "toggle" => visit[q].stale \in BOOLEAN
<1>1. visit[q] \in Visits
  BY DEF ListTypeOK
<1> QED BY <1>1 DEF Visits, Away

LEMMA ListInvStarts == ListInit => ListInv
<1> SUFFICES ASSUME ListInit PROVE ListInv
  OBVIOUS
<1>1. ListTypeOK
  BY ChecklistAssumption DEF ListInit, ListTypeOK, Visits
<1>2. \A q \in Visit : visit[q].what = "away"
  BY DEF ListInit, Away
<1>3. DOMAIN lists = {}
  BY DEF ListInit
<1> QED BY <1>1, <1>2, <1>3 DEF ListInit, ListInv, TicksKept

(* A checklist that is started disturbs nobody.                                  *)
LEMMA StartKeeps ==
  ASSUME ListInv, Len(lists) < MaxLists, lists' = Started,
         visit' \in [Visit -> Visits], UNCHANGED <<asked, told, torn, byAgent>>,
         \A q \in Visit : visit'[q] = visit[q] \/ visit'[q] = Away
  PROVE  ListInv'
<1>1. /\ lists \in Seq(Checklist) /\ Len(lists) \in Nat /\ MaxLists \in Nat
      /\ [status |-> "in_progress", ticked |-> {}] \in Checklist
  BY ChecklistAssumption DEF ListInv, ListTypeOK, Checklist
<1>2. /\ lists' \in Seq(Checklist) /\ Len(lists') = Len(lists) + 1
      /\ DOMAIN lists = 1 .. Len(lists) /\ DOMAIN lists' = 1 .. Len(lists')
      /\ \A w \in DOMAIN lists : lists'[w] = lists[w]
      /\ lists'[Len(lists) + 1] = [status |-> "in_progress", ticked |-> {}]
  BY <1>1 DEF Started
<1>3. ListTypeOK'
  BY <1>1, <1>2 DEF ListInv, ListTypeOK
<1>4. ASSUME NEW q \in Visit, visit'[q].what \in {"toggle", "mark"}
      PROVE  visit'[q] = visit[q] /\ visit[q].list \in DOMAIN lists
  BY <1>4 DEF ListInv, Away
<1>5. \A q \in Visit :
        visit'[q].what \in {"toggle", "mark"} => visit'[q].list \in DOMAIN lists'
  BY <1>1, <1>2, <1>4
<1>6. ASSUME NEW q \in Visit, visit'[q].what = "toggle", ~visit'[q].stale
      PROVE  LET w == visit'[q].list IN
             /\ visit'[q].saw = lists'[w].ticked
             /\ lists'[w].status = "in_progress" \/ w \in byAgent'
  BY <1>2, <1>4, <1>6 DEF ListInv
<1>7. \A w \in 1 .. MaxLists : w > Len(lists') => asked'[w] = {}
  BY <1>1, <1>2 DEF ListInv
<1>8. ASSUME NEW w \in DOMAIN lists', w \notin torn'
      PROVE  /\ \A s \in Step \ told'[w] : s \in lists'[w].ticked <=> s \in asked'[w]
             /\ lists'[w].status = "completed" /\ w \notin byAgent' =>
                  lists'[w].ticked = Step
  <2>1. CASE w \in DOMAIN lists
    BY <1>2, <1>8, <2>1 DEF ListInv, TicksKept
  <2>2. CASE w = Len(lists) + 1
    <3>1. w \in 1 .. MaxLists /\ w > Len(lists)
      BY <1>1, <2>2
    <3>2. asked[w] = {}
      BY <3>1 DEF ListInv
    <3> QED BY <1>2, <2>2, <3>2
  <2> QED BY <1>1, <1>2, <2>1, <2>2
<1> QED BY <1>3, <1>5, <1>6, <1>7, <1>8 DEF ListInv, TicksKept

(* A visit that loads, or leaves, changes no checklist.                          *)
LEMMA VisitKeeps ==
  ASSUME ListInv, UNCHANGED <<lists, asked, told, torn, byAgent>>,
         NEW q \in Visit, NEW v \in Visits, visit' = [visit EXCEPT ![q] = v],
         v.what \in {"toggle", "mark"} => v.list \in DOMAIN lists,
         v.what = "toggle" /\ ~v.stale =>
           /\ v.saw = lists[v.list].ticked
           /\ lists[v.list].status = "in_progress" \/ v.list \in byAgent
  PROVE  ListInv'
<1>1. ListTypeOK'
  BY DEF ListInv, ListTypeOK
<1>2. \A p \in Visit : visit'[p] = IF p = q THEN v ELSE visit[p]
  BY DEF ListInv, ListTypeOK
<1>3. TicksKept'
  BY DEF ListInv, TicksKept
<1> QED BY <1>1, <1>2, <1>3 DEF ListInv

LEMMA ListInvKept == ListInv /\ ListNext => ListInv'
<1> SUFFICES ASSUME ListInv, ListNext PROVE ListInv'
  OBVIOUS
<1>0. ListTypeOK /\ visit \in [Visit -> Visits] /\ Away \in Visits
  BY DEF ListInv, ListTypeOK, Visits
<1>1. ASSUME Assign PROVE ListInv'
  BY <1>0, <1>1, StartKeeps DEF Assign
<1>2. ASSUME NEW q \in Visit, LookForActive(q) PROVE ListInv'
  <2> DEFINE v == [what |-> "start"]
  <2>1. v \in Visits /\ v.what = "start" /\ visit' = [visit EXCEPT ![q] = v]
    BY <1>2 DEF LookForActive, Visits
  <2>2. UNCHANGED <<lists, asked, told, torn, byAgent>>
    BY <1>2 DEF LookForActive
  <2> HIDE DEF v
  <2> QED BY <2>1, <2>2, VisitKeeps
<1>3. ASSUME NEW q \in Visit, Trigger(q) PROVE ListInv'
  BY <1>0, <1>3, StartKeeps DEF Trigger
<1>4. ASSUME NEW q \in Visit, NEW w \in 1 .. MaxLists, NEW s \in Step, LoadList(q, w, s)
      PROVE  ListInv'
  <2> DEFINE v == [what |-> "toggle", list |-> w, step |-> s, saw |-> lists[w].ticked,
                   stale |-> FALSE]
  <2>1. w \in DOMAIN lists /\ lists[w].status = "in_progress"
    BY <1>4 DEF LoadList, Newest, Active
  <2>2. lists[w] \in Checklist
    BY <1>0, <2>1 DEF ListTypeOK
  <2>3. v \in Visits
    BY <2>2 DEF Visits, Checklist
  <2>4. /\ visit' = [visit EXCEPT ![q] = v] /\ UNCHANGED <<lists, asked, told, torn, byAgent>>
    BY <1>4 DEF LoadList
  <2>5. v.list = w /\ v.saw = lists[w].ticked
    OBVIOUS
  <2> HIDE DEF v
  <2> QED BY <2>1, <2>3, <2>4, <2>5, VisitKeeps
<1>5. ASSUME NEW q \in Visit, NEW w \in 1 .. MaxLists, NEW s \in Step, LoadStep(q, w, s)
      PROVE  ListInv'
  <2>a. PICK saw \in Found(q, w) :
               visit' = [visit EXCEPT ![q] =
                           [what |-> "mark", list |-> w, step |-> s, saw |-> saw]]
    BY <1>5 DEF LoadStep
  <2> DEFINE v == [what |-> "mark", list |-> w, step |-> s, saw |-> saw]
  <2>1. w \in DOMAIN lists
    BY <1>5 DEF LoadStep
  <2>2. lists[w] \in Checklist
    BY <1>0, <2>1 DEF ListTypeOK
  <2>b. visit[q].what = "kept" => visit[q].saw \in SUBSET Step
    BY <1>0 DEF Visits, Away
  <2>c. saw \in SUBSET Step
    BY <2>2, <2>b DEF Found, Checklist
  <2>3. v \in Visits
    BY <2>c DEF Visits
  <2>4. /\ visit' = [visit EXCEPT ![q] = v] /\ UNCHANGED <<lists, asked, told, torn, byAgent>>
    BY <1>5, <2>a DEF LoadStep
  <2>5. v.list = w /\ v.what = "mark"
    OBVIOUS
  <2> HIDE DEF v
  <2> QED BY <2>1, <2>3, <2>4, <2>5, VisitKeeps
<1>6. ASSUME NEW q \in Visit, Toggle(q) PROVE ListInv'
  <2> DEFINE w == visit[q].list
             ticked == Toggled(visit[q].saw, visit[q].step)
             row == [lists[w] EXCEPT !.ticked = ticked,
                       !.status = IF ticked = Step THEN "completed" ELSE lists[w].status]
  <2>1. /\ visit[q].what = "toggle" /\ w \in DOMAIN lists /\ w \in 1 .. MaxLists
        /\ ticked \in SUBSET Step /\ visit[q].step \in Step
    BY <1>0, <1>6, VisitFields DEF Toggle, ListInv, Toggled
  <2>2. lists[w] \in Checklist /\ lists \in Seq(Checklist)
    BY <1>0, <2>1 DEF ListTypeOK
  <2>3. /\ row \in Checklist /\ row.ticked = ticked
        /\ row.status = IF ticked = Step THEN "completed" ELSE lists[w].status
    BY <2>1, <2>2 DEF Checklist
  <2>4. /\ lists' = [lists EXCEPT ![w] = row]
        /\ asked' = [asked EXCEPT ![w] = Toggled(asked[w], visit[q].step)]
        /\ torn' = IF visit[q].stale THEN torn \cup {w} ELSE torn
        /\ byAgent' = byAgent /\ told' = told
    BY <1>6 DEF Toggle
  <2>5. \A p \in Visit : visit'[p] =
          IF p = q THEN Away
          ELSE IF visit[p].what = "toggle" /\ visit[p].list = w
               THEN [visit[p] EXCEPT !.stale = TRUE] ELSE visit[p]
    BY <1>6 DEF Toggle
  <2>6. visit' \in [Visit -> Visits]
    <3>1. ASSUME NEW p \in Visit PROVE visit'[p] \in Visits
      BY <1>0, <2>5 DEF Visits, Away
    <3>2. visit' = [p \in Visit |-> visit'[p]]
      BY <1>6 DEF Toggle
    <3> QED BY <3>1, <3>2
  <2>7. /\ lists' \in Seq(Checklist) /\ Len(lists') = Len(lists)
        /\ DOMAIN lists' = DOMAIN lists /\ lists'[w] = row
        /\ \A x \in DOMAIN lists : x # w => lists'[x] = lists[x]
    <3> HIDE DEF row
    <3> QED BY <2>1, <2>2, <2>3, <2>4
  <2>8. Toggled(asked[w], visit[q].step) \in SUBSET Step
    BY <1>0, <2>1 DEF ListTypeOK, Toggled
  <2>9. ListTypeOK'
    BY <1>0, <2>1, <2>4, <2>6, <2>7, <2>8 DEF ListTypeOK
  <2>10. ASSUME NEW p \in Visit, visit'[p].what \in {"toggle", "mark"}
         PROVE  /\ visit'[p].list \in DOMAIN lists'
                /\ visit'[p].what = "toggle" /\ ~visit'[p].stale =>
                     LET x == visit'[p].list IN
                     /\ visit'[p].saw = lists'[x].ticked
                     /\ lists'[x].status = "in_progress" \/ x \in byAgent'
    <3>1. p # q
      <4>1. visit'[q] = Away
        BY <2>5
      <4>2. Away.what = "away"
        BY DEF Away
      <4> QED BY <2>10, <4>1, <4>2
    <3>2. CASE visit[p].what = "toggle" /\ visit[p].list = w
      <4>1. visit[p] \in Visits
        BY <1>0
      <4>2. visit'[p] = [visit[p] EXCEPT !.stale = TRUE]
        BY <2>5, <3>1, <3>2
      <4>3. visit'[p].stale = TRUE /\ visit'[p].list = visit[p].list
        BY <3>2, <4>1, <4>2 DEF Visits, Away
      <4> QED BY <2>1, <2>7, <3>2, <4>3
    <3>3. CASE ~(visit[p].what = "toggle" /\ visit[p].list = w)
      <4>1. visit'[p] = visit[p]
        BY <2>5, <3>1, <3>3
      <4> QED BY <2>4, <2>7, <2>10, <3>3, <4>1 DEF ListInv
    <3> QED BY <3>2, <3>3
  <2>11. \A x \in 1 .. MaxLists : x > Len(lists') => asked'[x] = {}
    <3>1. w <= Len(lists)
      BY <2>1, <2>2
    <3> QED BY <1>0, <2>1, <2>2, <2>4, <2>7, <3>1 DEF ListInv, ListTypeOK
  <2>12. ASSUME NEW x \in DOMAIN lists', x \notin torn'
         PROVE  /\ \A s \in Step \ told'[x] : s \in lists'[x].ticked <=> s \in asked'[x]
                /\ lists'[x].status = "completed" /\ x \notin byAgent' =>
                     lists'[x].ticked = Step
    <3>1. x \notin torn /\ x \in DOMAIN lists /\ x \in 1 .. MaxLists
      <4>1. x \notin torn
        BY <2>4, <2>12
      <4>2. x \in 1 .. Len(lists) /\ Len(lists) \in Nat /\ Len(lists) <= MaxLists
        BY <1>0, <2>2, <2>7, <2>12 DEF ListTypeOK
      <4> QED BY <2>7, <2>12, <4>1, <4>2, ChecklistAssumption
    <3>2. \A s \in Step \ told[x] : s \in lists[x].ticked <=> s \in asked[x]
      BY <3>1 DEF ListInv, TicksKept
    <3>3. CASE x # w
      BY <1>0, <2>4, <2>7, <3>1, <3>3 DEF ListInv, TicksKept, ListTypeOK
    <3>4. CASE x = w
      <4>1. ~visit[q].stale
        BY <2>4, <2>12, <3>4
      <4>2. visit[q].saw = lists[w].ticked /\ (lists[w].status = "in_progress" \/ w \in byAgent)
        BY <2>1, <4>1 DEF ListInv
      <4>3. asked'[w] = Toggled(asked[w], visit[q].step)
        BY <1>0, <2>1, <2>4 DEF ListTypeOK
      <4>4. \A s \in Step \ told[w] : s \in ticked <=> s \in asked'[w]
        BY <3>2, <3>4, <4>2, <4>3 DEF Toggled
      <4> HIDE DEF row, ticked
      <4> QED BY <2>3, <2>4, <2>7, <3>4, <4>2, <4>4
    <3> QED BY <3>3, <3>4
  <2> QED BY <2>9, <2>10, <2>11, <2>12 DEF ListInv, TicksKept
<1>7. ASSUME NEW q \in Visit, MarkStep(q) PROVE ListInv'
  <2> DEFINE w == visit[q].list
             marked == visit[q].saw \cup {visit[q].step}
             done == marked = Step
             kept == [what |-> "kept", list |-> w, saw |-> marked]
             row == [lists[w] EXCEPT !.status = IF done THEN "completed" ELSE lists[w].status]
  <2>1. /\ visit[q].what = "mark" /\ w \in DOMAIN lists /\ w \in 1 .. MaxLists
        /\ visit[q].step \in Step /\ marked \in SUBSET Step
    BY <1>0, <1>7, VisitFields DEF MarkStep, ListInv
  <2>2. lists[w] \in Checklist /\ lists \in Seq(Checklist)
    BY <1>0, <2>1 DEF ListTypeOK
  <2>3. /\ row \in Checklist /\ row.ticked = lists[w].ticked
        /\ row.status = IF done THEN "completed" ELSE lists[w].status
    BY <2>2 DEF Checklist
  <2>4. /\ lists' = [lists EXCEPT ![w] = row] /\ torn' = torn
        /\ byAgent' = IF done THEN byAgent \cup {w} ELSE byAgent
        /\ asked' = [asked EXCEPT ![w] = asked[w] \cup {visit[q].step}]
        /\ told' = [told EXCEPT ![w] = told[w] \cup {visit[q].step}]
    BY <1>7 DEF MarkStep
  <2>a. PICK v \in {Away, kept} : visit' = [visit EXCEPT ![q] = v]
    BY <1>7 DEF MarkStep
  <2>b. v \in Visits /\ v.what \notin {"toggle", "mark"}
    BY <2>1 DEF Visits, Away
  <2>5. /\ lists' \in Seq(Checklist) /\ Len(lists') = Len(lists)
        /\ DOMAIN lists' = DOMAIN lists /\ lists'[w] = row
        /\ \A x \in DOMAIN lists : x # w => lists'[x] = lists[x]
    <3> HIDE DEF row
    <3> QED BY <2>1, <2>2, <2>3, <2>4
  <2>6. ListTypeOK'
    <3> HIDE DEF row, done, marked, kept
    <3> QED BY <1>0, <2>1, <2>4, <2>5, <2>a, <2>b DEF ListTypeOK
  <2>7. ASSUME NEW p \in Visit, visit'[p].what \in {"toggle", "mark"}
        PROVE  visit'[p] = visit[p] /\ visit[p].list \in DOMAIN lists'
    <3>1. visit'[p] = IF p = q THEN v ELSE visit[p]
      BY <1>0, <2>a
    <3> QED BY <2>5, <2>7, <2>b, <3>1 DEF ListInv
  <2>8. \A x \in DOMAIN lists :
          /\ lists'[x].ticked = lists[x].ticked
          /\ x \in byAgent => x \in byAgent'
          /\ lists'[x].status = lists[x].status \/ x \in byAgent'
    <3> HIDE DEF row, done
    <3> QED BY <2>3, <2>4, <2>5
  <2>9. ASSUME NEW p \in Visit, visit'[p].what = "toggle", ~visit'[p].stale
        PROVE  LET x == visit'[p].list IN
               /\ visit'[p].saw = lists'[x].ticked
               /\ lists'[x].status = "in_progress" \/ x \in byAgent'
    BY <2>5, <2>7, <2>8, <2>9 DEF ListInv
  <2>10. TicksKept'
    <3>1. \A x \in 1 .. MaxLists : \A s \in Step \ told'[x] :
            s \notin told[x] /\ (s \in asked'[x] <=> s \in asked[x])
      BY <1>0, <2>1, <2>4 DEF ListTypeOK
    <3>2. DOMAIN lists' \subseteq 1 .. MaxLists
      <4>1. Len(lists) \in Nat /\ Len(lists) <= MaxLists /\ DOMAIN lists = 1 .. Len(lists)
        BY <1>0, <2>2 DEF ListTypeOK
      <4> QED BY <2>5, <4>1, ChecklistAssumption
    <3> HIDE DEF row, done, marked
    <3> QED BY <2>4, <2>5, <2>8, <3>1, <3>2 DEF ListInv, TicksKept
  <2>11. \A x \in 1 .. MaxLists : x > Len(lists') => asked'[x] = {}
    <3>1. w <= Len(lists)
      BY <2>1, <2>2
    <3> QED BY <1>0, <2>1, <2>2, <2>4, <2>5, <3>1 DEF ListInv, ListTypeOK
  <2>12. \A p \in Visit :
           visit'[p].what \in {"toggle", "mark"} => visit'[p].list \in DOMAIN lists'
    BY <2>7
  <2> QED BY <2>6, <2>9, <2>10, <2>11, <2>12 DEF ListInv
<1> QED BY <1>1, <1>2, <1>3, <1>4, <1>5, <1>6, <1>7 DEF ListNext

-------------------------------------------------------------------------------
(* Training.  A validation that a session found is there to stay.                 *)
ValidationsStay == \A s \in Session : met[s] # Unjudged => verdict # Unjudged

(* What a session holds is what is committed, but for what was rounded up.         *)
Close(s) ==
  \A f \in Rule :
    mine[s][f] = enrollment[f] \/ (f \in raised[s] /\ mine[s][f] <= enrollment[f])

(* As long as no other commit crosses it, but for the columns it has yet to write. *)
TrainingInv ==
  /\ TrainingTypeOK
  /\ ValidationsStay
  /\ VerdictCurrent
  /\ \A s \in Session : ~crossed[s] =>
       /\ place[s] \in {"scorm", "xapi"} =>
            \A f \in Rule \ unsaved[s] : enrollment[f] = mine[s][f]
       /\ place[s] \in {"judge", "judged"} => Close(s)
       /\ place[s] = "judged" => met[s] = verdict

LEMMA EnrolledTyped == Enrolled \in Enrollment
BY DEF Enrolled, Enrollment, Level

LEMMA JudgedTyped ==
  ASSUME NEW ok PROVE Judged(ok) \in Verdict
BY DEF Judged, Verdict

LEMMA VerdictsDiffer == Unjudged \notin Verdict
<1> "overall" \in Mark
  BY DEF Mark
<1> QED BY DEF Verdict, Unjudged

LEMMA EnrollmentExt ==
  ASSUME NEW a \in Enrollment, NEW b \in Enrollment, \A f \in Rule : a[f] = b[f]
  PROVE  a = b
BY DEF Enrollment

(* A verdict on an enrollment, in which some columns may be judged too low.        *)
Tells(v, e, low) ==
  LET reached == {f \in Rule : e[f] >= 1} IN
  \E missed \in SUBSET (low \cap reached) : v = Judged(reached \ missed)

(* The judgement of what a session holds is one of what it is close to.           *)
LEMMA CloseTells ==
  ASSUME TrainingTypeOK, NEW s \in Session, Close(s)
  PROVE  Tells(Judgement(mine[s]), enrollment, raised[s])
<1> DEFINE own == {f \in Rule : mine[s][f] >= 1}
           reached == {f \in Rule : enrollment[f] >= 1}
<1>1. \A f \in Rule : mine[s][f] \in Nat /\ enrollment[f] \in Nat
  BY DEF TrainingTypeOK, Enrollment
<1>2. own \subseteq reached /\ reached \ own \subseteq raised[s]
  BY <1>1 DEF Close
<1>3. Judgement(mine[s]) = Judged(own)
  BY DEF Judgement
<1> HIDE DEF own, reached
<1>4. own = reached \ (reached \ own) /\ reached \ own \in SUBSET (raised[s] \cap reached)
  BY <1>2
<1>5. \E missed \in SUBSET (raised[s] \cap reached) : Judgement(mine[s]) = Judged(reached \ missed)
  BY <1>3, <1>4
<1> QED BY <1>5 DEF Tells, reached

LEMMA TrainingInvStarts == TrainingInit => TrainingInv
BY EnrolledTyped DEF TrainingInit, TrainingInv, TrainingTypeOK, ValidationsStay, VerdictCurrent

LEMMA TrainingTypeKept ==
  TrainingTypeOK /\ ValidationsStay /\ TrainingNext => TrainingTypeOK' /\ ValidationsStay'
<1> SUFFICES ASSUME TrainingTypeOK, ValidationsStay, TrainingNext
             PROVE  TrainingTypeOK' /\ ValidationsStay'
  OBVIOUS
<1> USE EnrolledTyped, VerdictsDiffer DEF TrainingTypeOK, ValidationsStay
<1>c. CASE EditCourse
  <2>1. "duration" \in Rule /\ 0 .. 1 = Level("duration")
    BY DEF Rule, Level
  <2>2. \A r \in Enrollment : \A d \in Level("duration") :
          [r EXCEPT !["duration"] = d] \in Enrollment
    BY <2>1 DEF Enrollment
  <2>a. PICK d \in Level("duration") : enrollment' = [enrollment EXCEPT !["duration"] = d]
    BY <1>c DEF EditCourse
  <2>3. enrollment' \in Enrollment
    BY <2>2, <2>a
  <2>4. mine' \in [Session -> Enrollment]
    BY <1>c, <2>2 DEF EditCourse
  <2> QED BY <1>c, <2>3, <2>4 DEF EditCourse
<1> SUFFICES ASSUME NEW s \in Session,
      \/ \E kind \in {"scorm", "xapi"}, row \in Enrollment : Report(s, kind, row)
      \/ \E kind \in {"judge", "tool"} : Inspect(s, kind)
      \/ SaveEnrollment(s) \/ FindVerdict(s) \/ StoreVerdict(s) \/ StoreToolVerdict(s)
      \/ Leave(s)
             PROVE TrainingTypeOK' /\ ValidationsStay'
  BY <1>c DEF TrainingNext
<1>1. CASE \E kind \in {"scorm", "xapi"}, row \in Enrollment : Report(s, kind, row)
  <2> PICK kind \in {"scorm", "xapi"}, row \in Enrollment : Report(s, kind, row)
    BY <1>1
  <2>1. \E differ \in SUBSET Rule : unsaved' = [unsaved EXCEPT ![s] = differ]
    BY TrainingAssumption DEF Report
  <2> QED BY <2>1 DEF Report
<1>2. CASE \E kind \in {"judge", "tool"} : Inspect(s, kind)
  BY <1>2 DEF Inspect
<1>3. CASE SaveEnrollment(s)
  <2> PICK up \in SUBSET MayRaise(s) :
         /\ enrollment' = [f \in Rule |-> IF f \in up THEN mine[s][f] + 1
                                        ELSE IF f \in unsaved[s] THEN mine[s][f]
                                        ELSE enrollment[f]]
         /\ IF place[s] = "xapi"
            THEN place' = [place EXCEPT ![s] = "ended"] /\ Forget(s)
            ELSE /\ place' = [place EXCEPT ![s] = "judge"]
                 /\ raised' = [raised EXCEPT ![s] = up]
                 /\ UNCHANGED <<mine, unsaved, met>>
    BY <1>3 DEF SaveEnrollment
  <2>1. up \subseteq Rounded /\ \A f \in up : mine[s][f] + 1 \in Level(f)
    BY DEF MayRaise
  <2>2. ASSUME NEW f \in Rule PROVE enrollment'[f] \in Level(f)
    BY <2>1 DEF Enrollment
  <2>3. \A f \in Rule : Level(f) \subseteq 0 .. 2
    BY DEF Level
  <2>4. enrollment' \in Enrollment
    <3>1. enrollment' = [f \in Rule |-> enrollment'[f]]
      OBVIOUS
    <3>2. enrollment' \in [Rule -> 0 .. 2]
      BY <2>2, <2>3, <3>1
    <3> QED BY <2>2, <3>2 DEF Enrollment
  <2>5. raised' \in [Session -> SUBSET Rounded]
    BY <2>1 DEF Forget
  <2>6. /\ place' \in [Session -> {"idle", "scorm", "xapi", "judge", "tool", "judged",
                                   "tooled", "ended"}]
        /\ mine' \in [Session -> Enrollment]
        /\ unsaved' \in [Session -> SUBSET Rule]
        /\ met' \in [Session -> Verdict \cup {Unjudged}]
    BY DEF Forget
  <2>7. /\ crossed' \in [Session -> BOOLEAN] /\ fresh' \in BOOLEAN
        /\ UNCHANGED <<verdict, excused>>
    BY <1>3 DEF SaveEnrollment, Cross
  <2>8. \A o \in Session : met'[o] = met[o] \/ met'[o] = Unjudged
    BY DEF Forget
  <2> QED BY <2>4, <2>5, <2>6, <2>7, <2>8
<1>4. CASE FindVerdict(s)
  BY <1>4 DEF FindVerdict
<1>5. CASE StoreVerdict(s)
  <2>1. Judgement(mine[s]) \in Verdict
    BY JudgedTyped DEF Judgement
  <2>2. verdict' \in Verdict
    <3> DEFINE J == Judgement(mine[s])
    <3> HIDE DEF J
    <3>1. J \in Verdict
      BY <2>1 DEF J
    <3>2. verdict' = [c \in Mark |-> IF J[c] = met[s][c] THEN verdict[c] ELSE J[c]]
      BY <1>5 DEF StoreVerdict, J
    <3>3. CASE verdict \in Verdict
      BY <3>1, <3>2, <3>3 DEF Verdict
    <3>4. CASE verdict = Unjudged
      <4>1. \A c \in Mark : met[s][c] = "none" /\ J[c] \in {"valid", "invalid"}
        BY <3>1, <3>4 DEF Verdict, Unjudged
      <4> QED BY <3>2, <4>1 DEF Verdict
    <3> QED BY <3>3, <3>4
  <2> QED BY <1>5, <2>2 DEF StoreVerdict, Cross, Forget
<1>6. CASE StoreToolVerdict(s)
  <2>1. verdict' \in Verdict
    BY <1>6, JudgedTyped DEF StoreToolVerdict, ToolJudgement
  <2> QED BY <1>6, <2>1 DEF StoreToolVerdict, Cross, Forget
<1>7. CASE Leave(s)
  BY <1>7 DEF Leave, Forget
<1> QED BY <1>1, <1>2, <1>3, <1>4, <1>5, <1>6, <1>7

LEMMA TrainingInvKept == TrainingInv /\ TrainingNext => TrainingInv'
<1> SUFFICES ASSUME TrainingInv, TrainingNext PROVE TrainingInv'
  OBVIOUS
<1>0. TrainingTypeOK /\ TrainingTypeOK' /\ ValidationsStay'
  BY TrainingTypeKept DEF TrainingInv
<1> DEFINE Goal ==
      /\ fresh' => Tells(verdict', enrollment', excused')
      /\ \A o \in Session : ~crossed'[o] =>
           /\ place'[o] \in {"scorm", "xapi"} =>
                \A f \in Rule \ unsaved'[o] : enrollment'[f] = mine'[o][f]
           /\ place'[o] \in {"judge", "judged"} => Close(o)'
           /\ place'[o] = "judged" => met'[o] = verdict'
<1> SUFFICES Goal
  <2>1. (fresh' => Tells(verdict', enrollment', excused')) => VerdictCurrent'
    BY DEF VerdictCurrent, Tells
  <2> QED BY <1>0, <2>1 DEF TrainingInv
<1>t. fresh => Tells(verdict, enrollment, excused)
  BY DEF TrainingInv, VerdictCurrent, Tells
<1>c. CASE EditCourse
  <2>1. \A o \in Session : ~crossed'[o] => place'[o] \in {"idle", "ended"}
    BY <1>c DEF EditCourse
  <2>2. ~fresh'
    BY <1>c DEF EditCourse
  <2> QED BY <2>1, <2>2
<1> SUFFICES ASSUME NEW s \in Session,
      \/ \E kind \in {"scorm", "xapi"}, row \in Enrollment : Report(s, kind, row)
      \/ \E kind \in {"judge", "tool"} : Inspect(s, kind)
      \/ SaveEnrollment(s) \/ FindVerdict(s) \/ StoreVerdict(s) \/ StoreToolVerdict(s)
      \/ Leave(s)
             PROVE Goal
  BY <1>c DEF TrainingNext
<1> USE <1>0, <1>t DEF TrainingInv, TrainingTypeOK
<1>1. CASE \E kind \in {"scorm", "xapi"}, row \in Enrollment : Report(s, kind, row)
  <2> PICK kind \in {"scorm", "xapi"}, row \in Enrollment : Report(s, kind, row)
    BY <1>1
  <2> PICK named \in SUBSET Reported :
        /\ \A f \in Rule \ named : row[f] = enrollment[f]
        /\ \E differ \in SUBSET named :
             /\ \A f \in named \ differ : row[f] = enrollment[f]
             /\ unsaved' = [unsaved EXCEPT ![s] = differ]
    BY DEF Report
  <2>1. \A f \in Rule \ unsaved'[s] : row[f] = enrollment[f]
    OBVIOUS
  <2>2. \A o \in Session : o # s /\ Close(o) => Close(o)'
    BY DEF Report, Close
  <2> QED BY <2>1, <2>2 DEF Report
<1>2. CASE \E kind \in {"judge", "tool"} : Inspect(s, kind)
  <2>1. \A o \in Session : o # s /\ Close(o) => Close(o)'
    BY <1>2 DEF Inspect, Close
  <2>2. Close(s)'
    BY <1>2 DEF Inspect, Close
  <2> QED BY <1>2, <2>1, <2>2 DEF Inspect
<1>3. CASE SaveEnrollment(s)
  <2> PICK up \in SUBSET MayRaise(s) :
         /\ enrollment' = [f \in Rule |-> IF f \in up THEN mine[s][f] + 1
                                        ELSE IF f \in unsaved[s] THEN mine[s][f]
                                        ELSE enrollment[f]]
         /\ IF place[s] = "xapi"
            THEN place' = [place EXCEPT ![s] = "ended"] /\ Forget(s)
            ELSE /\ place' = [place EXCEPT ![s] = "judge"]
                 /\ raised' = [raised EXCEPT ![s] = up]
                 /\ UNCHANGED <<mine, unsaved, met>>
    BY <1>3 DEF SaveEnrollment
  <2>1. fresh' => Tells(verdict', enrollment', excused')
    <3>1. unsaved[s] = {} => enrollment' = enrollment
      <4> SUFFICES ASSUME unsaved[s] = {} PROVE enrollment' = enrollment
        OBVIOUS
      <4>1. up = {}
        BY DEF MayRaise
      <4>2. \A f \in Rule : enrollment'[f] = enrollment[f]
        BY <4>1
      <4> QED BY <4>2, EnrollmentExt
    <3> QED BY <1>3, <3>1 DEF SaveEnrollment
  <2>2. place[s] = "scorm" /\ ~crossed[s] => Close(s)'
    <3> SUFFICES ASSUME place[s] = "scorm", ~crossed[s], NEW f \in Rule
                 PROVE  mine'[s][f] = enrollment'[f]
                          \/ (f \in raised'[s] /\ mine'[s][f] <= enrollment'[f])
      BY DEF Close
    <3>1. mine'[s] = mine[s] /\ raised'[s] = up
      OBVIOUS
    <3>2. mine[s][f] \in Nat
      <4>1. mine[s] \in [Rule -> 0 .. 2]
        BY DEF Enrollment
      <4> QED BY <4>1
    <3>3. f \notin unsaved[s] => enrollment[f] = mine[s][f]
      OBVIOUS
    <3>4. CASE f \in up
      BY <3>1, <3>2, <3>4
    <3>5. CASE f \notin up
      BY <3>1, <3>3, <3>5
    <3> QED BY <3>4, <3>5
  <2>3. ASSUME NEW o \in Session, o # s, ~crossed'[o]
        PROVE  place'[o] \in {"idle", "ended"}
    BY <1>3, <2>3 DEF SaveEnrollment, Cross
  <2>4. crossed'[s] = crossed[s] /\ place'[s] \in {"ended", "judge"}
    BY <1>3 DEF SaveEnrollment, Cross
  <2>5. place'[s] = "judge" => place[s] = "scorm"
    BY <1>3 DEF SaveEnrollment
  <2> HIDE DEF Goal
  <2>6. ASSUME NEW o \in Session, ~crossed'[o]
        PROVE  /\ place'[o] \notin {"scorm", "xapi", "judged"}
               /\ place'[o] = "judge" => Close(o)'
    BY <2>2, <2>3, <2>4, <2>5, <2>6
  <2> QED BY <2>1, <2>6 DEF Goal
<1>4. CASE FindVerdict(s)
  <2>1. \A o \in Session : Close(o) => Close(o)'
    BY <1>4 DEF FindVerdict, Close
  <2> QED BY <1>4, <2>1 DEF FindVerdict
<1>5. CASE StoreVerdict(s)
  <2>1. ~crossed[s] => Tells(verdict', enrollment', excused')
    <3> SUFFICES ASSUME ~crossed[s] PROVE verdict' = Judgement(mine[s])
      <4>1. enrollment' = enrollment /\ excused' = raised[s] /\ place[s] = "judged"
        BY <1>5 DEF StoreVerdict
      <4>2. ~crossed[s] => Tells(Judgement(mine[s]), enrollment, raised[s])
        BY <4>1, CloseTells
      <4> QED BY <4>1, <4>2
    <3> DEFINE J == Judgement(mine[s])
    <3>1. J \in Verdict
      BY JudgedTyped DEF Judgement
    <3>2. met[s] = verdict
      BY <1>5 DEF StoreVerdict
    <3>3. verdict' = [c \in Mark |-> IF J[c] = verdict[c] THEN verdict[c] ELSE J[c]]
      BY <1>5, <3>2 DEF StoreVerdict
    <3> HIDE DEF J
    <3>4. verdict' = [c \in Mark |-> J[c]]
      BY <3>3
    <3>5. verdict' = J
      BY <3>1, <3>4 DEF Verdict
    <3> QED BY <3>5 DEF J
  <2>2. ASSUME NEW o \in Session, ~crossed'[o]
        PROVE  place'[o] \in {"idle", "ended"}
    BY <1>5, <2>2 DEF StoreVerdict, Cross
  <2>3. fresh' = ~crossed[s]
    BY <1>5 DEF StoreVerdict
  <2> QED BY <2>1, <2>2, <2>3
<1>6. CASE StoreToolVerdict(s)
  <2>1. ASSUME NEW o \in Session, ~crossed'[o]
        PROVE  place'[o] \in {"idle", "ended"}
    BY <1>6, <2>1 DEF StoreToolVerdict, Cross
  <2> QED BY <1>6, <2>1 DEF StoreToolVerdict
<1>7. CASE Leave(s)
  <2>1. \A o \in Session : o # s /\ Close(o) => Close(o)'
    BY <1>7 DEF Leave, Forget, Close
  <2> QED BY <1>7, <2>1 DEF Leave, Forget
<1> QED BY <1>1, <1>2, <1>3, <1>4, <1>5, <1>6, <1>7

-------------------------------------------------------------------------------
(* Subscriptions.  The tenant after the columns of a delivery.                   *)
After(set) == [f \in Column |-> IF f \in DOMAIN set THEN set[f] ELSE tenant[f]]

(* A delivery that nothing overtook commits what its handler made of the tenant   *)
(* as it is, and its handler would still find the tenant.                        *)
Held(d) ==
  \/ hook[d] = Waiting
  \/ /\ hook[d].what = "handling"
     /\ hook[d].event \in Event /\ Sent(hook[d].event)
     /\ ~overtaken[d] =>
          Finds(hook[d].event) /\ After(hook[d].set) = Handled(hook[d].event)

SubscriptionsInv ==
  /\ DOMAIN tenant = Column /\ tenant = [f \in Column |-> tenant[f]]
  /\ sold \in [Sub -> {"offered", "open", "ended"}]
  /\ newest \in Bought \cup {NoSub}
  /\ DOMAIN hook = Delivery
  /\ overtaken \in [Delivery -> BOOLEAN]
  /\ muddled \in BOOLEAN
  /\ \A d \in Delivery : Held(d)
  /\ PayersKeepTier

LEMMA SubscriptionsInvStarts == SubscriptionsInit => SubscriptionsInv
<1> SUFFICES ASSUME SubscriptionsInit PROVE SubscriptionsInv
  OBVIOUS
<1> USE DEF SubscriptionsInit
<1>1. tenant = [f \in Column |-> tenant[f]]
  BY DEF SignedUp, Column
<1>2. DOMAIN tenant = Column
  BY <1>1
<1>3. \A d \in Delivery : Held(d)
  BY DEF Held
<1>4. PayersKeepTier
  BY DEF PayersKeepTier
<1> QED BY <1>1, <1>2, <1>3, <1>4 DEF SubscriptionsInv

(* Handlers make a row of the columns, and only a completed checkout names        *)
(* another subscription.                                                         *)
LEMMA HandledRow ==
  ASSUME SubscriptionsInv, NEW e \in Event
  PROVE  /\ Handled(e) = [f \in Column |-> Handled(e)[f]]
         /\ e.type = "completed" /\ e.sub # NoSub =>
              Handled(e).sub = e.sub /\ Handled(e).tier = TierOf[e.sub]
         /\ e.type # "completed" \/ e.sub = NoSub => Handled(e).sub = tenant.sub
         /\ e.type = "completed" /\ e.sub = NoSub => Handled(e).tier = tenant.tier
         /\ e.type = "completed" => Handled(e).status = "active"
         /\ e.type = "failed" =>
              Handled(e).tier = tenant.tier /\ Handled(e).status = "past_due"
<1>1. e.type \in {"completed", "failed", "deleted"}
  BY DEF Event
<1>2. CASE e.type = "completed"
  <2>1. Handled(e) = Completed(e)
    BY <1>2 DEF Handled
  <2> QED BY <1>2, <2>1 DEF Completed, Column
<1>3. CASE e.type = "failed"
  <2>1. Handled(e) = [tenant EXCEPT !.status = "past_due"]
    BY <1>3 DEF Handled
  <2> QED BY <1>3, <2>1 DEF SubscriptionsInv, Column
<1>4. CASE e.type = "deleted"
  <2>1. Handled(e) = [tenant EXCEPT !.status = "canceled", !.plan = "none", !.tier = Free]
    BY <1>4 DEF Handled
  <2> QED BY <1>4, <2>1 DEF SubscriptionsInv, Column
<1> QED BY <1>1, <1>2, <1>3, <1>4

(* What may be delivered may be delivered for ever.                              *)
LEMMA SentStays ==
  ASSUME sold \in [Sub -> {"offered", "open", "ended"}],
         \A s \in Sub : sold[s] # "offered" => sold'[s] # "offered",
         \A s \in Sub : sold[s] = "ended" => sold'[s] = "ended",
         NEW e \in Event, Sent(e)
  PROVE  Sent(e)'
<1>1. Bought \subseteq Bought'
  BY DEF Bought
<1>2. e.type \in {"completed", "failed", "deleted"}
  BY DEF Event
<1>3. CASE e.type = "completed"
  BY <1>1, <1>3 DEF Sent
<1>4. CASE e.type = "failed"
  BY <1>1, <1>4 DEF Sent
<1>5. CASE e.type = "deleted"
  BY <1>5 DEF Sent
<1> QED BY <1>2, <1>3, <1>4, <1>5

(* What a delivery holds depends on the tenant and on what was sent only.          *)
LEMMA HeldStays ==
  ASSUME SubscriptionsInv, UNCHANGED tenant, NEW d \in Delivery,
         hook'[d] = hook[d], overtaken'[d] = overtaken[d],
         \A s \in Sub : sold[s] # "offered" => sold'[s] # "offered",
         \A s \in Sub : sold[s] = "ended" => sold'[s] = "ended"
  PROVE  Held(d)'
<1>1. Held(d) /\ sold \in [Sub -> {"offered", "open", "ended"}]
  BY DEF SubscriptionsInv
<1>2. CASE hook[d] = Waiting
  BY <1>2 DEF Held
<1>3. CASE hook[d] # Waiting
  <2> PICK e : e = hook[d].event
    OBVIOUS
  <2> PICK set : set = hook[d].set
    OBVIOUS
  <2>1. hook[d].what = "handling" /\ e \in Event /\ Sent(e)
    BY <1>1, <1>3 DEF Held
  <2>2. ~overtaken[d] => Finds(e) /\ After(set) = Handled(e)
    BY <1>1, <1>3 DEF Held
  <2>3. Sent(e)'
    BY <1>1, <2>1, SentStays
  <2>4. Finds(e)' = Finds(e) /\ Handled(e)' = Handled(e)
    BY DEF Finds, Handled, Completed
  <2>5. After(set)' = After(set)
    BY DEF After
  <2>6. hook'[d].event = e /\ hook'[d].set = set /\ hook'[d].what = "handling"
    BY <2>1
  <2> QED BY <2>1, <2>2, <2>3, <2>4, <2>5, <2>6 DEF Held
<1> QED BY <1>2, <1>3

(* What Stripe does of its own, the tenant untouched.                            *)
LEMMA StripeKeeps ==
  ASSUME SubscriptionsInv, UNCHANGED <<tenant, hook, overtaken, newest, muddled>>,
         sold' \in [Sub -> {"offered", "open", "ended"}],
         \A s \in Sub : sold[s] # "offered" => sold'[s] # "offered",
         \A s \in Sub : sold[s] = "ended" => sold'[s] = "ended"
  PROVE  SubscriptionsInv'
<1>1. \A d \in Delivery : Held(d)'
  BY HeldStays
<1>2. newest' \in (Bought \cup {NoSub})'
  BY DEF SubscriptionsInv, Bought
<1>3. newest # NoSub /\ sold'[newest] = "open" => sold[newest] = "open"
  BY DEF SubscriptionsInv, Bought
<1>4. PayersKeepTier'
  BY <1>3 DEF SubscriptionsInv, PayersKeepTier
<1> QED BY <1>1, <1>2, <1>4 DEF SubscriptionsInv

LEMMA SubscriptionsInvKept == SubscriptionsInv /\ SubscriptionsNext => SubscriptionsInv'
<1> SUFFICES ASSUME SubscriptionsInv, SubscriptionsNext PROVE SubscriptionsInv'
  OBVIOUS
<1>0. sold \in [Sub -> {"offered", "open", "ended"}]
  BY DEF SubscriptionsInv
<1>1. ASSUME NEW s \in Sub, Buy(s) PROVE SubscriptionsInv'
  <2>1. UNCHANGED <<tenant, hook, overtaken, newest, muddled>>
    BY <1>1 DEF Buy
  <2>2. sold' = [sold EXCEPT ![s] = "open"] /\ sold[s] = "offered"
    BY <1>1 DEF Buy
  <2>3. sold' \in [Sub -> {"offered", "open", "ended"}]
    BY <1>0, <2>2
  <2>4. \A o \in Sub : sold'[o] = IF o = s THEN "open" ELSE sold[o]
    BY <1>0, <2>2
  <2> QED BY <2>1, <2>2, <2>3, <2>4, StripeKeeps
<1>2. ASSUME NEW s \in Sub, Cancel(s) PROVE SubscriptionsInv'
  <2>1. UNCHANGED <<tenant, hook, overtaken, newest, muddled>>
    BY <1>2 DEF Cancel, historyVars
  <2>2. sold' = [sold EXCEPT ![s] = "ended"] /\ sold[s] = "open"
    BY <1>2 DEF Cancel
  <2>3. sold' \in [Sub -> {"offered", "open", "ended"}]
    BY <1>0, <2>2
  <2>4. \A o \in Sub : sold'[o] = IF o = s THEN "ended" ELSE sold[o]
    BY <1>0, <2>2
  <2> QED BY <2>1, <2>2, <2>3, <2>4, StripeKeeps
<1>3. ASSUME NEW d \in Delivery, NEW e \in Event, Receive(d, e) PROVE SubscriptionsInv'
  <2> PICK set : set = [f \in {f \in Column : Handled(e)[f] # tenant[f]} |-> Handled(e)[f]]
    OBVIOUS
  <2>1. hook' = [hook EXCEPT ![d] = [what |-> "handling", event |-> e, set |-> set]]
    BY <1>3 DEF Receive
  <2>2. UNCHANGED <<tenant, sold, overtaken, newest, muddled>> /\ Sent(e) /\ Finds(e)
    BY <1>3 DEF Receive, historyVars
  <2>3. After(set) = Handled(e)
    <3>1. After(set) = [f \in Column |-> Handled(e)[f]]
      BY DEF After
    <3> QED BY <3>1, HandledRow
  <2>4. ASSUME NEW o \in Delivery PROVE Held(o)'
    <3>1. CASE o # d
      <4>1. hook'[o] = hook[o] /\ overtaken'[o] = overtaken[o]
        BY <2>1, <2>2, <3>1
      <4> QED BY <2>2, <4>1, HeldStays
    <3>2. CASE o = d
      <4>1. hook'[d] = [what |-> "handling", event |-> e, set |-> set]
        BY <2>1 DEF SubscriptionsInv
      <4>2. After(set)' = Handled(e)'
        BY <2>2, <2>3 DEF After, Handled, Completed
      <4>3. Finds(e)'
        BY <2>2 DEF Finds
      <4>4. Sent(e)'
        BY <1>0, <2>2, SentStays
      <4>5. /\ hook'[d].what = "handling" /\ hook'[d].event = e
            /\ hook'[d].set = set
        BY <4>1
      <4> QED BY <3>2, <4>2, <4>3, <4>4, <4>5 DEF Held
    <3> QED BY <3>1, <3>2
  <2>5. PayersKeepTier'
    BY <2>2 DEF SubscriptionsInv, PayersKeepTier
  <2>6. DOMAIN hook' = Delivery
    BY <2>1 DEF SubscriptionsInv
  <2> QED BY <2>2, <2>4, <2>5, <2>6 DEF SubscriptionsInv, Bought
<1>4. ASSUME NEW d \in Delivery, Commit(d) PROVE SubscriptionsInv'
  <2> DEFINE h == hook[d]
  <2> DEFINE e == h.event
  <2>1. h.what = "handling" /\ Held(d) /\ h # Waiting
    BY <1>4 DEF Commit, SubscriptionsInv, Waiting
  <2>2. Sent(e) /\ e \in Event
    BY <2>1 DEF Held
  <2>3. tenant' = After(h.set)
    BY <1>4 DEF Commit, After, SubscriptionsInv
  <2>4. tenant' = [f \in Column |-> tenant'[f]] /\ DOMAIN tenant' = Column
    BY <2>3 DEF After
  <2>5. newest' = IF Sells(e) THEN NewestWith(e.sub) ELSE newest
    BY <1>4 DEF Commit
  <2>6. sold' = sold /\ hook' = [hook EXCEPT ![d] = Waiting]
    BY <1>4 DEF Commit
  <2>7. muddled' = (overtaken[d] \/ IF Sells(e) THEN newest' # e.sub ELSE muddled)
    BY <1>4 DEF Commit
  <2>8. overtaken' = [o \in Delivery |-> o # d /\ hook[o] # Waiting]
    BY <1>4 DEF Commit
  <2>9. ~overtaken[d] => tenant' = Handled(e) /\ Finds(e)
    BY <2>1, <2>3 DEF Held
  <2> HIDE DEF e
  <2>10. newest' \in (Bought \cup {NoSub})'
    <3>1. Sells(e) => e.sub \in Bought
      BY <2>2 DEF Sells, Sent
    <3>2. newest' \in Bought \cup {NoSub}
      BY <2>5, <3>1 DEF NewestWith, SubscriptionsInv
    <3> QED BY <2>6, <3>2 DEF Bought
  <2>11. PayersKeepTier'
    <3> SUFFICES ASSUME ~muddled', newest' # NoSub, sold[newest'] = "open"
                 PROVE  /\ tenant'.sub = newest' /\ tenant'.tier = TierOf[newest']
                        /\ tenant'.status # "canceled"
      BY <2>6 DEF PayersKeepTier
    <3>1. tenant' = Handled(e) /\ Finds(e)
      BY <2>7, <2>9
    <3>2. CASE Sells(e)
      <4>1. newest' = e.sub
        BY <2>7, <3>2
      <4> QED BY <2>2, <3>1, <3>2, <4>1, HandledRow DEF Sells
    <3>3. CASE ~Sells(e)
      <4>1. tenant'.sub = tenant.sub
        BY <2>2, <3>1, <3>3, HandledRow DEF Sells
      <4>2. newest' = newest /\ ~muddled
        BY <2>5, <2>7, <3>3
      <4>3. tenant.sub = newest /\ tenant.tier = TierOf[newest]
        BY <4>2 DEF SubscriptionsInv, PayersKeepTier
      <4>4. CASE e.type = "completed"
        BY <2>2, <3>1, <3>3, <4>1, <4>2, <4>3, <4>4, HandledRow DEF Sells
      <4>5. CASE e.type = "failed"
        BY <2>2, <3>1, <4>1, <4>2, <4>3, <4>5, HandledRow
      <4>6. CASE e.type = "deleted"
        <5>1. e.sub = tenant.sub /\ sold[e.sub] = "ended"
          BY <2>2, <3>1, <4>6 DEF Finds, Sent
        <5> QED BY <4>2, <4>3, <5>1
      <4> QED BY <2>2, <4>4, <4>5, <4>6 DEF Event
    <3> QED BY <3>2, <3>3
  <2>12. ASSUME NEW o \in Delivery PROVE Held(o)'
    <3>1. CASE hook'[o] = Waiting
      BY <3>1 DEF Held
    <3>2. CASE hook'[o] # Waiting
      <4>1. o # d /\ hook'[o] = hook[o] /\ overtaken'[o]
        BY <2>6, <2>8, <3>2 DEF SubscriptionsInv
      <4>2. Held(o) /\ hook[o] # Waiting
        BY <3>2, <4>1 DEF SubscriptionsInv
      <4>3. Sent(hook[o].event)'
        BY <1>0, <2>6, <4>1, <4>2, SentStays DEF Held
      <4> QED BY <4>1, <4>2, <4>3 DEF Held
    <3> QED BY <3>1, <3>2
  <2>13. DOMAIN hook' = Delivery
    BY <2>6 DEF SubscriptionsInv
  <2>14. overtaken' \in [Delivery -> BOOLEAN]
    BY <2>8
  <2>15. muddled' \in BOOLEAN
    BY <2>7 DEF SubscriptionsInv
  <2> QED BY <2>4, <2>6, <2>10, <2>11, <2>12, <2>13, <2>14, <2>15 DEF SubscriptionsInv
<1>5. ASSUME NEW d \in Delivery, Fail(d) PROVE SubscriptionsInv'
  <2>1. hook' = [hook EXCEPT ![d] = Waiting] /\ overtaken' = [overtaken EXCEPT ![d] = FALSE]
    BY <1>5 DEF Fail
  <2>2. UNCHANGED <<tenant, sold, newest, muddled>>
    BY <1>5 DEF Fail, historyVars
  <2>3. ASSUME NEW o \in Delivery PROVE Held(o)'
    <3>1. CASE o = d
      BY <2>1, <3>1 DEF Held, SubscriptionsInv
    <3>2. CASE o # d
      <4>1. hook'[o] = hook[o] /\ overtaken'[o] = overtaken[o]
        BY <2>1, <3>2 DEF SubscriptionsInv
      <4> QED BY <2>2, <4>1, HeldStays
    <3> QED BY <3>1, <3>2
  <2>4. PayersKeepTier'
    BY <2>2 DEF SubscriptionsInv, PayersKeepTier
  <2>5. DOMAIN hook' = Delivery /\ overtaken' \in [Delivery -> BOOLEAN]
    BY <2>1 DEF SubscriptionsInv
  <2> QED BY <2>2, <2>3, <2>4, <2>5 DEF SubscriptionsInv, Bought
<1> QED BY <1>1, <1>2, <1>3, <1>4, <1>5 DEF SubscriptionsNext

(* The columns of a tenant keep their types.                                      *)
IsTenant(t) == DOMAIN t = Column /\ \A f \in Column : t[f] \in Value(f)

LEMMA ColumnValues ==
  /\ Value("customer") = BOOLEAN /\ Value("sub") = Sub \cup {NoSub}
  /\ Value("plan") = Tier \cup {Free, "none"} /\ Value("tier") = Tier \cup {Free}
  /\ Value("status") = {"pending", "active", "past_due", "canceled"}
BY DEF Value

LEMMA HandledTyped ==
  ASSUME IsTenant(tenant), NEW e \in Event
  PROVE  \A f \in Column : Handled(e)[f] \in Value(f)
<1>1. /\ tenant.customer \in BOOLEAN /\ tenant.sub \in Sub \cup {NoSub}
      /\ tenant.plan \in Tier \cup {Free, "none"} /\ tenant.tier \in Tier \cup {Free}
      /\ tenant.status \in {"pending", "active", "past_due", "canceled"}
  BY ColumnValues DEF IsTenant, Column
<1>2. e.type \in {"completed", "failed", "deleted"} /\ e.sub \in Sub \cup {NoSub}
  BY DEF Event
<1>3. CASE e.type = "completed"
  <2> DEFINE t == IF e.sub = NoSub THEN tenant.tier ELSE TierOf[e.sub]
  <2>1. t \in Tier \cup {Free}
    BY <1>1, <1>2, SubscriptionsAssumption
  <2>2. Handled(e) = [customer |-> TRUE, sub |-> IF e.sub = NoSub THEN tenant.sub ELSE e.sub,
                      status |-> "active", plan |-> t, tier |-> t]
    BY <1>3 DEF Handled, Completed
  <2> HIDE DEF t
  <2>3. Handled(e).customer \in BOOLEAN
    BY <2>2
  <2>4. /\ Handled(e).status = "active" /\ Handled(e).plan = t /\ Handled(e).tier = t
        /\ Handled(e).sub \in Sub \cup {NoSub}
    BY <1>1, <1>2, <2>2
  <2> QED BY <2>1, <2>3, <2>4, ColumnValues DEF Column
<1>4. CASE e.type = "failed"
  <2>1. Handled(e) = [tenant EXCEPT !.status = "past_due"]
    BY <1>4 DEF Handled
  <2>2. \A f \in Column : Handled(e)[f] = IF f = "status" THEN "past_due" ELSE tenant[f]
    BY <2>1 DEF IsTenant
  <2> QED BY <2>2, ColumnValues DEF IsTenant
<1>5. CASE e.type = "deleted"
  <2> DEFINE t == [tenant EXCEPT !.status = "canceled", !.plan = "none", !.tier = Free]
  <2>1. Handled(e) = t
    BY <1>5 DEF Handled
  <2>2. /\ t.customer = tenant.customer /\ t.sub = tenant.sub
        /\ t.plan = "none" /\ t.status = "canceled" /\ t.tier = Free
    BY DEF IsTenant, Column
  <2> HIDE DEF t
  <2> QED BY <1>1, <2>1, <2>2, ColumnValues DEF Column
<1> QED BY <1>2, <1>3, <1>4, <1>5

LEMMA SubscriptionsTypeStarts == SubscriptionsInit => SubscriptionsTypeOK
<1> SUFFICES ASSUME SubscriptionsInit PROVE SubscriptionsTypeOK
  OBVIOUS
<1>1. /\ tenant.customer = FALSE /\ tenant.sub = NoSub /\ tenant.tier = Chosen
      /\ tenant.status \in {"active", "pending"} /\ tenant.plan \in {"none", Chosen}
      /\ DOMAIN tenant = Column
  BY DEF SubscriptionsInit, SignedUp, Column
<1>2. \A f \in Column : tenant[f] \in Value(f)
  BY <1>1, ColumnValues, SubscriptionsAssumption DEF Column
<1> QED BY <1>1, <1>2 DEF SubscriptionsInit, SubscriptionsTypeOK

LEMMA SubscriptionsTypeKept ==
  SubscriptionsTypeOK /\ SubscriptionsNext => SubscriptionsTypeOK'
<1> SUFFICES ASSUME SubscriptionsTypeOK, SubscriptionsNext PROVE SubscriptionsTypeOK'
  OBVIOUS
<1>0. IsTenant(tenant)
  BY DEF SubscriptionsTypeOK, IsTenant
<1>1. ASSUME NEW s \in Sub, Buy(s) PROVE SubscriptionsTypeOK'
  <2>1. sold' \in [Sub -> {"offered", "open", "ended"}]
    BY <1>1 DEF Buy, SubscriptionsTypeOK
  <2>2. earlier' \subseteq Sub \X Sub
    BY <1>1 DEF Buy, Bought, SubscriptionsTypeOK
  <2> QED BY <1>1, <2>1, <2>2 DEF Buy, SubscriptionsTypeOK
<1>2. ASSUME NEW s \in Sub, Cancel(s) PROVE SubscriptionsTypeOK'
  BY <1>2 DEF Cancel, historyVars, SubscriptionsTypeOK
<1>3. ASSUME NEW d \in Delivery, NEW e \in Event, Receive(d, e) PROVE SubscriptionsTypeOK'
  <2> DEFINE S == [f \in {f \in Column : Handled(e)[f] # tenant[f]} |-> Handled(e)[f]]
             h == [what |-> "handling", event |-> e, set |-> S]
  <2>1. hook' = [hook EXCEPT ![d] = h] /\ UNCHANGED <<tenant, sold, overtaken, historyVars>>
    BY <1>3 DEF Receive
  <2>2. \A f \in DOMAIN S : S[f] \in Value(f)
    BY <1>0, HandledTyped
  <2>3. h.event = e /\ h.set = S
    OBVIOUS
  <2> HIDE DEF S, h
  <2> QED BY <2>1, <2>2, <2>3 DEF historyVars, SubscriptionsTypeOK
<1>4. ASSUME NEW d \in Delivery, Commit(d) PROVE SubscriptionsTypeOK'
  <2>1. /\ hook[d] # Waiting /\ hook' = [hook EXCEPT ![d] = Waiting]
        /\ UNCHANGED <<sold, earlier>>
        /\ tenant' = [f \in Column |-> IF f \in DOMAIN hook[d].set THEN hook[d].set[f]
                                       ELSE tenant[f]]
    BY <1>4 DEF Commit, Waiting, SubscriptionsTypeOK
  <2>2. \A f \in DOMAIN hook[d].set : hook[d].set[f] \in Value(f)
    BY <2>1 DEF SubscriptionsTypeOK
  <2>3. DOMAIN tenant' = Column /\ \A f \in Column : tenant'[f] \in Value(f)
    BY <2>1, <2>2 DEF SubscriptionsTypeOK
  <2>4. overtaken' \in [Delivery -> BOOLEAN]
    <3>1. overtaken' = [o \in Delivery |-> o # d /\ hook[o] # Waiting]
      BY <1>4 DEF Commit
    <3> QED BY <3>1
  <2>5. muddled' \in BOOLEAN
    BY <1>4 DEF Commit, SubscriptionsTypeOK
  <2>6. newest' \in Sub \cup {NoSub}
    <3>1. hook[d].event \in Event
      BY <2>1 DEF SubscriptionsTypeOK
    <3>2. newest' = IF Sells(hook[d].event) THEN NewestWith(hook[d].event.sub) ELSE newest
      BY <1>4 DEF Commit
    <3> QED BY <3>1, <3>2 DEF Event, NewestWith, SubscriptionsTypeOK
  <2> QED BY <2>1, <2>3, <2>4, <2>5, <2>6 DEF SubscriptionsTypeOK
<1>5. ASSUME NEW d \in Delivery, Fail(d) PROVE SubscriptionsTypeOK'
  BY <1>5 DEF Fail, historyVars, SubscriptionsTypeOK
<1> QED BY <1>1, <1>2, <1>3, <1>4, <1>5 DEF SubscriptionsNext

-------------------------------------------------------------------------------
(* The desks, each whatever the others do. *)

(* Their inductive invariants hold for good.                                     *)
LEMMA ExpenseAlways == ExpenseSpec => []ExpenseInv
<1>1. ExpenseInv /\ UNCHANGED expenseVars => ExpenseInv'
  BY DEF ExpenseInv, ExpenseTypeOK, ApprovedIsBooked, expenseVars
<1> QED BY <1>1, ExpenseInvStarts, ExpenseInvKept, PTL DEF ExpenseSpec

LEMMA ClockAlways == ClockSpec => [](ClockInv /\ ClockTypeOK)
<1>1. ClockInv /\ ClockTypeOK /\ UNCHANGED clockVars => (ClockInv /\ ClockTypeOK)'
  BY DEF ClockInv, ClockTypeOK, clockVars
<1> QED BY <1>1, ClockInvStarts, ClockInvKept, ClockTypeStarts, ClockTypeKept, PTL DEF ClockSpec

LEMMA HiringAlways == HiringSpec => []HiringInv
<1>1. HiringInv /\ UNCHANGED hiringVars => HiringInv'
  BY DEF HiringInv, HiringTypeOK, SuccessesAreEmployees, hiringVars
<1> QED BY <1>1, HiringInvStarts, HiringInvKept, PTL DEF HiringSpec

LEMMA ListAlways == ListSpec => []ListInv
<1>1. ListInv /\ UNCHANGED listVars => ListInv'
  BY DEF ListInv, ListTypeOK, TicksKept, listVars
<1> QED BY <1>1, ListInvStarts, ListInvKept, PTL DEF ListSpec

LEMMA TrainingAlways == TrainingSpec => []TrainingInv
<1>1. TrainingInv /\ UNCHANGED trainingVars => TrainingInv'
  BY DEF TrainingInv, TrainingTypeOK, ValidationsStay, VerdictCurrent, Judgement, Judged,
         Close, trainingVars, sessionVars
<1> QED BY <1>1, TrainingInvStarts, TrainingInvKept, PTL DEF TrainingSpec

LEMMA SubscriptionsAlways ==
  SubscriptionsSpec => []SubscriptionsInv /\ []SubscriptionsTypeOK
<1>1. SubscriptionsInv /\ UNCHANGED subscriptionVars => SubscriptionsInv'
  BY StripeKeeps DEF SubscriptionsInv, subscriptionVars
<1>2. SubscriptionsTypeOK /\ UNCHANGED subscriptionVars => SubscriptionsTypeOK'
  BY DEF SubscriptionsTypeOK, subscriptionVars
<1> QED
  BY <1>1, <1>2, SubscriptionsInvStarts, SubscriptionsInvKept, SubscriptionsTypeStarts,
     SubscriptionsTypeKept, PTL DEF SubscriptionsSpec

(* However many requests change a claim at once, an approved or paid one has its  *)
(* journal entry, unless the bulk endpoint approved it.                          *)
THEOREM ApprovedAlwaysBooked == ExpenseSpec => []ApprovedIsBooked
<1>1. ExpenseInv => ApprovedIsBooked
  BY DEF ExpenseInv
<1> QED BY <1>1, ExpenseAlways, PTL

(* Whatever is clocked in and out, two open logs of an employee come from         *)
(* requests that overlapped.                                                     *)
THEOREM OpenLogsAlwaysOverlapped == ClockSpec => []OpenLogsOverlapped
BY ClockInvSuffices, ClockAlways, PTL

(* Promotions answered with success account for the employees, none twice, for    *)
(* any candidates, emails and number of promotions.                              *)
THEOREM SuccessesAlwaysEmployees == HiringSpec => []SuccessesAreEmployees
<1>1. HiringInv => SuccessesAreEmployees
  BY DEF HiringInv
<1> QED BY <1>1, HiringAlways, PTL

(* For any steps, checklists, requests and tools: a checklist no two toggles of    *)
(* which overlapped shows what was asked for of each step no tool answered for,   *)
(* and is completed with a step open only by a tool.                              *)
THEOREM TicksAlwaysKept == ListSpec => []TicksKept
<1>1. ListInv => TicksKept
  BY DEF ListInv
<1> QED BY <1>1, ListAlways, PTL

(* Whatever verdicts overlapped or were lost, the next one no commit crosses says  *)
(* what the rules say of what is stored, but for a column the judging request had *)
(* rounded up itself, for any number of sessions and any columns reported.        *)
THEOREM VerdictsAlwaysCurrent == TrainingSpec => []VerdictCurrent
<1>1. TrainingInv => VerdictCurrent
  BY DEF TrainingInv
<1> QED BY <1>1, TrainingAlways, PTL

(* The last bought of the subscriptions whose checkout was handled keeps its tier  *)
(* while it runs, until a delivery is overtaken or an earlier one's checkout is    *)
(* handled, for any subscriptions, tiers and number of deliveries.                *)
THEOREM PayersAlwaysKeepTier == SubscriptionsSpec => []PayersKeepTier
<1>1. SubscriptionsInv => PayersKeepTier
  BY DEF SubscriptionsInv
<1> QED BY <1>1, SubscriptionsAlways, PTL

(* The back office implements each of its desks.                                 *)
THEOREM DesksImplemented ==
  Spec =>
    /\ ExpenseSpec /\ ClockSpec /\ HiringSpec
    /\ ListSpec /\ TrainingSpec /\ SubscriptionsSpec
<1>1. Init =>
        /\ ExpenseInit /\ ClockInit /\ HiringInit
        /\ ListInit /\ TrainingInit /\ SubscriptionsInit
  BY DEF Init
<1>2. [Next]_vars =>
        /\ [ExpenseNext]_expenseVars /\ [ClockNext]_clockVars
        /\ [HiringNext]_hiringVars /\ [ListNext]_listVars
        /\ [TrainingNext]_trainingVars /\ [SubscriptionsNext]_subscriptionVars
  BY DEF Next, vars
<1> QED
  BY <1>1, <1>2, PTL
  DEF Spec, ExpenseSpec, ClockSpec, HiringSpec, ListSpec, TrainingSpec, SubscriptionsSpec

(* Every table of the back office has its type, for any sets of employees,        *)
(* requests, steps, sessions and subscriptions.                                   *)
THEOREM BackOfficeTypeCorrect == Spec => []TypeOK
<1>1. /\ ExpenseInv => ExpenseTypeOK
      /\ HiringInv => HiringTypeOK
      /\ ListInv => ListTypeOK
      /\ TrainingInv => TrainingTypeOK
  BY DEF ExpenseInv, HiringInv, ListInv, TrainingInv
<1>2. ExpenseTypeOK /\ ClockTypeOK /\ HiringTypeOK /\ ListTypeOK /\ TrainingTypeOK
      /\ SubscriptionsTypeOK => TypeOK
  BY DEF TypeOK
<1> QED
  BY <1>1, <1>2, DesksImplemented, ExpenseAlways, ClockAlways, HiringAlways, ListAlways,
     TrainingAlways, SubscriptionsAlways, PTL

(* And each desk keeps its promise while the others work.                         *)
THEOREM DesksKeepPromises ==
  Spec => [](/\ ApprovedIsBooked /\ OpenLogsOverlapped /\ SuccessesAreEmployees
             /\ TicksKept /\ VerdictCurrent /\ PayersKeepTier)
BY DesksImplemented, ApprovedAlwaysBooked, OpenLogsAlwaysOverlapped, SuccessesAlwaysEmployees,
   TicksAlwaysKept, VerdictsAlwaysCurrent, PayersAlwaysKeepTier, PTL
===============================================================================
