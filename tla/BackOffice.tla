------------------------------- MODULE BackOffice -------------------------------
(***************************************************************************)
(* Six desks of the suite whose requests meet only at their own tables:    *)
(* Expenses, TimeClock, Hiring, Checklists, Training and Subscriptions.  No *)
(* operation of one reads or writes what another keeps, so a behaviour of   *)
(* the whole is an interleaving of theirs; here only one desk is at work in *)
(* a behaviour, which reaches all that a desk can reach.                    *)
(***************************************************************************)
EXTENDS Expenses, TimeClock, Hiring, Checklists, Training, Subscriptions

vars == <<expenseVars, clockVars, hiringVars, listVars, trainingVars, subscriptionVars>>

Init ==
  /\ ExpenseInit /\ ClockInit /\ HiringInit
  /\ ListInit /\ TrainingInit /\ SubscriptionsInit

Next ==
  \/ /\ ClockInit /\ HiringInit
     /\ ListInit /\ TrainingInit /\ SubscriptionsInit
     /\ ExpenseNext
     /\ UNCHANGED <<clockVars, hiringVars, listVars, trainingVars, subscriptionVars>>
  \/ /\ ExpenseInit /\ HiringInit
     /\ ListInit /\ TrainingInit /\ SubscriptionsInit
     /\ ClockNext
     /\ UNCHANGED <<expenseVars, hiringVars, listVars, trainingVars, subscriptionVars>>
  \/ /\ ExpenseInit /\ ClockInit
     /\ ListInit /\ TrainingInit /\ SubscriptionsInit
     /\ HiringNext
     /\ UNCHANGED <<expenseVars, clockVars, listVars, trainingVars, subscriptionVars>>
  \/ /\ ExpenseInit /\ ClockInit
     /\ HiringInit /\ TrainingInit /\ SubscriptionsInit
     /\ ListNext
     /\ UNCHANGED <<expenseVars, clockVars, hiringVars, trainingVars, subscriptionVars>>
  \/ /\ ExpenseInit /\ ClockInit
     /\ HiringInit /\ ListInit /\ SubscriptionsInit
     /\ TrainingNext
     /\ UNCHANGED <<expenseVars, clockVars, hiringVars, listVars, subscriptionVars>>
  \/ /\ ExpenseInit /\ ClockInit
     /\ HiringInit /\ ListInit /\ TrainingInit
     /\ SubscriptionsNext
     /\ UNCHANGED <<expenseVars, clockVars, hiringVars, listVars, trainingVars>>

Spec == Init /\ [][Next]_vars

-------------------------------------------------------------------------------
(* The type invariants of the desks.                                             *)
TypeOK ==
  /\ ExpenseTypeOK /\ ClockTypeOK /\ HiringTypeOK
  /\ ListTypeOK /\ TrainingTypeOK /\ SubscriptionsTypeOK
===============================================================================
