------------------------------ MODULE MCBackOffice ------------------------------
(* Requests that overlap at each desk; both candidates are one person.          *)
EXTENDS BackOffice, TLC

CONSTANTS ann, anna, annsMail, first, second, third, cheap, dear, plain

Mail == [c \in Candidate |-> annsMail]

(* Deliveries are alike, so are visits and the steps of a checklist, and two       *)
(* subscriptions with their tiers; one desk is at work in a behaviour.             *)
Alike ==
  Permutations(Delivery)
    \cup {(first :> second) @@ (second :> first) @@ (cheap :> dear) @@ (dear :> cheap)}
    \cup {v @@ s : v \in Permutations(Visit), s \in Permutations(Step)}

(* What the tools answered for is not compared, and nothing of a torn checklist.   *)
Compared ==
  [w \in 1 .. MaxLists |->
     IF w \in torn THEN <<>> ELSE <<told[w], asked[w] \ told[w]>>]

(* Nothing that was bought at sign-up is ever the newest, nor compared with it.     *)
Ranked == {p \in earlier : p[1] \notin AtSignup /\ p[2] \notin AtSignup}

Relevant ==
  <<expenseVars, clockVars, hiringVars, lists, visit, Compared, torn, byAgent,
    enrollment, verdict, sessionVars, IF fresh THEN <<excused>> ELSE <<>>,
    tenant, sold, hook, overtaken, Ranked, newest, muddled>>

Price == (first :> cheap) @@ (second :> dear) @@ (third :> plain)
===============================================================================
