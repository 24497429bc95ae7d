------------------------------ MODULE Subscriptions ------------------------------
(***************************************************************************)
(* What a tenant pays for (backend/app/api/v1/billing.py, signup.py,        *)
(* services/integrations/stripe.py).                                        *)
(*                                                                         *)
(* Stripe sends an event for a checkout that was completed, an invoice that *)
(* was not paid and a subscription that ended, again and again until it is  *)
(* answered, and in any order.  stripe_webhook loads the tenant the event   *)
(* names, sets its columns and commits those that differ from what it       *)
(* loaded; deliveries overlap.  A failed invoice or an end finds the tenant *)
(* by its subscription, so that one of an earlier subscription finds none;  *)
(* but a completed checkout is taken as the newest, whichever it is.         *)
(*                                                                         *)
(* One tenant.  A checkout started by signup names the tenant by its id,    *)
(* the handler looks for a schema name, and nothing is found.  Signatures,  *)
(* prices and the portal are left out.                                      *)
(***************************************************************************)
CONSTANTS Sub,              \* the tenant's subscriptions at Stripe
          Tier, TierOf,     \* the tiers with a price, and that of a subscription
          Chosen, AtSignup, \* the tier chosen at sign-up, subscriptions bought there
          Delivery,         \* deliveries of events
          Free, NoSub

ASSUME SubscriptionsAssumption ==
  /\ TierOf \in [Sub -> Tier] /\ Free \notin Tier /\ Chosen \in Tier \cup {Free}
  /\ AtSignup \subseteq Sub /\ NoSub \notin Sub

VARIABLES tenant,           \* the committed row
          sold,             \* what became of each subscription
          hook,             \* what a delivery is about to commit
          overtaken,        \* history: another delivery committed since this one loaded
          earlier,          \* history: <<s, t>> where s was bought earlier than t
          newest,           \* history: the last bought of those whose checkout was handled
          muddled           \* history: since its checkout was handled, an earlier one's was,
                            \* or the commit of an overtaken delivery

historyVars == <<earlier, newest, muddled>>

subscriptionVars == <<tenant, sold, hook, overtaken, earlier, newest, muddled>>

Column == {"customer", "sub", "plan", "status", "tier"}

Value(f) ==
  CASE f = "customer" -> BOOLEAN
    [] f = "sub" -> Sub \cup {NoSub}
    [] f = "plan" -> Tier \cup {Free, "none"}
    [] f = "status" -> {"pending", "active", "past_due", "canceled"}
    [] f = "tier" -> Tier \cup {Free}

Event == [type : {"completed", "failed", "deleted"}, sub : Sub \cup {NoSub}]

Waiting == [what |-> "waiting"]

SubscriptionsTypeOK ==
  /\ DOMAIN tenant = Column /\ \A f \in Column : tenant[f] \in Value(f)
  /\ sold \in [Sub -> {"offered", "open", "ended"}]
  /\ DOMAIN hook = Delivery
  /\ \A d \in Delivery :
       \/ hook[d] = Waiting
       \/ hook[d].event \in Event /\ \A f \in DOMAIN hook[d].set : hook[d].set[f] \in Value(f)
  /\ overtaken \in [Delivery -> BOOLEAN]
  /\ earlier \subseteq Sub \X Sub
  /\ newest \in Sub \cup {NoSub}
  /\ muddled \in BOOLEAN

(* signup: a tier that costs is there at once, its payment is pending.           *)
SignedUp ==
  [customer |-> FALSE, sub |-> NoSub, tier |-> Chosen,
   status |-> IF Chosen = Free THEN "active" ELSE "pending",
   plan |-> IF Chosen = Free THEN "none" ELSE Chosen]

SubscriptionsInit ==
  /\ tenant = SignedUp
  /\ sold = [s \in Sub |-> "offered"]
  /\ hook = [d \in Delivery |-> Waiting]
  /\ overtaken = [d \in Delivery |-> FALSE]
  /\ earlier = {}
  /\ newest = NoSub
  /\ muddled = FALSE

Bought == {s \in Sub : sold[s] # "offered"}

(* A checkout of checkout_payment or signup is completed.                        *)
Buy(s) ==
  /\ sold[s] = "offered"
  /\ sold' = [sold EXCEPT ![s] = "open"]
  /\ earlier' = earlier \cup (Bought \X {s})
  /\ UNCHANGED <<tenant, hook, overtaken, newest, muddled>>

Cancel(s) ==
  /\ sold[s] = "open"
  /\ sold' = [sold EXCEPT ![s] = "ended"]
  /\ UNCHANGED <<tenant, hook, overtaken, historyVars>>

(* What Stripe may deliver, for the first time or again: an invoice may fail once  *)
(* there is a subscription, and may not name it; a checkout without one pays a debt.*)
Sent(e) ==
  CASE e.type = "completed" -> e.sub \in Bought \cup {NoSub}
    [] e.type = "deleted" -> e.sub \in {s \in Sub : sold[s] = "ended"}
    [] e.type = "failed" -> Bought # {} /\ e.sub \in Bought \cup {NoSub}

(* Mutant: the end of any subscription finds the customer's tenant.              *)
FindsByCustomer(e) ==
  \/ e.type = "completed" /\ e.sub \notin AtSignup
  \/ e.type # "completed" /\ tenant.customer

(* Whether the query of the event's handler finds the tenant.                    *)
Finds(e) ==
  \/ e.type = "completed" /\ e.sub \notin AtSignup
  \/ e.type # "completed" /\ e.sub # NoSub /\ tenant.sub = e.sub
  \/ e.type = "failed" /\ e.sub = NoSub /\ tenant.customer

(* _handle_checkout_completed; without metadata the tier is the tenant's own.     *)
Completed(e) ==
  LET tier == IF e.sub = NoSub THEN tenant.tier ELSE TierOf[e.sub] IN
  [customer |-> TRUE, sub |-> IF e.sub = NoSub THEN tenant.sub ELSE e.sub,
   status |-> "active", plan |-> tier, tier |-> tier]

(* The three handlers.                                                          *)
Handled(e) ==
  CASE e.type = "completed" -> Completed(e)
    [] e.type = "deleted" -> [tenant EXCEPT !.status = "canceled", !.plan = "none", !.tier = Free]
    [] e.type = "failed" -> [tenant EXCEPT !.status = "past_due"]

(* A delivery up to its commit.  One that finds no tenant is answered as well.   *)
Receive(d, e) ==
  /\ hook[d] = Waiting /\ Sent(e) /\ Finds(e)
  /\ hook' = [hook EXCEPT ![d] =
       [what |-> "handling", event |-> e,
        set |-> [f \in {f \in Column : Handled(e)[f] # tenant[f]} |-> Handled(e)[f]]]]
  /\ UNCHANGED <<tenant, sold, overtaken, historyVars>>

Sells(e) == e.type = "completed" /\ e.sub # NoSub

(* The newest subscription handled, once the checkout of s is.                   *)
NewestWith(s) == IF <<s, newest>> \in earlier THEN newest ELSE s

(* The commit of the columns that changed.                                      *)
Commit(d) ==
  LET h == hook[d] IN
  /\ h.what = "handling"
  /\ tenant' = [f \in DOMAIN tenant |-> IF f \in DOMAIN h.set THEN h.set[f] ELSE tenant[f]]
  /\ overtaken' = [o \in Delivery |-> o # d /\ hook[o] # Waiting]
  /\ newest' = IF Sells(h.event) THEN NewestWith(h.event.sub) ELSE newest
  /\ muddled' =
       (overtaken[d] \/ IF Sells(h.event) THEN newest' # h.event.sub ELSE muddled)
  /\ hook' = [hook EXCEPT ![d] = Waiting]
  /\ UNCHANGED <<sold, earlier>>

(* An exception before the commit, or a server that dies: Stripe will try again.  *)
Fail(d) ==
  /\ hook[d] # Waiting
  /\ hook' = [hook EXCEPT ![d] = Waiting]
  /\ overtaken' = [overtaken EXCEPT ![d] = FALSE]
  /\ UNCHANGED <<tenant, sold, historyVars>>

SubscriptionsNext ==
  \/ \E s \in Sub : Buy(s) \/ Cancel(s)
  \/ \E d \in Delivery : (\E e \in Event : Receive(d, e)) \/ Commit(d) \/ Fail(d)

SubscriptionsSpec == SubscriptionsInit /\ [][SubscriptionsNext]_subscriptionVars

-------------------------------------------------------------------------------
(* Property.                                                                    *)

(* The last bought of the subscriptions whose checkout was handled is the         *)
(* tenant's while it runs: recorded, with its tier, not canceled, however late,   *)
(* often and out of order Stripe delivers failed invoices and ends, those of      *)
(* earlier subscriptions too.  The code loses it in two ways only, each until its *)
(* checkout is handled once more: a delivery is overtaken by another's commit, or *)
(* the checkout of an earlier subscription is handled again or late               *)
(* (billing.py:244-320).                                                          *)
PayersKeepTier ==
  ~muddled /\ newest # NoSub /\ sold[newest] = "open" =>
    tenant.sub = newest /\ tenant.tier = TierOf[newest] /\ tenant.status # "canceled"
===============================================================================
