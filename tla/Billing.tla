------------------------------ MODULE Billing ------------------------------
(***************************************************************************)
(* The plan of one user and the subscriptions Stripe keeps for it:         *)
(* StripeHandler of backend/internal/handlers/stripe_handler.go.           *)
(*                                                                         *)
(* Stripe is the external party: it holds the truth, emits one event per   *)
(* change and repeats an event it is not sure was received.  A call is one *)
(* delivery.  It is answered at once and applied by a goroutine of its own,*)
(* so that events may be applied in any order.                             *)
(***************************************************************************)
EXTENDS Background

CONSTANTS Subs    \* subscriptions, natural numbers other than NoCall in the
                  \* order of their checkouts

VARIABLES
  stripe,       \* per subscription: "none", "open", "alive", "ending", "over"
  paid,         \* per subscription: months charged, at most 2
  emitted,      \* events Stripe sends: [kind, sub]
  due,          \* those not delivered yet
  event,        \* per call: the event its goroutine holds
  plan,         \* users.plan_id: "community", "paid"
  sub,          \* users.stripe_subscription_id, NoCall if NULL
  customer,     \* users.stripe_customer_id is set
  months,       \* plan_expires_at, in months from the checkout it counts from
  outrun,       \* history: subscriptions of which more than the first
                \* invoice was applied, or that a later checkout replaced
  late          \* history: a checkout was applied for one of those

rowVars    == <<plan, sub, customer, months>>
stripeVars == <<stripe, paid, emitted, due>>
billingVars == <<stripe, paid, emitted, due, event, plan, sub, customer, months, outrun, late>>
vars == <<op, pc, clash, crashed, troubles, lost, stripe, paid, emitted, due, event,
          plan, sub, customer, months, outrun, late>>

Kinds  == {"checkout", "invoice1", "invoice2", "failed", "deleted"}
Events == [kind : Kinds, sub : Subs]
NoEvent == [kind |-> "none", sub |-> NoCall]
Ops    == {"deliver"}
Labels == {"apply"}

Init ==
  /\ CallsInit
  /\ stripe = [s \in Subs |-> "none"] /\ paid = [s \in Subs |-> 0]
  /\ emitted = {} /\ due = {}
  /\ event = [c \in Calls |-> NoEvent]
  /\ plan = "community" /\ sub = NoCall /\ customer = "none" /\ months = 0
  /\ outrun = {} /\ late = "no"

(***************************************************************************)
(* Stripe                                                                  *)
(***************************************************************************)
Emit(kinds, s) ==
  /\ emitted' = emitted \cup [kind : kinds, sub : {s}]
  /\ due' = due \cup [kind : kinds, sub : {s}]

(* CreateCheckout: nothing asks whether a subscription is alive already.   *)
CreateCheckout(s) ==
  /\ stripe[s] = "none"
  /\ \A r \in Subs : r < s => stripe[r] # "none"
  /\ stripe' = [stripe EXCEPT ![s] = "open"]
  /\ UNCHANGED <<paid, emitted, due>>

(* The user pays on Stripe's page; the sessions of a user are completed in *)
(* the order they were opened in.                                          *)
Complete(s) ==
  /\ stripe[s] = "open"
  /\ \A r \in Subs : r < s => stripe[r] # "open"
  /\ stripe' = [stripe EXCEPT ![s] = "alive"]
  /\ paid' = [paid EXCEPT ![s] = 1]
  /\ Emit({"checkout", "invoice1"}, s)

(* The next month is charged, or cannot be.                                *)
Renew(s) ==
  /\ stripe[s] = "alive" /\ paid[s] = 1
  /\ \/ paid' = [paid EXCEPT ![s] = 2] /\ Emit({"invoice2"}, s)
     \/ UNCHANGED paid /\ Emit({"failed"}, s)
  /\ UNCHANGED stripe

(* CancelSubscription names the subscription of the row, whatever it is.   *)
CancelSubscription ==
  /\ sub \in Subs
  /\ stripe[sub] = "alive"
  /\ stripe' = [stripe EXCEPT ![sub] = "ending"]
  /\ UNCHANGED <<paid, emitted, due>>

(* The period of a cancelled subscription ends, or charging failed often.  *)
End(s) ==
  /\ stripe[s] = "ending" \/ [kind |-> "failed", sub |-> s] \in emitted
  /\ stripe[s] # "over"
  /\ stripe' = [stripe EXCEPT ![s] = "over"]
  /\ Emit({"deleted"}, s)
  /\ UNCHANGED paid

(***************************************************************************)
(* Webhook: check the signature, answer, leave the event to a goroutine    *)
(***************************************************************************)
Webhook(c, e) ==
  /\ e \in emitted
  /\ Begin(c, "deliver", "apply")
  /\ event' = [event EXCEPT ![c] = e]
  /\ due' = due \ {e}
  /\ UNCHANGED <<stripe, paid, emitted, rowVars, outrun, late>>

CheckoutCompleted(s) ==
  /\ plan' = "paid" /\ sub' = s /\ customer' = "set" /\ months' = 1
  /\ late' = IF s \in outrun THEN "yes" ELSE late
  /\ outrun' = outrun \cup {r \in Subs : r < s}

(* Mutant of InvoicePaid: the month is counted from now, not from the end  *)
(* of what was paid for.                                                   *)
InvoicePaidAfresh(s) ==
  /\ months' = IF sub = s THEN 1 ELSE months
  /\ UNCHANGED <<plan, sub, customer>>

(* handleInvoicePaid looks the user up by the subscription.                *)
InvoicePaid(s) ==
  /\ months' = IF sub = s THEN months + 1 ELSE months
  /\ UNCHANGED <<plan, sub, customer>>

(* handlePaymentFailed counts the failed rows of invoices.  Nothing writes *)
(* to that table: the count is 0 and no user is suspended.                 *)
PaymentFailed == UNCHANGED rowVars

SubscriptionDeleted(s) ==
  /\ \/ sub = s /\ plan' = "community" /\ sub' = NoCall /\ months' = 0
     \/ sub # s /\ UNCHANGED <<plan, sub, months>>
  /\ UNCHANGED customer

Apply(c) ==
  LET e == event[c] IN
  /\ Go(c, "apply", "done")
  /\ \/ e.kind = "checkout" /\ CheckoutCompleted(e.sub)
     \/ e.kind \in {"invoice1", "invoice2"} /\ InvoicePaid(e.sub)
     \/ e.kind = "failed" /\ PaymentFailed
     \/ e.kind = "deleted" /\ SubscriptionDeleted(e.sub)
  /\ e.kind \in {"invoice2", "deleted"} => outrun' = outrun \cup {e.sub} /\ late' = late
  /\ e.kind \in {"invoice1", "failed"} => UNCHANGED <<outrun, late>>
  /\ event' = [event EXCEPT ![c] = NoEvent]
  /\ UNCHANGED stripeVars

(* The UPDATE fails and is logged.                                         *)
ApplyFailed(c) ==
  /\ GoFailed(c, "apply", "done")
  /\ event' = [event EXCEPT ![c] = NoEvent]
  /\ UNCHANGED <<stripeVars, rowVars, outrun, late>>

Start(c) == \E e \in emitted : Webhook(c, e)

Step(c) == Apply(c) \/ ApplyFailed(c)

Stripe ==
  /\ \/ \E s \in Subs : CreateCheckout(s) \/ Complete(s) \/ Renew(s) \/ End(s)
     \/ CancelSubscription
  /\ UNCHANGED <<callVars, event, rowVars, outrun, late>>

Crash ==
  /\ CrashCalls
  /\ event' = [c \in Calls |-> NoEvent]
  /\ UNCHANGED <<stripeVars, rowVars, outrun, late>>

Next == (\E c \in Calls : Start(c) \/ Step(c)) \/ Stripe \/ Crash

Spec == Init /\ [][Next]_vars

BillingTypeOK ==
  /\ CallsTypeOK(Ops, Labels)
  /\ stripe \in [Subs -> {"none", "open", "alive", "ending", "over"}]
  /\ paid \in [Subs -> 0 .. 2]
  /\ emitted \subseteq Events /\ due \subseteq Events
  /\ event \in [Calls -> Events \cup {NoEvent}]
  /\ plan \in {"community", "paid"} /\ sub \in Subs \cup {NoCall}
  /\ customer \in {"none", "set"} /\ months \in Nat
  /\ outrun \subseteq Subs /\ late \in {"no", "yes"}

(* The subscription bought last.                                           *)
Newest(s) == /\ paid[s] > 0
             /\ \A r \in Subs : r > s => paid[r] = 0

(* The user has the plan it pays for: once every event was delivered and   *)
(* applied, the row names the subscription bought last, with at least as   *)
(* many months as were charged, or the community plan if that one is over. *)
(* The order of the goroutines, an invoice that comes before its checkout, *)
(* the end of an older subscription and repeated events do not break it; a *)
(* checkout applied after a later event of the same user does (late), and  *)
(* so does an UPDATE that fails or a restart after the answer (troubles).  *)
BilledRight ==
  Quiet /\ due = {} /\ late = "no" /\ troubles = 0 =>
    \A s \in Subs : Newest(s) =>
      IF stripe[s] = "over" THEN plan = "community" /\ sub = NoCall
      ELSE plan = "paid" /\ sub = s /\ months >= paid[s]
=============================================================================
