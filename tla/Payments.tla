------------------------------ MODULE Payments ------------------------------
(***************************************************************************)
(* Paying for a milestone: the checkout of app/services/payment_service.py *)
(* and the webhook that Stripe calls (app/routers/payments.py).            *)
(*                                                                         *)
(* A checkout inserts the payment, has Stripe create a Checkout session    *)
(* and records the session, each in a transaction or call of its own, in   *)
(* its own thread.  Stripe is external: it delivers an event at least      *)
(* once, in any order, and again after any answer but 200.  Nothing awaits *)
(* between the lookup and the commit of a webhook, and the server is one   *)
(* process: a webhook is one step.                                         *)
(***************************************************************************)
EXTENDS FiniteSets, Naturals

CONSTANTS
    Milestone, Payment,    \* ids: each names one row, once
    MilestoneOf,           \* payments.milestone_id
    Checkout, NoPayment,   \* checkouts that can be running at once; what an idle one holds
    MaxFailures            \* bound: webhooks whose transaction fails

ASSUME PaymentConstants ==
    /\ MilestoneOf \in [Payment -> Milestone]
    /\ NoPayment \notin Payment
    /\ MaxFailures \in Nat

VARIABLES
    milestones,    \* the milestones that exist
    payments,      \* payment -> [status, session]: its row; session: whether it is recorded
    sessions,      \* payment -> the Checkout session with its id in the metadata
    links,         \* payments whose checkout_url was sent to the client
    webhooks,      \* the events Stripe has to deliver
    checkouts,     \* checkout -> what its handler is doing
    failures

stripe == <<sessions, webhooks>>
vars == <<milestones, payments, sessions, links, webhooks, checkouts, failures>>

-----------------------------------------------------------------------------
PaymentStatus == {"PENDING", "PAID"}    \* the ones that any reachable statement writes
Absent == {"NONE", "DELETED"}
Exists(p) == payments[p].status \in PaymentStatus
PaymentsOf(m) == {p \in Payment : MilestoneOf[p] = m /\ Exists(p)}

Event == [type : {"checkout.session.completed", "checkout.session.async_payment_succeeded",
                  "checkout.session.async_payment_failed",
                  "payment_intent.succeeded", "payment_intent.payment_failed"},
          paid : BOOLEAN,    \* payment_status of the session when the event was created
          of : Payment]

Idle == [pc |-> "idle", id |-> NoPayment]

Init ==
    /\ milestones = Milestone
    /\ payments = [p \in Payment |-> [status |-> "NONE", session |-> FALSE]]
    /\ sessions = [p \in Payment |-> "none"]
    /\ links = {} /\ webhooks = {}
    /\ checkouts = [r \in Checkout |-> Idle]
    /\ failures = 0

-----------------------------------------------------------------------------
(* create_checkout_for_milestone, called by the client of the contract *)

At(r, pc) == checkouts[r].pc = pc
Goes(r, pc) == checkouts' = [checkouts EXCEPT ![r].pc = pc]
Ends(r) == checkouts' = [checkouts EXCEPT ![r] = Idle]

\* The milestone exists and has no payment; neither its status nor the contract's counts.
CheckoutCheck(r, p) ==
    /\ At(r, "idle") /\ payments[p].status = "NONE"
    /\ MilestoneOf[p] \in milestones /\ PaymentsOf(MilestoneOf[p]) = {}
    /\ checkouts' = [checkouts EXCEPT ![r] = [pc |-> "checked", id |-> p]]
    /\ UNCHANGED <<milestones, payments, stripe, links, failures>>

\* A mutant: payments.milestone_id is not unique.
CanInsertAgain(p) == payments[p].status = "NONE" /\ MilestoneOf[p] \in milestones
\* payments.milestone_id: a unique foreign key.
CanInsert(p) == CanInsertAgain(p) /\ PaymentsOf(MilestoneOf[p]) = {}

InsertPayment(r) ==
    /\ At(r, "checked")
    /\ LET p == checkouts[r].id IN
       IF CanInsert(p)
         THEN payments' = [payments EXCEPT ![p].status = "PENDING"] /\ Goes(r, "inserted")
         ELSE UNCHANGED payments /\ Ends(r)    \* IntegrityError
    /\ UNCHANGED <<milestones, stripe, links, failures>>

\* stripe_service.create_checkout_session: Stripe makes the session or does not, and the
\* call may raise in either case.
CallStripe(r, made, raised) ==
    /\ At(r, "inserted")
    /\ made \/ raised
    /\ sessions' = IF made THEN [sessions EXCEPT ![checkouts[r].id] = "open"] ELSE sessions
    /\ Goes(r, IF raised THEN "raised" ELSE "created")
    /\ UNCHANGED <<milestones, payments, links, webhooks, failures>>

\* The call raised: the payment is deleted, and the exception goes on.
ForgetPayment(r) ==
    /\ At(r, "raised")
    /\ payments' = [payments EXCEPT ![checkouts[r].id].status = "DELETED"]
    /\ Ends(r)
    /\ UNCHANGED <<milestones, stripe, links, failures>>

\* A mutant: the session is never recorded.
RecordNothing(r) ==
    /\ At(r, "created")
    /\ Goes(r, "recorded") /\ UNCHANGED payments
    /\ UNCHANGED <<milestones, stripe, links, failures>>

\* With the row gone, the UPDATE raises StaleDataError.
RecordSession(r) ==
    /\ At(r, "created")
    /\ LET p == checkouts[r].id IN
       IF Exists(p)
         THEN payments' = [payments EXCEPT ![p].session = TRUE] /\ Goes(r, "recorded")
         ELSE UNCHANGED payments /\ Ends(r)
    /\ UNCHANGED <<milestones, stripe, links, failures>>

\* The response carries the URL; only with it can a customer open the session.
Respond(r) ==
    /\ At(r, "recorded")
    /\ links' = links \cup {checkouts[r].id}
    /\ Ends(r)
    /\ UNCHANGED <<milestones, payments, stripe, failures>>

\* The process dies, a statement fails or the client is gone.
Die(r) ==
    /\ ~At(r, "idle")
    /\ Ends(r)
    /\ UNCHANGED <<milestones, payments, stripe, links, failures>>

\* The milestone is deleted, alone or with its contract, by another handler: ON DELETE CASCADE.
DeleteMilestone(m) ==
    /\ m \in milestones
    /\ milestones' = milestones \ {m}
    /\ payments' = [p \in Payment |->
          IF p \in PaymentsOf(m) THEN [payments[p] EXCEPT !.status = "DELETED"] ELSE payments[p]]
    /\ UNCHANGED <<stripe, links, checkouts, failures>>

-----------------------------------------------------------------------------
(* Stripe *)

\* Session p moves on and events of it are created.
Session(p, from, to, types) ==
    /\ sessions[p] = from
    /\ sessions' = [sessions EXCEPT ![p] = to]
    /\ webhooks' = webhooks \cup {[type |-> t, paid |-> to = "paid", of |-> p] : t \in types}
    /\ UNCHANGED <<milestones, payments, links, checkouts, failures>>

\* The customer's card is declined, pays at once, or starts a payment that settles later.
CardDeclined(p) == p \in links /\ Session(p, "open", "open", {"payment_intent.payment_failed"})
PayNow(p) ==
    p \in links /\ Session(p, "open", "paid", {"checkout.session.completed", "payment_intent.succeeded"})
PayLater(p) == p \in links /\ Session(p, "open", "unpaid", {"checkout.session.completed"})
SettleLate(p) ==
    Session(p, "unpaid", "paid",
            {"checkout.session.async_payment_succeeded", "payment_intent.succeeded"})
FailLate(p) ==
    Session(p, "unpaid", "failed",
            {"checkout.session.async_payment_failed", "payment_intent.payment_failed"})
Expire(p) == Session(p, "open", "expired", {})

-----------------------------------------------------------------------------
(* stripe_webhook *)

CompletedEvents == {"checkout.session.completed"}    \* a mutant: the router forgets the late one
HandledEvents == {"checkout.session.completed", "checkout.session.async_payment_succeeded"}
IntentEvents == {"payment_intent.succeeded", "payment_intent.processing",
                 "payment_intent.payment_failed", "payment_intent.canceled"}

\* Answered with 200: Stripe does not deliver it again, or has done so already.
Answered(e) == webhooks' \in {webhooks, webhooks \ {e}}

\* Mutants: a completed session is taken for a paid one; a late event resets the payment;
\* the payment gets Stripe's word for its status.
PaidOnCompletion(p, paid) ==
    IF Exists(p) THEN [payments EXCEPT ![p].status = "PAID"] ELSE payments
PaidOrNot(p, paid) ==
    IF Exists(p) THEN [payments EXCEPT ![p].status = IF paid THEN "PAID" ELSE "PENDING"]
    ELSE payments
StripesWord(p, paid) ==
    IF Exists(p) THEN [payments EXCEPT ![p].status = IF paid THEN "paid" ELSE "unpaid"] ELSE payments
\* handle_checkout_completed: what it leaves of the table.
CheckoutCompleted(p, paid) ==
    IF Exists(p) /\ payments[p].status # "PAID" /\ paid
      THEN [payments EXCEPT ![p].status = "PAID"]
      ELSE payments

HandleCheckout(e) ==
    /\ e \in webhooks /\ e.type \in HandledEvents
    /\ payments' = CheckoutCompleted(e.of, e.paid)
    /\ Answered(e)
    /\ UNCHANGED <<milestones, sessions, links, checkouts, failures>>

\* The router has no branch for it.
IgnoreEvent(e) ==
    /\ e \in webhooks /\ e.type \notin HandledEvents \cup IntentEvents
    /\ Answered(e)
    /\ UNCHANGED <<milestones, payments, sessions, links, checkouts, failures>>

\* The lookup by intent id that all intent handlers start with is not a function of
\* the repository (it is nested in delete): AttributeError, and nothing changes however
\* often Stripe tries before it gives up.
RefuseIntent(e) ==
    /\ e \in webhooks /\ e.type \in IntentEvents
    /\ webhooks' = webhooks \ {e}
    /\ UNCHANGED <<milestones, payments, sessions, links, checkouts, failures>>

\* The transaction fails, or the milestone goes between the lookup and the UPDATE: an
\* error, rolled back; Stripe will deliver the event again.
WebhookFails(e) ==
    /\ e \in webhooks /\ e.type \in HandledEvents /\ failures < MaxFailures
    /\ failures' = failures + 1
    /\ UNCHANGED <<milestones, payments, stripe, links, checkouts>>

-----------------------------------------------------------------------------
CheckoutStep(r) ==
    \/ \E p \in Payment : CheckoutCheck(r, p)
    \/ InsertPayment(r) \/ ForgetPayment(r) \/ RecordSession(r) \/ Respond(r) \/ Die(r)
    \/ \E made, raised \in BOOLEAN : CallStripe(r, made, raised)
StripeStep(p) ==
    CardDeclined(p) \/ PayNow(p) \/ PayLater(p) \/ SettleLate(p) \/ FailLate(p) \/ Expire(p)
Webhook(e) == HandleCheckout(e) \/ IgnoreEvent(e) \/ RefuseIntent(e) \/ WebhookFails(e)

Next ==
    \/ \E r \in Checkout : CheckoutStep(r)
    \/ \E p \in Payment : StripeStep(p)
    \/ \E e \in webhooks : Webhook(e)
    \/ \E m \in Milestone : DeleteMilestone(m)

Spec == Init /\ [][Next]_vars

\* Stripe delivers an event until it is answered with 200, and the server answers.
FairSpec == Spec /\ \A e \in Event : WF_vars(HandleCheckout(e))

-----------------------------------------------------------------------------
TypeOK ==
    /\ milestones \subseteq Milestone
    /\ payments \in [Payment -> [status : PaymentStatus \cup Absent, session : BOOLEAN]]
    /\ sessions \in [Payment -> {"none", "open", "unpaid", "paid", "failed", "expired"}]
    /\ links \subseteq Payment /\ webhooks \subseteq Event
    /\ checkouts \in [Checkout -> [pc : {"idle", "checked", "inserted", "created", "raised", "recorded"},
                                   id : Payment \cup {NoPayment}]]
    /\ failures \in 0..MaxFailures

\* However many checkouts run at once, and whichever of their calls fail after Stripe
\* has made a session, a client is charged at most once for a milestone.
ChargedOnce ==
    \A p, q \in Payment :
        MilestoneOf[p] = MilestoneOf[q] /\ {p, q} \subseteq links => p = q

\* While the milestone exists, a session that its client can pay is the one recorded in
\* the milestone's payment, so that the webhook will find it.
LinkIsOnRecord ==
    \A p \in links : MilestoneOf[p] \in milestones => Exists(p) /\ payments[p].session

\* A payment is PAID only if Stripe has the money, whatever order events arrive in and
\* however often.
PaidIsTrue == \A p \in Payment : payments[p].status = "PAID" => sessions[p] = "paid"

\* No late or repeated event takes a payment back from PAID.
PaidIsFinal ==
    [][\A p \in Payment : payments[p].status = "PAID" => payments'[p].status \in {"PAID", "DELETED"}]_vars

\* Money that Stripe has taken is recorded in the end, unless the milestone goes and
\* takes the payment along.
PaidIsRecorded ==
    \A p \in Payment : sessions[p] = "paid" ~> payments[p].status \in {"PAID", "DELETED"}
=============================================================================
