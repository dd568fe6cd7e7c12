--------------------------- MODULE PaymentsProofs ---------------------------
(* Proofs about payments, for any milestones, payments and checkouts.        *)
EXTENDS Payments, TLAPS

\* The checkouts past the INSERT: each has made the payment it holds.
Making == {"inserted", "created", "raised", "recorded"}
Made(r, p) == checkouts[r].pc \in Making /\ checkouts[r].id = p

\* What stands in the way of a second charge for the milestone of p: its payment, a
\* checkout that has made it, or a link that was sent.
Claims(p) == Exists(p) \/ p \in links \/ \E r \in Checkout : Made(r, p)

\* A checkout has its payment for itself, Stripe has no session of it before it is asked for
\* one, and no link is sent before the session is recorded.
CheckoutOK(r) ==
    LET p == checkouts[r].id IN
    /\ checkouts[r].pc # "idle" => p \in Payment
    /\ checkouts[r].pc \in Making =>
          /\ payments[p].status # "NONE" /\ p \notin links
          /\ \A t \in Checkout : Made(t, p) => t = r
    /\ At(r, "inserted") => sessions[p] = "none"
    /\ At(r, "recorded") => payments[p].session

PaymentOK(p) ==
    \* a payment not made yet
    /\ payments[p].status = "NONE" => sessions[p] = "none" /\ p \notin links
    \* what claims a milestone that exists is its payment
    /\ Claims(p) /\ MilestoneOf[p] \in milestones => Exists(p)
    /\ p \in links => payments[p].session
    /\ payments[p].status = "PAID" => sessions[p] = "paid"

OneClaim == \A p, q \in Payment : MilestoneOf[p] = MilestoneOf[q] /\ Claims(p) /\ Claims(q) => p = q
EventsTrue == \A e \in webhooks : e.paid => sessions[e.of] = "paid"

PaymentsInv ==
    /\ TypeOK
    /\ \A r \in Checkout : CheckoutOK(r)
    /\ \A p \in Payment : PaymentOK(p)
    /\ OneClaim /\ EventsTrue

-----------------------------------------------------------------------------
PaymentRow == [status : PaymentStatus \cup Absent, session : BOOLEAN]
CheckoutRow == [pc : {"idle"} \cup {"checked"} \cup Making, id : Payment \cup {NoPayment}]

LEMMA Types ==
    ASSUME PaymentsInv
    PROVE  /\ payments \in [Payment -> PaymentRow] /\ checkouts \in [Checkout -> CheckoutRow]
           /\ sessions \in [Payment -> {"none", "open", "unpaid", "paid", "failed", "expired"}]
           /\ links \subseteq Payment /\ webhooks \subseteq Event
    BY DEF PaymentsInv, TypeOK, PaymentRow, CheckoutRow, Making

\* A checkout that ends or goes on, with payments, sessions and links as they were.
LEMMA CheckoutMoves ==
    ASSUME PaymentsInv, NEW r \in Checkout, NEW q, q \in CheckoutRow,
           checkouts' = [checkouts EXCEPT ![r] = q],
           UNCHANGED <<milestones, payments, sessions, links, webhooks, failures>>,
           q.pc # "idle" => q.id \in Payment,
           q.pc \in Making => Made(r, q.id),
           q.pc = "inserted" => At(r, "inserted"),
           q.pc = "recorded" => payments[q.id].session
    PROVE  PaymentsInv'
<1>1. checkouts' \in [Checkout -> CheckoutRow] /\ checkouts'[r] = q
      /\ \A t \in Checkout \ {r} : checkouts'[t] = checkouts[t]
    BY Types
<1>2. \A t \in Checkout, p \in Payment : Made(t, p)' => Made(t, p)
    BY <1>1 DEF Made
<1>3. \A p \in Payment : (Claims(p)' => Claims(p)) /\ (Exists(p)' <=> Exists(p))
    BY <1>2 DEF Claims, Exists
<1>4. ASSUME NEW t \in Checkout  PROVE CheckoutOK(t)'
  <2>1. CASE t = r
      BY <1>1, <1>2, <2>1 DEF PaymentsInv, CheckoutOK, Made, At, Making
  <2>2. CASE t # r
      BY <1>1, <1>2, <2>2 DEF PaymentsInv, CheckoutOK, Made, At, Making
  <2>3. QED  BY <2>1, <2>2
<1>5. \A p \in Payment : PaymentOK(p)'
    BY <1>3 DEF PaymentsInv, PaymentOK
<1>6. OneClaim' /\ EventsTrue'
    BY <1>3 DEF PaymentsInv, OneClaim, EventsTrue
<1>7. TypeOK'
    BY <1>1 DEF PaymentsInv, TypeOK, CheckoutRow, Making
<1>8. QED  BY <1>4, <1>5, <1>6, <1>7 DEF PaymentsInv

\* A step that leaves the checkouts alone, at which no payment is made and none loses what
\* a checkout relies on.
LEMMA TableMoves ==
    ASSUME PaymentsInv, TypeOK', UNCHANGED <<checkouts, links>>, milestones' \subseteq milestones,
           \A p \in Payment :
              /\ payments'[p].status = "NONE" <=> payments[p].status = "NONE"
              /\ payments'[p].session = payments[p].session
              /\ Exists(p)' => Exists(p)
              /\ Exists(p) /\ MilestoneOf[p] \in milestones' => Exists(p)'
              /\ sessions[p] = "none" <=> sessions'[p] = "none"
              /\ payments'[p].status = "PAID" => sessions'[p] = "paid",
           EventsTrue'
    PROVE  PaymentsInv'
<1>1. \A t \in Checkout, p \in Payment : Made(t, p)' <=> Made(t, p)
    BY DEF Made
<1>2. \A p \in Payment : Claims(p)' => Claims(p)
    BY <1>1 DEF Claims
<1>3. ASSUME NEW t \in Checkout  PROVE CheckoutOK(t)'
  <2>1. CheckoutOK(t) /\ checkouts[t] \in CheckoutRow
      BY Types DEF PaymentsInv
  <2>2. checkouts[t].pc # "idle" => checkouts[t].id \in Payment
      BY <2>1 DEF CheckoutOK
  <2>3. CASE checkouts[t].pc = "idle"
      BY <2>3 DEF CheckoutOK, At, Making
  <2>4. CASE checkouts[t].pc # "idle"
      BY <1>1, <2>1, <2>2, <2>4 DEF CheckoutOK, At, Making
  <2>5. QED  BY <2>3, <2>4
<1>4. ASSUME NEW p \in Payment  PROVE PaymentOK(p)'
    BY <1>2 DEF PaymentsInv, PaymentOK
<1>5. OneClaim'
    BY <1>2 DEF PaymentsInv, OneClaim
<1>6. QED  BY <1>3, <1>4, <1>5 DEF PaymentsInv

-----------------------------------------------------------------------------
(* The steps of a checkout *)

LEMMA Inserts ==
    ASSUME PaymentsInv, NEW r \in Checkout, InsertPayment(r)  PROVE PaymentsInv'
<1>1. PICK p \in Payment : p = checkouts[r].id
    BY DEF InsertPayment, At, PaymentsInv, CheckoutOK
<1>2. CASE ~CanInsert(p)
  <2>1. Idle \in CheckoutRow /\ Idle.pc = "idle"
      BY DEF Idle, CheckoutRow
  <2>2. checkouts' = [checkouts EXCEPT ![r] = Idle]
        /\ UNCHANGED <<milestones, payments, sessions, links, webhooks, failures>>
      BY <1>1, <1>2 DEF InsertPayment, Ends, stripe
  <2>3. QED  BY <2>1, <2>2, CheckoutMoves DEF Making
<1>3. CASE CanInsert(p)
  <2>1. /\ payments' = [payments EXCEPT ![p].status = "PENDING"]
        /\ checkouts' = [checkouts EXCEPT ![r].pc = "inserted"]
        /\ UNCHANGED <<milestones, sessions, links, webhooks, failures>>
        /\ payments[p].status = "NONE" /\ MilestoneOf[p] \in milestones /\ PaymentsOf(MilestoneOf[p]) = {}
      BY <1>1, <1>3 DEF InsertPayment, Goes, CanInsert, CanInsertAgain, stripe
  <2>2. /\ payments' \in [Payment -> PaymentRow] /\ payments'[p].status = "PENDING"
        /\ \A q \in Payment \ {p} : payments'[q] = payments[q]
      BY <2>1, Types DEF PaymentRow, PaymentStatus
  <2>3. /\ checkouts' \in [Checkout -> CheckoutRow]
        /\ checkouts'[r].pc = "inserted" /\ checkouts'[r].id = p
        /\ \A t \in Checkout \ {r} : checkouts'[t] = checkouts[t]
      BY <1>1, <2>1, Types DEF CheckoutRow, Making
  <2>4. p \notin links /\ sessions[p] = "none" /\ \A t \in Checkout : ~Made(t, p)
      BY <2>1 DEF PaymentsInv, PaymentOK, CheckoutOK, Made
  <2>5. ASSUME NEW t \in Checkout  PROVE CheckoutOK(t)'
    <3>1. CASE t = r
        BY <2>1, <2>2, <2>3, <2>4, <3>1 DEF CheckoutOK, Made, At, Making
    <3>2. CASE t # r
      <4>1. CheckoutOK(t) /\ ~Made(t, p)
          BY <2>4 DEF PaymentsInv
      <4>2. QED  BY <2>1, <2>2, <2>3, <3>2, <4>1 DEF CheckoutOK, Made, At, Making
    <3>3. QED  BY <3>1, <3>2
  <2>6. \A q \in Payment \ {p} : (Claims(q)' <=> Claims(q)) /\ (Exists(q)' <=> Exists(q))
      BY <1>1, <2>1, <2>2, <2>3 DEF Claims, Made, Exists, Making, InsertPayment, At
  <2>7. ASSUME NEW q \in Payment  PROVE PaymentOK(q)'
    <3>1. CASE q = p
        BY <2>1, <2>2, <2>4, <3>1 DEF PaymentOK, Exists, PaymentStatus
    <3>2. CASE q # p
        BY <2>1, <2>2, <2>6, <3>2 DEF PaymentsInv, PaymentOK
    <3>3. QED  BY <3>1, <3>2
  <2>8. ASSUME NEW q \in Payment \ {p}, MilestoneOf[q] = MilestoneOf[p]  PROVE ~Claims(q)
      BY <2>1, <2>8 DEF PaymentsInv, PaymentOK, PaymentsOf
  <2>9. OneClaim'
      BY <2>6, <2>8 DEF PaymentsInv, OneClaim
  <2>10. TypeOK' /\ EventsTrue'
      BY <2>1, <2>2, <2>3 DEF PaymentsInv, TypeOK, EventsTrue, PaymentRow, CheckoutRow, Making
  <2>11. QED  BY <2>5, <2>7, <2>9, <2>10 DEF PaymentsInv
<1>4. QED  BY <1>2, <1>3

LEMMA Calls ==
    ASSUME PaymentsInv, NEW r \in Checkout, NEW made \in BOOLEAN, NEW raised \in BOOLEAN,
           CallStripe(r, made, raised)
    PROVE  PaymentsInv'
<1> DEFINE pc == IF raised THEN "raised" ELSE "created"
<1>1. PICK p \in Payment : Made(r, p) /\ sessions[p] = "none" /\ payments[p].status # "NONE"
    BY DEF CallStripe, At, PaymentsInv, CheckoutOK, Made, Making
<1>2. /\ sessions' = [sessions EXCEPT ![p] = "open"] \/ UNCHANGED sessions
      /\ checkouts' = [checkouts EXCEPT ![r].pc = pc] /\ pc \in {"raised", "created"}
      /\ UNCHANGED <<milestones, payments, links, webhooks, failures>>
    BY <1>1 DEF CallStripe, Goes, Made
<1> HIDE DEF pc
<1>3. /\ checkouts' \in [Checkout -> CheckoutRow]
      /\ checkouts'[r].pc = pc /\ checkouts'[r].id = p
      /\ \A t \in Checkout \ {r} : checkouts'[t] = checkouts[t]
    BY <1>1, <1>2, Types DEF CheckoutRow, Making, Made
<1>4. /\ sessions' \in [Payment -> {"none", "open", "unpaid", "paid", "failed", "expired"}]
      /\ \A q \in Payment \ {p} : sessions'[q] = sessions[q]
    BY <1>2, Types
<1>5. \A t \in Checkout, q \in Payment : Made(t, q)' <=> Made(t, q)
    BY <1>1, <1>2, <1>3 DEF Made, Making
<1>6. \A q \in Payment : (Claims(q)' <=> Claims(q)) /\ (Exists(q)' <=> Exists(q))
    BY <1>2, <1>5 DEF Claims, Exists
<1>7. ASSUME NEW t \in Checkout  PROVE CheckoutOK(t)'
  <2>1. CheckoutOK(t)
      BY DEF PaymentsInv
  <2>2. CASE t = r
      BY <1>1, <1>2, <1>3, <1>5, <2>1, <2>2 DEF CheckoutOK, At, Making, Made
  <2>3. CASE t # r
    <3>1. checkouts[t].pc \in Making => checkouts[t].id # p
        BY <1>1, <2>1, <2>3 DEF CheckoutOK
    <3>2. QED  BY <1>2, <1>3, <1>4, <1>5, <2>1, <2>3, <3>1 DEF CheckoutOK, At, Making
  <2>4. QED  BY <2>2, <2>3
<1>8. ASSUME NEW q \in Payment  PROVE PaymentOK(q)'
    BY <1>1, <1>2, <1>4, <1>6 DEF PaymentsInv, PaymentOK
<1>9. OneClaim'
    BY <1>6 DEF PaymentsInv, OneClaim
<1>10. EventsTrue'
    BY <1>1, <1>2, <1>4, Types DEF PaymentsInv, EventsTrue, Event
<1>11. TypeOK'
    BY <1>2, <1>3, <1>4 DEF PaymentsInv, TypeOK, CheckoutRow, Making
<1>12. QED  BY <1>7, <1>8, <1>9, <1>10, <1>11 DEF PaymentsInv

\* A checkout that is over, with everything else as it was.
LEMMA Quits ==
    ASSUME PaymentsInv, NEW r \in Checkout, Ends(r),
           UNCHANGED <<milestones, payments, sessions, links, webhooks, failures>>
    PROVE  PaymentsInv'
<1>1. Idle \in CheckoutRow /\ Idle.pc = "idle"
    BY DEF Idle, CheckoutRow
<1>2. checkouts' = [checkouts EXCEPT ![r] = Idle]
    BY DEF Ends
<1>3. QED  BY <1>1, <1>2, CheckoutMoves DEF Making

\* A checkout that writes the row of its payment, and goes on or is over.
LEMMA Writes ==
    ASSUME PaymentsInv, NEW r \in Checkout, NEW p \in Payment, Made(r, p),
           NEW row \in PaymentRow, payments' = [payments EXCEPT ![p] = row],
           NEW q \in CheckoutRow, checkouts' = [checkouts EXCEPT ![r] = q],
           UNCHANGED <<milestones, sessions, links, webhooks, failures>>,
           \/ row.status = "DELETED" /\ q = Idle
           \/ row = [payments[p] EXCEPT !.session = TRUE] /\ q = [pc |-> "recorded", id |-> p]
    PROVE  PaymentsInv'
<1>1. /\ payments' \in [Payment -> PaymentRow] /\ payments'[p] = row
      /\ \A x \in Payment \ {p} : payments'[x] = payments[x]
    BY Types
<1>2. /\ checkouts' \in [Checkout -> CheckoutRow] /\ checkouts'[r] = q
      /\ \A t \in Checkout \ {r} : checkouts'[t] = checkouts[t]
    BY Types
<1>3. /\ payments[p] \in PaymentRow /\ payments[p].status # "NONE" /\ p \notin links
      /\ \A t \in Checkout : Made(t, p) => t = r
    BY Types DEF PaymentsInv, CheckoutOK, Made
<1>4. /\ row.status # "NONE" /\ (row.status = "PAID" => payments[p].status = "PAID")
      /\ Exists(p)' => Exists(p)
      /\ q.pc \notin Making => row.status = "DELETED"
      /\ q.pc \in Making => q.pc = "recorded" /\ q.id = p /\ row.session /\ row.status = payments[p].status
    BY <1>1, <1>3 DEF PaymentRow, Idle, Exists, PaymentStatus, Making
<1>5. ASSUME NEW t \in Checkout, NEW x \in Payment, Made(t, x)'  PROVE Made(t, x)
  <2>1. CASE t = r
      BY <1>2, <1>4, <1>5, <2>1 DEF Made
  <2>2. CASE t # r
      BY <1>2, <1>5, <2>2 DEF Made
  <2>3. QED  BY <2>1, <2>2
<1>6. ASSUME NEW x \in Payment  PROVE Claims(x)' => Claims(x)
    BY <1>1, <1>4, <1>5 DEF Claims, Exists
<1>7. ASSUME NEW t \in Checkout  PROVE CheckoutOK(t)'
  <2>1. CASE t = r
    <3>1. CASE q = Idle
        BY <1>2, <2>1, <3>1 DEF CheckoutOK, At, Making, Idle
    <3>2. CASE q = [pc |-> "recorded", id |-> p]
        BY <1>1, <1>2, <1>3, <1>4, <1>5, <2>1, <3>2 DEF CheckoutOK, At, Making
    <3>3. QED  BY <3>1, <3>2
  <2>2. CASE t # r
    <3>1. CheckoutOK(t) /\ (checkouts[t].pc \in Making => checkouts[t].id # p)
        BY <1>3, <2>2 DEF PaymentsInv, Made
    <3>2. QED  BY <1>1, <1>2, <1>5, <2>2, <3>1 DEF CheckoutOK, At, Making
  <2>3. QED  BY <2>1, <2>2
<1>8. ASSUME NEW x \in Payment  PROVE PaymentOK(x)'
  <2>1. CASE x = p
    <3>1. CASE q = Idle
      <4>1. ~Claims(p)'
        <5>1. ~Exists(p)'
            BY <1>1, <1>4, <3>1 DEF Exists, PaymentStatus, Idle, Making
        <5>2. \A t \in Checkout : ~Made(t, p)'
            BY <1>2, <1>3, <1>5, <3>1 DEF Made, Idle, Making
        <5>3. QED  BY <1>3, <5>1, <5>2 DEF Claims
      <4>2. row.status = "DELETED"
          BY <1>4, <3>1 DEF Idle, Making
      <4>3. QED  BY <1>1, <1>3, <2>1, <4>1, <4>2 DEF PaymentOK
    <3>2. CASE q = [pc |-> "recorded", id |-> p]
      <4>1. Exists(p)' <=> Exists(p)
          BY <1>1, <1>4, <3>2 DEF Exists, Making
      <4>2. QED  BY <1>1, <1>3, <1>4, <1>6, <2>1, <4>1 DEF PaymentsInv, PaymentOK
    <3>3. QED  BY <3>1, <3>2
  <2>2. CASE x # p
      BY <1>1, <1>6, <2>2 DEF PaymentsInv, PaymentOK, Exists
  <2>3. QED  BY <2>1, <2>2
<1>9. OneClaim' /\ EventsTrue'
    BY <1>6 DEF PaymentsInv, OneClaim, EventsTrue
<1>10. TypeOK'
    BY <1>1, <1>2 DEF PaymentsInv, TypeOK, CheckoutRow, PaymentRow, Making
<1>11. QED  BY <1>7, <1>8, <1>9, <1>10 DEF PaymentsInv

LEMMA Responds ==
    ASSUME PaymentsInv, NEW r \in Checkout, Respond(r)  PROVE PaymentsInv'
<1>1. PICK p \in Payment : Made(r, p) /\ p \notin links /\ payments[p].session
                          /\ payments[p].status # "NONE" /\ p = checkouts[r].id
    BY DEF Respond, At, PaymentsInv, CheckoutOK, Made, Making
<1>2. /\ links' = links \cup {p} /\ checkouts' = [checkouts EXCEPT ![r] = Idle]
      /\ UNCHANGED <<milestones, payments, sessions, webhooks, failures>>
    BY <1>1 DEF Respond, Ends, stripe
<1>3. /\ checkouts' \in [Checkout -> CheckoutRow] /\ checkouts'[r] = Idle
      /\ \A t \in Checkout \ {r} : checkouts'[t] = checkouts[t]
    BY <1>2, Types DEF CheckoutRow, Idle
<1>4. \A t \in Checkout, x \in Payment : Made(t, x)' => Made(t, x) /\ t # r
    BY <1>3 DEF Made, Idle, Making
<1>5. \A x \in Payment : (Claims(x)' => Claims(x)) /\ (Exists(x)' <=> Exists(x))
    BY <1>1, <1>2, <1>4 DEF Claims, Exists
<1>6. ASSUME NEW t \in Checkout  PROVE CheckoutOK(t)'
  <2>1. CASE t = r
      BY <1>3, <2>1 DEF CheckoutOK, At, Idle, Making
  <2>2. CASE t # r
    <3>1. CheckoutOK(t) /\ CheckoutOK(r)
        BY DEF PaymentsInv
    <3>2. checkouts[t].pc \in Making => checkouts[t].id # p
        BY <1>1, <2>2, <3>1 DEF CheckoutOK, Made
    <3>3. QED  BY <1>2, <1>3, <1>4, <2>2, <3>1, <3>2 DEF CheckoutOK, At, Making
  <2>3. QED  BY <2>1, <2>2
<1>7. ASSUME NEW x \in Payment  PROVE PaymentOK(x)'
    BY <1>1, <1>2, <1>5 DEF PaymentsInv, PaymentOK
<1>8. OneClaim' /\ EventsTrue'
    BY <1>2, <1>5 DEF PaymentsInv, OneClaim, EventsTrue
<1>9. TypeOK'
    BY <1>2, <1>3 DEF PaymentsInv, TypeOK, CheckoutRow, Making
<1>10. QED  BY <1>6, <1>7, <1>8, <1>9 DEF PaymentsInv

LEMMA CheckoutKeeps ==
    ASSUME PaymentsInv, NEW r \in Checkout, CheckoutStep(r)  PROVE PaymentsInv'
<1>1. ASSUME NEW p \in Payment, CheckoutCheck(r, p)  PROVE PaymentsInv'
  <2> DEFINE q == [pc |-> "checked", id |-> p]
  <2>1. q \in CheckoutRow /\ q.pc = "checked" /\ q.id = p
      BY DEF CheckoutRow
  <2>2. /\ checkouts' = [checkouts EXCEPT ![r] = q]
        /\ UNCHANGED <<milestones, payments, sessions, links, webhooks, failures>>
      BY <1>1 DEF CheckoutCheck, stripe
  <2> HIDE DEF q
  <2>3. QED  BY <2>1, <2>2, CheckoutMoves DEF Making
<1>2. CASE ForgetPayment(r)
  <2>1. PICK p \in Payment : p = checkouts[r].id /\ Made(r, p)
      BY <1>2 DEF ForgetPayment, At, PaymentsInv, CheckoutOK, Made, Making
  <2> DEFINE row == [payments[p] EXCEPT !.status = "DELETED"]
  <2>2. row \in PaymentRow /\ row.status = "DELETED" /\ Idle \in CheckoutRow
      BY <2>1, Types DEF PaymentRow, Absent, Idle, CheckoutRow
  <2>3. /\ payments' = [payments EXCEPT ![p] = row] /\ checkouts' = [checkouts EXCEPT ![r] = Idle]
        /\ UNCHANGED <<milestones, sessions, links, webhooks, failures>>
      BY <1>2, <2>1 DEF ForgetPayment, Ends, stripe
  <2> HIDE DEF row
  <2>4. QED  BY <2>1, <2>2, <2>3, Writes
<1>3. CASE RecordSession(r)
  <2>1. PICK p \in Payment : p = checkouts[r].id /\ Made(r, p)
      BY <1>3 DEF RecordSession, At, PaymentsInv, CheckoutOK, Made, Making
  <2>2. CASE Exists(p)
    <3> DEFINE row == [payments[p] EXCEPT !.session = TRUE]
               q == [pc |-> "recorded", id |-> p]
    <3>1. row \in PaymentRow /\ q \in CheckoutRow
        BY Types DEF PaymentRow, CheckoutRow, Making
    <3>2. payments' = [payments EXCEPT ![p] = row]
          /\ UNCHANGED <<milestones, sessions, links, webhooks, failures>>
        BY <1>3, <2>1, <2>2 DEF RecordSession, stripe
    <3>3. checkouts' = [checkouts EXCEPT ![r] = q]
      <4>1. checkouts' = [checkouts EXCEPT ![r].pc = "recorded"] /\ checkouts[r] \in CheckoutRow
          BY <1>3, <2>1, <2>2, Types DEF RecordSession, Goes
      <4>2. [checkouts[r] EXCEPT !.pc = "recorded"] = q
          BY <2>1, <4>1 DEF CheckoutRow
      <4>3. QED  BY <4>1, <4>2
    <3>4. QED  BY <2>1, <3>1, <3>2, <3>3, Writes
  <2>3. CASE ~Exists(p)
      BY <1>3, <2>1, <2>3, Quits DEF RecordSession, stripe
  <2>4. QED  BY <2>2, <2>3
<1>4. CASE Die(r)
    BY <1>4, Quits DEF Die, stripe
<1>5. QED
    BY <1>1, <1>2, <1>3, <1>4, Inserts, Calls, Responds DEF CheckoutStep

-----------------------------------------------------------------------------
(* The steps of Stripe, of the webhook and of other handlers *)

LEMMA StripeKeeps ==
    ASSUME PaymentsInv, NEW p \in Payment, StripeStep(p)  PROVE PaymentsInv'
<1>1. ASSUME NEW from \in {"open", "unpaid"}, NEW to \in {"open", "unpaid", "paid", "failed", "expired"},
             NEW types \in SUBSET {"checkout.session.completed",
                 "checkout.session.async_payment_succeeded", "checkout.session.async_payment_failed",
                 "payment_intent.succeeded", "payment_intent.payment_failed"},
             Session(p, from, to, types)
      PROVE  PaymentsInv'
  <2>1. /\ sessions[p] = from /\ sessions' = [sessions EXCEPT ![p] = to]
        /\ webhooks' = webhooks \cup {[type |-> t, paid |-> to = "paid", of |-> p] : t \in types}
        /\ UNCHANGED <<milestones, payments, links, checkouts, failures>>
      BY <1>1 DEF Session
  <2>2. /\ sessions' \in [Payment -> {"none", "open", "unpaid", "paid", "failed", "expired"}]
        /\ sessions'[p] = to /\ \A q \in Payment \ {p} : sessions'[q] = sessions[q]
      BY <2>1, Types
  <2>3. \A t \in types : [type |-> t, paid |-> to = "paid", of |-> p] \in Event
      BY DEF Event
  <2>4. webhooks' \subseteq Event
      BY <2>1, <2>3, Types
  <2>5. TypeOK'
      BY <2>1, <2>2, <2>4 DEF PaymentsInv, TypeOK
  <2>6. ASSUME NEW e \in webhooks', e.paid  PROVE sessions'[e.of] = "paid"
    <3>1. CASE e \in webhooks
        BY <2>1, <2>2, <2>6, <3>1, Types DEF PaymentsInv, EventsTrue, Event
    <3>2. ASSUME NEW t \in types, e = [type |-> t, paid |-> to = "paid", of |-> p]
          PROVE  sessions'[e.of] = "paid"
        BY <2>2, <2>6, <3>2
    <3>3. QED  BY <2>1, <3>1, <3>2
  <2>7. EventsTrue'
      BY <2>6 DEF EventsTrue
  <2>8. ASSUME NEW q \in Payment
        PROVE  /\ payments'[q] = payments[q] /\ (Exists(q)' <=> Exists(q))
               /\ sessions[q] = "none" <=> sessions'[q] = "none"
               /\ payments[q].status = "PAID" => sessions'[q] = "paid"
      BY <2>1, <2>2 DEF PaymentsInv, PaymentOK, Exists
  <2>9. QED  BY <2>1, <2>5, <2>7, <2>8, TableMoves
<1>2. QED  BY <1>1 DEF StripeStep, CardDeclined, PayNow, PayLater, SettleLate, FailLate, Expire

LEMMA WebhookKeeps ==
    ASSUME PaymentsInv, NEW e \in webhooks, Webhook(e)  PROVE PaymentsInv'
<1>1. e \in Event
    BY Types
<1>2. CASE HandleCheckout(e)
  <2>1. /\ payments' = CheckoutCompleted(e.of, e.paid) /\ webhooks' \subseteq webhooks
        /\ UNCHANGED <<milestones, sessions, links, checkouts, failures>>
      BY <1>2 DEF HandleCheckout, Answered
  <2>2. e.of \in Payment /\ (e.paid => sessions[e.of] = "paid")
      BY <1>1 DEF Event, PaymentsInv, EventsTrue
  <2>3. /\ payments' \in [Payment -> PaymentRow]
        /\ \A q \in Payment :
              \/ payments'[q] = payments[q]
              \/ /\ Exists(q) /\ payments'[q].session = payments[q].session
                 /\ payments'[q].status = "PAID" /\ sessions[q] = "paid"
      BY <2>1, <2>2, Types DEF CheckoutCompleted, PaymentRow, PaymentStatus
  <2>4. ASSUME NEW q \in Payment
        PROVE  /\ payments'[q].status = "NONE" <=> payments[q].status = "NONE"
               /\ payments'[q].session = payments[q].session
               /\ Exists(q)' <=> Exists(q)
               /\ payments'[q].status = "PAID" => sessions'[q] = "paid"
      BY <2>1, <2>3 DEF PaymentsInv, PaymentOK, Exists, PaymentStatus
  <2>5. TypeOK' /\ EventsTrue'
      BY <2>1, <2>3 DEF PaymentsInv, TypeOK, EventsTrue, PaymentRow
  <2>6. QED  BY <2>1, <2>4, <2>5, TableMoves
<1>3. CASE IgnoreEvent(e) \/ RefuseIntent(e) \/ WebhookFails(e)
  <2>1. /\ webhooks' \subseteq webhooks /\ UNCHANGED <<milestones, payments, sessions, links, checkouts>>
        /\ failures' = failures \/ (failures < MaxFailures /\ failures' = failures + 1)
      BY <1>3 DEF IgnoreEvent, RefuseIntent, WebhookFails, Answered, stripe
  <2>2. TypeOK' /\ EventsTrue'
      BY <2>1, PaymentConstants DEF PaymentsInv, TypeOK, EventsTrue
  <2>3. \A q \in Payment : (Exists(q)' <=> Exists(q)) /\ (payments[q].status = "PAID" => sessions[q] = "paid")
      BY <2>1 DEF Exists, PaymentsInv, PaymentOK
  <2>4. QED  BY <2>1, <2>2, <2>3, TableMoves
<1>4. QED  BY <1>2, <1>3 DEF Webhook

LEMMA DeletionKeeps ==
    ASSUME PaymentsInv, NEW m \in Milestone, DeleteMilestone(m)  PROVE PaymentsInv'
<1>1. /\ milestones' = milestones \ {m}
      /\ payments' = [p \in Payment |->
            IF p \in PaymentsOf(m) THEN [payments[p] EXCEPT !.status = "DELETED"] ELSE payments[p]]
      /\ UNCHANGED <<sessions, links, webhooks, checkouts, failures>>
    BY DEF DeleteMilestone, stripe
<1>2. /\ payments' \in [Payment -> PaymentRow]
      /\ \A q \in Payment : \/ payments'[q] = payments[q] /\ ~(MilestoneOf[q] = m /\ Exists(q))
                            \/ /\ MilestoneOf[q] = m /\ Exists(q)
                               /\ payments'[q].session = payments[q].session
                               /\ payments'[q].status = "DELETED"
    BY <1>1, Types DEF PaymentRow, Absent, PaymentsOf
<1>3. ASSUME NEW q \in Payment
      PROVE  /\ payments'[q].status = "NONE" <=> payments[q].status = "NONE"
             /\ payments'[q].session = payments[q].session
             /\ Exists(q)' => Exists(q)
             /\ Exists(q) /\ MilestoneOf[q] \in milestones' => Exists(q)'
             /\ payments'[q].status = "PAID" => sessions'[q] = "paid"
    BY <1>1, <1>2 DEF PaymentsInv, PaymentOK, Exists, PaymentStatus
<1>4. TypeOK' /\ EventsTrue'
    BY <1>1, <1>2 DEF PaymentsInv, TypeOK, EventsTrue, PaymentRow
<1>5. QED  BY <1>1, <1>3, <1>4, TableMoves

-----------------------------------------------------------------------------
\* The invariant: what checkouts rely on, one claim on a milestone, and events that tell
\* the truth.
THEOREM PaymentsConsistent == Spec => []PaymentsInv
<1>1. Init => PaymentsInv
  <2> SUFFICES ASSUME Init  PROVE PaymentsInv
      OBVIOUS
  <2>1. TypeOK
      BY PaymentConstants DEF Init, TypeOK, Absent, Idle
  <2>2. \A r \in Checkout : CheckoutOK(r) /\ \A p \in Payment : ~Made(r, p)
      BY DEF Init, CheckoutOK, Made, At, Idle, Making
  <2>3. \A p \in Payment : ~Claims(p)
      BY <2>2 DEF Init, Claims, Exists, PaymentStatus
  <2>4. \A p \in Payment : PaymentOK(p)
      BY <2>3 DEF Init, PaymentOK
  <2>5. OneClaim /\ EventsTrue
      BY <2>3 DEF Init, OneClaim, EventsTrue
  <2>6. QED  BY <2>1, <2>2, <2>4, <2>5 DEF PaymentsInv
<1>2. PaymentsInv /\ [Next]_vars => PaymentsInv'
  <2> SUFFICES ASSUME PaymentsInv, [Next]_vars  PROVE PaymentsInv'
      OBVIOUS
  <2>1. CASE UNCHANGED vars
    <3>1. /\ UNCHANGED <<milestones, payments, sessions, links, webhooks, checkouts, failures>>
          /\ TypeOK' /\ EventsTrue'
        BY <2>1 DEF vars, stripe, PaymentsInv, TypeOK, EventsTrue
    <3>2. \A q \in Payment : (Exists(q)' <=> Exists(q)) /\ (payments[q].status = "PAID" => sessions[q] = "paid")
        BY <3>1 DEF Exists, PaymentsInv, PaymentOK
    <3>3. QED  BY <3>1, <3>2, TableMoves
  <2>2. QED  BY <2>1, CheckoutKeeps, StripeKeeps, WebhookKeeps, DeletionKeeps DEF Next
<1>3. QED  BY <1>1, <1>2, PTL DEF Spec

\* Every variable of the payments keeps its type, for any number of checkouts.
THEOREM PaymentsTyped == Spec => []TypeOK
<1>1. PaymentsInv => TypeOK
    BY DEF PaymentsInv
<1>2. QED  BY <1>1, PaymentsConsistent, PTL

\* However many checkouts run at once and whichever of their calls fail after they were
\* done, a client is sent the link of at most one session for a milestone.
THEOREM NobodyChargedTwice == Spec => []ChargedOnce
<1>1. PaymentsInv => ChargedOnce
    BY DEF PaymentsInv, OneClaim, Claims, ChargedOnce
<1>2. QED  BY <1>1, PaymentsConsistent, PTL

\* A session that a client can pay is the one on record, as long as its milestone exists.
THEOREM LinksAreOnRecord == Spec => []LinkIsOnRecord
<1>1. PaymentsInv => LinkIsOnRecord
    BY Types DEF PaymentsInv, PaymentOK, Claims, LinkIsOnRecord
<1>2. QED  BY <1>1, PaymentsConsistent, PTL

\* A payment is PAID only when Stripe has the money, in whatever order events arrive.
THEOREM PaidMeansPaid == Spec => []PaidIsTrue
<1>1. PaymentsInv => PaidIsTrue
    BY DEF PaymentsInv, PaymentOK, PaidIsTrue
<1>2. QED  BY <1>1, PaymentsConsistent, PTL

\* A payment that is recorded as paid, or gone, stays so.
LEMMA Recorded ==
    ASSUME PaymentsInv, [Next]_vars, NEW p \in Payment
    PROVE  payments[p].status \in {"PAID", "DELETED"} => payments'[p].status \in {"PAID", "DELETED"}
<1> SUFFICES ASSUME payments[p].status \in {"PAID", "DELETED"}
             PROVE  payments'[p].status \in {"PAID", "DELETED"}
    OBVIOUS
<1>1. payments \in [Payment -> PaymentRow]
    BY Types
<1>2. ASSUME NEW r \in Checkout, InsertPayment(r) \/ ForgetPayment(r) \/ RecordSession(r)
      PROVE  payments'[p].status \in {"PAID", "DELETED"}
    BY <1>1, <1>2 DEF InsertPayment, ForgetPayment, RecordSession, CanInsert, CanInsertAgain, PaymentRow
<1>3. ASSUME NEW e \in webhooks, HandleCheckout(e)  PROVE payments'[p].status \in {"PAID", "DELETED"}
    BY <1>1, <1>3 DEF HandleCheckout, CheckoutCompleted
<1>4. ASSUME NEW m \in Milestone, DeleteMilestone(m)  PROVE payments'[p].status \in {"PAID", "DELETED"}
    BY <1>1, <1>4 DEF DeleteMilestone, PaymentRow
<1>5. ASSUME NEW q \in Payment, StripeStep(q)  PROVE UNCHANGED payments
    BY <1>5 DEF StripeStep, CardDeclined, PayNow, PayLater, SettleLate, FailLate, Expire, Session
<1>6. QED
    BY <1>2, <1>3, <1>4, <1>5
    DEF Next, vars, CheckoutStep, CheckoutCheck, Respond, Die, CallStripe,
        Webhook, IgnoreEvent, RefuseIntent, WebhookFails

\* No late or repeated event, and no checkout, takes a payment back from PAID.
THEOREM PaidStaysPaid == Spec => PaidIsFinal
<1> DEFINE Final == \A p \in Payment :
                       payments[p].status = "PAID" => payments'[p].status \in {"PAID", "DELETED"}
<1>1. ASSUME PaymentsInv, [Next]_vars  PROVE Final
    BY <1>1, Recorded
<1>2. PaymentsInv /\ [Next]_vars => [Final]_vars
    BY <1>1
<1> HIDE DEF Final
<1>3. QED  BY <1>2, PaymentsConsistent, PTL DEF Spec, PaidIsFinal, Final
-----------------------------------------------------------------------------
(* Why PaidIsRecorded only needs Stripe to deliver. *)

\* The event of e would record that p is paid.
Tells(e, p) == e.of = p /\ e.paid /\ e.type \in HandledEvents

\* Money that Stripe has and the table does not know of has an event on its way.
MoneyIsAnnounced ==
    \A p \in Payment :
        sessions[p] = "paid" /\ payments[p].status \notin {"PAID", "DELETED"}
        => \E e \in webhooks : Tells(e, p)

\* A step that removes the events in `done' only: payments that are recorded as paid or
\* gone stay so, sessions become paid only with an event, and what `done' tells is recorded.
Announces(done) ==
    /\ webhooks \ done \subseteq webhooks'
    /\ \A p \in Payment :
          /\ payments[p].status \in {"PAID", "DELETED"} => payments'[p].status \in {"PAID", "DELETED"}
          /\ sessions'[p] = "paid" => sessions[p] = "paid" \/ \E e \in webhooks' : Tells(e, p)
          /\ \A e \in done : Tells(e, p) /\ sessions[p] = "paid"
                => payments'[p].status \in {"PAID", "DELETED"}

LEMMA AnnouncedStep ==
    ASSUME NEW done, MoneyIsAnnounced, Announces(done)
    PROVE  MoneyIsAnnounced'
<1>1. SUFFICES ASSUME NEW p \in Payment, sessions'[p] = "paid",
                      payments'[p].status \notin {"PAID", "DELETED"}
               PROVE  \E e \in webhooks' : Tells(e, p)
    BY DEF MoneyIsAnnounced, Tells
<1>2. CASE sessions[p] = "paid"
  <2>1. PICK e \in webhooks : Tells(e, p)
      BY <1>1, <1>2 DEF MoneyIsAnnounced, Announces
  <2>2. e \notin done
      BY <1>1, <1>2, <2>1 DEF Announces
  <2>3. QED  BY <2>1, <2>2 DEF Announces
<1>3. QED  BY <1>1, <1>2 DEF Announces

LEMMA AnnouncedNext ==
    ASSUME PaymentsInv, MoneyIsAnnounced, [Next]_vars
    PROVE  MoneyIsAnnounced'
<1>1. \A p \in Payment :
          payments[p].status \in {"PAID", "DELETED"} => payments'[p].status \in {"PAID", "DELETED"}
    BY Recorded
<1>2. ASSUME UNCHANGED <<sessions, webhooks>>  PROVE MoneyIsAnnounced'
  <2>1. Announces({})
      BY <1>1, <1>2 DEF Announces
  <2>2. QED  BY <2>1, AnnouncedStep
<1>3. ASSUME NEW r \in Checkout, CheckoutStep(r)  PROVE MoneyIsAnnounced'
  <2>1. CASE UNCHANGED <<sessions, webhooks>>
      BY <1>2, <2>1
  <2>2. ASSUME NEW made \in BOOLEAN, NEW raised \in BOOLEAN, CallStripe(r, made, raised)
        PROVE  MoneyIsAnnounced'
    <3>1. UNCHANGED webhooks /\ \A p \in Payment : sessions'[p] = "paid" => sessions[p] = "paid"
        BY <2>2, Types DEF CallStripe
    <3>2. Announces({})
        BY <1>1, <3>1 DEF Announces
    <3>3. QED  BY <3>2, AnnouncedStep
  <2>3. QED
      BY <1>3, <2>1, <2>2
      DEF CheckoutStep, CheckoutCheck, InsertPayment, ForgetPayment, RecordSession, Respond, Die, stripe
\* A session is paid by PayNow or SettleLate, each with an event that tells.
<1>4. ASSUME NEW q \in Payment, StripeStep(q)  PROVE MoneyIsAnnounced'
  <2>1. ASSUME NEW from, NEW to \in {"open", "unpaid", "paid", "failed", "expired"}, NEW types,
               Session(q, from, to, types),
               to = "paid" => \E t \in types : t \in HandledEvents
        PROVE  MoneyIsAnnounced'
    <3>1. /\ sessions' = [sessions EXCEPT ![q] = to]
          /\ webhooks' = webhooks \cup {[type |-> t, paid |-> to = "paid", of |-> q] : t \in types}
        BY <2>1 DEF Session
    <3>2. ASSUME NEW p \in Payment, sessions'[p] = "paid", sessions[p] # "paid"
          PROVE  \E e \in webhooks' : Tells(e, p)
      <4>1. p = q /\ to = "paid"
          BY <3>1, <3>2, Types
      <4>2. PICK t \in types : t \in HandledEvents
          BY <2>1, <4>1
      <4> DEFINE e == [type |-> t, paid |-> to = "paid", of |-> q]
      <4>3. e \in webhooks'
          BY <3>1
      <4>4. Tells(e, p)
          BY <4>1, <4>2 DEF Tells
      <4>5. QED  BY <4>3, <4>4
    <3>3. webhooks \ {} \subseteq webhooks'
        BY <3>1
    <3>4. Announces({})
        BY <1>1, <3>2, <3>3 DEF Announces
    <3>5. QED  BY <3>4, AnnouncedStep
  <2>2. CASE CardDeclined(q)
      BY <2>1, <2>2 DEF CardDeclined
  <2>3. CASE PayNow(q)
      BY <2>1, <2>3 DEF PayNow, HandledEvents
  <2>4. CASE SettleLate(q)
      BY <2>1, <2>4 DEF SettleLate, HandledEvents
  <2>5. CASE PayLater(q) \/ FailLate(q) \/ Expire(q)
      BY <2>1, <2>5 DEF PayLater, FailLate, Expire
  <2>6. QED  BY <1>4, <2>2, <2>3, <2>4, <2>5 DEF StripeStep
\* A webhook is answered only when what it tells is recorded, or it tells nothing.
<1>5. ASSUME NEW e \in webhooks, Webhook(e)  PROVE MoneyIsAnnounced'
  <2>1. /\ webhooks \ {e} \subseteq webhooks' /\ webhooks' \subseteq webhooks
        /\ UNCHANGED sessions
      BY <1>5 DEF Webhook, HandleCheckout, IgnoreEvent, RefuseIntent, WebhookFails, Answered, stripe
  <2>2. CASE HandleCheckout(e)
    <3>1. ASSUME NEW p \in Payment, Tells(e, p), sessions[p] = "paid"
          PROVE  payments'[p].status \in {"PAID", "DELETED"}
      <4>1. payments[p].status \in PaymentStatus \cup {"DELETED"}
          BY <3>1, Types DEF PaymentsInv, PaymentOK, PaymentRow, Absent
      <4>2. payments' = CheckoutCompleted(p, TRUE)
          BY <2>2, <3>1, Types DEF HandleCheckout, Tells, Event
      <4>3. QED  BY <4>1, <4>2, Types DEF CheckoutCompleted, Exists, PaymentRow, PaymentStatus
    <3>2. \A p \in Payment : \A f \in {e} :
              Tells(f, p) /\ sessions[p] = "paid" => payments'[p].status \in {"PAID", "DELETED"}
        BY <3>1
    <3>3. Announces({e})
        BY <1>1, <2>1, <3>2 DEF Announces
    <3>4. QED  BY <3>3, AnnouncedStep
  <2>3. CASE IgnoreEvent(e) \/ RefuseIntent(e)
    <3>1. \A p \in Payment : ~Tells(e, p)
        BY <2>3 DEF IgnoreEvent, RefuseIntent, Tells, IntentEvents, HandledEvents
    <3>2. Announces({e})
        BY <1>1, <2>1, <3>1 DEF Announces
    <3>3. QED  BY <3>2, AnnouncedStep
  <2>4. CASE WebhookFails(e)
      BY <1>2, <2>4 DEF WebhookFails, stripe
  <2>5. QED  BY <1>5, <2>2, <2>3, <2>4 DEF Webhook
<1>6. ASSUME NEW m \in Milestone, DeleteMilestone(m)  PROVE MoneyIsAnnounced'
    BY <1>2, <1>6 DEF DeleteMilestone, stripe
<1>7. CASE UNCHANGED vars
    BY <1>2, <1>7 DEF vars, stripe
<1>8. QED
    BY <1>3, <1>4, <1>5, <1>6, <1>7, Types DEF Next, PaymentsInv, TypeOK

\* No money that Stripe has taken is lost from sight, whatever order events arrive in and
\* whichever of their transactions fail: until it is recorded, Stripe still has an event
\* to deliver that will record it.  With delivery that is fair, this is PaidIsRecorded.
THEOREM MoneyStaysAnnounced == Spec => []MoneyIsAnnounced
<1>1. Init => MoneyIsAnnounced
    BY DEF Init, MoneyIsAnnounced
<1>2. PaymentsInv /\ MoneyIsAnnounced /\ [Next]_vars => MoneyIsAnnounced'
    BY AnnouncedNext
<1>3. QED  BY <1>1, <1>2, PaymentsConsistent, PTL DEF Spec
=============================================================================
