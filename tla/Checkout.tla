------------------------------- MODULE Checkout ------------------------------
(***************************************************************************)
(* The checkout of one accepted quotation: the payment orders opened for   *)
(* it, the calls of PaymentService that settle them, the bookings          *)
(* createFromQuotation writes for them, and the refund of a booking that   *)
(* came to an end.                                                         *)
(*                                                                         *)
(* A worker is one request in flight; when it is answered the worker takes *)
(* another.  The gateway is external: a payment of an order may fail, be   *)
(* tried again and be captured, the failure and the capture are reported   *)
(* to the webhook, in any order and again until answered, and the app      *)
(* reports a capture with a signature.  Every awaited database call is an  *)
(* action.  What happens to a booking between its birth and its end, and   *)
(* what else may happen to its refund, is Booking's subject; the coupon's  *)
(* counter is CouponLedger's.                                              *)
(***************************************************************************)
EXTENDS Naturals, Sequences, FiniteSets

CONSTANTS
    Workers,         \* requests that may be in flight at once
    Served,          \* the kinds of requests that are made
    OnlineOrders,    \* orders the customer may open at the gateway
    CashOrders,      \* ids for the orders bookWithCash writes, one per worker
    MaxFaults,       \* bound on requests that die, and links that fail
    MayFail,         \* whether payments fail and signatures do not verify
    MayBeRefused,    \* whether the order's coupon may be refused at booking
    MayBeRejected    \* whether the customer rejects the accepted quotation

Orders == OnlineOrders \cup CashOrders

Kinds == {"order", "verify", "forged", "captured", "failed", "cash", "direct",
          "end"}

NoOrder == "no order"

ASSUME CheckoutAssumption ==
    /\ NoOrder \notin Orders
    /\ Served \subseteq Kinds
    /\ OnlineOrders \cap CashOrders = {}
    /\ MaxFaults \in Nat
    /\ {MayFail, MayBeRefused, MayBeRejected} \subseteq BOOLEAN

VARIABLES
    order,         \* the payment_orders rows of the quotation
    bookings,      \* its bookings, "live" or "over", in order of insertion
    accepted,      \* the quotation is ACCEPTED
    attempts,      \* gateway: orders one of whose payments failed
    captured,      \* gateway: orders whose payment was captured
    acknowledged,  \* captures whose webhook was answered with 200
    returned,      \* gateway: refunds made per order
    pc, call,      \* per worker: where it stands; its kind and its order
    copy,          \* the order it loaded
    found,         \* the booking it found or made
    faults

gateway == <<attempts, captured, acknowledged, returned>>
locals  == <<call, copy, found>>
vars    == <<order, bookings, accepted, gateway, pc, locals, faults>>

NoBooking == 0
Statuses  == {"none", "created", "paid", "failed", "refunded", "cash_due"}
Rows      == [status : Statuses, paymentId : BOOLEAN, booking : Nat]
Absent    == [status |-> "none", paymentId |-> FALSE, booking |-> NoBooking]
Created   == [Absent EXCEPT !.status = "created"]
CashDue   == [Absent EXCEPT !.status = "cash_due"]

NoCall       == [kind |-> "none", order |-> NoOrder]
Goto(w, l)   == pc' = [pc EXCEPT ![w] = l]
Carry(w, l)  == Goto(w, l) /\ UNCHANGED locals

\* The request is answered, or dead: what it knew is gone.
Finish(w) ==
    /\ Goto(w, "idle")
    /\ call' = [call EXCEPT ![w] = NoCall]
    /\ copy' = [copy EXCEPT ![w] = Absent]
    /\ found' = [found EXCEPT ![w] = NoBooking]

Order(w)     == call[w].order
SomeBooking  == bookings # <<>>
Settled(s)   == s \in {"paid", "cash_due"}

Init ==
    /\ order = [o \in Orders |-> Absent]
    /\ bookings = <<>>
    /\ accepted = TRUE
    /\ attempts = {}
    /\ captured = {}
    /\ acknowledged = {}
    /\ returned = [o \in OnlineOrders |-> 0]
    /\ pc = [w \in Workers |-> "idle"]
    /\ call = [w \in Workers |-> NoCall]
    /\ copy = [w \in Workers |-> Absent]
    /\ found = [w \in Workers |-> NoBooking]
    /\ faults = 0

-----------------------------------------------------------------------------
(* The gateway, the customer and the clock.                                *)

\* A payment attempt fails at the bank; the order may be paid again.
AttemptFails(o) ==
    /\ MayFail
    /\ order[o].status # "none"
    /\ o \notin captured \cup attempts
    /\ attempts' = attempts \cup {o}
    /\ UNCHANGED <<order, bookings, accepted, captured, acknowledged, returned,
                   pc, locals, faults>>

Capture(o) ==
    /\ order[o].status # "none"
    /\ o \notin captured
    /\ captured' = captured \cup {o}
    /\ UNCHANGED <<order, bookings, accepted, attempts, acknowledged, returned,
                   pc, locals, faults>>

\* rejectQuotation does not ask whether the quotation was accepted.
RejectQuotation ==
    /\ MayBeRejected
    /\ accepted
    /\ accepted' = FALSE
    /\ UNCHANGED <<order, bookings, gateway, pc, locals, faults>>

-----------------------------------------------------------------------------
(* Requests arrive.                                                        *)

Take(w, kind, o, l) ==
    /\ kind \in Served
    /\ pc[w] = "idle"
    /\ call' = [call EXCEPT ![w] = [kind |-> kind, order |-> o]]
    /\ Goto(w, l)

\* findOne({ razorpayOrderId }): the request works on this copy from here on.
Load(w, o) ==
    /\ order[o].status # "none"
    /\ copy' = [copy EXCEPT ![w] = order[o]]
    /\ UNCHANGED <<order, bookings, accepted, gateway, found, faults>>

\* createOrder: getBookingSeed first; the row is written when the gateway has
\* issued the order.
AskForOrder(w, o) ==
    /\ order[o].status = "none"
    /\ \A v \in Workers : pc[v] = "open" => Order(v) # o
    /\ accepted
    /\ Take(w, "order", o, "open")
    /\ UNCHANGED <<order, bookings, accepted, gateway, copy, found, faults>>

\* verifyAndBook, with the signature the gateway gave for a capture ...
Verify(w, o) ==
    /\ o \in captured
    /\ Take(w, "verify", o, "settle")
    /\ Load(w, o)

\* Faulty variant: the signature is not looked at.
VerifyUnchecked(w, o) ==
    /\ MayFail
    /\ Take(w, "forged", o, "settle")
    /\ Load(w, o)

\* ... and with one that does not verify.
VerifyForged(w, o) ==
    /\ MayFail
    /\ Take(w, "forged", o, "fail")
    /\ Load(w, o)

\* handleWebhook, payment.captured: delivered until answered, and once more.
HearCaptured(w, o) ==
    /\ o \in captured
    /\ Take(w, "captured", o, "settle")
    /\ Load(w, o)

\* handleWebhook, payment.failed: ignored unless the copy is still CREATED.
HearFailed(w, o) ==
    /\ o \in attempts
    /\ order[o].status = "created"
    /\ Take(w, "failed", o, "fail")
    /\ Load(w, o)

\* bookWithCash, past getBookingSeed.
BookWithCash(w) ==
    /\ accepted
    /\ Take(w, "cash", NoOrder, "cash")
    /\ UNCHANGED <<order, bookings, accepted, gateway, copy, found, faults>>

\* POST /bookings: createFromQuotation without a payment order.
BookDirectly(w) ==
    /\ Take(w, "direct", NoOrder, "exists")
    /\ UNCHANGED <<order, bookings, accepted, gateway, copy, found, faults>>

\* Faulty variant: the booking is refunded before its end is saved.
EndUnsaved(w) ==
    /\ Take(w, "end", NoOrder, "refund")
    /\ \E b \in DOMAIN bookings :
         /\ bookings[b] = "live"
         /\ found' = [found EXCEPT ![w] = b]
    /\ UNCHANGED <<order, bookings, accepted, gateway, copy, faults>>

\* The booking is cancelled, declined or lapses, and is then refunded.
EndBooking(w) ==
    /\ Take(w, "end", NoOrder, "refund")
    /\ \E b \in DOMAIN bookings :
         /\ bookings[b] = "live"
         /\ bookings' = [bookings EXCEPT ![b] = "over"]
         /\ found' = [found EXCEPT ![w] = b]
    /\ UNCHANGED <<order, accepted, gateway, copy, faults>>

-----------------------------------------------------------------------------
(* The orders.                                                             *)

OpenOrder(w) ==
    /\ pc[w] = "open"
    /\ order' = [order EXCEPT ![Order(w)] = Created]
    /\ Finish(w)
    /\ UNCHANGED <<bookings, accepted, gateway, faults>>

\* order.save() of a copy set to FAILED: only paths that changed are written,
\* and the row is found by its id alone.
MarkFailed(w) ==
    /\ pc[w] = "fail"
    /\ order' = IF copy[w].status = "failed" THEN order
                ELSE [order EXCEPT ![Order(w)].status = "failed"]
    /\ Finish(w)
    /\ UNCHANGED <<bookings, accepted, gateway, faults>>

\* Faulty variant: whoever loses the claim leaves the booking to the winner.
SettleOrLeave(w) ==
    /\ pc[w] = "settle"
    /\ IF order[Order(w)].status = "created"
         THEN /\ order' = [order EXCEPT ![Order(w)].status = "paid",
                                        ![Order(w)].paymentId = TRUE]
              /\ copy' = [copy EXCEPT ![w] = order'[Order(w)]]
              /\ Goto(w, "exists")
              /\ UNCHANGED <<acknowledged, call, found>>
         ELSE /\ acknowledged' = acknowledged \cup {Order(w)}
              /\ Finish(w)
              /\ UNCHANGED order
    /\ UNCHANGED <<bookings, accepted, attempts, captured, returned, faults>>

\* settle: CREATED to PAID in one conditional update.  Whoever matches
\* nothing carries on with the copy it came with.
Settle(w) ==
    /\ pc[w] = "settle"
    /\ IF order[Order(w)].status = "created"
         THEN /\ order' = [order EXCEPT ![Order(w)].status = "paid",
                                        ![Order(w)].paymentId = TRUE]
              /\ copy' = [copy EXCEPT ![w] = order'[Order(w)]]
         ELSE UNCHANGED <<order, copy>>
    /\ Goto(w, "exists")
    /\ UNCHANGED <<bookings, accepted, gateway, call, found, faults>>

Adopt(w, k, row) ==
    /\ call' = [call EXCEPT ![w].order = k]
    /\ copy' = [copy EXCEPT ![w] = row]

\* Faulty variant: whoever comes to write a cash order writes one more.
FindNoCashOrder(w) ==
    /\ pc[w] = "cash"
    /\ Carry(w, "newcash")
    /\ UNCHANGED <<order, bookings, accepted, gateway, faults>>

\* bookWithCash: the quotation's cash order, if there is one.
FindCashOrder(w) ==
    /\ pc[w] = "cash"
    /\ \/ /\ \E k \in CashOrders : order[k].status # "none" /\ Adopt(w, k, order[k])
          /\ Goto(w, "exists")
       \/ /\ \A k \in CashOrders : order[k].status = "none"
          /\ Goto(w, "newcash")
          /\ UNCHANGED <<call, copy>>
    /\ UNCHANGED <<order, bookings, accepted, gateway, found, faults>>

NewCashOrder(w) ==
    /\ pc[w] = "newcash"
    /\ \E k \in CashOrders :
         /\ order[k].status = "none"
         /\ order' = [order EXCEPT ![k] = CashDue]
         /\ Adopt(w, k, CashDue)
    /\ Goto(w, "exists")
    /\ UNCHANGED <<bookings, accepted, gateway, found, faults>>

-----------------------------------------------------------------------------
(* createFromQuotation.                                                    *)

\* assertPaidFor: a quotation that has a booking was paid for already.
CheckExists(w) ==
    /\ pc[w] = "exists"
    /\ Carry(w, IF SomeBooking THEN "seed" ELSE "gate")
    /\ UNCHANGED <<order, bookings, accepted, gateway, faults>>

\* Faulty variant: the gate trusts its caller.
TrustCaller(w) ==
    /\ pc[w] = "gate"
    /\ Carry(w, "seed")
    /\ UNCHANGED <<order, bookings, accepted, gateway, faults>>

\* assertPaidFor: otherwise the caller must bring a settled order.
CheckPaid(w) ==
    /\ pc[w] = "gate"
    /\ IF Order(w) # NoOrder /\ Settled(order[Order(w)].status)
         THEN Carry(w, "seed") ELSE Finish(w)
    /\ UNCHANGED <<order, bookings, accepted, gateway, faults>>

\* getBookingSeed: only an accepted quotation can be booked.
ReadSeed(w) ==
    /\ pc[w] = "seed"
    /\ IF accepted THEN Carry(w, "find") ELSE Finish(w)
    /\ UNCHANGED <<order, bookings, accepted, gateway, faults>>

\* Faulty variant: a retry does not look for the booking it made before.
FindNothing(w) ==
    /\ pc[w] = "find"
    /\ Carry(w, "coupon")
    /\ UNCHANGED <<order, bookings, accepted, gateway, faults>>

FindBooking(w) ==
    /\ pc[w] = "find"
    /\ IF SomeBooking
         THEN found' = [found EXCEPT ![w] = 1] /\ Goto(w, "link")
         ELSE Goto(w, "coupon") /\ UNCHANGED found
    /\ UNCHANGED <<order, bookings, accepted, gateway, call, copy, faults>>

\* evaluate and redeem, for an order that carries a coupon.
JudgeCoupon(w) ==
    /\ pc[w] = "coupon"
    /\ \/ Carry(w, "insert")
       \/ MayBeRefused /\ Finish(w)
    /\ UNCHANGED <<order, bookings, accepted, gateway, faults>>

\* createBookingDocument: nothing in the database limits a quotation to one.
InsertBooking(w) ==
    /\ pc[w] = "insert"
    /\ bookings' = Append(bookings, "live")
    /\ found' = [found EXCEPT ![w] = Len(bookings')]
    /\ Goto(w, "link")
    /\ UNCHANGED <<order, accepted, gateway, call, copy, faults>>

Linkable(w) == Order(w) # NoOrder /\ copy[w].booking = NoBooking

\* Faulty variant: whatever was linked counts as a webhook answered.
AnswerAll(w) ==
    /\ pc[w] = "link"
    /\ acknowledged' = acknowledged \cup {Order(w)}
    /\ Finish(w)
    /\ UNCHANGED <<bookings, accepted, attempts, captured, returned>>

Answer(w) ==
    /\ pc[w] = "link"
    /\ acknowledged' = acknowledged \cup
           (IF call[w].kind = "captured" THEN {Order(w)} ELSE {})
    /\ Finish(w)
    /\ UNCHANGED <<bookings, accepted, attempts, captured, returned>>

\* The order is linked unless the caller's copy is already.
LinkOrder(w) ==
    /\ Answer(w)
    /\ order' = IF Linkable(w) THEN [order EXCEPT ![Order(w)].booking = found[w]]
                               ELSE order
    /\ UNCHANGED faults

\* A link that throws is logged, and the request answered all the same.
LinkThrows(w) ==
    /\ faults < MaxFaults
    /\ Linkable(w)
    /\ Answer(w)
    /\ faults' = faults + 1
    /\ UNCHANGED order

-----------------------------------------------------------------------------
(* refundForBooking.                                                       *)

\* Faulty variant: any order of the booking that was ever paid.
RefundableEver(o, b) == order[o].booking = b /\ order[o].paymentId

\* The filter of the claim.
Refundable(o, b) ==
    order[o].booking = b /\ order[o].status = "paid" /\ order[o].paymentId

\* One order of the booking is claimed; with none there is nothing to do.
ClaimRefund(w) ==
    /\ pc[w] = "refund"
    /\ \/ \E o \in Orders :
            /\ Refundable(o, found[w])
            /\ order' = [order EXCEPT ![o].status = "refunded"]
            /\ Goto(w, "gateway")
            /\ call' = [call EXCEPT ![w].order = o]
            /\ UNCHANGED <<copy, found>>
       \/ /\ \A o \in Orders : ~Refundable(o, found[w])
          /\ Finish(w)
          /\ UNCHANGED order
    /\ UNCHANGED <<bookings, accepted, gateway, faults>>

GatewayRefunds(w) ==
    /\ pc[w] = "gateway"
    /\ returned' = [returned EXCEPT ![Order(w)] = @ + 1]
    /\ Finish(w)
    /\ UNCHANGED <<order, bookings, accepted, attempts, captured, acknowledged,
                   faults>>

-----------------------------------------------------------------------------

Die(w) ==
    /\ faults < MaxFaults
    /\ pc[w] # "idle"
    /\ Finish(w)
    /\ faults' = faults + 1
    /\ UNCHANGED <<order, bookings, accepted, gateway>>

\* A request in flight goes on.
Progress(w) ==
    \/ OpenOrder(w) \/ MarkFailed(w) \/ Settle(w)
    \/ FindCashOrder(w) \/ NewCashOrder(w)
    \/ CheckExists(w) \/ CheckPaid(w) \/ ReadSeed(w) \/ FindBooking(w)
    \/ JudgeCoupon(w) \/ InsertBooking(w) \/ LinkOrder(w)
    \/ ClaimRefund(w) \/ GatewayRefunds(w)

Arrive(w) ==
    \/ BookWithCash(w) \/ BookDirectly(w) \/ EndBooking(w)
    \/ \E o \in OnlineOrders :
         \/ AskForOrder(w, o) \/ Verify(w, o) \/ VerifyForged(w, o)
         \/ HearCaptured(w, o) \/ HearFailed(w, o)

Environment ==
    \/ \E o \in OnlineOrders : AttemptFails(o) \/ Capture(o)
    \/ RejectQuotation

Next ==
    \/ \E w \in Workers : Arrive(w) \/ Progress(w) \/ LinkThrows(w) \/ Die(w)
    \/ Environment

Spec == Init /\ [][Next]_vars

\* A request in flight is executed, and the gateway goes on reporting a
\* capture until the webhook has answered: however often the workers are
\* busy, one of them takes it in the end.
FairSpec ==
    /\ Spec
    /\ \A w \in Workers : WF_vars(Progress(w))
    /\ \A o \in OnlineOrders :
         SF_vars(o \notin acknowledged /\ \E w \in Workers : HearCaptured(w, o))

-----------------------------------------------------------------------------
(* Properties.                                                             *)

Steps == {"idle", "open", "settle", "fail", "cash", "newcash", "exists", "gate",
          "seed", "find", "coupon", "insert", "link", "refund", "gateway"}

TypeOK ==
    /\ order \in [Orders -> Rows]
    /\ bookings \in Seq({"live", "over"})
    /\ accepted \in BOOLEAN
    /\ attempts \subseteq OnlineOrders
    /\ captured \subseteq OnlineOrders
    /\ acknowledged \subseteq captured
    /\ returned \in [OnlineOrders -> Nat]
    /\ pc \in [Workers -> Steps]
    /\ call \in [Workers -> [kind : Kinds \cup {"none"}, order : Orders \cup {NoOrder}]]
    /\ copy \in [Workers -> Rows]
    /\ found \in [Workers -> Nat]
    /\ faults \in 0 .. MaxFaults

CashTaken == \E k \in CashOrders : order[k].status # "none"

\* Nothing is booked unless the customer really went through checkout: money
\* was captured for the quotation, or a cash order was written (assertPaidFor,
\* against requests that bring no order, a failed one or somebody's retry).
NoBookingUnpaid == SomeBooking => captured # {} \/ CashTaken

\* An order says PAID or REFUNDED only when the gateway has its money, and a
\* cash order never does: no verification, webhook, failure or retry, in any
\* order, makes an uncaptured payment look settled.
PaidMeansCaptured ==
    /\ \A o \in OnlineOrders :
         order[o].status \in {"paid", "refunded"} \/ order[o].paymentId
           => o \in captured
    /\ \A k \in CashOrders : ~order[k].paymentId

\* However often the booking is ended and the payment reported again, the
\* advance of an order goes back at most once.
RefundedOnce == \A o \in OnlineOrders : returned[o] <= 1

\* While requests do not overlap, money that went back was spent on a booking
\* that is over: no crash, retry or second order leads a live booking to be
\* the one whose advance was returned.
MoneyBackOnlyForEnded ==
    \A o \in OnlineOrders :
        returned[o] > 0 => /\ order[o].booking \in DOMAIN bookings
                           /\ bookings[order[o].booking] = "over"

\* The webhook is answered, and so not delivered again, only when there is a
\* booking, linked to the order unless the link itself failed: settle waits
\* for its own booking even when another request has claimed the order.
AnsweredOnceBooked ==
    \A o \in acknowledged :
        /\ SomeBooking
        /\ faults = 0 => order[o].booking \in DOMAIN bookings

\* "Idempotent, so the webhook and the app's own verification cannot produce
\* two bookings."  It holds of retries, redeliveries and crashes that do not
\* overlap in time, and not of two requests at once.
OneBookingPerQuotation == Len(bookings) <= 1

\* "One cash order per quotation, reused on a retry."
OneCashOrder == Cardinality({k \in CashOrders : order[k].status # "none"}) <= 1

\* "A customer whose phone died between paying and the app confirming still
\* gets their booking": a captured payment is booked in the end.
CapturedIsBooked == \A o \in OnlineOrders : o \in captured ~> SomeBooking

\* The advance of a booking that did not happen comes back: an order that was
\* captured for a booking that is over is refunded in the end.
AdvanceComesBack ==
    \A o \in OnlineOrders :
        (/\ o \in captured
         /\ order[o].booking \in DOMAIN bookings
         /\ bookings[order[o].booking] = "over") ~> returned[o] > 0

=============================================================================
