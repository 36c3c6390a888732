------------------------------- MODULE Booking -------------------------------
(***************************************************************************)
(* One booking of BookingService and the requests that race on it.         *)
(*                                                                         *)
(* A request is an HTTP call handled by an async method.  It loads the     *)
(* document, decides on what it LOADED, and writes later: every await in   *)
(* between is a place where another request may run, so each database or   *)
(* gateway call is an action of its own.                                   *)
(*                                                                         *)
(* The booking document is the variables status .. version; the payment    *)
(* order that bought it and the coupon redemption spent on it (both        *)
(* already linked to it) are `order' and `coupon'; `returned' counts the   *)
(* refunds the gateway has really made.                                    *)
(*                                                                         *)
(* Mongoose: doc.save() writes only the paths that changed.  A $push (the  *)
(* timeline, a new task) increments __v unconditionally; assigning a whole *)
(* array (the checklist `steps') also puts the loaded __v in the filter,   *)
(* so such a save fails with a VersionError on a document that has moved.  *)
(***************************************************************************)
EXTENDS Naturals

CONSTANTS
    Requests,        \* the HTTP calls made to the booking, one each
    Jobs,            \* what those calls may ask for, a subset of AllJobs
    MaxCrashes,      \* bound on handlers that die between two awaits
    MaxWriteErrors,  \* bound on failures to store the gateway's refund id
    GatewayRefuses   \* whether the gateway may refuse to refund

VARIABLES
    status,          \* booking.status, or Deleted once the row is gone
    paymentStatus,   \* booking.paymentStatus
    window,          \* booking.organizerRespondBy is set
    version,         \* booking.__v
    method,          \* booking.advanceMethod
    order,           \* status of the payment order behind the advance
    coupon,          \* status of the coupon redemption spent on the booking
    overdue,         \* the 48 hours of organizerRespondBy have passed
    returned,        \* refunds made by the gateway for this advance
    pc, job, seen,   \* per request: where it stands, its call, what it loaded
    crashes, writeErrors

docVars  == <<status, paymentStatus, window, version>>
effects  == <<order, coupon, returned>>
world    == <<method, overdue>>
faults   == <<crashes, writeErrors>>
vars     == <<docVars, effects, world, pc, job, seen, faults>>

Deleted  == "deleted"
Statuses == {"pending", "awaiting_organizer", "confirmed", "in_progress",
             "completed", "cancelled", "rejected", "expired"}

Awaiting == {"pending", "awaiting_organizer"}
Closed   == {"cancelled", "rejected", "expired"}
TERMINAL == Closed \cup {"completed"}

\* ALLOWED_TRANSITIONS: what updateStatus accepts from the status it loaded.
ALLOWED_TRANSITIONS ==
    [ s \in Statuses |->
        CASE s = "pending" -> {"awaiting_organizer", "confirmed"} \cup Closed
          [] s = "awaiting_organizer" -> {"confirmed"} \cup Closed
          [] s = "confirmed" -> {"in_progress", "completed", "cancelled"}
          [] s = "in_progress" -> {"completed", "cancelled"}
          [] OTHER -> {} ]

\* STEP_ORDER: the statuses for which syncSteps assigns the whole checklist.
STEP_ORDER == Statuses \ Closed

Actors  == {"owner", "manager", "other"}
AllJobs == [kind : {"status"}, actor : Actors, target : Statuses] \cup
           [kind : {"read", "cash", "remove", "task", "checklist"},
            actor : Actors, target : {"none"}]

Snapshots == [status : Statuses, paymentStatus : {"unpaid", "advance_paid"},
              window : BOOLEAN, version : Nat]

NoJob  == [kind |-> "none", actor |-> "other", target |-> "none"]
NoSnap == [status |-> "awaiting_organizer", paymentStatus |-> "unpaid",
           window |-> FALSE, version |-> 0]

PcInFlight == {"loaded", "lapse", "apply", "credit", "settle", "edit",
               "delete", "release", "claim", "gateway", "record", "putback"}

ASSUME BookingAssumption ==
    /\ Jobs \subseteq AllJobs
    /\ MaxCrashes \in Nat
    /\ MaxWriteErrors \in Nat
    /\ GatewayRefuses \in BOOLEAN

-----------------------------------------------------------------------------
(* createBookingDocument: what checkout leaves behind.                     *)

Init ==
    /\ status = "awaiting_organizer"
    /\ window = TRUE
    /\ version = 0
    /\ \/ method = "online" /\ paymentStatus = "advance_paid" /\ order = "paid"
       \/ method = "cash"   /\ paymentStatus = "unpaid" /\ order = "cash_due"
    /\ coupon = "redeemed"
    /\ overdue = FALSE
    /\ returned = 0
    /\ pc = [r \in Requests |-> "idle"]
    /\ job = [r \in Requests |-> NoJob]
    /\ seen = [r \in Requests |-> NoSnap]
    /\ crashes = 0
    /\ writeErrors = 0

Goto(r, l) == pc' = [pc EXCEPT ![r] = l]

-----------------------------------------------------------------------------
(* Loading and deciding.                                                   *)

\* loadBooking / findOne: the document as it is now; a deleted one is a 404,
\* which leaves no trace and is left out.
Load(r) ==
    /\ pc[r] = "idle"
    /\ status # Deleted
    /\ \E j \in Jobs : job' = [job EXCEPT ![r] = j]
    /\ seen' = [seen EXCEPT ![r] =
                  [status |-> status, paymentStatus |-> paymentStatus,
                   window |-> window, version |-> version]]
    /\ Goto(r, "loaded")
    /\ UNCHANGED <<docVars, effects, world, faults>>

\* The guard of expireIfOverdue, on the loaded document and today's clock.
IsOverdue(r) ==
    /\ seen[r].status \in Awaiting
    /\ seen[r].window
    /\ overdue

MayRead(r) == job[r].actor # "other"

\* Who may make which change: either party cancels, the rest is the manager's.
MayMove(r) ==
    \/ job[r].actor = "manager"
    \/ job[r].actor = "owner" /\ job[r].target = "cancelled"

\* findOne looks at the reader first; updateStatus lapses before it looks at
\* the actor at all.
Lapses(r) ==
    /\ IsOverdue(r)
    /\ \/ job[r].kind = "read" /\ MayRead(r)
       \/ job[r].kind = "status"

Moves(r) ==
    /\ job[r].kind = "status"
    /\ ~IsOverdue(r)
    /\ seen[r].status \notin TERMINAL
    /\ MayMove(r)
    /\ job[r].target \in ALLOWED_TRANSITIONS[seen[r].status]

Credits(r) ==
    /\ job[r].kind = "cash"
    /\ job[r].actor = "manager"
    /\ method = "cash"
    /\ seen[r].paymentStatus = "unpaid"

\* remove: the customer's own booking, pending or closed but never completed.
Removes(r) ==
    /\ job[r].kind = "remove"
    /\ job[r].actor = "owner"
    /\ seen[r].status \in Closed \cup {"pending"}

\* addTask pushes a task; update and removeTask assign a whole array.
Edits(r) ==
    /\ job[r].kind \in {"task", "checklist"}
    /\ \/ job[r].actor = "manager"
       \/ job[r].actor = "owner" /\ job[r].kind = "checklist"

Decide(r) ==
    /\ pc[r] = "loaded"
    /\ \/ Lapses(r)  /\ Goto(r, "lapse")
       \/ Moves(r)   /\ Goto(r, "apply")
       \/ Credits(r) /\ Goto(r, "credit")
       \/ Removes(r) /\ Goto(r, "delete")
       \/ Edits(r)   /\ Goto(r, "edit")
       \/ /\ ~Lapses(r) /\ ~Moves(r) /\ ~Credits(r) /\ ~Removes(r) /\ ~Edits(r)
          /\ Goto(r, "done")
    /\ UNCHANGED <<docVars, effects, world, job, seen, faults>>

-----------------------------------------------------------------------------
(* Writing the document.                                                   *)

\* Faulty variant: no save carries the loaded __v in its filter.
MatchesById(r, whole) == status # Deleted

\* A save whose filter matches: the row exists and, for a save that assigned
\* the whole array (`whole'), still has the __v that was loaded.
Matches(r, whole) ==
    /\ status # Deleted
    /\ whole => version = seen[r].version

\* Faulty variant: the lapse is saved and nothing is given back.
SaveLapseOnly(r) ==
    /\ pc[r] = "lapse"
    /\ status' = IF Matches(r, FALSE) THEN "expired" ELSE status
    /\ version' = version + 1
    /\ Goto(r, "done")
    /\ UNCHANGED <<paymentStatus, window, effects, world, job, seen, faults>>

\* expireIfOverdue's save; on a deleted row it throws and nothing follows.
SaveLapse(r) ==
    /\ pc[r] = "lapse"
    /\ IF Matches(r, FALSE)
       THEN /\ status' = "expired"
            /\ version' = version + 1
            /\ Goto(r, "release")
       ELSE /\ UNCHANGED <<status, version>>
            /\ Goto(r, "done")
    /\ UNCHANGED <<paymentStatus, window, effects, world, job, seen, faults>>

\* Faulty variant: the booking is refunded before its new status is saved.
SaveStatusLast(r) ==
    LET t == job[r].target IN
    /\ pc[r] = "apply"
    /\ UNCHANGED docVars
    /\ Goto(r, IF t \in TERMINAL THEN "release" ELSE "done")
    /\ UNCHANGED <<effects, world, job, seen, faults>>

\* updateStatus's save, after syncSteps.
SaveStatus(r) ==
    LET t == job[r].target IN
    /\ pc[r] = "apply"
    /\ IF Matches(r, t \in STEP_ORDER)
       THEN /\ status' = t
            /\ window' = (window /\ t # "confirmed")
            /\ version' = version + 1
            /\ Goto(r, IF t \in TERMINAL THEN "release" ELSE "done")
       ELSE /\ UNCHANGED <<status, window, version>>
            /\ Goto(r, "done")
    /\ UNCHANGED <<paymentStatus, effects, world, job, seen, faults>>

\* Faulty variant: a credit that could not be saved still settles the order.
SaveCreditBlindly(r) ==
    /\ pc[r] = "credit"
    /\ paymentStatus' = IF Matches(r, FALSE) THEN "advance_paid" ELSE paymentStatus
    /\ version' = version + 1
    /\ Goto(r, "settle")
    /\ UNCHANGED <<status, window, effects, world, job, seen, faults>>

SaveCredit(r) ==
    /\ pc[r] = "credit"
    /\ IF Matches(r, FALSE)
       THEN /\ paymentStatus' = "advance_paid"
            /\ version' = version + 1
            /\ Goto(r, "settle")
       ELSE /\ UNCHANGED <<paymentStatus, version>>
            /\ Goto(r, "done")
    /\ UNCHANGED <<status, window, effects, world, job, seen, faults>>

\* confirmCashAdvance then moves the order, only if it is still owed.
SettleCashOrder(r) ==
    /\ pc[r] = "settle"
    /\ order' = IF order = "cash_due" THEN "paid" ELSE order
    /\ Goto(r, "done")
    /\ UNCHANGED <<docVars, coupon, returned, world, job, seen, faults>>

SaveEdit(r) ==
    /\ pc[r] = "edit"
    /\ version' = IF Matches(r, job[r].kind = "checklist")
                  THEN version + 1 ELSE version
    /\ Goto(r, "done")
    /\ UNCHANGED <<status, paymentStatus, window, effects, world, job, seen, faults>>

\* deleteOne goes by _id alone.
DeleteRow(r) ==
    /\ pc[r] = "delete"
    /\ status' = Deleted
    /\ Goto(r, "done")
    /\ UNCHANGED <<paymentStatus, window, version, effects, world, job, seen, faults>>

-----------------------------------------------------------------------------
(* What ending a booking sets off: couponService.releaseForBooking, then   *)
(* paymentService.refundForBooking.                                        *)

ReleaseCoupon(r) ==
    /\ pc[r] = "release"
    /\ coupon' = "reversed"
    /\ Goto(r, "claim")
    /\ UNCHANGED <<docVars, order, returned, world, job, seen, faults>>

\* Faulty variants of the claim's filter: without the payment id, and
\* without the status.
RefundableCash   == order = "paid"
RefundableAlways == method = "online"

\* The conditional claim PAID -> REFUNDED, for a payment the gateway knows
\* (a cash order has an empty razorpayPaymentId).
Refundable == order = "paid" /\ method = "online"

\* Faulty variant: the order is read, not claimed.
ReadRefund(r) ==
    /\ pc[r] = "claim"
    /\ UNCHANGED order
    /\ Goto(r, IF Refundable THEN "gateway" ELSE "done")
    /\ UNCHANGED <<docVars, coupon, returned, world, job, seen, faults>>

ClaimRefund(r) ==
    /\ pc[r] = "claim"
    /\ IF Refundable
       THEN order' = "refunded" /\ Goto(r, "gateway")
       ELSE UNCHANGED order /\ Goto(r, "done")
    /\ UNCHANGED <<docVars, coupon, returned, world, job, seen, faults>>

\* payments.refund at the gateway (external): the money goes back ...
GatewayRefunds(r) ==
    /\ pc[r] = "gateway"
    /\ returned' = returned + 1
    /\ Goto(r, "record")
    /\ UNCHANGED <<docVars, order, coupon, world, job, seen, faults>>

\* Faulty variant: an order whose refund was refused is left as claimed.
GatewayThrowsAway(r) ==
    /\ GatewayRefuses
    /\ pc[r] = "gateway"
    /\ Goto(r, "done")
    /\ UNCHANGED <<docVars, effects, world, job, seen, faults>>

\* ... or the call throws and it does not.
GatewayThrows(r) ==
    /\ GatewayRefuses
    /\ pc[r] = "gateway"
    /\ Goto(r, "putback")
    /\ UNCHANGED <<docVars, effects, world, job, seen, faults>>

RecordRefund(r) ==
    /\ pc[r] = "record"
    /\ Goto(r, "done")
    /\ UNCHANGED <<docVars, effects, world, job, seen, faults>>

\* The write of razorpayRefundId is inside the same try as the refund.
RecordThrows(r) ==
    /\ pc[r] = "record"
    /\ writeErrors < MaxWriteErrors
    /\ writeErrors' = writeErrors + 1
    /\ Goto(r, "putback")
    /\ UNCHANGED <<docVars, effects, world, job, seen, crashes>>

\* Faulty variant: put back to the state before the payment.
PutBackTooFar(r) ==
    /\ pc[r] = "putback"
    /\ order' = "created"
    /\ Goto(r, "done")
    /\ UNCHANGED <<docVars, coupon, returned, world, job, seen, faults>>

PutBack(r) ==
    /\ pc[r] = "putback"
    /\ order' = "paid"
    /\ Goto(r, "done")
    /\ UNCHANGED <<docVars, coupon, returned, world, job, seen, faults>>

-----------------------------------------------------------------------------
(* The environment: the clock, and handlers that die between two awaits    *)
(* (the process stops, or a database call of theirs throws).               *)

WindowPasses ==
    /\ ~overdue
    /\ overdue' = TRUE
    /\ UNCHANGED <<docVars, effects, method, pc, job, seen, faults>>

Die(r) ==
    /\ pc[r] \in PcInFlight
    /\ crashes < MaxCrashes
    /\ crashes' = crashes + 1
    /\ Goto(r, "done")
    /\ UNCHANGED <<docVars, effects, world, job, seen, writeErrors>>

\* What a request does by itself once it has been accepted.
Progress(r) ==
    \/ Decide(r)
    \/ SaveLapse(r) \/ SaveStatus(r)
    \/ SaveCredit(r) \/ SettleCashOrder(r)
    \/ SaveEdit(r) \/ DeleteRow(r)
    \/ ReleaseCoupon(r) \/ ClaimRefund(r)
    \/ GatewayRefunds(r) \/ GatewayThrows(r)
    \/ RecordRefund(r) \/ RecordThrows(r) \/ PutBack(r)

Next ==
    \/ WindowPasses
    \/ \E r \in Requests : Load(r) \/ Progress(r) \/ Die(r)

Spec == Init /\ [][Next]_vars

\* The event loop resumes every handler whose await has settled; nothing
\* makes a client call, the clock run or a process die.
FairSpec == Spec /\ \A r \in Requests : WF_vars(Progress(r))

-----------------------------------------------------------------------------
(* Properties.                                                             *)

TypeOK ==
    /\ status \in Statuses \cup {Deleted}
    /\ paymentStatus \in {"unpaid", "advance_paid"}
    /\ window \in BOOLEAN
    /\ version \in Nat
    /\ method \in {"online", "cash"}
    /\ order \in {"paid", "cash_due", "refunded"}
    /\ coupon \in {"redeemed", "reversed"}
    /\ overdue \in BOOLEAN
    /\ returned \in Nat
    /\ pc \in [Requests -> PcInFlight \cup {"idle", "done"}]
    /\ job \in [Requests -> Jobs \cup {NoJob}]
    /\ seen \in [Requests -> Snapshots]
    /\ crashes \in 0..MaxCrashes
    /\ writeErrors \in 0..MaxWriteErrors

Over   == TERMINAL \cup {Deleted}
Live   == Statuses \ TERMINAL
Refunding == {r \in Requests : pc[r] \in {"gateway", "record", "putback"}}

\* A booking that was cancelled, declined or let lapse is never brought back:
\* a confirm, start or complete decided on an older copy of the document must
\* not land on it.  Only the __v filter of the checklist save stands between.
ClosedStaysClosed ==
    [][ (status \in Closed) => (status' \in (Closed \cup {Deleted})) ]_vars

\* Every step forward (confirmed, in progress, completed) is a transition the
\* table allows from the status the row really has, whatever was loaded: an
\* organizer cannot jump over the answer by racing another change.
AdvanceIsLegal ==
    [][ (status' # status /\ status' \in STEP_ORDER)
          => status' \in ALLOWED_TRANSITIONS[status] ]_vars

\* remove checks a copy and deletes by id; still only a closed booking goes.
OnlyClosedIsDeleted ==
    [][ (status # Deleted /\ status' = Deleted) => status \in Closed ]_vars

\* Two endings of one booking (a cancel racing an expiry) refund it once.
RefundOnce == returned <= 1

\* The advance and the coupon come back only for a booking that is over, and
\* a booking that is over never becomes live again with its money gone.
MoneyBackOnlyWhenOver ==
    (order = "refunded" \/ coupon = "reversed" \/ returned > 0) => status \in Over

\* A cash advance never passes through the gateway, even once its order has
\* been marked paid.
CashIsNeverRefunded == method = "cash" => returned = 0 /\ order # "refunded"

\* The cash order says paid only if the booking was credited first.
CashOrderFollowsBooking ==
    (method = "cash" /\ order = "paid") => paymentStatus = "advance_paid"

\* While no write fails, an order says paid exactly as long as the gateway
\* still holds the money: the claim is undone only if the refund was refused.
PaidMeansHeld ==
    (method = "online" /\ order = "paid") => returned = 0

-----------------------------------------------------------------------------
(* The abstract specification this one implements.                         *)

PhaseOf ==
    IF status \in Over THEN "over"
    ELSE IF status \in Awaiting THEN "open" ELSE "agreed"

AdvanceOf ==
    IF returned > 0 THEN "returned"
    ELSE IF order = "refunded" THEN "returning" ELSE "held"

Promise == INSTANCE BookingPromise WITH phase <- PhaseOf, advance <- AdvanceOf

\* Racing requests, refused refunds and dying handlers included, a booking
\* only ever moves as BookingPromise says.
KeepsPromise == Promise!Spec

-----------------------------------------------------------------------------
(* Liveness, under FairSpec.                                               *)

\* An online booking that was cancelled, declined or expired gets its coupon
\* and its advance back, or the gateway refuses and the order is put back.
ClosedIsRefunded ==
    <>(method = "online" /\ status \in Closed)
      => <>(coupon = "reversed" /\ (returned > 0 \/ \E r \in Requests : pc[r] = "putback"))

\* A claimed refund is resolved: the money goes back or the order says paid.
ClaimIsResolved == (order = "refunded") ~> (returned > 0 \/ order = "paid")

-----------------------------------------------------------------------------
(* What the comments say of the code, and the code does not keep.          *)

\* booking.service.ts: "The only transitions the API will make."
OnlyAllowedTransitions ==
    [][ (status' # status /\ status' # Deleted)
          => status' \in ALLOWED_TRANSITIONS[status] ]_vars

\* booking.service.ts: "A booking that was cancelled, declined or never
\* answered did not become an event", so its coupon and its advance go back;
\* the organizer of one that became an event keeps the advance.
CompletedKeepsAdvance == status = "completed" => order # "refunded"

\* payment.service.ts: "so the state does not claim a refund that never
\* happened".
RefundedMeansReturned ==
    (order = "refunded" /\ Refunding = {}) => returned >= 1

=============================================================================
