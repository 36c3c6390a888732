--------------------------- MODULE Checkout_proofs ---------------------------
(***************************************************************************)
(* Proofs about Checkout, for every set of workers and orders, every mix   *)
(* of requests and any number of faults.                                   *)
(*                                                                         *)
(* The argument.  What a request is doing tells its kind, and a request    *)
(* that settles was sent for a captured payment (CallsFit); so PAID        *)
(* follows a capture, and whoever is past the gate has either a captured   *)
(* payment or a cash order behind it (GatePassed).  An order leaves PAID   *)
(* only towards REFUNDED or FAILED and never returns, and the request that *)
(* claimed it is the only one to ask the gateway (Refunds).  A request     *)
(* answers a webhook only with its booking in hand (Links).                *)
(*                                                                         *)
(* What the code promises of requests in general but keeps only for        *)
(* requests that do not overlap is proved under OneAtATime.                *)
(***************************************************************************)
EXTENDS Checkout, FiniteSetTheorems, TLAPS

\* What a request is doing tells what it is and which order it brings.
CallsFit ==
    \A w \in Workers :
        /\ call[w].kind \in {"captured", "verify"} => Order(w) \in captured
        /\ pc[w] = "idle" => call[w].kind = "none"
        /\ pc[w] \in {"cash", "newcash"} => call[w].kind = "cash"
        /\ pc[w] \in {"refund", "gateway"} => call[w].kind = "end"
        /\ pc[w] = "settle" => call[w].kind \in {"captured", "verify"}
        /\ pc[w] \in {"open", "fail"} =>
              /\ Order(w) \in OnlineOrders
              /\ call[w].kind \in {"order", "forged", "failed"}
        /\ pc[w] = "gateway" => Order(w) \in OnlineOrders

Checked == {"seed", "find", "coupon", "insert"}

GatePassed ==
    \A w \in Workers : pc[w] \in Checked => captured # {} \/ CashTaken

OnlineIsNotCash == \A o \in OnlineOrders : order[o].status # "cash_due"

IInv ==
    /\ TypeOK
    /\ CallsFit
    /\ PaidMeansCaptured
    /\ OnlineIsNotCash
    /\ GatePassed
    /\ NoBookingUnpaid

\* At most one request opens an order, and none before it is written; at most
\* one is about to refund it; an order that is not yet claimed has no refund
\* behind it.
OneOpens ==
    \A v \in Workers : pc[v] = "open" =>
        /\ order[Order(v)].status = "none"
        /\ \A w \in Workers : pc[w] = "open" /\ Order(w) = Order(v) => w = v

OrderIsThere ==
    \A v \in Workers :
        pc[v] \notin {"idle", "open"} /\ Order(v) # NoOrder
          => order[Order(v)].status # "none"

Claimable == {"none", "created", "paid"}

OneRefunds ==
    \A v \in Workers : pc[v] = "gateway" =>
        /\ returned[Order(v)] = 0
        /\ order[Order(v)].status \notin Claimable
        /\ \A w \in Workers : pc[w] = "gateway" /\ Order(w) = Order(v) => w = v

UnclaimedIsUnrefunded ==
    \A o \in OnlineOrders : order[o].status \in Claimable => returned[o] = 0

Refunds ==
    OneOpens /\ OrderIsThere /\ OneRefunds /\ UnclaimedIsUnrefunded /\ RefundedOnce

\* Every link leads to a booking, and only orders that are there are linked.
Linked ==
    /\ \A o \in Orders :
          /\ order[o].booking # NoBooking => order[o].booking \in DOMAIN bookings
          /\ order[o].status = "none" => order[o].booking = NoBooking
    /\ \A o \in captured : order[o].status # "none"

\* A copy is linked only if its order is.
CopyIsOlder ==
    \A w \in Workers :
        /\ copy[w].booking # NoBooking =>
              /\ Order(w) # NoOrder
              /\ order[Order(w)].booking # NoBooking
        /\ pc[w] \in {"idle", "open", "cash", "newcash", "refund", "gateway"}
              => copy[w].booking = NoBooking

LinkerFound == \A w \in Workers : pc[w] = "link" => found[w] \in DOMAIN bookings

Links == Linked /\ CopyIsOlder /\ LinkerFound /\ AnsweredOnceBooked

-----------------------------------------------------------------------------
(* Typing.                                                                  *)

LEMMA RowsTyped ==
    /\ Absent \in Rows /\ Created \in Rows /\ CashDue \in Rows
    /\ \A row \in Rows : /\ row.status \in Statuses /\ row.paymentId \in BOOLEAN
                         /\ row.booking \in Nat
BY DEF Absent, Created, CashDue, Rows, Statuses, NoBooking

LEMMA OrderSets ==
    /\ OnlineOrders \subseteq Orders /\ CashOrders \subseteq Orders
    /\ \A o \in OnlineOrders : o \notin CashOrders
    /\ NoOrder \notin OnlineOrders /\ NoOrder \notin Orders
BY CheckoutAssumption DEF CheckoutAssumption, Orders

LocalsTyped ==
    /\ pc \in [Workers -> Steps]
    /\ call \in [Workers -> [kind : Kinds \cup {"none"},
                             order : Orders \cup {NoOrder}]]
    /\ copy \in [Workers -> Rows]
    /\ found \in [Workers -> Nat]

\* Requests that end or go on keep what they know well typed.
LEMMA FinishTyped ==
    ASSUME TypeOK, NEW w \in Workers, Finish(w)
    PROVE  LocalsTyped'
<1>1. pc' \in [Workers -> Steps]
  BY DEF TypeOK, Finish, Goto, Steps
<1>2. NoCall \in [kind : Kinds \cup {"none"}, order : Orders \cup {NoOrder}]
  BY DEF NoCall
<1>3. call' \in [Workers -> [kind : Kinds \cup {"none"},
                             order : Orders \cup {NoOrder}]]
  BY <1>2 DEF TypeOK, Finish
<1>4. copy' \in [Workers -> Rows]
  BY RowsTyped DEF TypeOK, Finish
<1>5. found' \in [Workers -> Nat]
  BY DEF TypeOK, Finish, NoBooking
<1> QED
  BY <1>1, <1>3, <1>4, <1>5 DEF LocalsTyped

LEMMA CarryTyped ==
    ASSUME TypeOK, NEW w \in Workers, NEW l \in Steps, Carry(w, l)
    PROVE  LocalsTyped'
BY DEF TypeOK, LocalsTyped, Carry, Goto, locals

LEMMA CallUpdate ==
    ASSUME TypeOK, NEW w \in Workers, NEW k \in Orders
    PROVE  [call EXCEPT ![w].order = k]
             \in [Workers -> [kind : Kinds \cup {"none"}, order : Orders \cup {NoOrder}]]
<1>1. ASSUME NEW c \in [kind : Kinds \cup {"none"}, order : Orders \cup {NoOrder}]
      PROVE  [c EXCEPT !.order = k] \in [kind : Kinds \cup {"none"},
                                        order : Orders \cup {NoOrder}]
  OBVIOUS
<1> QED
  BY <1>1 DEF TypeOK

LEMMA TakeTyped ==
    ASSUME TypeOK, NEW w \in Workers, NEW l \in Steps, NEW kind \in Kinds,
           NEW o \in Orders \cup {NoOrder}, Take(w, kind, o, l)
    PROVE  /\ pc' \in [Workers -> Steps]
           /\ call' \in [Workers -> [kind : Kinds \cup {"none"},
                                     order : Orders \cup {NoOrder}]]
<1>1. [kind |-> kind, order |-> o] \in [kind : Kinds \cup {"none"},
                                        order : Orders \cup {NoOrder}]
  OBVIOUS
<1> QED
  BY <1>1 DEF TypeOK, Take, Goto

\* Updating one row leaves rows.
LEMMA StatusUpdate ==
    ASSUME order \in [Orders -> Rows], NEW o, NEW s \in Statuses
    PROVE  [order EXCEPT ![o].status = s] \in [Orders -> Rows]
<1>1. ASSUME NEW row \in Rows PROVE [row EXCEPT !.status = s] \in Rows
  BY DEF Rows
<1>2. CASE o \in Orders
  <2>1. order[o] \in Rows
    BY <1>2
  <2> QED
    BY <1>1, <1>2, <2>1
<1>3. CASE o \notin Orders
  BY <1>3
<1> QED
  BY <1>2, <1>3

LEMMA BookingUpdate ==
    ASSUME order \in [Orders -> Rows], NEW o, NEW b \in Nat
    PROVE  [order EXCEPT ![o].booking = b] \in [Orders -> Rows]
<1>1. ASSUME NEW row \in Rows PROVE [row EXCEPT !.booking = b] \in Rows
  BY DEF Rows
<1>2. CASE o \in Orders
  <2>1. order[o] \in Rows
    BY <1>2
  <2> QED
    BY <1>1, <1>2, <2>1
<1>3. CASE o \notin Orders
  BY <1>3
<1> QED
  BY <1>2, <1>3

LEMMA PaidUpdate ==
    ASSUME order \in [Orders -> Rows], NEW o, NEW s \in Statuses
    PROVE  [order EXCEPT ![o].status = s, ![o].paymentId = TRUE] \in [Orders -> Rows]
<1>1. ASSUME NEW row \in Rows PROVE [row EXCEPT !.status = s, !.paymentId = TRUE] \in Rows
  BY DEF Rows
<1>2. CASE o \in Orders
  <2>1. order[o] \in Rows
    BY <1>2
  <2> QED
    BY <1>1, <1>2, <2>1
<1>3. CASE o \notin Orders
  BY <1>3
<1> QED
  BY <1>2, <1>3

\* Who writes what.
LEMMA OrderWriters ==
    ASSUME [Next]_vars
    PROVE  \/ \E w \in Workers :
                 \/ OpenOrder(w) \/ MarkFailed(w) \/ Settle(w)
                 \/ NewCashOrder(w) \/ LinkOrder(w) \/ ClaimRefund(w)
           \/ UNCHANGED order
BY DEF Next, Environment, Progress, Arrive, OpenOrder, MarkFailed, Settle,
         FindCashOrder, NewCashOrder, CheckExists, CheckPaid, ReadSeed, FindBooking,
         JudgeCoupon, InsertBooking, LinkOrder, LinkThrows, Answer, ClaimRefund,
         GatewayRefunds, Die, BookWithCash, BookDirectly, EndBooking, AskForOrder,
         Verify, VerifyForged, HearCaptured, HearFailed, Load, AttemptFails, Capture,
         RejectQuotation, gateway, vars

LEMMA BookingWriters ==
    ASSUME [Next]_vars
    PROVE  \/ \E w \in Workers : InsertBooking(w) \/ EndBooking(w)
           \/ UNCHANGED bookings
BY DEF Next, Environment, Progress, Arrive, OpenOrder, MarkFailed, Settle,
         FindCashOrder, NewCashOrder, CheckExists, CheckPaid, ReadSeed, FindBooking,
         JudgeCoupon, InsertBooking, LinkOrder, LinkThrows, Answer, ClaimRefund,
         GatewayRefunds, Die, BookWithCash, BookDirectly, EndBooking, AskForOrder,
         Verify, VerifyForged, HearCaptured, HearFailed, Load, AttemptFails, Capture,
         RejectQuotation, gateway, vars

LEMMA AnswerWriters ==
    ASSUME [Next]_vars
    PROVE  \/ \E w \in Workers : LinkOrder(w) \/ LinkThrows(w)
           \/ UNCHANGED acknowledged
BY DEF Next, Environment, Progress, Arrive, OpenOrder, MarkFailed, Settle,
         FindCashOrder, NewCashOrder, CheckExists, CheckPaid, ReadSeed, FindBooking,
         JudgeCoupon, InsertBooking, ClaimRefund,
         GatewayRefunds, Die, BookWithCash, BookDirectly, EndBooking, AskForOrder,
         Verify, VerifyForged, HearCaptured, HearFailed, Load, AttemptFails, Capture,
         RejectQuotation, gateway, vars

LEMMA RefundWriters ==
    ASSUME [Next]_vars
    PROVE  (\E w \in Workers : GatewayRefunds(w)) \/ UNCHANGED returned
BY DEF Next, Environment, Progress, Arrive, OpenOrder, MarkFailed, Settle,
         FindCashOrder, NewCashOrder, CheckExists, CheckPaid, ReadSeed, FindBooking,
         JudgeCoupon, InsertBooking, LinkOrder, LinkThrows, Answer, ClaimRefund,
         Die, BookWithCash, BookDirectly, EndBooking, AskForOrder,
         Verify, VerifyForged, HearCaptured, HearFailed, Load, AttemptFails, Capture,
         RejectQuotation, gateway, vars

LEMMA FaultWriters ==
    ASSUME [Next]_vars
    PROVE  (\E w \in Workers : LinkThrows(w) \/ Die(w)) \/ UNCHANGED faults
BY DEF Next, Environment, Progress, Arrive, OpenOrder, MarkFailed, Settle,
         FindCashOrder, NewCashOrder, CheckExists, CheckPaid, ReadSeed, FindBooking,
         JudgeCoupon, InsertBooking, LinkOrder, Answer, ClaimRefund,
         GatewayRefunds, BookWithCash, BookDirectly, EndBooking, AskForOrder,
         Verify, VerifyForged, HearCaptured, HearFailed, Load, AttemptFails, Capture,
         RejectQuotation, gateway, vars

LEMMA CapturesStay == [Next]_vars => captured \subseteq captured'
BY DEF Next, Environment, Progress, Arrive, OpenOrder, MarkFailed, Settle,
         FindCashOrder, NewCashOrder, CheckExists, CheckPaid, ReadSeed, FindBooking,
         JudgeCoupon, InsertBooking, LinkOrder, LinkThrows, Answer, ClaimRefund,
         GatewayRefunds, Die, BookWithCash, BookDirectly, EndBooking, AskForOrder,
         Verify, VerifyForged, HearCaptured, HearFailed, Load, AttemptFails, Capture,
         RejectQuotation, gateway, vars

LEMMA OrderTyping == TypeOK /\ CallsFit /\ [Next]_vars => order' \in [Orders -> Rows]
<1> SUFFICES ASSUME TypeOK, CallsFit, [Next]_vars PROVE order' \in [Orders -> Rows]
  OBVIOUS
<1>1. ASSUME NEW w \in Workers, OpenOrder(w) PROVE order' \in [Orders -> Rows]
  BY <1>1, RowsTyped DEF OpenOrder, TypeOK
<1>2. ASSUME NEW w \in Workers, MarkFailed(w) PROVE order' \in [Orders -> Rows]
  BY <1>2, StatusUpdate DEF MarkFailed, TypeOK, Statuses
<1>3. ASSUME NEW w \in Workers, Settle(w) PROVE order' \in [Orders -> Rows]
  BY <1>3, PaidUpdate DEF Settle, TypeOK, Statuses
<1>4. ASSUME NEW w \in Workers, NewCashOrder(w) PROVE order' \in [Orders -> Rows]
  BY <1>4, RowsTyped DEF NewCashOrder, TypeOK
<1>5. ASSUME NEW w \in Workers, LinkOrder(w) PROVE order' \in [Orders -> Rows]
  BY <1>5, BookingUpdate DEF LinkOrder, Answer, TypeOK
<1>6. ASSUME NEW w \in Workers, ClaimRefund(w) PROVE order' \in [Orders -> Rows]
  <2>1. ASSUME NEW o \in Orders, order' = [order EXCEPT ![o].status = "refunded"]
        PROVE  order' \in [Orders -> Rows]
    BY <2>1, StatusUpdate DEF TypeOK, Statuses
  <2>2. CASE order' = order
    BY <2>2 DEF TypeOK
  <2> QED
    BY <1>6, <2>1, <2>2 DEF ClaimRefund
<1>7. CASE UNCHANGED order
  BY <1>7 DEF TypeOK
<1> QED
  BY <1>1, <1>2, <1>3, <1>4, <1>5, <1>6, <1>7, OrderWriters

LEMMA LocalsTyping == TypeOK /\ CallsFit /\ [Next]_vars => LocalsTyped'
<1> SUFFICES ASSUME TypeOK, CallsFit, [Next]_vars PROVE LocalsTyped'
  OBVIOUS
<1> USE DEF gateway
<1>1. ASSUME NEW w \in Workers, Progress(w) PROVE LocalsTyped'
  <2>1. CASE OpenOrder(w)
    BY <2>1, FinishTyped DEF OpenOrder
  <2>2. CASE MarkFailed(w)
    BY <2>2, FinishTyped DEF MarkFailed
  <2>3. CASE Settle(w)
    <3>1. Order(w) \in Orders
      BY <2>3, OrderSets DEF Settle, CallsFit, TypeOK
    <3>2. order'[Order(w)] \in Rows
      BY <3>1, OrderTyping
    <3> QED
      BY <2>3, <3>2 DEF Settle, TypeOK, LocalsTyped, Goto, Steps
  <2>4. CASE FindCashOrder(w)
    <3>1. ASSUME NEW k \in CashOrders, Adopt(w, k, order[k]), Goto(w, "exists"),
                 UNCHANGED found
          PROVE  LocalsTyped'
      BY <3>1, OrderSets, CallUpdate DEF Adopt, Goto, TypeOK, LocalsTyped, Steps
    <3>2. ASSUME Goto(w, "newcash"), UNCHANGED <<call, copy, found>>
          PROVE  LocalsTyped'
      BY <3>2 DEF Goto, TypeOK, LocalsTyped, Steps
    <3> QED
      BY <2>4, <3>1, <3>2 DEF FindCashOrder
  <2>5. CASE NewCashOrder(w)
    <3>1. ASSUME NEW k \in CashOrders, Adopt(w, k, CashDue), Goto(w, "exists"),
                 UNCHANGED found
          PROVE  LocalsTyped'
      BY <3>1, RowsTyped, OrderSets, CallUpdate
         DEF Adopt, Goto, TypeOK, LocalsTyped, Steps
    <3> QED
      BY <2>5, <3>1 DEF NewCashOrder
  <2>6. CASE CheckExists(w)
    BY <2>6, CarryTyped DEF CheckExists, Steps
  <2>7. CASE CheckPaid(w)
    BY <2>7, FinishTyped, CarryTyped DEF CheckPaid, Steps
  <2>8. CASE ReadSeed(w)
    BY <2>8, FinishTyped, CarryTyped DEF ReadSeed, Steps
  <2>9. CASE FindBooking(w)
    <3>1. CASE found' = [found EXCEPT ![w] = 1] /\ Goto(w, "link")
      BY <2>9, <3>1 DEF FindBooking, Goto, TypeOK, LocalsTyped, Steps
    <3>2. CASE UNCHANGED found /\ Goto(w, "coupon")
      BY <2>9, <3>2 DEF FindBooking, Goto, TypeOK, LocalsTyped, Steps
    <3> QED
      BY <2>9, <3>1, <3>2 DEF FindBooking
  <2>10. CASE JudgeCoupon(w)
    BY <2>10, FinishTyped, CarryTyped DEF JudgeCoupon, Steps
  <2>11. CASE InsertBooking(w)
    <3>1. Len(bookings') \in Nat
      BY <2>11 DEF InsertBooking, TypeOK
    <3> QED
      BY <2>11, <3>1 DEF InsertBooking, Goto, TypeOK, LocalsTyped, Steps
  <2>12. CASE LinkOrder(w)
    BY <2>12, FinishTyped DEF LinkOrder, Linkable, Answer
  <2>13. CASE ClaimRefund(w)
    <3>1. ASSUME NEW o \in Orders, call' = [call EXCEPT ![w].order = o],
                 Goto(w, "gateway"), UNCHANGED <<copy, found>>
          PROVE  LocalsTyped'
      BY <3>1, CallUpdate DEF Goto, TypeOK, LocalsTyped, Steps
    <3> QED
      BY <2>13, <3>1, FinishTyped DEF ClaimRefund
  <2>14. CASE GatewayRefunds(w)
    BY <2>14, FinishTyped DEF GatewayRefunds
  <2> QED
    BY <1>1, <2>1, <2>2, <2>3, <2>4, <2>5, <2>6, <2>7,
       <2>8, <2>9, <2>10, <2>11, <2>12, <2>13, <2>14 DEF Progress
<1>2. ASSUME NEW w \in Workers, Arrive(w) PROVE LocalsTyped'
  <2>1. CASE BookWithCash(w)
    BY <2>1, RowsTyped, OrderSets, TakeTyped DEF BookWithCash, TypeOK, LocalsTyped, Steps, Kinds
  <2>2. CASE BookDirectly(w)
    BY <2>2, RowsTyped, OrderSets, TakeTyped DEF BookDirectly, TypeOK, LocalsTyped, Steps, Kinds
  <2>3. CASE EndBooking(w)
    <3>1. found' \in [Workers -> Nat] /\ copy' = copy
      BY <2>3 DEF EndBooking, TypeOK
    <3>2. Take(w, "end", NoOrder, "refund")
      BY <2>3 DEF EndBooking
    <3> QED
      BY <3>1, <3>2, TakeTyped DEF TypeOK, LocalsTyped, Steps, Kinds
  <2>4. ASSUME NEW o \in OnlineOrders, AskForOrder(w, o) PROVE LocalsTyped'
    BY <2>4, RowsTyped, OrderSets, TakeTyped DEF AskForOrder, TypeOK, LocalsTyped, Steps, Kinds
  <2>5. ASSUME NEW o \in OnlineOrders, Verify(w, o) PROVE LocalsTyped'
    BY <2>5, RowsTyped, OrderSets, TakeTyped DEF Verify, Load, TypeOK, LocalsTyped, Steps, Kinds
  <2>6. ASSUME NEW o \in OnlineOrders, VerifyForged(w, o) PROVE LocalsTyped'
    BY <2>6, RowsTyped, OrderSets, TakeTyped DEF VerifyForged, Load, TypeOK, LocalsTyped, Steps, Kinds
  <2>7. ASSUME NEW o \in OnlineOrders, HearCaptured(w, o) PROVE LocalsTyped'
    BY <2>7, RowsTyped, OrderSets, TakeTyped DEF HearCaptured, Load, TypeOK, LocalsTyped, Steps, Kinds
  <2>8. ASSUME NEW o \in OnlineOrders, HearFailed(w, o) PROVE LocalsTyped'
    BY <2>8, RowsTyped, OrderSets, TakeTyped DEF HearFailed, Load, TypeOK, LocalsTyped, Steps, Kinds
  <2> QED
    BY <1>2, <2>1, <2>2, <2>3, <2>4, <2>5, <2>6, <2>7, <2>8 DEF Arrive
<1>3. ASSUME NEW w \in Workers, LinkThrows(w) PROVE LocalsTyped'
  BY <1>3, FinishTyped DEF LinkThrows, Answer
<1>4. ASSUME NEW w \in Workers, Die(w) PROVE LocalsTyped'
  BY <1>4, FinishTyped DEF Die
<1>5. ASSUME NEW o \in OnlineOrders, AttemptFails(o) PROVE LocalsTyped'
  BY <1>5 DEF AttemptFails, locals, TypeOK, LocalsTyped
<1>6. ASSUME NEW o \in OnlineOrders, Capture(o) PROVE LocalsTyped'
  BY <1>6 DEF Capture, locals, TypeOK, LocalsTyped
<1>7. CASE RejectQuotation
  BY <1>7 DEF RejectQuotation, locals, TypeOK, LocalsTyped
<1>8. CASE UNCHANGED vars
  BY <1>8 DEF vars, locals, TypeOK, LocalsTyped
<1> QED
  BY <1>1, <1>2, <1>3, <1>4, <1>5, <1>6, <1>7, <1>8 DEF Next, Environment

WorldTyped ==
    /\ bookings \in Seq({"live", "over"})
    /\ accepted \in BOOLEAN
    /\ attempts \subseteq OnlineOrders
    /\ captured \subseteq OnlineOrders
    /\ acknowledged \subseteq captured
    /\ returned \in [OnlineOrders -> Nat]
    /\ faults \in 0 .. MaxFaults

LEMMA WorldTyping == TypeOK /\ CallsFit /\ [Next]_vars => WorldTyped'
<1> SUFFICES ASSUME TypeOK, CallsFit, [Next]_vars PROVE WorldTyped'
  OBVIOUS
<1>1. ASSUME NEW w \in Workers, InsertBooking(w) PROVE WorldTyped'
  BY <1>1 DEF InsertBooking, gateway, TypeOK, WorldTyped
<1>2. ASSUME NEW w \in Workers, EndBooking(w) PROVE WorldTyped'
  BY <1>2 DEF EndBooking, gateway, TypeOK, WorldTyped
<1>3. ASSUME NEW w \in Workers, Answer(w), UNCHANGED faults \/ (faults < MaxFaults /\ faults' = faults + 1) PROVE WorldTyped'
  <2>1. acknowledged' \subseteq captured
    BY <1>3 DEF Answer, TypeOK, CallsFit
  <2>2. faults' \in 0 .. MaxFaults
    BY <1>3, CheckoutAssumption DEF CheckoutAssumption, TypeOK
  <2> QED
    BY <1>3, <2>1, <2>2 DEF Answer, TypeOK, WorldTyped
<1>4. ASSUME NEW w \in Workers, GatewayRefunds(w) PROVE WorldTyped'
  <2>1. returned' \in [OnlineOrders -> Nat]
    <3>1. \A o \in OnlineOrders : returned[o] + 1 \in Nat
      BY DEF TypeOK
    <3> QED
      BY <1>4, <3>1 DEF GatewayRefunds, TypeOK, CallsFit
  <2> QED
    BY <1>4, <2>1 DEF GatewayRefunds, TypeOK, WorldTyped
<1>5. ASSUME NEW w \in Workers, Die(w) PROVE WorldTyped'
  <2>1. faults' \in 0 .. MaxFaults
    BY <1>5, CheckoutAssumption DEF CheckoutAssumption, Die, TypeOK
  <2> QED
    BY <1>5, <2>1 DEF Die, gateway, TypeOK, WorldTyped
<1>6. ASSUME NEW o \in OnlineOrders, AttemptFails(o) PROVE WorldTyped'
  BY <1>6 DEF AttemptFails, TypeOK, WorldTyped
<1>7. ASSUME NEW o \in OnlineOrders, Capture(o) PROVE WorldTyped'
  BY <1>7 DEF Capture, TypeOK, WorldTyped
<1>8. ASSUME RejectQuotation PROVE WorldTyped'
  BY <1>8 DEF RejectQuotation, gateway, TypeOK, WorldTyped
<1>9. CASE UNCHANGED <<bookings, accepted, gateway, faults>>
  BY <1>9 DEF gateway, TypeOK, WorldTyped
<1> QED
  BY <1>1, <1>2, <1>3, <1>4, <1>5, <1>6, <1>7, <1>8, <1>9
     DEF Next, Environment, Progress, Arrive, OpenOrder, MarkFailed, Settle,
         FindCashOrder, NewCashOrder, CheckExists, CheckPaid, ReadSeed, FindBooking,
         JudgeCoupon, InsertBooking, LinkOrder, LinkThrows, Answer, ClaimRefund,
         GatewayRefunds, Die, BookWithCash, BookDirectly, EndBooking, AskForOrder,
         Verify, VerifyForged, HearCaptured, HearFailed, Load, AttemptFails, Capture,
         RejectQuotation, gateway, vars

LEMMA TypingStep == TypeOK /\ CallsFit /\ [Next]_vars => TypeOK'
BY OrderTyping, LocalsTyping, WorldTyping DEF TypeOK, LocalsTyped, WorldTyped

LEMMA InitTyped == Init => TypeOK
BY RowsTyped, CheckoutAssumption
   DEF CheckoutAssumption, Init, TypeOK, Steps, Kinds, NoCall, NoBooking

-----------------------------------------------------------------------------
(* Requests fit what they do.                                               *)

LEMMA FinishFits ==
    ASSUME TypeOK, CallsFit, NEW w \in Workers, Finish(w), captured \subseteq captured'
    PROVE  CallsFit'
BY DEF TypeOK, CallsFit, Finish, Goto, Order, NoCall

LEMMA GoesOnFits ==
    ASSUME TypeOK, CallsFit, NEW w \in Workers,
           NEW l \in {"exists", "gate", "seed", "find", "coupon", "insert", "link"},
           Goto(w, l), UNCHANGED <<call, captured>>
    PROVE  CallsFit'
BY DEF TypeOK, CallsFit, Goto, Order

LEMMA CallsFitStep ==
    TypeOK /\ CallsFit /\ PaidMeansCaptured /\ [Next]_vars => CallsFit'
<1> SUFFICES ASSUME TypeOK, CallsFit, PaidMeansCaptured, [Next]_vars PROVE CallsFit'
  OBVIOUS
<1>1. ASSUME NEW w \in Workers, Progress(w) PROVE CallsFit'
  <2> USE DEF gateway
  <2>1. CASE OpenOrder(w)
    BY <2>1, FinishFits DEF OpenOrder
  <2>2. CASE MarkFailed(w)
    BY <2>2, FinishFits DEF MarkFailed
  <2>3. CASE Settle(w)
    BY <2>3, GoesOnFits DEF Settle
  <2>4. CASE FindCashOrder(w)
    <3>1. ASSUME NEW k \in CashOrders, Adopt(w, k, order[k]), Goto(w, "exists")
          PROVE  CallsFit'
      BY <2>4, <3>1 DEF FindCashOrder, Adopt, Goto, TypeOK, CallsFit, Order
    <3>2. ASSUME Goto(w, "newcash"), UNCHANGED call
          PROVE  CallsFit'
      BY <2>4, <3>2 DEF FindCashOrder, Goto, TypeOK, CallsFit, Order
    <3> QED
      BY <2>4, <3>1, <3>2 DEF FindCashOrder
  <2>5. CASE NewCashOrder(w)
    <3>1. ASSUME NEW k \in CashOrders, Adopt(w, k, CashDue)
          PROVE  CallsFit'
      BY <2>5, <3>1 DEF NewCashOrder, Adopt, Goto, TypeOK, CallsFit, Order
    <3> QED
      BY <2>5, <3>1 DEF NewCashOrder
  <2>6. CASE CheckExists(w)
    BY <2>6, GoesOnFits DEF CheckExists, Carry, locals
  <2>7. CASE CheckPaid(w)
    BY <2>7, GoesOnFits, FinishFits DEF CheckPaid, Carry, locals
  <2>8. CASE ReadSeed(w)
    BY <2>8, GoesOnFits, FinishFits DEF ReadSeed, Carry, locals
  <2>9. CASE FindBooking(w)
    BY <2>9, GoesOnFits DEF FindBooking
  <2>10. CASE JudgeCoupon(w)
    BY <2>10, GoesOnFits, FinishFits DEF JudgeCoupon, Carry, locals
  <2>11. CASE InsertBooking(w)
    BY <2>11, GoesOnFits DEF InsertBooking
  <2>12. CASE LinkOrder(w)
    BY <2>12, FinishFits DEF LinkOrder, Answer
  <2>13. CASE ClaimRefund(w)
    <3>1. ASSUME NEW o \in Orders, Refundable(o, found[w]), Goto(w, "gateway"),
                 call' = [call EXCEPT ![w].order = o]
          PROVE  CallsFit'
      <4>1. o \in OnlineOrders
        BY <3>1 DEF Refundable, PaidMeansCaptured, Orders
      <4>2. captured' = captured
        BY <2>13 DEF ClaimRefund
      <4> QED
        BY <2>13, <3>1, <4>1, <4>2 DEF ClaimRefund, Goto, TypeOK, CallsFit, Order
    <3> QED
      BY <2>13, <3>1, FinishFits DEF ClaimRefund
  <2>14. CASE GatewayRefunds(w)
    BY <2>14, FinishFits DEF GatewayRefunds
  <2> QED
    BY <1>1, <2>1, <2>2, <2>3, <2>4, <2>5, <2>6, <2>7,
       <2>8, <2>9, <2>10, <2>11, <2>12, <2>13, <2>14 DEF Progress
<1>2. ASSUME NEW w \in Workers, Arrive(w) PROVE CallsFit'
  <2> USE DEF gateway, Take, Goto, Order, CallsFit, TypeOK
  <2>1. CASE BookWithCash(w)
    BY <2>1 DEF BookWithCash
  <2>2. CASE BookDirectly(w)
    BY <2>2 DEF BookDirectly
  <2>3. CASE EndBooking(w)
    BY <2>3 DEF EndBooking
  <2>4. ASSUME NEW o \in OnlineOrders, AskForOrder(w, o) PROVE CallsFit'
    BY <2>4 DEF AskForOrder
  <2>5. ASSUME NEW o \in OnlineOrders, Verify(w, o) PROVE CallsFit'
    BY <2>5 DEF Verify, Load
  <2>6. ASSUME NEW o \in OnlineOrders, VerifyForged(w, o) PROVE CallsFit'
    BY <2>6 DEF VerifyForged, Load
  <2>7. ASSUME NEW o \in OnlineOrders, HearCaptured(w, o) PROVE CallsFit'
    BY <2>7 DEF HearCaptured, Load
  <2>8. ASSUME NEW o \in OnlineOrders, HearFailed(w, o) PROVE CallsFit'
    BY <2>8 DEF HearFailed, Load
  <2> QED
    BY <1>2, <2>1, <2>2, <2>3, <2>4, <2>5, <2>6, <2>7, <2>8 DEF Arrive
<1>3. ASSUME NEW w \in Workers, LinkThrows(w) PROVE CallsFit'
  BY <1>3, FinishFits DEF LinkThrows, Answer
<1>4. ASSUME NEW w \in Workers, Die(w) PROVE CallsFit'
  BY <1>4, FinishFits DEF Die, gateway
<1>5. CASE Environment \/ UNCHANGED vars
  <2>1. UNCHANGED <<pc, call>> /\ captured \subseteq captured'
    BY <1>5 DEF Environment, AttemptFails, Capture, RejectQuotation, vars, locals, gateway
  <2> QED
    BY <2>1 DEF CallsFit, Order
<1> QED
  BY <1>1, <1>2, <1>3, <1>4, <1>5 DEF Next

-----------------------------------------------------------------------------
(* PAID follows a capture, and a booking follows payment.                   *)

Paid == PaidMeansCaptured /\ OnlineIsNotCash

LEMMA PaidStep ==
    TypeOK /\ CallsFit /\ Paid /\ [Next]_vars => Paid'
<1> SUFFICES ASSUME TypeOK, CallsFit, Paid, [Next]_vars PROVE Paid'
  OBVIOUS
<1>0. captured \subseteq captured'
  BY CapturesStay
<1> USE <1>0, OrderSets DEF Paid, PaidMeansCaptured, OnlineIsNotCash, TypeOK
<1>1. ASSUME NEW w \in Workers, OpenOrder(w) PROVE Paid'
  BY <1>1 DEF OpenOrder, Created, Absent
<1>2. ASSUME NEW w \in Workers, MarkFailed(w) PROVE Paid'
  BY <1>2 DEF MarkFailed, Rows
<1>3. ASSUME NEW w \in Workers, Settle(w) PROVE Paid'
  <2>1. Order(w) \in captured /\ Order(w) \in OnlineOrders
    BY <1>3 DEF Settle, CallsFit
  <2>2. CASE order' = [order EXCEPT ![Order(w)].status = "paid",
                                    ![Order(w)].paymentId = TRUE]
    <3>1. \A o \in Orders : o # Order(w) => order'[o] = order[o]
      BY <2>2
    <3>2. order'[Order(w)].status = "paid"
      BY <2>1, <2>2 DEF Rows
    <3> QED
      BY <2>1, <3>1, <3>2
  <2>3. CASE UNCHANGED order
    BY <2>3
  <2> QED
    BY <1>3, <2>2, <2>3 DEF Settle
<1>4. ASSUME NEW w \in Workers, NewCashOrder(w) PROVE Paid'
  BY <1>4 DEF NewCashOrder, CashDue, Absent
<1>5. ASSUME NEW w \in Workers, LinkOrder(w) PROVE Paid'
  BY <1>5 DEF LinkOrder, Rows
<1>6. ASSUME NEW w \in Workers, ClaimRefund(w) PROVE Paid'
  BY <1>6 DEF ClaimRefund, Refundable, Rows
<1>7. CASE UNCHANGED order
  BY <1>7
<1> QED
  BY <1>1, <1>2, <1>3, <1>4, <1>5, <1>6, <1>7, OrderWriters

\* An order once written is never absent again.
LEMMA OrdersStay ==
    ASSUME TypeOK, [Next]_vars, NEW o \in Orders, order[o].status # "none"
    PROVE  order'[o].status # "none"
<1>1. ASSUME NEW w \in Workers, OpenOrder(w) PROVE order'[o].status # "none"
  BY <1>1 DEF OpenOrder, Created, Absent, TypeOK
<1>2. ASSUME NEW w \in Workers, MarkFailed(w) PROVE order'[o].status # "none"
  BY <1>2 DEF MarkFailed, TypeOK, Rows
<1>3. ASSUME NEW w \in Workers, Settle(w) PROVE order'[o].status # "none"
  BY <1>3 DEF Settle, TypeOK, Rows
<1>4. ASSUME NEW w \in Workers, NewCashOrder(w) PROVE order'[o].status # "none"
  BY <1>4 DEF NewCashOrder, TypeOK
<1>5. ASSUME NEW w \in Workers, LinkOrder(w) PROVE order'[o].status # "none"
  BY <1>5 DEF LinkOrder, TypeOK, Rows
<1>6. ASSUME NEW w \in Workers, ClaimRefund(w) PROVE order'[o].status # "none"
  BY <1>6 DEF ClaimRefund, TypeOK, Rows
<1>7. CASE UNCHANGED order
  BY <1>7
<1> QED
  BY <1>1, <1>2, <1>3, <1>4, <1>5, <1>6, <1>7, OrderWriters

Backed == captured # {} \/ CashTaken

LEMMA BackedStays == TypeOK /\ [Next]_vars /\ Backed => Backed'
<1> SUFFICES ASSUME TypeOK, [Next]_vars, Backed PROVE Backed'
  OBVIOUS
<1>1. captured \subseteq captured'
  BY CapturesStay
<1>2. CashTaken => CashTaken'
  BY OrdersStay, OrderSets DEF CashTaken
<1> QED
  BY <1>1, <1>2 DEF Backed

\* Whoever comes to a step after the gate was there before, or came through it.
LEMMA GateStep ==
    /\ TypeOK /\ Paid /\ GatePassed /\ NoBookingUnpaid /\ [Next]_vars
    => (GatePassed /\ NoBookingUnpaid)'
<1> SUFFICES ASSUME TypeOK, Paid, GatePassed, NoBookingUnpaid, [Next]_vars
             PROVE  (GatePassed /\ NoBookingUnpaid)'
  OBVIOUS
<1>1. Backed => (GatePassed /\ NoBookingUnpaid)'
  BY BackedStays DEF Backed, GatePassed, NoBookingUnpaid
<1>2. ASSUME ~Backed PROVE (GatePassed /\ NoBookingUnpaid)'
  <2>1. ~SomeBooking /\ \A w \in Workers : pc[w] \notin Checked
    BY <1>2 DEF Backed, GatePassed, NoBookingUnpaid
  <2>2. ~SomeBooking'
    <3>1. ASSUME NEW w \in Workers, InsertBooking(w) PROVE FALSE
      BY <2>1, <3>1 DEF InsertBooking, Checked
    <3>2. ASSUME NEW w \in Workers, EndBooking(w) PROVE FALSE
      BY <2>1, <3>2 DEF EndBooking, SomeBooking
    <3>3. CASE UNCHANGED bookings
      BY <2>1, <3>3 DEF SomeBooking
    <3> QED
      BY <3>1, <3>2, <3>3, BookingWriters
  <2>3. ASSUME NEW w \in Workers, CheckPaid(w) PROVE pc'[w] \notin Checked
    <3>1. ~(Order(w) # NoOrder /\ Settled(order[Order(w)].status))
      BY <1>2 DEF Backed, CashTaken, Paid, PaidMeansCaptured, OnlineIsNotCash,
                  Settled, Order, Orders, TypeOK
    <3> QED
      BY <2>3, <3>1 DEF CheckPaid, Finish, Goto, TypeOK, Checked
  <2>4. \A v \in Workers : pc'[v] \notin Checked
    <3>1. ASSUME NEW w \in Workers, NEW l \in Steps \ Checked, Goto(w, l)
          PROVE  \A v \in Workers : pc'[v] \notin Checked
      BY <2>1, <3>1 DEF Goto, TypeOK
    <3>2. ASSUME NEW w \in Workers, Progress(w)
          PROVE  \A v \in Workers : pc'[v] \notin Checked
      <4>1. CASE CheckPaid(w)
        BY <2>1, <2>3, <4>1 DEF CheckPaid, Carry, Finish, Goto, TypeOK, Checked
      <4>2. CASE ReadSeed(w) \/ FindBooking(w) \/ JudgeCoupon(w) \/ InsertBooking(w)
        BY <2>1, <4>2 DEF ReadSeed, FindBooking, JudgeCoupon, InsertBooking, Checked
      <4>3. CASE CheckExists(w)
        BY <2>1, <3>1, <4>3 DEF CheckExists, Carry, Steps, Checked
      <4> QED
        BY <3>1, <3>2, <4>1, <4>2, <4>3
           DEF Progress, OpenOrder, MarkFailed, Settle, FindCashOrder, NewCashOrder,
               LinkOrder, Answer, ClaimRefund, GatewayRefunds, Finish, Carry, Steps,
               Checked
    <3>3. ASSUME NEW w \in Workers, Arrive(w)
          PROVE  \A v \in Workers : pc'[v] \notin Checked
      BY <3>1, <3>3 DEF Arrive, BookWithCash, BookDirectly, EndBooking, AskForOrder,
             Verify, VerifyForged, HearCaptured, HearFailed, Take, Steps, Checked
    <3>4. ASSUME NEW w \in Workers, LinkThrows(w) \/ Die(w)
          PROVE  \A v \in Workers : pc'[v] \notin Checked
      BY <3>1, <3>4 DEF LinkThrows, Die, Answer, Finish, Steps, Checked
    <3>5. CASE UNCHANGED pc
      BY <2>1, <3>5
    <3> QED
      BY <3>2, <3>3, <3>4, <3>5 DEF Next, Environment, AttemptFails, Capture,
             RejectQuotation, vars
  <2> QED
    BY <2>2, <2>4 DEF GatePassed, NoBookingUnpaid, SomeBooking
<1> QED
  BY <1>1, <1>2

-----------------------------------------------------------------------------
(* The refund.                                                              *)

\* A request that ends, or goes on without looking at an order.
LEMMA FinishRefunds ==
    ASSUME TypeOK, Refunds, NEW w \in Workers, Finish(w), UNCHANGED <<order, returned>>
    PROVE  Refunds'
BY DEF Refunds, OneOpens, OrderIsThere, OneRefunds, UnclaimedIsUnrefunded,
       RefundedOnce, Claimable, Finish, Goto, TypeOK, Order, NoCall

LEMMA GoesOnRefunds ==
    ASSUME TypeOK, Refunds, NEW w \in Workers,
           NEW l \in {"newcash", "exists", "gate", "seed", "find", "coupon", "insert", "link"},
           Goto(w, l), pc[w] \notin {"idle", "open"}, UNCHANGED <<call, order, returned>>
    PROVE  Refunds'
BY DEF Refunds, OneOpens, OrderIsThere, OneRefunds, UnclaimedIsUnrefunded,
       RefundedOnce, Claimable, Goto, TypeOK, Order

\* Only the row named in an update changes.
LEMMA StatusOf ==
    ASSUME TypeOK, NEW o \in Orders, NEW s, NEW q \in Orders,
           order' = [order EXCEPT ![o].status = s]
    PROVE  /\ order'[q].status = IF q = o THEN s ELSE order[q].status
           /\ order'[q].booking = order[q].booking
           /\ order'[q].paymentId = order[q].paymentId
BY DEF TypeOK, Rows

\* A request in flight knows its order, and no other request moves it.
LEMMA RefundsStep ==
    /\ TypeOK /\ CallsFit /\ Paid /\ Refunds /\ [Next]_vars
    => Refunds'
<1> SUFFICES ASSUME TypeOK, CallsFit, Paid, Refunds, [Next]_vars PROVE Refunds'
  OBVIOUS
<1> USE OrderSets DEF Refunds, OneOpens, OrderIsThere, OneRefunds,
        UnclaimedIsUnrefunded, RefundedOnce, Claimable
<1>1. ASSUME NEW w \in Workers, Progress(w) PROVE Refunds'
  <2> USE DEF Finish, Goto, Carry, gateway, locals, TypeOK, Order, CallsFit, NoCall
  <2>1. CASE OpenOrder(w)
    BY <2>1 DEF OpenOrder, Created, Absent
  <2>2. CASE MarkFailed(w)
    <3>1. CASE UNCHANGED order
      BY <2>2, <3>1, FinishRefunds DEF MarkFailed
    <3>2. CASE order' = [order EXCEPT ![Order(w)].status = "failed"]
      <4>1. Order(w) \in OnlineOrders /\ order[Order(w)].status # "none"
        BY <2>2 DEF MarkFailed
      <4>2. \A q \in Orders :
              order'[q].status = IF q = Order(w) THEN "failed" ELSE order[q].status
        BY <3>2, <4>1, StatusOf
      <4> QED
        BY <2>2, <4>1, <4>2 DEF MarkFailed
    <3> QED
      BY <2>2, <3>1, <3>2 DEF MarkFailed
  <2>3. CASE Settle(w)
    <3>1. CASE UNCHANGED order
      BY <2>3, <3>1, GoesOnRefunds DEF Settle
    <3>2. CASE /\ order[Order(w)].status = "created"
               /\ order' = [order EXCEPT ![Order(w)].status = "paid",
                                         ![Order(w)].paymentId = TRUE]
      <4>1. Order(w) \in OnlineOrders
        BY <2>3 DEF Settle
      <4>2. \A q \in Orders :
              order'[q].status = IF q = Order(w) THEN "paid" ELSE order[q].status
        BY <3>2, <4>1 DEF Rows
      <4>3. \A v \in Workers :
              pc[v] \in {"open", "gateway"} => Order(v) # Order(w) /\ v # w
        BY <2>3, <3>2 DEF Settle
      <4>4. /\ pc' = [pc EXCEPT ![w] = "exists"] /\ call' = call
            /\ returned' = returned
        BY <2>3 DEF Settle
      <4>5. OneOpens' /\ OrderIsThere'
        BY <4>1, <4>2, <4>3, <4>4
      <4>6. OneRefunds'
        BY <4>1, <4>2, <4>3, <4>4
      <4> QED
        BY <3>2, <4>1, <4>2, <4>4, <4>5, <4>6
    <3> QED
      BY <2>3, <3>1, <3>2 DEF Settle
  <2>4. CASE FindCashOrder(w)
    <3>1. ASSUME NEW k \in CashOrders, order[k].status # "none",
                 Adopt(w, k, order[k]), Goto(w, "exists")
          PROVE  Refunds'
      BY <2>4, <3>1 DEF FindCashOrder, Adopt
    <3>2. ASSUME Goto(w, "newcash"), UNCHANGED call
          PROVE  Refunds'
      BY <2>4, <3>2, GoesOnRefunds DEF FindCashOrder
    <3> QED
      BY <2>4, <3>1, <3>2 DEF FindCashOrder
  <2>5. CASE NewCashOrder(w)
    BY <2>5 DEF NewCashOrder, Adopt, CashDue, Absent
  <2>6. CASE CheckExists(w)
    BY <2>6, FinishRefunds, GoesOnRefunds DEF CheckExists
  <2>7. CASE CheckPaid(w)
    BY <2>7, FinishRefunds, GoesOnRefunds DEF CheckPaid
  <2>8. CASE ReadSeed(w)
    BY <2>8, FinishRefunds, GoesOnRefunds DEF ReadSeed
  <2>9. CASE FindBooking(w)
    BY <2>9, FinishRefunds, GoesOnRefunds DEF FindBooking
  <2>10. CASE JudgeCoupon(w)
    BY <2>10, FinishRefunds, GoesOnRefunds DEF JudgeCoupon
  <2>11. CASE InsertBooking(w)
    BY <2>11 DEF InsertBooking
  <2>12. CASE LinkOrder(w)
    BY <2>12 DEF LinkOrder, Answer, Rows
  <2>13. CASE ClaimRefund(w)
    <3>1. ASSUME NEW o \in Orders, Refundable(o, found[w]), Goto(w, "gateway"),
                 order' = [order EXCEPT ![o].status = "refunded"],
                 call' = [call EXCEPT ![w].order = o]
          PROVE  Refunds'
      <4>1. o \in OnlineOrders /\ order[o].status = "paid" /\ returned[o] = 0
        BY <3>1 DEF Refundable, Paid, PaidMeansCaptured, Orders
      <4>2. \A q \in Orders :
              order'[q].status = IF q = o THEN "refunded" ELSE order[q].status
        BY <3>1, StatusOf
      <4>3. \A v \in Workers : pc[v] \in {"open", "gateway"} => Order(v) # o
        BY <4>1
      <4>4. returned' = returned
        BY <2>13 DEF ClaimRefund
      <4>5. \A v \in Workers : Order(v)' = IF v = w THEN o ELSE Order(v)
        BY <3>1
      <4>6. \A v \in Workers : pc'[v] = IF v = w THEN "gateway" ELSE pc[v]
        BY <3>1
      <4>7. \A v \in Workers : Order(v) \in Orders \cup {NoOrder}
        OBVIOUS
      <4>8. ASSUME NEW v \in Workers, pc'[v] = "open"
            PROVE  /\ order'[Order(v)'].status = "none"
                   /\ \A u \in Workers :
                         pc'[u] = "open" /\ Order(u)' = Order(v)' => u = v
        <5>1. v # w /\ pc[v] = "open" /\ Order(v)' = Order(v)
          BY <4>5, <4>6, <4>8
        <5>2. order'[Order(v)].status = "none"
          BY <4>2, <4>3, <5>1
        <5>3. ASSUME NEW u \in Workers, pc'[u] = "open", Order(u)' = Order(v)'
              PROVE  u = v
          <6>1. u # w /\ pc[u] = "open" /\ Order(u)' = Order(u)
            BY <4>5, <4>6, <5>3
          <6>2. Order(u) = Order(v)
            BY <5>1, <5>3, <6>1
          <6>3. OneOpens
            BY DEF Refunds
          <6> QED
            BY <5>1, <6>1, <6>2, <6>3
        <5>4. order'[Order(v)'].status = "none"
          BY <5>1, <5>2
        <5> QED
          BY <5>3, <5>4
      <4>9. ASSUME NEW v \in Workers, pc'[v] \notin {"idle", "open"},
                   Order(v)' # NoOrder
            PROVE  order'[Order(v)'].status # "none"
        BY <4>2, <4>5, <4>6, <4>7, <4>9
      <4>10. ASSUME NEW v \in Workers, pc'[v] = "gateway"
             PROVE  /\ returned'[Order(v)'] = 0
                    /\ order'[Order(v)'].status \notin Claimable
                    /\ \A u \in Workers :
                          pc'[u] = "gateway" /\ Order(u)' = Order(v)' => u = v
        <5>1. CASE v = w
          BY <4>1, <4>2, <4>3, <4>4, <4>5, <4>6, <5>1
        <5>2. CASE v # w
          BY <4>2, <4>3, <4>4, <4>5, <4>6, <4>10, <5>2
        <5> QED
          BY <5>1, <5>2
      <4>11. OneOpens' /\ OrderIsThere' /\ OneRefunds'
        BY <4>8, <4>9, <4>10
      <4> QED
        BY <4>1, <4>2, <4>4, <4>11
    <3> QED
      BY <2>13, <3>1, FinishRefunds DEF ClaimRefund
  <2>14. CASE GatewayRefunds(w)
    BY <2>14 DEF GatewayRefunds
  <2> QED
    BY <1>1, <2>1, <2>2, <2>3, <2>4, <2>5, <2>6, <2>7,
       <2>8, <2>9, <2>10, <2>11, <2>12, <2>13, <2>14 DEF Progress
<1>2. ASSUME NEW w \in Workers, Arrive(w) PROVE Refunds'
  <2> USE DEF gateway, Take, Goto, Order, CallsFit, TypeOK
  <2>1. CASE BookWithCash(w)
    BY <2>1 DEF BookWithCash
  <2>2. CASE BookDirectly(w)
    BY <2>2 DEF BookDirectly
  <2>3. CASE EndBooking(w)
    BY <2>3 DEF EndBooking
  <2>4. ASSUME NEW o \in OnlineOrders, AskForOrder(w, o) PROVE Refunds'
    BY <2>4 DEF AskForOrder
  <2>5. ASSUME NEW o \in OnlineOrders, Verify(w, o) PROVE Refunds'
    BY <2>5 DEF Verify, Load
  <2>6. ASSUME NEW o \in OnlineOrders, VerifyForged(w, o) PROVE Refunds'
    BY <2>6 DEF VerifyForged, Load
  <2>7. ASSUME NEW o \in OnlineOrders, HearCaptured(w, o) PROVE Refunds'
    BY <2>7 DEF HearCaptured, Load
  <2>8. ASSUME NEW o \in OnlineOrders, HearFailed(w, o) PROVE Refunds'
    BY <2>8 DEF HearFailed, Load
  <2> QED
    BY <1>2, <2>1, <2>2, <2>3, <2>4, <2>5, <2>6, <2>7, <2>8 DEF Arrive
<1>3. ASSUME NEW w \in Workers, LinkThrows(w) \/ Die(w) PROVE Refunds'
  BY <1>3, FinishRefunds DEF LinkThrows, Die, Answer, gateway
<1>4. CASE Environment \/ UNCHANGED vars
  BY <1>4 DEF Environment, AttemptFails, Capture, RejectQuotation, vars, locals, gateway, Order
<1> QED
  BY <1>1, <1>2, <1>3, <1>4 DEF Next

-----------------------------------------------------------------------------
(* Links.                                                                   *)

\* Bookings are never taken away.
LEMMA BookingsStay ==
    ASSUME TypeOK, [Next]_vars
    PROVE  DOMAIN bookings \subseteq DOMAIN bookings'
<1>1. ASSUME NEW w \in Workers, InsertBooking(w)
      PROVE  DOMAIN bookings \subseteq DOMAIN bookings'
  <2>1. bookings \in Seq({"live", "over"}) /\ bookings' = Append(bookings, "live")
    BY <1>1 DEF InsertBooking, TypeOK
  <2> QED
    BY <2>1
<1>2. ASSUME NEW w \in Workers, EndBooking(w)
      PROVE  DOMAIN bookings \subseteq DOMAIN bookings'
  BY <1>2 DEF EndBooking
<1> QED
  BY <1>1, <1>2, BookingWriters

LEMMA BookingOf ==
    ASSUME TypeOK, NEW o \in Orders, NEW b, NEW q \in Orders,
           order' = [order EXCEPT ![o].booking = b]
    PROVE  /\ order'[q].booking = IF q = o THEN b ELSE order[q].booking
           /\ order'[q].status = order[q].status
BY DEF TypeOK, Rows

\* What an order's link becomes.
LEMMA LinkedStep ==
    /\ TypeOK /\ CallsFit /\ Refunds /\ Links /\ [Next]_vars
    => /\ Linked'
       /\ \A o \in Orders :
             order[o].booking # NoBooking => order'[o].booking # NoBooking
<1> SUFFICES ASSUME TypeOK, CallsFit, Refunds, Links, [Next]_vars
             PROVE  /\ Linked'
                    /\ \A o \in Orders :
                          order[o].booking # NoBooking => order'[o].booking # NoBooking
  OBVIOUS
<1> DEFINE Kept(o) ==
             \/ order'[o] = order[o]
             \/ order'[o].booking = NoBooking /\ order[o].booking = NoBooking
                  /\ order'[o].status # "none"
             \/ order'[o].booking = order[o].booking /\ order'[o].status # "none"
             \/ order'[o].booking \in DOMAIN bookings /\ order'[o].status # "none"
<1>1. 0 \notin DOMAIN bookings
  BY DEF TypeOK
<1>2. \A o \in Orders : Kept(o)
  <2> USE DEF Links, Linked
  <2>1. ASSUME NEW w \in Workers, OpenOrder(w), NEW o \in Orders PROVE Kept(o)
    BY <2>1 DEF OpenOrder, Created, Absent, TypeOK, CallsFit, Refunds, OneOpens
  <2>2. ASSUME NEW w \in Workers, MarkFailed(w), NEW o \in Orders PROVE Kept(o)
    <3>1. Order(w) \in Orders
      BY <2>2, OrderSets DEF MarkFailed, CallsFit
    <3>2. CASE order' = [order EXCEPT ![Order(w)].status = "failed"]
      <4>1. order'[o].booking = order[o].booking
        BY <3>1, <3>2, StatusOf
      <4>2. o = Order(w) => order'[o].status = "failed"
        BY <3>1, <3>2 DEF TypeOK, Rows
      <4>3. o # Order(w) => order'[o] = order[o]
        BY <3>2 DEF TypeOK
      <4> QED
        BY <4>1, <4>2, <4>3
    <3>3. CASE UNCHANGED order
      BY <3>3
    <3> QED
      BY <2>2, <3>2, <3>3 DEF MarkFailed
  <2>3. ASSUME NEW w \in Workers, Settle(w), NEW o \in Orders PROVE Kept(o)
    <3>1. Order(w) \in Orders
      BY <2>3, OrderSets DEF Settle, CallsFit, TypeOK
    <3> QED
      BY <2>3, <3>1 DEF Settle, TypeOK, Rows
  <2>4. ASSUME NEW w \in Workers, NewCashOrder(w), NEW o \in Orders PROVE Kept(o)
    BY <2>4, OrderSets DEF NewCashOrder, CashDue, Absent, TypeOK
  <2>5. ASSUME NEW w \in Workers, LinkOrder(w), NEW o \in Orders PROVE Kept(o)
    <3>1. CASE UNCHANGED order
      BY <3>1
    <3>2. CASE Linkable(w)
      <4>1. Order(w) \in Orders /\ order[Order(w)].status # "none"
        BY <2>5, <3>2 DEF LinkOrder, Answer, Linkable, Refunds, OrderIsThere,
                          TypeOK, Order
      <4>2. found[w] \in DOMAIN bookings
        BY <2>5 DEF LinkOrder, Answer, LinkerFound
      <4>3. order' = [order EXCEPT ![Order(w)].booking = found[w]]
        BY <2>5, <3>2 DEF LinkOrder
      <4> QED
        BY <4>1, <4>2, <4>3 DEF TypeOK, Rows
    <3> QED
      BY <2>5, <3>1, <3>2 DEF LinkOrder
  <2>6. ASSUME NEW w \in Workers, ClaimRefund(w), NEW o \in Orders PROVE Kept(o)
    <3>1. ASSUME NEW q \in Orders, order' = [order EXCEPT ![q].status = "refunded"]
          PROVE  Kept(o)
      <4>1. order'[o].booking = order[o].booking
        BY <3>1, StatusOf
      <4>2. o = q => order'[o].status = "refunded"
        BY <3>1 DEF TypeOK, Rows
      <4>3. o # q => order'[o] = order[o]
        BY <3>1 DEF TypeOK
      <4> QED
        BY <4>1, <4>2, <4>3
    <3>2. CASE UNCHANGED order
      BY <3>2
    <3> QED
      BY <2>6, <3>1, <3>2 DEF ClaimRefund
  <2>7. ASSUME UNCHANGED order, NEW o \in Orders PROVE Kept(o)
    BY <2>7
  <2> QED
    BY <2>1, <2>2, <2>3, <2>4, <2>5, <2>6, <2>7, OrderWriters
<1>3. \A o \in captured' : order'[o].status # "none"
  <2>1. ASSUME NEW o \in OnlineOrders, Capture(o) PROVE order[o].status # "none"
    BY <2>1 DEF Capture
  <2>2. ASSUME NEW p \in captured' PROVE p \in Orders /\ order[p].status # "none"
    <3>1. CASE p \in captured
      BY <3>1, OrderSets DEF TypeOK, Links, Linked
    <3>2. CASE p \notin captured
      <4>1. Capture(p) /\ p \in OnlineOrders
        BY <2>2, <3>2 DEF Next, Environment, Progress, Arrive, OpenOrder, MarkFailed,
             Settle, FindCashOrder, NewCashOrder, CheckExists, CheckPaid, ReadSeed,
             FindBooking, JudgeCoupon, InsertBooking, LinkOrder, LinkThrows, Answer,
             ClaimRefund, GatewayRefunds, Die, BookWithCash, BookDirectly,
             EndBooking, AskForOrder, Verify, VerifyForged, HearCaptured, HearFailed,
             Load, AttemptFails, Capture, RejectQuotation, gateway, vars
      <4> QED
        BY <2>1, <4>1, OrderSets
    <3> QED
      BY <3>1, <3>2
  <2> QED
    BY <2>2, OrdersStay
<1>4. DOMAIN bookings \subseteq DOMAIN bookings'
  BY BookingsStay
<1> QED
  BY <1>1, <1>2, <1>3, <1>4 DEF Links, Linked, NoBooking

\* What a request knows of its order's link was so before.
LEMMA CopiesStep ==
    /\ TypeOK /\ CallsFit /\ Refunds /\ Links /\ [Next]_vars
    => CopyIsOlder'
<1> SUFFICES ASSUME TypeOK, CallsFit, Refunds, Links, [Next]_vars
             PROVE  CopyIsOlder'
  OBVIOUS
<1>1. \A o \in Orders : order[o].booking # NoBooking => order'[o].booking # NoBooking
  BY LinkedStep
<1>2. \A w \in Workers : Order(w) \in Orders \cup {NoOrder}
  BY DEF TypeOK, Order
<1>3. CopyIsOlder
  BY DEF Links
<1> DEFINE Older(w) ==
             /\ copy'[w].booking # NoBooking =>
                   /\ Order(w)' # NoOrder
                   /\ order'[Order(w)'].booking # NoBooking
             /\ pc'[w] \in {"idle", "open", "cash", "newcash", "refund", "gateway"}
                   => copy'[w].booking = NoBooking
<1>4. ASSUME NEW w \in Workers, pc'[w] = pc[w], call'[w] = call[w], copy'[w] = copy[w]
      PROVE  Older(w)
  BY <1>1, <1>2, <1>3, <1>4 DEF CopyIsOlder, Order
<1>5. ASSUME NEW w \in Workers, Finish(w)
      PROVE  Older(w)
  BY <1>5 DEF Finish, Absent, Goto, TypeOK
<1>6. ASSUME NEW w \in Workers, UNCHANGED <<call, copy>>,
             NEW l \in {"exists", "gate", "seed", "find", "coupon", "insert", "link"},
             Goto(w, l)
      PROVE  Older(w)
  BY <1>1, <1>2, <1>3, <1>6 DEF CopyIsOlder, Order, Goto, TypeOK
<1>7. ASSUME NEW w \in Workers, NEW l, NEW kind, NEW o, Take(w, kind, o, l),
             UNCHANGED copy
      PROVE  Older(w)
  BY <1>3, <1>7 DEF CopyIsOlder, Take
<1>8. ASSUME NEW w \in Workers, NEW l \in {"settle", "fail"}, NEW kind,
             NEW o \in OnlineOrders, Take(w, kind, o, l), Load(w, o)
      PROVE  Older(w)
  BY <1>8, OrderSets DEF Take, Load, Goto, Order, TypeOK
<1>9. ASSUME NEW w \in Workers, NEW k \in CashOrders, NEW row,
             Adopt(w, k, row), Goto(w, "exists"),
             row.booking # NoBooking => order'[k].booking # NoBooking
      PROVE  Older(w)
  BY <1>9, OrderSets DEF Adopt, Goto, Order, TypeOK
<1>10. ASSUME NEW w \in Workers, NEW v \in Workers, v # w,
              Progress(w) \/ Arrive(w) \/ LinkThrows(w) \/ Die(w)
       PROVE  pc'[v] = pc[v] /\ call'[v] = call[v] /\ copy'[v] = copy[v]
  BY <1>10 DEF Progress, Arrive, OpenOrder, MarkFailed, Settle,
         FindCashOrder, NewCashOrder, CheckExists, CheckPaid, ReadSeed, FindBooking,
         JudgeCoupon, InsertBooking, LinkOrder, LinkThrows, Answer, ClaimRefund,
         GatewayRefunds, Die, BookWithCash, BookDirectly, EndBooking, AskForOrder,
         Verify, VerifyForged, HearCaptured, HearFailed, Load, Take, Finish, Carry,
         Goto, Adopt, locals, TypeOK
<1>11. ASSUME NEW w \in Workers, Progress(w) PROVE Older(w)
  <2>1. CASE OpenOrder(w) \/ MarkFailed(w) \/ LinkOrder(w) \/ GatewayRefunds(w)
    BY <1>5, <2>1 DEF OpenOrder, MarkFailed, LinkOrder, Answer, GatewayRefunds
  <2>2. CASE Settle(w)
    <3>1. CASE UNCHANGED copy
      BY <1>6, <2>2, <3>1 DEF Settle
    <3>2. CASE copy' = [copy EXCEPT ![w] = order'[Order(w)]]
      <4>1. Order(w) \in Orders
        BY <2>2, OrderSets DEF Settle, CallsFit, TypeOK
      <4> QED
        BY <2>2, <3>2, <4>1, OrderSets DEF Settle, Goto, TypeOK, Order
    <3> QED
      BY <2>2, <3>1, <3>2 DEF Settle
  <2>3. CASE FindCashOrder(w)
    <3>1. ASSUME NEW k \in CashOrders, Adopt(w, k, order[k]), Goto(w, "exists")
          PROVE  Older(w)
      BY <1>1, <1>9, <3>1, OrderSets
    <3>2. ASSUME Goto(w, "newcash"), UNCHANGED <<call, copy>>
          PROVE  Older(w)
      BY <1>3, <2>3, <3>2 DEF FindCashOrder, CopyIsOlder
    <3> QED
      BY <2>3, <3>1, <3>2 DEF FindCashOrder
  <2>4. CASE NewCashOrder(w)
    BY <1>9, <2>4 DEF NewCashOrder, CashDue, Absent
  <2>5. CASE CheckExists(w) \/ CheckPaid(w) \/ ReadSeed(w) \/ JudgeCoupon(w)
    BY <1>5, <1>6, <2>5 DEF CheckExists, CheckPaid, ReadSeed, JudgeCoupon, Carry, locals
  <2>6. CASE FindBooking(w) \/ InsertBooking(w)
    BY <1>6, <2>6 DEF FindBooking, InsertBooking
  <2>7. CASE ClaimRefund(w)
    <3>1. ASSUME UNCHANGED copy PROVE Older(w)
      BY <1>3, <2>7, <3>1 DEF ClaimRefund, CopyIsOlder
    <3> QED
      BY <1>5, <2>7, <3>1 DEF ClaimRefund
  <2> QED
    BY <1>11, <2>1, <2>2, <2>3, <2>4, <2>5, <2>6, <2>7 DEF Progress
<1>12. ASSUME NEW w \in Workers, Arrive(w) PROVE Older(w)
  <2>1. CASE BookWithCash(w) \/ BookDirectly(w) \/ EndBooking(w)
    BY <1>7, <2>1 DEF BookWithCash, BookDirectly, EndBooking
  <2>2. ASSUME NEW o \in OnlineOrders, AskForOrder(w, o) PROVE Older(w)
    BY <1>7, <2>2 DEF AskForOrder
  <2>3. ASSUME NEW o \in OnlineOrders,
               \/ Verify(w, o) \/ VerifyForged(w, o)
               \/ HearCaptured(w, o) \/ HearFailed(w, o)
        PROVE  Older(w)
    BY <1>8, <2>3 DEF Verify, VerifyForged, HearCaptured, HearFailed
  <2> QED
    BY <1>12, <2>1, <2>2, <2>3 DEF Arrive
<1>13. ASSUME NEW w \in Workers, LinkThrows(w) \/ Die(w) PROVE Older(w)
  BY <1>5, <1>13 DEF LinkThrows, Die, Answer
<1>14. ASSUME Environment \/ UNCHANGED vars, NEW w \in Workers PROVE Older(w)
  BY <1>4, <1>14 DEF Environment, AttemptFails, Capture, RejectQuotation, vars, locals
<1>15. \A w \in Workers : Older(w)
  BY <1>4, <1>10, <1>11, <1>12, <1>13, <1>14 DEF Next
<1> QED
  BY <1>15 DEF CopyIsOlder

\* A request that answers has found its booking.
LEMMA FoundStep == TypeOK /\ LinkerFound /\ [Next]_vars => LinkerFound'
<1> SUFFICES ASSUME TypeOK, LinkerFound, [Next]_vars PROVE LinkerFound'
  OBVIOUS
<1>1. DOMAIN bookings \subseteq DOMAIN bookings'
  BY BookingsStay
<1>2. ASSUME NEW w \in Workers, FindBooking(w) PROVE LinkerFound'
  <2>1. SomeBooking => 1 \in DOMAIN bookings
    BY DEF SomeBooking, TypeOK
  <2>2. CASE found' = [found EXCEPT ![w] = 1] /\ Goto(w, "link") /\ SomeBooking
    BY <1>1, <2>1, <2>2 DEF Goto, LinkerFound, TypeOK
  <2>3. CASE Goto(w, "coupon") /\ UNCHANGED found
    BY <1>1, <2>3 DEF Goto, LinkerFound, TypeOK
  <2> QED
    BY <1>2, <2>2, <2>3 DEF FindBooking
<1>3. ASSUME NEW w \in Workers, InsertBooking(w) PROVE LinkerFound'
  <2>1. Len(bookings') \in DOMAIN bookings'
    BY <1>3 DEF InsertBooking, TypeOK
  <2> QED
    BY <1>1, <1>3, <2>1 DEF InsertBooking, Goto, LinkerFound, TypeOK
<1>4. ASSUME NEW w \in Workers, NEW l \in Steps \ {"link"}, Goto(w, l),
             \A v \in Workers : v # w => found'[v] = found[v]
      PROVE  LinkerFound'
  BY <1>1, <1>4 DEF Goto, LinkerFound, TypeOK
<1>5. ASSUME NEW w \in Workers, Finish(w) PROVE LinkerFound'
  BY <1>4, <1>5 DEF Finish, TypeOK, Steps
<1>6. ASSUME NEW w \in Workers, Progress(w) PROVE LinkerFound'
  BY <1>2, <1>3, <1>4, <1>5, <1>6
     DEF Progress, OpenOrder, MarkFailed, Settle, FindCashOrder, NewCashOrder,
         CheckExists, CheckPaid, ReadSeed, JudgeCoupon, LinkOrder, Answer,
         ClaimRefund, GatewayRefunds, Carry, locals, Steps
<1>7. ASSUME NEW w \in Workers, Arrive(w) PROVE LinkerFound'
  <2>1. \A v \in Workers : v # w => found'[v] = found[v]
    BY <1>7 DEF Arrive, BookWithCash, BookDirectly, EndBooking, AskForOrder, Verify,
                VerifyForged, HearCaptured, HearFailed, Load, TypeOK
  <2> QED
    BY <1>4, <1>7, <2>1
       DEF Arrive, BookWithCash, BookDirectly, EndBooking, AskForOrder, Verify,
           VerifyForged, HearCaptured, HearFailed, Take, Steps
<1>8. ASSUME NEW w \in Workers, LinkThrows(w) \/ Die(w) PROVE LinkerFound'
  BY <1>5, <1>8 DEF LinkThrows, Die, Answer
<1>9. CASE Environment \/ UNCHANGED vars
  BY <1>1, <1>9 DEF Environment, AttemptFails, Capture, RejectQuotation, vars, locals,
                    LinkerFound
<1> QED
  BY <1>6, <1>7, <1>8, <1>9 DEF Next

\* The webhook is answered by a request that links its order, or that knows
\* the order to be linked.
LEMMA AnsweredStep ==
    /\ TypeOK /\ CallsFit /\ Refunds /\ Links /\ [Next]_vars
    => AnsweredOnceBooked'
<1> SUFFICES ASSUME TypeOK, CallsFit, Refunds, Links, [Next]_vars
             PROVE  AnsweredOnceBooked'
  OBVIOUS
<1>1. /\ Linked' /\ captured \subseteq Orders
      /\ \A o \in Orders : order[o].booking # NoBooking => order'[o].booking # NoBooking
  BY LinkedStep, OrderSets DEF TypeOK
<1>2. SomeBooking => SomeBooking'
  <2>1. SomeBooking => 1 \in DOMAIN bookings
    BY DEF SomeBooking, TypeOK
  <2>2. 1 \in DOMAIN bookings' => SomeBooking'
    BY DEF SomeBooking
  <2> QED
    BY <2>1, <2>2, BookingsStay
<1>3. 0 \notin DOMAIN bookings
  BY DEF TypeOK
<1>4. ASSUME NEW o \in acknowledged, faults' >= faults, faults \in Nat
      PROVE  /\ SomeBooking'
             /\ faults' = 0 => order'[o].booking \in DOMAIN bookings'
  <2>1. o \in Orders
    BY <1>1 DEF TypeOK
  <2>2. faults' = 0 => faults = 0 /\ order[o].booking # NoBooking
    BY <1>3, <1>4 DEF Links, AnsweredOnceBooked, NoBooking, TypeOK
  <2> QED
    BY <1>1, <1>2, <1>4, <2>1, <2>2 DEF Links, AnsweredOnceBooked, Linked
<1>5. faults \in Nat /\ faults' >= faults
  <2>1. faults' = faults \/ faults' = faults + 1
    BY FaultWriters DEF LinkThrows, Die
  <2>2. faults \in Nat
    BY CheckoutAssumption DEF CheckoutAssumption, TypeOK
  <2> QED
    BY <2>1, <2>2
<1>6. ASSUME NEW w \in Workers, LinkOrder(w) \/ LinkThrows(w),
             call[w].kind = "captured"
      PROVE  /\ SomeBooking'
             /\ faults' = 0 => order'[Order(w)].booking \in DOMAIN bookings'
  <2>1. SomeBooking /\ found[w] \in DOMAIN bookings
    BY <1>6 DEF LinkOrder, LinkThrows, Answer, Links, LinkerFound, SomeBooking
  <2>2. Order(w) \in Orders /\ Order(w) # NoOrder
    BY <1>1, <1>6, OrderSets DEF CallsFit
  <2>3. CASE LinkOrder(w) /\ Linkable(w)
    <3>1. order' = [order EXCEPT ![Order(w)].booking = found[w]]
      BY <2>3 DEF LinkOrder
    <3>2. order'[Order(w)].booking = found[w]
      BY <2>2, <3>1 DEF TypeOK, Rows
    <3>3. found[w] \in DOMAIN bookings'
      BY <2>1, BookingsStay
    <3> QED
      BY <1>2, <2>1, <3>2, <3>3
  <2>4. CASE ~Linkable(w)
    <3>1. order[Order(w)].booking # NoBooking
      BY <2>2, <2>4 DEF Linkable, Links, CopyIsOlder
    <3> QED
      BY <1>1, <1>2, <2>1, <2>2, <3>1 DEF Linked
  <2>5. CASE LinkThrows(w)
    BY <1>2, <1>5, <2>1, <2>5 DEF LinkThrows
  <2> QED
    BY <1>6, <2>3, <2>4, <2>5
<1>7. ASSUME NEW o \in acknowledged', o \notin acknowledged
      PROVE  \E w \in Workers : /\ LinkOrder(w) \/ LinkThrows(w)
                                /\ call[w].kind = "captured" /\ o = Order(w)
  <2>1. PICK w \in Workers : LinkOrder(w) \/ LinkThrows(w)
    BY <1>7, AnswerWriters
  <2>2. Answer(w)
    BY <2>1 DEF LinkOrder, LinkThrows
  <2>3. call[w].kind = "captured" /\ o = Order(w)
    BY <1>7, <2>2 DEF Answer
  <2> QED
    BY <2>1, <2>3
<1> QED
  BY <1>4, <1>5, <1>6, <1>7 DEF AnsweredOnceBooked

-----------------------------------------------------------------------------
(* Requests that do not overlap.                                            *)

OneAtATime == \A v, w \in Workers : v = w

OneCash ==
    \A k, l \in CashOrders :
        order[k].status # "none" /\ order[l].status # "none" => k = l

\* What a request found missing is still missing when it writes.
NothingMissed ==
    /\ \A w \in Workers :
          /\ pc[w] \in {"coupon", "insert"} => ~SomeBooking
          /\ pc[w] = "newcash" => ~CashTaken
    /\ OneBookingPerQuotation
    /\ OneCash

\* Nobody else writes a cash order.
LEMMA CashAppears ==
    ASSUME TypeOK, CallsFit, [Next]_vars, NEW k \in CashOrders,
           order[k].status = "none", order'[k].status # "none"
    PROVE  \E w \in Workers : NewCashOrder(w)
<1> SUFFICES ASSUME \A w \in Workers : ~NewCashOrder(w) PROVE FALSE
  OBVIOUS
<1>1. ASSUME NEW w \in Workers, OpenOrder(w) PROVE FALSE
  BY <1>1, OrderSets DEF OpenOrder, CallsFit, TypeOK
<1>2. ASSUME NEW w \in Workers, MarkFailed(w) PROVE FALSE
  <2>1. Order(w) # k
    BY <1>2, OrderSets DEF MarkFailed, CallsFit
  <2> QED
    BY <1>2, <2>1, OrderSets DEF MarkFailed, TypeOK
<1>3. ASSUME NEW w \in Workers, Settle(w) PROVE FALSE
  <2>1. Order(w) # k
    BY <1>3, OrderSets DEF Settle, CallsFit, TypeOK
  <2> QED
    BY <1>3, <2>1, OrderSets DEF Settle, TypeOK
<1>4. ASSUME NEW w \in Workers, LinkOrder(w) PROVE FALSE
  BY <1>4, OrderSets DEF LinkOrder, TypeOK, Rows
<1>5. ASSUME NEW w \in Workers, ClaimRefund(w) PROVE FALSE
  BY <1>5, OrderSets DEF ClaimRefund, Refundable, TypeOK, Rows
<1> QED
  BY <1>1, <1>2, <1>3, <1>4, <1>5, OrderWriters

LEMMA OnlyRequest ==
    ASSUME OneAtATime, [Next]_vars, NEW w \in Workers
    PROVE  Progress(w) \/ Arrive(w) \/ LinkThrows(w) \/ Die(w) \/ UNCHANGED pc
BY DEF OneAtATime, Next, Environment, AttemptFails, Capture, RejectQuotation, vars

\* Where a request goes from each step, but for the two that look for what is
\* there already.
LEMMA Elsewhere ==
    ASSUME OneAtATime, TypeOK, [Next]_vars, NEW w \in Workers,
           ~FindBooking(w), ~JudgeCoupon(w), ~FindCashOrder(w), pc' # pc
    PROVE  pc'[w] \notin {"coupon", "insert", "newcash"}
<1>1. ASSUME NEW l \in Steps \ {"coupon", "insert", "newcash"}, Goto(w, l)
      PROVE  pc'[w] \notin {"coupon", "insert", "newcash"}
  BY <1>1 DEF Goto, TypeOK
<1>2. CASE Progress(w)
  BY <1>1, <1>2 DEF Progress, OpenOrder, MarkFailed, Settle, NewCashOrder, CheckExists,
        CheckPaid, ReadSeed, InsertBooking, LinkOrder, Answer, ClaimRefund,
        GatewayRefunds, Finish, Carry, Steps
<1>3. CASE Arrive(w)
  BY <1>1, <1>3 DEF Arrive, BookWithCash, BookDirectly, EndBooking, AskForOrder,
        Verify, VerifyForged, HearCaptured, HearFailed, Take, Steps
<1>4. CASE LinkThrows(w) \/ Die(w)
  BY <1>1, <1>4 DEF LinkThrows, Die, Answer, Finish, Steps
<1> QED
  BY <1>2, <1>3, <1>4, OnlyRequest

LEMMA NothingMissedStep ==
    ASSUME OneAtATime, TypeOK, CallsFit, NothingMissed, [Next]_vars
    PROVE  NothingMissed'
<1>1. ASSUME NEW w \in Workers, NewCashOrder(w) PROVE NothingMissed'
  <2>1. \A v \in Workers : pc'[v] = "exists"
    BY <1>1 DEF NewCashOrder, Goto, OneAtATime, TypeOK
  <2>2. OneCash'
    <3>1. \A l \in CashOrders : order[l].status = "none"
      BY <1>1 DEF NewCashOrder, NothingMissed, CashTaken
    <3>2. PICK k \in CashOrders : order' = [order EXCEPT ![k] = CashDue]
      BY <1>1 DEF NewCashOrder
    <3> QED
      BY <3>1, <3>2 DEF OneCash, TypeOK
  <2> QED
    BY <1>1, <2>1, <2>2 DEF NewCashOrder, NothingMissed, OneBookingPerQuotation
<1>2. ASSUME \A w \in Workers : ~NewCashOrder(w) PROVE NothingMissed'
  <2>1. \A k \in CashOrders : order'[k].status # "none" => order[k].status # "none"
    BY <1>2, CashAppears
  <2>2. OneCash' /\ (~CashTaken => ~CashTaken')
    BY <2>1 DEF OneCash, CashTaken, NothingMissed
  <2>3. OneBookingPerQuotation'
    <3>1. ASSUME NEW w \in Workers, InsertBooking(w) PROVE Len(bookings') <= 1
      <4>1. bookings = <<>> /\ bookings' = Append(bookings, "live")
        BY <3>1 DEF InsertBooking, NothingMissed, SomeBooking
      <4> QED
        BY <4>1
    <3>2. ASSUME NEW w \in Workers, EndBooking(w) PROVE Len(bookings') <= 1
      <4>1. PICK b \in DOMAIN bookings : bookings' = [bookings EXCEPT ![b] = "over"]
        BY <3>2 DEF EndBooking
      <4>2. Len(bookings') = Len(bookings)
        BY <4>1 DEF TypeOK
      <4> QED
        BY <4>2 DEF NothingMissed, OneBookingPerQuotation
    <3> QED
      BY <3>1, <3>2, BookingWriters DEF NothingMissed, OneBookingPerQuotation
  <2>4. ASSUME NEW w \in Workers, pc'[w] \in {"coupon", "insert"}
        PROVE  ~SomeBooking'
    <3>1. FindBooking(w) \/ JudgeCoupon(w) \/ UNCHANGED pc
      BY <2>4, Elsewhere DEF FindCashOrder, Goto, TypeOK
    <3>2. CASE FindBooking(w)
      BY <2>4, <3>2 DEF FindBooking, Goto, TypeOK, SomeBooking
    <3>3. CASE JudgeCoupon(w)
      BY <2>4, <3>3 DEF JudgeCoupon, NothingMissed, SomeBooking
    <3>4. CASE UNCHANGED pc
      <4>1. UNCHANGED bookings
        BY <2>4, <3>4, BookingWriters
           DEF InsertBooking, EndBooking, Take, Goto, TypeOK, OneAtATime
      <4> QED
        BY <2>4, <3>4, <4>1 DEF NothingMissed, SomeBooking
    <3> QED
      BY <3>1, <3>2, <3>3, <3>4
  <2>5. ASSUME NEW w \in Workers, pc'[w] = "newcash" PROVE ~CashTaken'
    <3>1. FindCashOrder(w) \/ UNCHANGED pc
      <4>1. FindBooking(w) => pc'[w] # "newcash"
        BY DEF FindBooking, Goto, TypeOK
      <4>2. JudgeCoupon(w) => pc'[w] # "newcash"
        BY DEF JudgeCoupon, Carry, Finish, Goto, TypeOK
      <4> QED
        BY <2>5, <4>1, <4>2, Elsewhere
    <3>2. CASE FindCashOrder(w)
      BY <2>2, <2>5, <3>2 DEF FindCashOrder, Goto, TypeOK, CashTaken
    <3>3. CASE UNCHANGED pc
      BY <2>2, <2>5, <3>3 DEF NothingMissed
    <3> QED
      BY <3>1, <3>2, <3>3
  <2> QED
    BY <2>2, <2>3, <2>4, <2>5 DEF NothingMissed
<1> QED
  BY <1>1, <1>2

Over(b) == b \in DOMAIN bookings /\ bookings[b] = "over"

\* Nobody links an order behind a request's back, and what is refunded is over.
OwnOrder ==
    /\ \A w \in Workers :
          /\ pc[w] \in {"settle", "fail", "exists", "gate", "seed", "find", "coupon",
                        "insert", "link"} /\ Order(w) # NoOrder
                => copy[w].booking = order[Order(w)].booking
          /\ pc[w] \in {"refund", "gateway"} => Over(found[w])
          /\ pc[w] = "gateway" => order[Order(w)].booking = found[w]
    /\ MoneyBackOnlyForEnded

LEMMA OverStays ==
    ASSUME TypeOK, [Next]_vars, NEW b, Over(b) PROVE Over(b)'
<1>1. ASSUME NEW w \in Workers, InsertBooking(w) PROVE Over(b)'
  <2>1. bookings \in Seq({"live", "over"}) /\ bookings' = Append(bookings, "live")
    BY <1>1 DEF InsertBooking, TypeOK
  <2> QED
    BY <2>1 DEF Over
<1>2. ASSUME NEW w \in Workers, EndBooking(w) PROVE Over(b)'
  BY <1>2 DEF EndBooking, Over
<1>3. CASE UNCHANGED bookings
  BY <1>3 DEF Over
<1> QED
  BY <1>1, <1>2, <1>3, BookingWriters

LEMMA RefundedStaysLinked ==
    ASSUME OneAtATime, TypeOK, CallsFit, Refunds, OwnOrder, [Next]_vars,
           NEW o \in OnlineOrders, returned[o] > 0
    PROVE  order'[o].booking = order[o].booking
<1>1. Over(order[o].booking) /\ order[o].status \notin Claimable /\ o \in Orders
  <2>1. Over(order[o].booking)
    BY DEF OwnOrder, MoneyBackOnlyForEnded, Over
  <2>2. order[o].status \notin Claimable
    BY DEF Refunds, UnclaimedIsUnrefunded
  <2> QED
    BY <2>1, <2>2, OrderSets
<1>2. order[o].booking # NoBooking
  BY <1>1 DEF Over, TypeOK, NoBooking
<1>3. ASSUME NEW w \in Workers, OpenOrder(w) PROVE order'[o].booking = order[o].booking
  <2>1. Order(w) # o
    BY <1>1, <1>3 DEF OpenOrder, Refunds, OneOpens, Claimable
  <2> QED
    BY <1>1, <1>3, <2>1 DEF OpenOrder, TypeOK
<1>4. ASSUME NEW w \in Workers, MarkFailed(w) PROVE order'[o].booking = order[o].booking
  BY <1>1, <1>4 DEF MarkFailed, TypeOK, Rows
<1>5. ASSUME NEW w \in Workers, Settle(w) PROVE order'[o].booking = order[o].booking
  <2>1. order[o] \in Rows /\ order \in [Orders -> Rows]
    BY <1>1 DEF TypeOK
  <2> QED
    BY <1>1, <1>5, <2>1 DEF Settle, Rows
<1>6. ASSUME NEW w \in Workers, NewCashOrder(w) PROVE order'[o].booking = order[o].booking
  BY <1>1, <1>6, OrderSets DEF NewCashOrder, TypeOK
<1>7. ASSUME NEW w \in Workers, LinkOrder(w) PROVE order'[o].booking = order[o].booking
  <2>1. Linkable(w) => Order(w) # o
    BY <1>2, <1>7 DEF LinkOrder, Answer, Linkable, OwnOrder
  <2> QED
    BY <1>1, <1>7, <2>1 DEF LinkOrder, TypeOK
<1>8. ASSUME NEW w \in Workers, ClaimRefund(w) PROVE order'[o].booking = order[o].booking
  <2>1. ASSUME NEW q \in Orders, order' = [order EXCEPT ![q].status = "refunded"]
        PROVE  order'[o].booking = order[o].booking
    BY <1>1, <2>1, StatusOf
  <2> QED
    BY <1>8, <2>1 DEF ClaimRefund
<1> QED
  BY <1>3, <1>4, <1>5, <1>6, <1>7, <1>8, OrderWriters

LEMMA MoneyBackStep ==
    ASSUME OneAtATime, TypeOK, CallsFit, Refunds, OwnOrder, [Next]_vars
    PROVE  MoneyBackOnlyForEnded'
<1>1. ASSUME NEW o \in OnlineOrders, returned[o] > 0 PROVE Over(order[o].booking)'
  <2>1. Over(order[o].booking)
    BY <1>1 DEF OwnOrder, MoneyBackOnlyForEnded, Over
  <2>2. order'[o].booking = order[o].booking
    BY <1>1, RefundedStaysLinked
  <2>3. order[o].booking \in DOMAIN bookings' /\ bookings'[order[o].booking] = "over"
    BY <2>1, OverStays DEF Over
  <2> QED
    BY <2>2, <2>3 DEF Over
<1>2. ASSUME NEW o \in OnlineOrders, ~(returned[o] > 0), returned'[o] > 0
      PROVE  Over(order[o].booking)'
  <2>1. PICK w \in Workers : GatewayRefunds(w)
    BY <1>2, RefundWriters
  <2>2. o = Order(w)
    BY <1>2, <2>1 DEF GatewayRefunds, TypeOK
  <2> QED
    BY <2>1, <2>2 DEF GatewayRefunds, OwnOrder, Over
<1> QED
  BY <1>1, <1>2 DEF MoneyBackOnlyForEnded, Over

LEMMA OwnOrderStep ==
    ASSUME OneAtATime, TypeOK, CallsFit, Paid, Refunds, OwnOrder, [Next]_vars
    PROVE  OwnOrder'
<1> DEFINE Own(w) ==
             /\ pc[w] \in {"settle", "fail", "exists", "gate", "seed", "find", "coupon",
                           "insert", "link"} /\ Order(w) # NoOrder
                   => copy[w].booking = order[Order(w)].booking
             /\ pc[w] \in {"refund", "gateway"} => Over(found[w])
             /\ pc[w] = "gateway" => order[Order(w)].booking = found[w]
<1>1. \A w \in Workers : Own(w) /\ Order(w) \in Orders \cup {NoOrder}
  BY DEF OwnOrder, TypeOK, Order
<1>2. ASSUME NEW w \in Workers, Finish(w) PROVE Own(w)'
  BY <1>2 DEF Finish, Goto, TypeOK
<1>3. ASSUME NEW w \in Workers, NEW l \in {"exists", "gate", "seed", "find", "coupon",
                                           "insert", "link"},
             pc[w] \in {"settle", "exists", "gate", "seed", "find", "coupon", "insert"},
             Goto(w, l), UNCHANGED <<order, call, copy>>
      PROVE  Own(w)'
  BY <1>1, <1>3 DEF Goto, TypeOK, Order
<1>4. ASSUME NEW w \in Workers, NEW k \in CashOrders, Adopt(w, k, order'[k]),
             Goto(w, "exists")
      PROVE  Own(w)'
  BY <1>4 DEF Adopt, Goto, TypeOK, Order
<1>5. ASSUME NEW w \in Workers, Progress(w) PROVE Own(w)'
  <2>1. CASE OpenOrder(w) \/ MarkFailed(w) \/ LinkOrder(w) \/ GatewayRefunds(w)
    BY <1>2, <2>1 DEF OpenOrder, MarkFailed, LinkOrder, Answer, GatewayRefunds
  <2>2. CASE Settle(w)
    <3>1. CASE UNCHANGED <<order, copy>>
      BY <1>3, <2>2, <3>1 DEF Settle
    <3>2. CASE copy' = [copy EXCEPT ![w] = order'[Order(w)]]
      BY <2>2, <3>2 DEF Settle, Goto, TypeOK, Order
    <3> QED
      BY <2>2, <3>1, <3>2 DEF Settle
  <2>3. CASE FindCashOrder(w)
    <3>1. ASSUME NEW k \in CashOrders, Adopt(w, k, order[k]), Goto(w, "exists")
          PROVE  Own(w)'
      BY <1>4, <2>3, <3>1 DEF FindCashOrder
    <3>2. ASSUME Goto(w, "newcash") PROVE Own(w)'
      BY <3>2 DEF Goto, TypeOK
    <3> QED
      BY <2>3, <3>1, <3>2 DEF FindCashOrder
  <2>4. CASE NewCashOrder(w)
    <3>1. PICK k \in CashOrders : /\ order' = [order EXCEPT ![k] = CashDue]
                                  /\ Adopt(w, k, CashDue)
      BY <2>4 DEF NewCashOrder
    <3>2. order'[k] = CashDue
      BY <3>1, OrderSets DEF TypeOK
    <3> QED
      BY <1>4, <2>4, <3>1, <3>2 DEF NewCashOrder
  <2>5. CASE CheckExists(w) \/ CheckPaid(w) \/ ReadSeed(w) \/ JudgeCoupon(w)
    BY <1>2, <1>3, <2>5 DEF CheckExists, CheckPaid, ReadSeed, JudgeCoupon, Carry, locals
  <2>6. CASE FindBooking(w) \/ InsertBooking(w)
    BY <1>3, <2>6 DEF FindBooking, InsertBooking
  <2>7. CASE ClaimRefund(w)
    <3>1. ASSUME NEW o \in Orders, Refundable(o, found[w]), Goto(w, "gateway"),
                 order' = [order EXCEPT ![o].status = "refunded"],
                 call' = [call EXCEPT ![w].order = o], UNCHANGED found
          PROVE  Own(w)'
      <4>1. order'[o].booking = found[w]
        BY <3>1, StatusOf DEF Refundable
      <4>2. Over(found[w])'
        BY <1>1, <2>7, <3>1 DEF ClaimRefund, Over
      <4>3. Order(w)' = o /\ pc'[w] = "gateway"
        BY <3>1 DEF Order, Goto, TypeOK
      <4> QED
        BY <3>1, <4>1, <4>2, <4>3 DEF Order
    <3> QED
      BY <1>2, <2>7, <3>1 DEF ClaimRefund
  <2> QED
    BY <1>5, <2>1, <2>2, <2>3, <2>4, <2>5, <2>6, <2>7 DEF Progress
<1>6. ASSUME NEW w \in Workers, Arrive(w) PROVE Own(w)'
  <2>1. CASE BookWithCash(w) \/ BookDirectly(w)
    BY <2>1 DEF BookWithCash, BookDirectly, Take, Goto, Order, TypeOK
  <2>2. CASE EndBooking(w)
    <3>1. Over(found[w])'
      BY <2>2 DEF EndBooking, Over, TypeOK
    <3> QED
      BY <2>2, <3>1 DEF EndBooking, Take, Goto, TypeOK
  <2>3. ASSUME NEW o \in OnlineOrders, AskForOrder(w, o) PROVE Own(w)'
    BY <2>3 DEF AskForOrder, Take, Goto, TypeOK
  <2>4. ASSUME NEW o \in OnlineOrders, NEW l \in {"settle", "fail"}, NEW kind,
               Take(w, kind, o, l), Load(w, o)
        PROVE  Own(w)'
    BY <2>4 DEF Take, Load, Goto, Order, TypeOK
  <2> QED
    BY <1>6, <2>1, <2>2, <2>3, <2>4
       DEF Arrive, Verify, VerifyForged, HearCaptured, HearFailed
<1>7. ASSUME NEW w \in Workers, LinkThrows(w) \/ Die(w) PROVE Own(w)'
  BY <1>2, <1>7 DEF LinkThrows, Die, Answer
<1>8. ASSUME Environment \/ UNCHANGED vars, NEW w \in Workers PROVE Own(w)'
  BY <1>1, <1>8 DEF Environment, AttemptFails, Capture, RejectQuotation, vars, locals,
                    Order, Over
<1>9. \A w \in Workers : Own(w)'
  BY <1>5, <1>6, <1>7, <1>8 DEF Next, OneAtATime
<1> QED
  BY <1>9, MoneyBackStep DEF OwnOrder

-----------------------------------------------------------------------------
(* The invariants.                                                          *)

Inv == IInv /\ Refunds /\ Links

LEMMA InitInv == Init => Inv
<1> SUFFICES ASSUME Init PROVE Inv
  OBVIOUS
<1>1. TypeOK
  BY InitTyped
<1>2. CallsFit /\ PaidMeansCaptured /\ OnlineIsNotCash /\ GatePassed /\ NoBookingUnpaid
  BY OrderSets DEF Init, CallsFit, PaidMeansCaptured, OnlineIsNotCash, GatePassed,
        NoBookingUnpaid, Checked, SomeBooking, NoCall, Absent
<1>3. Refunds
  BY DEF Init, Refunds, OneOpens, OrderIsThere, OneRefunds, UnclaimedIsUnrefunded,
         RefundedOnce
<1>4. Links
  BY DEF Init, Links, Linked, CopyIsOlder, LinkerFound, AnsweredOnceBooked, Absent
<1> QED
  BY <1>1, <1>2, <1>3, <1>4 DEF Inv, IInv

LEMMA InvStep == Inv /\ [Next]_vars => Inv'
BY TypingStep, CallsFitStep, PaidStep, GateStep, RefundsStep, LinkedStep, CopiesStep,
   FoundStep, AnsweredStep DEF Inv, IInv, Paid, Links

LEMMA Invariance == Spec => []Inv
BY InitInv, InvStep, PTL DEF Spec

\* Every reachable state is well typed.
THEOREM TypeCorrect == Spec => []TypeOK
<1>1. Inv => TypeOK
  BY DEF Inv, IInv
<1> QED
  BY <1>1, Invariance, PTL

\* An order is PAID only when the gateway has its money.
THEOREM PaidIsCaptured == Spec => []PaidMeansCaptured
<1>1. Inv => PaidMeansCaptured
  BY DEF Inv, IInv
<1> QED
  BY <1>1, Invariance, PTL

\* No booking comes about without a captured payment or a cash order.
THEOREM NothingBookedUnpaid == Spec => []NoBookingUnpaid
<1>1. Inv => NoBookingUnpaid
  BY DEF Inv, IInv
<1> QED
  BY <1>1, Invariance, PTL

\* However many requests race, an order's advance goes back at most once.
THEOREM RefundedAtMostOnce == Spec => []RefundedOnce
<1>1. Inv => RefundedOnce
  BY DEF Inv, Refunds
<1> QED
  BY <1>1, Invariance, PTL

\* A webhook is answered only when its payment is booked.
THEOREM AnsweredWhenBooked == Spec => []AnsweredOnceBooked
<1>1. Inv => AnsweredOnceBooked
  BY DEF Inv, Links
<1> QED
  BY <1>1, Invariance, PTL

InvAlone == Inv /\ NothingMissed /\ OwnOrder

LEMMA InvarianceAlone == ASSUME OneAtATime PROVE Spec => []InvAlone
<1>1. ASSUME Init PROVE NothingMissed /\ OwnOrder
  <2>1. (\A w \in Workers : pc[w] = "idle") /\ Len(bookings) = 0
    BY <1>1 DEF Init
  <2>2. OneCash
    BY <1>1, OrderSets DEF Init, OneCash, Absent
  <2>3. MoneyBackOnlyForEnded
    BY <1>1 DEF Init, MoneyBackOnlyForEnded
  <2> QED
    BY <2>1, <2>2, <2>3 DEF NothingMissed, OwnOrder, OneBookingPerQuotation
<1>2. InvAlone /\ [Next]_vars => InvAlone'
  BY InvStep, NothingMissedStep, OwnOrderStep, OneAtATime DEF InvAlone, Inv, IInv, Paid
<1> QED
  BY <1>1, <1>2, InitInv, PTL DEF Spec, InvAlone

\* Requests that do not overlap, retried, redelivered or cut off as they may
\* be, make one booking of a quotation.
THEOREM OneBookingAlone == ASSUME OneAtATime PROVE Spec => []OneBookingPerQuotation
<1>1. InvAlone => OneBookingPerQuotation
  BY DEF InvAlone, NothingMissed
<1> QED
  BY <1>1, InvarianceAlone, PTL

\* ... and one cash order.
THEOREM OneCashOrderAlone == ASSUME OneAtATime PROVE Spec => []OneCashOrder
<1>1. ASSUME OneCash PROVE OneCashOrder
  <2> DEFINE Written == {k \in CashOrders : order[k].status # "none"}
  <2>1. CASE Written = {}
    BY <2>1, FS_EmptySet DEF OneCashOrder
  <2>2. ASSUME NEW k \in Written PROVE OneCashOrder
    <3>1. Written = {k}
      BY <1>1, <2>2 DEF OneCash
    <3> QED
      BY <3>1, FS_Singleton DEF OneCashOrder
  <2> QED
    BY <2>1, <2>2
<1>2. InvAlone => OneCashOrder
  BY <1>1 DEF InvAlone, NothingMissed
<1> QED
  BY <1>2, InvarianceAlone, PTL

\* ... and give back only the advance of a booking that is over.
THEOREM MoneyBackAlone == ASSUME OneAtATime PROVE Spec => []MoneyBackOnlyForEnded
<1>1. InvAlone => MoneyBackOnlyForEnded
  BY DEF InvAlone, OwnOrder
<1> QED
  BY <1>1, InvarianceAlone, PTL

=============================================================================
