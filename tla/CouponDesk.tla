------------------------------- MODULE CouponDesk -------------------------------
(***************************************************************************)
(* What coupons are worth: their terms and the edits of them, the list a    *)
(* customer picks from, the strip on Home, the price an order is opened     *)
(* with and the price the booking is written with.  Rupees are whole; a     *)
(* day is one instant of the clock.  Who wins a coupon's last slot is the   *)
(* matter of CouponLedger: here a redemption is one step.                   *)
(***************************************************************************)
EXTENDS Integers, Sequences, FiniteSets, Functions

CONSTANTS
    Coupons,    \* the codes
    Owner,      \* the organizer whose coupon it is, or the platform
    Platform,
    Offers,     \* the terms a coupon may be created with
    Edits,      \* what an edit may send: some of the fields, with their values
    Editors,    \* admins and organizers, each with at most one edit under way
    Admins,
    Quotations, \* accepted quotations, of one customer
    Organizer, Price, AdvancePercentage,   \* of each quotation
    LastDay,    \* bound on the clock
    CLAIMABLE_LIMIT, CLAIMABLE_CANDIDATES

VARIABLES
    coupon,   \* the terms of each coupon, as stored
    used,     \* usedCount of each coupon
    rows,     \* the redemption of each quotation's booking
    order,    \* the payment order of each quotation
    booking,  \* the booking of each quotation
    today,
    desk      \* per editor, an admin or an organizer: the coupon asked for, and the copy

couponVars == <<coupon, used, rows, order, booking, today, desk>>

None     == "none"
NoRow    == [code |-> None, discount |-> 0, final |-> 0, status |-> None]
NoOrder  == [code |-> None, discount |-> 0, total |-> 0, amount |-> 0, status |-> None, fresh |-> TRUE]
Unbooked == [code |-> None, discount |-> 0, amount |-> 0, advance |-> 0, paid |-> 0, status |-> None]
NoTerms  == [status |-> None, type |-> None, value |-> 0, cap |-> 0, min |-> 0, starts |-> 0, ends |-> 0,
             limit |-> 0, perCustomer |-> 0]
Terms    == [status : {"active", "disabled"}, type : {"percentage", "fixed"}, value : Nat \ {0}, cap : Nat,
             min : Nat, starts : Nat, ends : Nat, limit : Nat, perCustomer : Nat]
NoDesk   == [code |-> None, copy |-> NoTerms]

\* coupon-terms.dto.ts and update-coupon.dto.ts: a value is at least 1, what is not
\* given is 0; respond-quotation.dto.ts: an advance is a percentage.
CouponAssumption ==
    /\ None \notin Coupons /\ IsFiniteSet(Coupons) /\ IsFiniteSet(Quotations)
    /\ \A q \in Quotations : Price[q] \in Nat /\ AdvancePercentage[q] \in 0..100
    /\ \A k \in Coupons : Offers[k] \subseteq Terms
    /\ \A dto \in Edits : \A f \in DOMAIN dto : dto[f] \in
         CASE f = "status" -> {"active", "disabled"}
           [] f = "type"   -> {"percentage", "fixed"}
           [] f = "value"  -> Nat \ {0}
           [] OTHER        -> Nat
    /\ LastDay \in Nat /\ CLAIMABLE_LIMIT \in Nat

Engaged == {Organizer[q] : q \in Quotations}

Init ==
    /\ coupon = [k \in Coupons |-> NoTerms]
    /\ used = [k \in Coupons |-> 0]
    /\ rows = [q \in Quotations |-> NoRow]
    /\ order = [q \in Quotations |-> NoOrder]
    /\ booking = [q \in Quotations |-> Unbooked]
    /\ today = 1
    /\ desk = [e \in Editors |-> NoDesk]

-----------------------------------------------------------------------------
(* What a coupon takes off an amount.                                       *)

Smaller(a, b) == IF a < b THEN a ELSE b
Larger(a, b)  == IF a < b THEN b ELSE a

\* Faulty variant: the percentage is rounded up, and off the cap.
DiscountUp(t, amount) ==
    Smaller(IF t.type = "percentage" THEN (amount * t.value + 99) \div 100 ELSE t.value, amount)

\* discountFor: floored, the cap only on a percentage, never above the bill.
DiscountFor(t, amount) ==
    LET raw == IF t.type = "percentage" THEN (amount * t.value) \div 100 ELSE t.value
        capped == IF t.type = "percentage" /\ t.cap > 0 THEN Smaller(raw, t.cap) ELSE raw
    IN IF amount <= 0 THEN 0 ELSE Larger(0, Smaller(capped, amount))

\* Math.round of the advance.
Advance(q, total) == (total * AdvancePercentage[q] + 50) \div 100

-----------------------------------------------------------------------------
(* Who may use it.                                                          *)

\* usesByCoupon and evaluate's count: the customer's standing redemptions.
Uses(k) == Cardinality({q \in Quotations : rows[q].code = k /\ rows[q].status = "redeemed"})

InWindow(t)  == (t.starts = 0 \/ t.starts <= today) /\ (t.ends = 0 \/ t.ends >= today)
SlotLeft(k)  == coupon[k].limit = 0 \/ used[k] < coupon[k].limit
MayAgain(k)  == coupon[k].perCustomer = 0 \/ Uses(k) < coupon[k].perCustomer
Works(k, o)  == Owner[k] \in {Platform, o}

\* reasonAgainst is null, for a booking of this organizer at this price.
NoReasonAgainst(k, o, amount) ==
    /\ coupon[k].status = "active"
    /\ ~(coupon[k].starts # 0 /\ coupon[k].starts > today)
    /\ ~(coupon[k].ends # 0 /\ coupon[k].ends < today)
    /\ Works(k, o)
    /\ coupon[k].min > 0 => amount >= coupon[k].min
    /\ SlotLeft(k)
    /\ MayAgain(k)
    /\ DiscountFor(coupon[k], amount) > 0

Usable(k, q) == NoReasonAgainst(k, Organizer[q], Price[q])

\* Array.sort by a key: ties may come in any order the query found them in.
Sorted(S, key) ==
    CHOOSE s \in Bijection(1..Cardinality(S), S) :
        \A i, j \in DOMAIN s : i < j => key[s[i]] <= key[s[j]]

BestFirst(q) == [k \in Coupons |-> -DiscountFor(coupon[k], Price[q])]

\* Faulty variant: the query leaves out a coupon on its last day.
ListAvailableEarly(q) ==
    Sorted({k \in Coupons : Usable(k, q) /\ (coupon[k].ends = 0 \/ coupon[k].ends > today)}, BestFirst(q))

\* listAvailable: the query, the rules, and the best first.
ListAvailable(q) ==
    LET candidates == {k \in Coupons : coupon[k].status = "active" /\ InWindow(coupon[k])
                                         /\ Works(k, Organizer[q])}
    IN Sorted({k \in candidates : Usable(k, q)}, BestFirst(q))

\* listClaimable: what the query may find, in no order, cut to the candidates;
\* thinned by the customer's own uses, soonest to end first, cut to the strip.
\* Each organizer of a quotation is one the customer is engaged with.
Deadline(k) == IF coupon[k].ends = 0 THEN LastDay + 1 ELSE coupon[k].ends

Claimable ==
    {k \in Coupons : /\ coupon[k].status = "active" /\ InWindow(coupon[k]) /\ SlotLeft(k)
                     /\ Owner[k] = Platform \/ Owner[k] \in Engaged}

Found ==
    {S \in SUBSET Claimable : Cardinality(S) = Smaller(Cardinality(Claimable), CLAIMABLE_CANDIDATES)}

Strip(S) ==
    LET sorted == Sorted({k \in S : MayAgain(k)}, [k \in Coupons |-> Deadline(k)])
    IN SubSeq(sorted, 1, Smaller(Len(sorted), CLAIMABLE_LIMIT))

-----------------------------------------------------------------------------
(* The coupon's owner.                                                      *)

\* assertCoherent.
Coherent(t) ==
    /\ t.type = "percentage" => t.value <= 100
    /\ t.starts # 0 /\ t.ends # 0 => t.starts < t.ends

\* create: a code is there once, whoever else types it.
Create(k) ==
    /\ coupon[k] = NoTerms
    /\ \E t \in Offers[k] : Coherent(t) /\ coupon' = [coupon EXCEPT ![k] = t]
    /\ UNCHANGED <<used, rows, order, booking, today, desk>>

\* How a populated reference reads as text: the document, not its id.
PopulatedText(o) == "{ _id, name }"

\* requireOwnCoupon: the coupon is loaded with its organizer populated.
IsOwn(o, k) == Owner[k] # Platform /\ PopulatedText(Owner[k]) = o

\* load, for an edit of the terms or of the status: an admin edits any coupon,
\* an organizer is answered 404 for one that is not its own.
Load(e, k) ==
    /\ desk[e] = NoDesk /\ coupon[k] # NoTerms
    /\ desk' = [desk EXCEPT ![e] =
         [code |-> k, copy |-> IF e \in Admins \/ IsOwn(e, k) THEN coupon[k] ELSE NoTerms]]
    /\ UNCHANGED <<coupon, used, rows, order, booking, today>>

\* applyTerms on the copy.
Apply(t, dto) == [f \in DOMAIN t |-> IF f \in DOMAIN dto THEN dto[f] ELSE t[f]]

\* save writes the fields that differ from what was loaded.
Save(e, dto) ==
    LET k == desk[e].code
        copy == desk[e].copy
        edited == Apply(copy, dto)
    IN /\ copy # NoTerms /\ edited # copy
       /\ DOMAIN dto # {"status"} => Coherent(edited)
       /\ coupon' = [coupon EXCEPT ![k] =
            [f \in DOMAIN @ |-> IF edited[f] # copy[f] THEN edited[f] ELSE @[f]]]
       /\ order' = [q \in Quotations |->
            IF order[q].code = k THEN [order[q] EXCEPT !.fresh = FALSE] ELSE order[q]]
       /\ desk' = [desk EXCEPT ![e] = NoDesk]
       /\ UNCHANGED <<used, rows, booking, today>>

-----------------------------------------------------------------------------
(* The checkout.                                                            *)

\* quoteFor, on the code the customer sent or none.
Quote(q, k) ==
    LET off == IF k = None THEN 0 ELSE DiscountFor(coupon[k], Price[q])
    IN [code |-> k, discount |-> off, final |-> Larger(0, Price[q] - off)]

Accepted(q, k) == k = None \/ (k \in Coupons /\ Usable(k, q))

NewOrder(q, k, status) ==
    LET quote == Quote(q, k)
    IN [code |-> k, discount |-> quote.discount, total |-> quote.final,
        amount |-> Advance(q, quote.final), status |-> status, fresh |-> TRUE]

\* createOrder.
CreateOrder(q, k) ==
    /\ order[q] = NoOrder /\ Accepted(q, k)
    /\ Advance(q, Quote(q, k).final) >= 1
    /\ order' = [order EXCEPT ![q] = NewOrder(q, k, "created")]
    /\ UNCHANGED <<coupon, used, rows, booking, today, desk>>

Capture(q) ==
    /\ order[q].status = "created"
    /\ order' = [order EXCEPT ![q].status = "paid"]
    /\ UNCHANGED <<coupon, used, rows, booking, today, desk>>

\* Faulty variant: the price the order was opened with is booked.
BookAsOrdered(q, o) ==
    /\ booking[q] = Unbooked /\ Accepted(q, o.code)
    /\ rows' = IF o.code = None THEN rows
               ELSE [rows EXCEPT ![q] = [code |-> o.code, discount |-> o.discount,
                                         final |-> Price[q], status |-> "redeemed"]]
    /\ used' = IF o.code = None THEN used ELSE [used EXCEPT ![o.code] = @ + 1]
    /\ booking' = [booking EXCEPT ![q] =
         [code |-> o.code, discount |-> o.discount, amount |-> o.total, advance |-> o.amount,
          paid |-> IF o.status = "cash_due" THEN 0 ELSE o.amount, status |-> "placed"]]

\* createFromQuotation: the code is judged again, redeemed and booked.
Book(q, o) ==
    LET quote == Quote(q, o.code)
        advance == Advance(q, quote.final)
    IN /\ booking[q] = Unbooked /\ Accepted(q, o.code)
       /\ rows' = IF o.code = None THEN rows
                  ELSE [rows EXCEPT ![q] = [code |-> o.code, discount |-> quote.discount,
                                            final |-> quote.final, status |-> "redeemed"]]
       /\ used' = IF o.code = None THEN used ELSE [used EXCEPT ![o.code] = @ + 1]
       /\ booking' = [booking EXCEPT ![q] =
            [code |-> o.code, discount |-> quote.discount, amount |-> quote.final, advance |-> advance,
             paid |-> IF o.status = "cash_due" THEN 0 ELSE advance, status |-> "placed"]]

\* settle, once the payment was captured.
Settle(q) ==
    /\ order[q].status = "paid"
    /\ Book(q, order[q])
    /\ UNCHANGED <<coupon, order, today, desk>>

\* bookWithCash: an order already there is used again, with its own code.
BookWithCash(q, k) ==
    /\ order[q].status \in {None, "cash_due"} /\ Accepted(q, k)
    /\ Advance(q, Quote(q, k).final) >= 1
    /\ LET o == IF order[q] = NoOrder THEN NewOrder(q, k, "cash_due") ELSE order[q]
       IN /\ order' = [order EXCEPT ![q] = o]
          /\ Book(q, o) \/ (~Accepted(q, o.code) /\ UNCHANGED <<used, rows, booking>>)
    /\ UNCHANGED <<coupon, today, desk>>

\* releaseForBooking, behind a booking that ended.
Release(q) ==
    /\ booking[q].status = "placed"
    /\ booking' = [booking EXCEPT ![q].status = "over"]
    /\ IF rows[q].status = "redeemed"
       THEN /\ rows' = [rows EXCEPT ![q].status = "reversed"]
            /\ used' = [used EXCEPT ![rows[q].code] = Larger(0, @ - 1)]
       ELSE UNCHANGED <<rows, used>>
    /\ UNCHANGED <<coupon, order, today, desk>>

NextDay ==
    /\ today < LastDay
    /\ today' = today + 1
    /\ UNCHANGED <<coupon, used, rows, order, booking, desk>>

Next ==
    \/ \E k \in Coupons : Create(k) \/ \E e \in Editors : Load(e, k)
    \/ \E e \in Editors, dto \in Edits : Save(e, dto)
    \/ \E q \in Quotations, k \in Coupons \cup {None} : CreateOrder(q, k) \/ BookWithCash(q, k)
    \/ \E q \in Quotations : Capture(q) \/ Settle(q) \/ Release(q)
    \/ NextDay

Spec == Init /\ [][Next]_couponVars

-----------------------------------------------------------------------------
(* What the management screens read.                                        *)

\* usageForOrganizer: the redemptions of bookings with this organizer.
UsageFor(o) == {q \in Quotations : rows[q] # NoRow /\ Organizer[q] = o}

-----------------------------------------------------------------------------
(* Properties.                                                             *)

\* The picker, the strip and the checkout judge alike: what the picker lists
\* is exactly what a typed code would be accepted for, the best first; and a
\* card on the strip works today on a large enough booking with its issuer,
\* the one that ends soonest leading.
PickerKeepsItsWord ==
    /\ \A q \in Quotations :
         /\ Range(ListAvailable(q)) = {k \in Coupons : Usable(k, q)}
         /\ \A i, j \in DOMAIN ListAvailable(q) : i < j =>
              Quote(q, ListAvailable(q)[j]).final >= Quote(q, ListAvailable(q)[i]).final
    /\ \A S \in Found : \A i \in DOMAIN Strip(S) :
         LET k == Strip(S)[i] IN
         /\ Owner[k] \in Engaged \cup {Platform}
         /\ \A o \in Engaged : Works(k, o) => NoReasonAgainst(k, o, Larger(coupon[k].min, 100))
         /\ \A l \in S : MayAgain(l) /\ Deadline(l) < Deadline(k) => \E j \in 1..i : Strip(S)[j] = l

\* A booking's numbers add up and agree with the ledger, whatever is edited
\* while it is under way: the discount is no more than the bill, the slot
\* counter counts the standing rows, and the advance is part of the amount.
LedgerTellsTheCharge ==
    /\ \A k \in Coupons : used[k] = Uses(k)
    /\ \A q \in Quotations : booking[q] # Unbooked =>
         LET b == booking[q] IN
         /\ b.discount + b.amount = Price[q] /\ b.discount \in 0..Price[q]
         /\ b.advance \in 0..b.amount /\ b.paid \in {0, b.advance}
         /\ b.code # None =>
              /\ rows[q].code = b.code /\ rows[q].discount = b.discount /\ rows[q].final = b.amount
              /\ rows[q].status = IF b.status = "placed" THEN "redeemed" ELSE "reversed"

\* As long as nobody edits the coupon in between, the advance is rounded to
\* the same rupee twice: the booking is for what the order asked.
BookedAsAsked ==
    \A q \in Quotations : booking[q] # Unbooked /\ order[q].fresh =>
      /\ booking[q].advance = order[q].amount
      /\ booking[q].amount = order[q].total /\ booking[q].discount = order[q].discount

\* booking.service.ts: a refusal "fails the booking rather than quietly
\* charging full price, because the customer pressed a button that said a
\* discounted total on it".
ChargedAsShown ==
    \A q \in Quotations : booking[q] # Unbooked => booking[q].amount = order[q].total

\* coupon.service.ts, of requireOwnCoupon: "A coupon belonging to somebody else
\* is a 404" - and one's own is not.
OnlyOthersAreMissing ==
    \A e \in Editors : desk[e].code # None /\ desk[e].copy = NoTerms => Owner[desk[e].code] # e

\* coupon.service.ts lists "every redemption of this organizer's own coupons".
UsageIsOwn == \A o \in Engaged : \A q \in UsageFor(o) : Owner[rows[q].code] = o

=============================================================================
