----------------------------- MODULE CouponSlots -----------------------------
(***************************************************************************)
(* What CouponService promises of a coupon's usage limit, seen from        *)
(* outside: bookings hold slots, a slot is taken only while the limit      *)
(* leaves one, it may be given back once, and the limit is the             *)
(* administrator's to change at any time, even below what is taken.        *)
(***************************************************************************)
EXTENDS Naturals, FiniteSets

CONSTANT Bookings

VARIABLES slots,   \* the bookings that hold a slot of the coupon
          spent,   \* those that held one and gave it back
          limit    \* 0 means unlimited

LeavesOne == limit = 0 \/ Cardinality(slots) < limit

Init ==
    /\ slots = {}
    /\ spent = {}
    /\ limit \in Nat

Take(b) ==
    /\ b \notin slots \cup spent
    /\ LeavesOne
    /\ slots' = slots \cup {b}
    /\ UNCHANGED <<spent, limit>>

GiveBack(b) ==
    /\ b \in slots
    /\ slots' = slots \ {b}
    /\ spent' = spent \cup {b}
    /\ UNCHANGED limit

SetLimit ==
    /\ limit' \in Nat
    /\ UNCHANGED <<slots, spent>>

Next ==
    \/ \E b \in Bookings : Take(b) \/ GiveBack(b)
    \/ SetLimit

Spec == Init /\ [][Next]_<<slots, spent, limit>>

=============================================================================
