--------------------------- MODULE MCCouponLedger ---------------------------
(* Small instances of CouponLedger for TLC. *)
EXTENDS CouponLedger, TLC

CONSTANTS c1, c2, c3, x1, x2, e1, e2

\* Two customers, the first of whom checks out twice.
TwoCustomers == (c1 :> "ann") @@ (c2 :> "ann") @@ (c3 :> "ben")

One(field, new) == [fields |-> {field}, terms |-> new]
Limit(n)        == One("usageLimit", [Published EXCEPT !.usageLimit = n])

\* The limit is raised, lowered and lifted, and the coupon is switched off.
LimitEdits ==
    {Limit(0), Limit(1), Limit(2),
     One("status", [Published EXCEPT !.status = "disabled"])}

\* Each coherent on the coupon as published, together not.
TermEdits ==
    {Limit(0),
     One("discountType", [Published EXCEPT !.discountType = "percentage"]),
     One("discountValue", [Published EXCEPT !.discountValue = 500])}

SwapCancels == Permutations({x1, x2})

=============================================================================
