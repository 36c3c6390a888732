---------------------------- MODULE CouponLedger ----------------------------
(***************************************************************************)
(* One coupon of CouponService: its usage counter, the redemption ledger   *)
(* and the calls that race on the two.                                     *)
(*                                                                         *)
(* A checkout is createFromQuotation with a coupon code.  It mints a new   *)
(* booking id, so the checkout IS the booking here.  It judges the coupon  *)
(* (evaluate: two reads), claims a slot (one conditional update), writes   *)
(* the ledger row, writes the booking, and takes the redemption back when  *)
(* that last write fails.  A cancel is releaseForBooking, called for a     *)
(* booking that exists; the same booking may be released by several calls. *)
(* An edit is the organizer's or the administrator's load-change-save.     *)
(*                                                                         *)
(* Every database call is an action, because any other call may run while  *)
(* it is awaited.  `slots', `spent' and `peak' are history: no code reads  *)
(* them.                                                                   *)
(***************************************************************************)
EXTENDS Naturals, FiniteSets

CONSTANTS
    Checkouts,         \* bookings attempted with the coupon's code
    Cancels,           \* calls of releaseForBooking
    Editors,           \* calls that change the coupon
    CustomerOf,        \* the customer behind each checkout
    PerCustomerLimit,  \* coupon.perCustomerLimit, 0 for none
    Edits,             \* what an edit may send: some fields, their new terms
    InitialLimit,      \* coupon.usageLimit when the coupon is created
    MaxCrashes         \* bound on calls that die between two awaits

Procs == Checkouts \cup Cancels

\* The terms a coupon's owner may edit, as far as they can interact: the
\* others only change what one booking costs.
Fields == {"status", "usageLimit", "discountType", "discountValue"}

Terms == [status : {"active", "disabled"}, usageLimit : Nat,
          discountType : {"fixed", "percentage"}, discountValue : Nat]

ASSUME CouponAssumption ==
    /\ IsFiniteSet(Checkouts)
    /\ Checkouts \cap Cancels = {}
    /\ (Checkouts \cup Cancels) \cap Editors = {}
    /\ PerCustomerLimit \in Nat
    /\ InitialLimit \in Nat
    /\ Edits \subseteq [fields : SUBSET Fields, terms : Terms]
    /\ MaxCrashes \in Nat

VARIABLES
    coupon,     \* the editable terms of the coupon document
    usedCount,  \* coupon.usedCount
    rows,       \* status of the redemption of each booking, if there is one
    booked,     \* the bookings that were written
    inWindow,   \* startsAt <= now <= endsAt
    pc, target, \* per call: where it stands, the booking it releases
    copy,       \* per checkout and edit: the terms and counter it read
    crashes,
    slots, spent, peak

document == <<coupon, usedCount>>
calls    == <<pc, target, copy>>
history  == <<slots, spent, peak>>
vars     == <<document, rows, booked, inWindow, calls, crashes, history>>

Goto(p, l)  == pc' = [pc EXCEPT ![p] = l]
Redeemed    == {b \in Checkouts : rows[b] = "redeemed"}
Published   == [status |-> "active", usageLimit |-> InitialLimit,
                discountType |-> "fixed", discountValue |-> 50]
NoCopy      == [terms |-> Published, used |-> 0]
CanClaim(limit, used) == limit = 0 \/ used < limit
Larger(l, m) == IF l = 0 \/ m = 0 THEN 0 ELSE IF l < m THEN m ELSE l

\* create: the coupon as its owner publishes it, coherent and unused.
Init ==
    /\ coupon = Published
    /\ usedCount = 0
    /\ rows = [b \in Checkouts |-> "none"]
    /\ booked = {}
    /\ inWindow = TRUE
    /\ pc = [p \in Procs \cup Editors |-> "idle"]
    /\ target = [p \in Procs |-> p]
    /\ copy = [p \in Checkouts \cup Editors |-> NoCopy]
    /\ crashes = 0
    /\ slots = {}
    /\ spent = {}
    /\ peak = InitialLimit

-----------------------------------------------------------------------------
(* evaluate, and the edits: the coupon is read first.                      *)

ReadCoupon(p) ==
    /\ pc[p] = "idle"
    /\ copy' = [copy EXCEPT ![p] = [terms |-> coupon, used |-> usedCount]]
    /\ Goto(p, "read")
    /\ UNCHANGED <<document, rows, booked, inWindow, target, crashes, history>>

UsesBy(customer) ==
    Cardinality({b \in Redeemed : CustomerOf[b] = customer})

\* reasonAgainst, on the coupon read and the redemptions counted just now.
NoReasonAgainst(c) ==
    /\ copy[c].terms.status = "active"
    /\ inWindow
    /\ CanClaim(copy[c].terms.usageLimit, copy[c].used)
    /\ PerCustomerLimit = 0 \/ UsesBy(CustomerOf[c]) < PerCustomerLimit

Judge(c) ==
    /\ pc[c] = "read"
    /\ Goto(c, IF NoReasonAgainst(c) THEN "judged" ELSE "done")
    /\ UNCHANGED <<document, rows, booked, inWindow, target, copy, crashes,
                   history>>

-----------------------------------------------------------------------------
(* redeem.                                                                 *)

\* Faulty variant: the claim trusts the limit the judge saw: read, then increment.
ClaimableWhenRead == coupon.status = "active" /\ inWindow

\* The filter of the claim: what it asserts again, in one update.
Claimable ==
    /\ coupon.status = "active"
    /\ inWindow
    /\ CanClaim(coupon.usageLimit, usedCount)

Claim(c) ==
    /\ pc[c] = "judged"
    /\ Claimable
    /\ usedCount' = usedCount + 1
    /\ slots' = slots \cup {c}
    /\ Goto(c, "claimed")
    /\ UNCHANGED <<coupon, rows, booked, inWindow, target, copy, crashes,
                   spent, peak>>

ClaimRefused(c) ==
    /\ pc[c] = "judged"
    /\ ~Claimable
    /\ Goto(c, "done")
    /\ UNCHANGED <<document, rows, booked, inWindow, target, copy, crashes,
                   history>>

\* Faulty variant: the booking is written as soon as the slot is claimed.
InsertRowLater(c) ==
    /\ pc[c] = "claimed"
    /\ rows[c] = "none"
    /\ Goto(c, "redeemed")
    /\ UNCHANGED <<document, rows, booked, inWindow, target, copy, crashes,
                   history>>

InsertRow(c) ==
    /\ pc[c] = "claimed"
    /\ rows[c] = "none"
    /\ rows' = [rows EXCEPT ![c] = "redeemed"]
    /\ Goto(c, "redeemed")
    /\ UNCHANGED <<document, booked, inWindow, target, copy, crashes, history>>

\* Faulty variant: a failed insert tries the redemption again without handing the claim back.
InsertRetries(c) ==
    /\ pc[c] = "claimed"
    /\ Goto(c, "judged")
    /\ UNCHANGED <<document, rows, booked, inWindow, target, copy, crashes,
                   history>>

\* Faulty variant: a failed insert is reported without handing the claim back.
InsertFailsAndKeeps(c) ==
    /\ pc[c] = "claimed"
    /\ Goto(c, "done")
    /\ UNCHANGED <<document, rows, booked, inWindow, target, copy, crashes,
                   history>>

\* The catch block: a refused insert hands the claim back and fails the call.
InsertFails(c) ==
    /\ pc[c] = "claimed"
    /\ Goto(c, "giveback")
    /\ UNCHANGED <<document, rows, booked, inWindow, target, copy, crashes,
                   history>>

WriteBooking(c) ==
    /\ pc[c] = "redeemed"
    /\ booked' = booked \cup {c}
    /\ Goto(c, "done")
    /\ UNCHANGED <<document, rows, inWindow, target, copy, crashes, history>>

\* Faulty variant: a booking that could not be written keeps its redemption.
BookingFailsAlone(c) ==
    /\ pc[c] = "redeemed"
    /\ Goto(c, "done")
    /\ UNCHANGED <<document, rows, booked, inWindow, target, copy, crashes,
                   history>>

BookingFails(c) ==
    /\ pc[c] = "redeemed"
    /\ Goto(c, "find")
    /\ UNCHANGED <<document, rows, booked, inWindow, target, copy, crashes,
                   history>>

-----------------------------------------------------------------------------
(* releaseForBooking.                                                      *)

StartRelease(p) ==
    /\ pc[p] = "idle"
    /\ \E b \in booked : target' = [target EXCEPT ![p] = b]
    /\ Goto(p, "find")
    /\ UNCHANGED <<document, rows, booked, inWindow, copy, crashes, history>>

FindRows(p) ==
    /\ pc[p] = "find"
    /\ Goto(p, IF rows[target[p]] = "redeemed" THEN "reverse" ELSE "done")
    /\ UNCHANGED <<document, rows, booked, inWindow, target, copy, crashes,
                   history>>

\* Faulty variant: the reversal forgets to ask for a row that is still redeemed.
ReverseBlindly(p) ==
    /\ pc[p] = "reverse"
    /\ rows' = [rows EXCEPT ![target[p]] = "reversed"]
    /\ Goto(p, "giveback")
    /\ UNCHANGED <<document, booked, inWindow, target, copy, crashes, history>>

\* Only the call that flips the row goes on to give the slot back.
Reverse(p) ==
    /\ pc[p] = "reverse"
    /\ IF rows[target[p]] = "redeemed"
         THEN /\ rows' = [rows EXCEPT ![target[p]] = "reversed"]
              /\ Goto(p, "giveback")
         ELSE /\ Goto(p, "done")
              /\ UNCHANGED rows
    /\ UNCHANGED <<document, booked, inWindow, target, copy, crashes, history>>

\* releaseClaim.
GiveBack(p) ==
    /\ pc[p] = "giveback"
    /\ usedCount' = IF usedCount > 0 THEN usedCount - 1 ELSE usedCount
    /\ slots' = slots \ {target[p]}
    /\ spent' = spent \cup (slots \cap {target[p]})
    /\ Goto(p, "done")
    /\ UNCHANGED <<coupon, rows, booked, inWindow, target, copy, crashes, peak>>

-----------------------------------------------------------------------------
(* Edits, the clock, and calls that die.                                   *)

\* assertCoherent, on the copy as the edit leaves it.
Coherent(t) == t.discountType = "percentage" => t.discountValue <= 100

\* applyTerms: the fields that were sent replace those of the document.
Merge(t, fields, new) ==
    [status        |-> IF "status" \in fields THEN new.status ELSE t.status,
     usageLimit    |-> IF "usageLimit" \in fields THEN new.usageLimit
                                                  ELSE t.usageLimit,
     discountType  |-> IF "discountType" \in fields THEN new.discountType
                                                    ELSE t.discountType,
     discountValue |-> IF "discountValue" \in fields THEN new.discountValue
                                                     ELSE t.discountValue]

\* What save() writes: the paths the edit really changed on its copy.
Dirty(t, e) == {f \in e.fields : e.terms[f] # t[f]}

SaveTerms(p) ==
    /\ pc[p] = "read"
    /\ \E e \in Edits :
         LET t == copy[p].terms IN
         /\ coupon' = IF Coherent(Merge(t, e.fields, e.terms))
                        THEN Merge(coupon, Dirty(t, e), e.terms) ELSE coupon
         /\ peak' = Larger(peak, coupon'.usageLimit)
    /\ Goto(p, "done")
    /\ UNCHANGED <<usedCount, rows, booked, inWindow, target, copy, crashes,
                   slots, spent>>

WindowCloses ==
    /\ inWindow
    /\ inWindow' = FALSE
    /\ UNCHANGED <<document, rows, booked, calls, crashes, history>>

Die(p) ==
    /\ crashes < MaxCrashes
    /\ pc[p] \notin {"idle", "done", "dead"}
    /\ Goto(p, "dead")
    /\ crashes' = crashes + 1
    /\ UNCHANGED <<document, rows, booked, inWindow, target, copy, history>>

Redeeming(c) ==
    \/ ReadCoupon(c) \/ Judge(c) \/ Claim(c) \/ ClaimRefused(c)
    \/ InsertRow(c) \/ InsertFails(c) \/ WriteBooking(c) \/ BookingFails(c)

Releasing(p) == FindRows(p) \/ Reverse(p) \/ GiveBack(p)

Editing(p) == ReadCoupon(p) \/ SaveTerms(p)

Next ==
    \/ \E c \in Checkouts : Redeeming(c)
    \/ \E p \in Procs : Releasing(p) \/ Die(p)
    \/ \E p \in Cancels : StartRelease(p)
    \/ \E p \in Editors : Editing(p)
    \/ WindowCloses

Spec == Init /\ [][Next]_vars

\* A call that has begun runs to its end; nobody has to check out or edit.
FairSpec ==
    /\ Spec
    /\ \A c \in Checkouts : WF_vars(pc[c] # "idle" /\ Redeeming(c))
    /\ \A p \in Procs : WF_vars(Releasing(p))

-----------------------------------------------------------------------------
(* Properties.                                                             *)

TypeOK ==
    /\ coupon \in Terms
    /\ usedCount \in 0 .. Cardinality(Checkouts)
    /\ rows \in [Checkouts -> {"none", "redeemed", "reversed"}]
    /\ booked \subseteq Checkouts
    /\ inWindow \in BOOLEAN
    /\ pc \in [Procs \cup Editors ->
                {"idle", "read", "judged", "claimed", "redeemed", "find",
                 "reverse", "giveback", "done", "dead"}]
    /\ target \in [Procs -> Procs]
    /\ copy \in [Checkouts \cup Editors -> [terms : Terms, used : Nat]]
    /\ crashes \in 0 .. MaxCrashes
    /\ slots \subseteq Checkouts
    /\ spent \subseteq Checkouts
    /\ peak \in Nat

\* The counter counts exactly the slots taken and not yet given back, and no
\* redemption stands without one: whatever interleaves or dies, a coupon is
\* never handed out beyond what its counter says (redeem, releaseForBooking).
CounterCoversLedger ==
    /\ usedCount = Cardinality(slots)
    /\ Redeemed \subseteq slots

\* However checkouts race and whatever the limit is lowered to meanwhile,
\* no more slots are out than the largest limit the coupon ever had.
LimitHolds == peak # 0 => usedCount <= peak

\* A booking written with the coupon's discount has its row in the ledger,
\* and loses it only to a release (createFromQuotation redeems first).
DiscountIsLedgered == \A b \in booked : rows[b] # "none" /\ b \in slots \cup spent

Settled == usedCount = Cardinality(Redeemed) /\ Redeemed \subseteq booked

Resting == \A p \in Procs : pc[p] \in {"idle", "done", "dead"}

\* As long as no call died, the counter, the ledger and the bookings agree
\* whenever no call is under way: failed inserts, failed bookings and double
\* releases leave nothing behind (the catch blocks of redeem and its caller).
AgreeAtRest == (Resting /\ crashes = 0) => Settled

Slots == INSTANCE CouponSlots WITH
             Bookings <- Checkouts, limit <- coupon.usageLimit

\* redeem, releaseForBooking and the edits implement the slot counter:
\* in particular a slot is given back once per booking, never twice.
KeepsPromise == Slots!Spec

\* Every call that has begun ends with its slot accounted for: in the end the
\* counter, the ledger and the bookings agree for good, when no call dies.
SettlesInTheEnd == <>[](crashes = 0 => Settled)

\* perCustomerLimit: "Redemptions allowed per customer."  The claim does not
\* assert it again, so two checkouts of one customer may both pass Judge.
PerCustomerHolds ==
    PerCustomerLimit # 0 =>
        \A c \in Checkouts : UsesBy(CustomerOf[c]) <= PerCustomerLimit

\* redeem: "a counter can never drift upwards past the ledger".
NeverDrifts == Resting => usedCount <= Cardinality(Redeemed)

\* assertCoherent: "A percentage discount cannot be more than 100."  Each
\* edit is judged on its own copy, and save() merges the changed paths.
TermsStayCoherent == Coherent(coupon)

=============================================================================
